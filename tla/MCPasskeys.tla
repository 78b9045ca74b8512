----------------------------- MODULE MCPasskeys -----------------------------
(* Bounds for TLC: one passkey, Ann's at first.  When it is deleted,        *)
(* either may add it.                                                       *)
EXTENDS Passkeys, TLC

CONSTANTS ann, bob, key, c1, c2

MCHeld == key :> ann

Symmetry == Permutations(Calls)
=============================================================================
