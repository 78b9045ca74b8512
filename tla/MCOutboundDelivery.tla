------------------------- MODULE MCOutboundDelivery --------------------------
(* Bounds for TLC: a keyed and a keyless thread and an approved draft, two   *)
(* concurrent callers.                                                       *)
EXTENDS OutboundDelivery, TLC

CONSTANTS keyed, keyless, draft, w1, w2

TwoCallers == {w1, w2}

Symmetry == Permutations(TwoCallers)
=============================================================================
