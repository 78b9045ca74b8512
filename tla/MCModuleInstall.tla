--------------------------- MODULE MCModuleInstall ---------------------------
(* Bounds for TLC: interchangeable queue rows and calls.                    *)
EXTENDS ModuleInstall, TLC

CONSTANTS r1, r2, q1, q2

Symmetry == Permutations(Runs) \cup Permutations(Jobs)
=============================================================================
