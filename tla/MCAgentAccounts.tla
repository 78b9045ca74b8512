--------------------------- MODULE MCAgentAccounts ---------------------------
(* Bounds for TLC: interchangeable agents, requests and PUTs.               *)
EXTENDS MailboxGrants, TLC

CONSTANTS a1, a2, r1, r2

Symmetry == Permutations(Agents) \cup Permutations(Requests) \cup Permutations(Puts)
=============================================================================
