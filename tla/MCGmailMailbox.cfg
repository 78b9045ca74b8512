\* Two refreshes, two reconnects, which may overlap, and two disconnects interleave.
SPECIFICATION FairMailboxSpec
CONSTANTS
  c1 = c1  c2 = c2  d1 = d1  d2 = d2
  Callers <- TwoCallers
  Closers = {d1, d2}
  GrantBound = 3
  FaultBound = 1
INVARIANT TokensMatchStatus
PROPERTY DeadGrantNoticed
CHECK_DEADLOCK FALSE
