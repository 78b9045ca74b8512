\* Two fetches, a reconnect and a renumbering, with an overrun, a kill or a failure.
SPECIFICATION FairSpec
CONSTANTS
  Runs = {r1, r2}
  Connects = {c1, c2}
  Free = Free
  MaxPerInvocation = 1
  MailBound = 2
  EpochBound = 2
  FaultBound = 1
INVARIANT EachMailOnce
PROPERTIES CursorNeverBack MailFetched
CHECK_DEADLOCK FALSE
