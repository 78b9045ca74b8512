\* Two overlapping runs with failures and overruns, and two of the operations:
\* overlapping connects, a disconnect and a reconnect.
SPECIFICATION FairSpec
CONSTANTS
  Jobs <- SweepAndPush
  HistoryBound = 2
  ForgetBound = 1
  OperatorBound = 2
  FaultBound = 1
INVARIANT NeverDrop
PROPERTIES LeaseKept MailSettles
CHECK_DEADLOCK FALSE
