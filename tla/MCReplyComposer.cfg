\* A reply whose answer was lost is sent again from its restored draft.
SPECIFICATION ComposerSpec
CONSTANTS
  Threads = {k1, k2, k3}
  Keyless = {}
  Drafts = {}
  Callers = {w1, w2}
  Replies = {r1}
  NoThread = NoThread
  NoReply = NoReply
  FaultBound = 0
  LossBound = 1
INVARIANT RetryKeepsKey
CHECK_DEADLOCK FALSE
