\* Draft requests race each other, customers, agents and the wake pass.
SPECIFICATION FairSpec
CONSTANTS
  a1 = a1  a2 = a2
  Agents <- TwoAgents
  Drafts = {d1, d2}
  Replies = {r1}
  NoDraft = NoDraft
  MessageBound = 3
INVARIANT ResolvedOnce
PROPERTIES MessagesSurface ApprovalRespectsStatus SpamUndisclosed SnoozeEnds
CHECK_DEADLOCK FALSE
