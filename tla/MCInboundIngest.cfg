\* Storage faults, dead calls and calls that outlive their lease; redelivery goes on.
SPECIFICATION FairSpec
CONSTANTS
  mReply = mReply  mOwn = mOwn  mPoison = mPoison
  c1 = c1  w1 = w1  w2 = w2  p1 = p1  p2 = p2
  Messages <- AllMessages
  OwnMessages = {mOwn}
  Echoes = {mReply}
  Poison = {mPoison}
  Conversations <- OneConversation
  NoConversation = NoConversation
  Ids = {forged, token}  forged = forged  token = token
  InReplyTo <- MCInReplyTo
  References <- MCReferences
  SignedFor <- MCSignedFor
  Parts <- MCParts
  Workers <- TwoWorkers
  NoMessage = NoMessage
  MaxAttempts = 2
  FaultBound = 2
INVARIANTS OneThreadPerMessage BudgetExact
PROPERTIES OwnerUndisturbed FiledInOpenConversation ImplementsLedger EveryMessageSettled
CHECK_DEADLOCK FALSE
