\* One event is fanned out to two endpoints by overlapping, dying drains.
SPECIFICATION FairWebhooksSpec
CONSTANTS
  e1 = e1  p1 = p1  p2 = p2  w1 = w1  w2 = w2
  Events = {e1}
  Endpoints = {p1, p2}
  Wants <- OneToTwo
  Existing = {p1}
  Drains = {w1, w2}
  MaxAttempts = 2
  Threshold = 2
  FaultBound = 2
  AdminBound = 1
INVARIANTS NoEventDropped BrakeHolds
PROPERTY EventReaches
CHECK_DEADLOCK FALSE
