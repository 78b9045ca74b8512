\* Invocations die or outlive their leases; the cron keeps draining.
SPECIFICATION FairSpec
CONSTANTS
  j1 = j1  j2 = j2  d1 = d1  d2 = d2  k1 = k1
  Jobs <- MCJobs
  Drainers <- MCDrainers
  Slots <- MCSlots
  NoSlot = NoSlot
  NoJob = NoJob
  BatchSize = 2
  MaxAttempts = 2
  FaultBound = 2
INVARIANTS CurrentClaimIntact ExclusiveHandling
PROPERTIES ImplementsWorkQueue EveryJobResolved
CHECK_DEADLOCK FALSE
