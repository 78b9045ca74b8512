\* Calls fail, die, and outlive the minute and their leases.
SPECIFICATION InstallSpec
CONSTANTS
  r1 = r1  r2 = r2  q1 = q1  q2 = q2
  MaxAttempts = 5
  MaxPolls = 2
  LeaseMinutes = 2
  Runs = {r1, r2}
  Jobs = {q1, q2}
  FaultBound = 4
SYMMETRY Symmetry
INVARIANTS GreenMeansLive CredentialsWhileNeeded NeverStranded
CHECK_DEADLOCK FALSE
