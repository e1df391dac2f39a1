SPECIFICATION FairSpec
CONSTANTS
  Thread = {t1}
  None = None
  Policies <- NoPolicies
  DefaultPolicy <- DefaultScaled
  Capacities <- NoCapacities
  LineLens = {1}
  BufCap = 4
  MaxLines = 2
  MaxJobs = 1
  MaxFaults = 1
PROPERTIES
  IdleBytesFlushed
