SPECIFICATION FairSpec
CONSTANTS
  Thread = {t1, t2}
  None = None
  Policies <- DefaultPolicies
  DefaultPolicy <- DefaultScaled
  Capacities <- SmallChannels
  LineLens = {1}
  BufCap = 2
  MaxLines = 3
  MaxJobs = 2
  MaxFaults = 0
PROPERTIES
  
  CallsReturn
  LinesReachStdout
