SPECIFICATION Spec
CONSTANTS
  Thread = {t1}
  None = None
  Policies <- AllPolicies
  DefaultPolicy <- DefaultScaled
  Capacities <- NoCapacities
  LineLens = {1, 2, 4}
  BufCap = 4
  MaxLines = 6
  MaxJobs = 1
  MaxFaults = 1
INVARIANTS
  LossWindow
  TimerArmed
