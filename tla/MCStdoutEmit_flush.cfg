SPECIFICATION Spec
CONSTANTS
  Thread = {t1, t2}
  None = None
  Policies <- DefaultPolicies
  DefaultPolicy <- DefaultScaled
  Capacities <- OneSlot
  LineLens = {1, 4}
  BufCap = 4
  MaxLines = 3
  MaxJobs = 3
  MaxFaults = 1
SYMMETRY Symmetry
INVARIANTS
  TypeOK
  AckAwaited
  FlushInv
  DropAccounting
PROPERTIES
  FlushDurable
  ImplementsLineLog
