SPECIFICATION Spec
CONSTANTS
  Event = {1, 2}
  MaxCalls = 4
  MaxDepth = 5
  Null = Null
INVARIANTS TypeOK CallsAccounted NoRecapture BestEffort
PROPERTY ImplementsEntryLog
CHECK_DEADLOCK FALSE
