SPECIFICATION Spec
CONSTANTS
  Event = {1, 2}
  MaxCalls = 2
  MaxDepth = 3
  Null = Null
INVARIANT ReentrantCallsAreSkipped
CHECK_DEADLOCK FALSE
