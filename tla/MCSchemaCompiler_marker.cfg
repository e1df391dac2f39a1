SPECIFICATION Spec
CONSTANTS
  Name <- MCName
  Words <- MCWords
  Variant <- MCVariant
  Spelling <- MCSpelling
  Token <- MCToken
  DefaultName <- MCDefaultName
  Bad = Bad
  None = None
  MaxItems = 2
  MaxParens = 1
  MAX_U64 = 3
  MIN_I64 <- MCMinI64
  MAX_I64 = 1
INVARIANTS
  MarkedLeafIsDuration
CHECK_DEADLOCK FALSE
