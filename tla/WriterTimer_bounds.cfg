SPECIFICATION Spec
CONSTANTS
  MaxInterval = 5
  MaxLines = 7
INVARIANTS
  TypeOK
  BatchShape
  LossBound
  ReaderBound
