CONSTANTS
  b1 = b1
  b2 = b2
  k1 = k1
  Bills = {b1, b2}
  Batches = {k1}
  MaxVersion = 3
  MaxAttempts = 2
SPECIFICATION FairSpec
INVARIANTS
  FinalizedAsCaptured
  CloseIsComplete
  CountsAgree
PROPERTIES
  BatchEnds
CHECK_DEADLOCK FALSE
