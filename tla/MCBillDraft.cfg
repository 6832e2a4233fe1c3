CONSTANTS
  j1 = j1
  j2 = j2
  c1 = c1
  NoJob = NoJob
  Jobs = {j1, j2}
  Clients = {c1}
  MaxAttempts = 2
  MaxVersion = 3
  Members <- MCMembers
  Active <- MCActive
  Requests <- MCRequests
  Receipts <- MCReceipts
  Splits <- MCSplits
SPECIFICATION Spec
SYMMETRY Symmetry
INVARIANTS
  ReviewedAddsUp
  ReviewedCanBeDivided
  FinalizedIsFair
PROPERTIES
  CandidateIsFresh
  ResultIsFinal
CHECK_DEADLOCK FALSE
