CONSTANTS
  o1 = o1  o2 = o2  o3 = o3
  a1 = a1  a2 = a2  a3 = a3
  k1 = k1  k2 = k2
  daily = daily
  Objects = {o1, o2, o3}
  Avatars = {}
  AuthWorkers = {}
  SettlementWorkers = {daily}
  AttemptLimit = 1
  Calls = {a1, a2}
  Keys = {k1, k2}
  NoObject = NoObject
  Faults = {"answer_lost", "cancelled", "statement", "expiry"}
SPECIFICATION Spec
SYMMETRY Symmetry
INVARIANTS
  ProofKept
  ReplayTellsTruth
PROPERTIES
  FirstProofStays
CHECK_DEADLOCK FALSE
