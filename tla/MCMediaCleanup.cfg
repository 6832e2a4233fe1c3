CONSTANTS
  avatar = avatar
  proof = proof
  auth1 = auth1
  auth2 = auth2
  daily = daily
  Objects = {avatar, proof}
  Avatars = {avatar}
  AuthWorkers = {auth1, auth2}
  SettlementWorkers = {daily}
  AttemptLimit = 2
SPECIFICATION FairMediaSpec
INVARIANTS
  CompletedIsGone
PROPERTIES
  PrivateImagesGo
CHECK_DEADLOCK FALSE
