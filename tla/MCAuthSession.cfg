CONSTANTS
  s1 = s1 s2 = s2 t1 = t1 t2 = t2 t3 = t3
  c1 = c1 c2 = c2 r1 = r1 r2 = r2
  Sessions <- MCSessions
  Tokens <- MCTokens
  Codes <- MCCodes
  Calls <- MCCalls
  NoSession = NoSession
  MaxPasswords = 2
  MaxWrong = 1
  MaxFailures = 1
SPECIFICATION Spec
SYMMETRY Symmetry
CHECK_DEADLOCK FALSE
INVARIANTS OneLiveSession SessionsKnowPassword InactiveIsSignedOut RevokedIsAnnounced
