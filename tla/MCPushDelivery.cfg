CONSTANTS
  n1 = n1
  n2 = n2
  t1 = t1
  t2 = t2
  Notes = {n1, n2}
  Malformed = {n2}
  Tokens = {t1, t2}
  NoToken = NoToken
  MaxAttempts = 2
SPECIFICATION Spec
SYMMETRY Symmetry
INVARIANTS
  PushedWhereSignedIn
  PushArrives
CHECK_DEADLOCK FALSE
