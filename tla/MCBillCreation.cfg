CONSTANTS
  r1 = r1
  r2 = r2
  r3 = r3
  Nobody = Nobody
  Requests = {r1, r2, r3}
  ImageCount = 2
SPECIFICATION CreationSpec
SYMMETRY Symmetry
INVARIANTS
  OneBillPerKey
  ReplayIsTrue
  BillImagesKept
CHECK_DEADLOCK FALSE
