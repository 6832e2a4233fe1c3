CONSTANTS
  p1 = p1 p2 = p2 a = a b = b s1 = s1
  Procs <- MCProcs
  Streams <- MCStreams
  Sids <- MCSids
  Buffer = 1
  MaxInvalidate = 2
  MaxResets = 1
SPECIFICATION StreamSpec
SYMMETRY Symmetry
CHECK_DEADLOCK FALSE
INVARIANTS OneStream LatestNotReplaced NoSilentLoss EndedStreamsClose
