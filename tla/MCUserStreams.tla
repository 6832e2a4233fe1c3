--------------------------- MODULE MCUserStreams ---------------------------
(* Two connections of one session, on one or on two processes; a buffer of  *)
(* one frame, so that a stream is soon too slow.                             *)
EXTENDS UserStreams, TLC

CONSTANTS p1, p2, a, b, s1
MCProcs == {p1, p2}
MCStreams == {a, b}
MCSids == {s1}
Symmetry == Permutations(MCProcs) \cup Permutations(MCStreams)
=============================================================================
