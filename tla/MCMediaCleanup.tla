--------------------------- MODULE MCMediaCleanup ---------------------------
(* Instances of MediaCleanup: an avatar and a proof, two auth workers and the *)
(* daily cleanup, a limit of two attempts.                                    *)
EXTENDS MediaCleanup

CONSTANTS avatar, proof, auth1, auth2, daily
=============================================================================
