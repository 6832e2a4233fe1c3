--------------------------- MODULE MCPushDelivery ---------------------------
(* Two notifications, one of which FCM refuses, so that its job may only    *)
(* clear tokens; two devices; two attempts.                                  *)
EXTENDS PushDelivery, TLC

CONSTANTS n1, n2, t1, t2

Symmetry == Permutations(Tokens)
=============================================================================
