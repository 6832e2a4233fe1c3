---------------------------- MODULE MCBillClose ----------------------------
(* Two bills and one batch; an item has two attempts, a bill three versions.*)
EXTENDS BillClose

CONSTANTS b1, b2, k1
=============================================================================
