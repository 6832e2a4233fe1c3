--------------------------- MODULE MCBillCreation ---------------------------
(* Instances of BillCreation: a request and two retries of it. *)
EXTENDS BillCreation, TLC

CONSTANTS r1, r2, r3

Symmetry == Permutations(Requests)
=============================================================================
