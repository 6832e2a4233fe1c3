---------------------------- MODULE BillContents ----------------------------
(***************************************************************************)
(* BillDraft only knows whether the contents of its bill are balanced.     *)
(* What this stands for is BillAllocation: the contents a balanced bill    *)
(* may have, and how they are divided once it is reviewed and finalized.   *)
(* A bill whose items were not read is another matter: its creditor gets   *)
(* the whole total, and the items the expenses page shows are not in it.   *)
(***************************************************************************)
EXTENDS BillDraft, BillAllocation

\* A bill that has been reviewed can be divided, whichever of the contents that
\* the model calls balanced it has: see BillAllocation!SharesMakeTheBill
\* (ReviewBill, evaluateAllocation).
ReviewedCanBeDivided ==
  bill.status = "reviewed" /\ bill.contents = "balanced" => SharesMakeTheBill

\* When a balanced bill is finalized nobody pays a VND more than the rounding
\* needs, and the items of the expenses page add up to what the allocation
\* stored: see BillAllocation!RoundingIsFair and ExpensesAddUp (FinalizeBill,
\* CalculateAllocation, ListExpenseRows).
FinalizedIsFair == bill.status = "finalized" /\ bill.contents = "balanced"
  => RoundingIsFair /\ ExpensesAddUp
=============================================================================
