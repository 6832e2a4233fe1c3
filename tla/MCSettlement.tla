---------------------------- MODULE MCSettlement ----------------------------
(* Settlement on three members and three bills: one member owes on two      *)
(* bills of one creditor, so that payments can cover one debt or two, and   *)
(* is owed by that creditor on the third.                                   *)
EXTENDS LedgerViews, TLC

CONSTANTS ann, bob, cat, dinner, taxi, lunch

MCCreditor == dinner :> ann @@ taxi :> ann @@ lunch :> bob
MCOwes == dinner :> {bob, cat} @@ taxi :> {bob} @@ lunch :> {ann}
MCAmount == dinner :> (ann :> 0 @@ bob :> 5 @@ cat :> 7)
         @@ taxi :> (ann :> 0 @@ bob :> 3 @@ cat :> 0)
         @@ lunch :> (ann :> 4 @@ bob :> 0 @@ cat :> 0)

Symmetry == Permutations(Payments)
=============================================================================
