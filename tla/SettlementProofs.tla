-------------------------- MODULE SettlementProofs --------------------------
(***************************************************************************)
(* Theorems about Settlement, for every set of members, bills and payments *)
(* and every number of calls in flight.                                    *)
(*                                                                         *)
(* The inductive invariant is the conjunction Inv.  Its parts need each    *)
(* other: that a live code covers awaiting debts only (LiveCodesArePayable) *)
(* rests on the uniqueness of the code of a pair and on a payment covering *)
(* debts of its own pair (PaymentsWellFormed); that a member of a live     *)
(* payment cannot leave rests on its covering an open debt.                *)
(*                                                                         *)
(* MoneyConserved of LedgerViews, at the end, needs one fact more,         *)
(* AmountsFixed, and the lemmas of FiniteSums.                             *)
(***************************************************************************)
EXTENDS LedgerViews, FiniteSums

Inv ==
  /\ TypeOK
  /\ PaymentsWellFormed
  /\ DebtsFollowPayments
  /\ LiveCodesArePayable
  /\ PaymentPartiesActive
  /\ BillsAndDebtsAgree
  /\ ArchivedIsSettled
  /\ CaptainActive

-----------------------------------------------------------------------------
\* A debt has a bill, and its debtor and creditor are two members.
LEMMA DebtParts ==
  ASSUME NEW d \in Debts
  PROVE  /\ BillOf(d) \in Bills
         /\ PairOf(d) \in Members \X Members
         /\ PairOf(d)[1] \in Members
         /\ PairOf(d)[2] \in Members
BY SettlementAssumption DEF Debts, BillOf, PairOf

\* The initial state satisfies the invariant.
LEMMA InitInv == Init => Inv
<1> SUFFICES ASSUME Init PROVE Inv
  OBVIOUS
<1>1. TypeOK
  BY SettlementAssumption
  DEF Init, TypeOK, GroupStatuses, BillStatuses, DebtStatuses,
      PaymentStatuses, Requests
<1>2. PaymentsWellFormed /\ DebtsFollowPayments /\ LiveCodesArePayable
      /\ PaymentPartiesActive
  BY DEF Init, PaymentsWellFormed, DebtsFollowPayments, LiveCodesArePayable,
         PaymentPartiesActive
<1>3. BillsAndDebtsAgree
  BY DebtParts DEF Init, BillsAndDebtsAgree
<1>4. ArchivedIsSettled /\ CaptainActive
  BY SettlementAssumption DEF Init, ArchivedIsSettled, CaptainActive
<1> QED
  BY <1>1, <1>2, <1>3, <1>4 DEF Inv

-----------------------------------------------------------------------------
(* The calls that only read: finalize and void before their transaction.   *)

\* A step that changes nothing but the set of calls in flight.
LEMMA RequestsOnly ==
  ASSUME Inv, UNCHANGED <<memberVars, billVars, payVars>>,
         requests' \in SUBSET Requests
  PROVE  Inv'
<1> USE DEF memberVars, billVars, payVars
<1>1. TypeOK'
  BY DEF Inv, TypeOK
<1>2. PaymentsWellFormed' /\ DebtsFollowPayments' /\ LiveCodesArePayable'
  BY DEF Inv, PaymentsWellFormed, DebtsFollowPayments, LiveCodesArePayable
<1>3. PaymentPartiesActive' /\ BillsAndDebtsAgree' /\ CaptainActive'
  BY DEF Inv, PaymentPartiesActive, BillsAndDebtsAgree, CaptainActive
<1>4. ArchivedIsSettled'
  BY DEF Inv, ArchivedIsSettled, Open
<1> QED
  BY <1>1, <1>2, <1>3, <1>4 DEF Inv

LEMMA ReadSteps ==
  ASSUME Inv,
         \/ \E b \in Bills, m \in Members :
              FinalizeReadCaller(b, m) \/ VoidReadCaller(b, m)
         \/ \E r \in requests :
              FinalizeReadMembers(r) \/ FinalizeReadBank(r) \/ RequestEnds(r)
  PROVE  Inv'
<1>1. UNCHANGED <<memberVars, billVars, payVars>>
  BY DEF FinalizeReadCaller, VoidReadCaller, FinalizeReadMembers,
         FinalizeReadBank, RequestEnds
<1>2. requests' \in SUBSET Requests
  <2> USE DEF Inv, TypeOK, Requests, Stages
  <2>1. CASE \E b \in Bills, m \in Members :
               FinalizeReadCaller(b, m) \/ VoidReadCaller(b, m)
    BY <2>1 DEF FinalizeReadCaller, VoidReadCaller, InFlight
  <2>2. ASSUME NEW r \in requests,
               FinalizeReadMembers(r) \/ FinalizeReadBank(r)
        PROVE  requests' \in SUBSET Requests
    BY <2>2 DEF FinalizeReadMembers, FinalizeReadBank, Advance
  <2>3. ASSUME NEW r \in requests, RequestEnds(r)
        PROVE  requests' \in SUBSET Requests
    BY <2>3 DEF RequestEnds
  <2> QED
    BY <2>1, <2>2, <2>3
<1> QED
  BY <1>1, <1>2, RequestsOnly

-----------------------------------------------------------------------------
(* Members. *)

\* The parts of the invariant that speak of bills, debts and payments only.
LEMMA LedgerUnchanged ==
  ASSUME Inv, UNCHANGED <<billVars, payVars>>
  PROVE  /\ PaymentsWellFormed'
         /\ DebtsFollowPayments'
         /\ LiveCodesArePayable'
         /\ BillsAndDebtsAgree'
BY DEF billVars, payVars, Inv, PaymentsWellFormed, DebtsFollowPayments,
       LiveCodesArePayable, BillsAndDebtsAgree

\* A payment that can still move covers an open debt of its two parties, so
\* neither of them can leave and the group cannot be disbanded.
LEMMA LivePaymentHasOpenDebt ==
  ASSUME Inv, NEW p \in Payments,
         payStatus[p] \in {"pending_proof", "pending_confirmation"}
  PROVE  \E d \in Debts : Open(d) /\ PairOf(d) = payPair[p]
<1>1. PICK d \in payDebts[p] : TRUE
  BY DEF Inv, PaymentsWellFormed
<1>2. d \in Debts /\ PairOf(d) = payPair[p]
  BY <1>1 DEF Inv, TypeOK, PaymentsWellFormed
<1>3. Open(d)
  BY <1>1 DEF Inv, LiveCodesArePayable, DebtsFollowPayments, Open
<1> QED
  BY <1>2, <1>3

LEMMA MemberSteps ==
  ASSUME Inv, MemberNext
  PROVE  Inv'
<1>1. PICK m \in Members :
        \/ RedeemInvite(m)
        \/ \E caller \in Members : LeaveOrRemoveMember(m, caller)
        \/ \E caller \in Members : TransferCaptain(m, caller)
        \/ DisbandGroup(m)
        \/ UpdateBankProfile(m)
  BY DEF MemberNext
<1>2. UNCHANGED <<billVars, payVars, requests>>
  BY <1>1 DEF RedeemInvite, LeaveOrRemoveMember, TransferCaptain,
              DisbandGroup, UpdateBankProfile
<1>3. TypeOK'
  BY <1>1, <1>2
  DEF Inv, TypeOK, RedeemInvite, LeaveOrRemoveMember, TransferCaptain,
      DisbandGroup, UpdateBankProfile, GroupStatuses, billVars, payVars
<1>4. PaymentPartiesActive'
  <2>1. CASE RedeemInvite(m)
    BY <2>1 DEF Inv, PaymentPartiesActive, RedeemInvite, payVars
  <2>2. ASSUME NEW caller \in Members, LeaveOrRemoveMember(m, caller)
        PROVE  PaymentPartiesActive'
    <3> SUFFICES ASSUME NEW p \in Payments,
                        payStatus[p] \in {"pending_proof", "pending_confirmation"}
                 PROVE  m \notin {payPair[p][1], payPair[p][2]}
      BY <2>2 DEF Inv, PaymentPartiesActive, LeaveOrRemoveMember, payVars
    <3>1. PICK d \in Debts : Open(d) /\ PairOf(d) = payPair[p]
      BY LivePaymentHasOpenDebt
    <3> QED
      BY <2>2, <3>1 DEF LeaveOrRemoveMember, MayLeave, OpenDebtsOf
  <2>3. ASSUME NEW caller \in Members, TransferCaptain(m, caller)
        PROVE  PaymentPartiesActive'
    BY <2>3 DEF Inv, PaymentPartiesActive, TransferCaptain, payVars
  <2>4. CASE DisbandGroup(m)
    BY <2>4, LivePaymentHasOpenDebt
    DEF PaymentPartiesActive, DisbandGroup, ObligationsSettled, payVars
  <2>5. CASE UpdateBankProfile(m)
    BY <2>5 DEF Inv, PaymentPartiesActive, UpdateBankProfile, payVars
  <2> QED
    BY <1>1, <2>1, <2>2, <2>3, <2>4, <2>5
<1>5. ArchivedIsSettled'
  <2>1. CASE DisbandGroup(m)
    BY <2>1, <1>2, LivePaymentHasOpenDebt
    DEF ArchivedIsSettled, DisbandGroup, ObligationsSettled, Open,
        billVars, payVars
  <2>2. CASE UpdateBankProfile(m)
    BY <2>2, <1>2
    DEF Inv, ArchivedIsSettled, UpdateBankProfile, Open, billVars, payVars
  <2>3. CASE ~DisbandGroup(m) /\ ~UpdateBankProfile(m)
    BY <2>3, <1>1
    DEF ArchivedIsSettled, RedeemInvite, LeaveOrRemoveMember, TransferCaptain,
        GroupLocked
  <2> QED
    BY <2>1, <2>2, <2>3
<1>6. CaptainActive'
  BY <1>1
  DEF Inv, CaptainActive, RedeemInvite, LeaveOrRemoveMember, MayLeave,
      TransferCaptain, DisbandGroup, UpdateBankProfile
<1> QED
  BY <1>2, <1>3, <1>4, <1>5, <1>6, LedgerUnchanged DEF Inv

-----------------------------------------------------------------------------
(* Finalizing and voiding. *)

\* The writes of a finalize, for a bill that was still reviewed: they touch no
\* debt that exists, so no payment is disturbed.
LEMMA FinalizeWrites ==
  ASSUME Inv, NEW b \in Bills, GroupLocked, billStatus[b] = "reviewed",
         WriteFinalized(b), UNCHANGED <<memberVars, payVars>>,
         requests' \in SUBSET Requests
  PROVE  Inv'
<1> USE DEF memberVars, payVars, WriteFinalized
<1>1. \A d \in Debts : BillOf(d) = b => debtStatus[d] = "none"
  BY DEF Inv, BillsAndDebtsAgree
<1>2. TypeOK'
  BY DEF Inv, TypeOK, BillStatuses, DebtStatuses
<1>3. PaymentsWellFormed'
  BY DEF Inv, PaymentsWellFormed
<1>4. DebtsFollowPayments'
  BY <1>1 DEF Inv, TypeOK, DebtsFollowPayments
<1>5. LiveCodesArePayable'
  <2>1. \A p \in Payments : payStatus[p] = "pending_proof" =>
          \A d \in payDebts[p] : debtStatus'[d] = "awaiting"
                              /\ billStatus'[BillOf(d)] = "finalized"
    BY DebtParts DEF Inv, TypeOK, LiveCodesArePayable
  <2> QED
    BY <2>1 DEF Inv, LiveCodesArePayable
<1>6. PaymentPartiesActive' /\ CaptainActive'
  BY DEF Inv, PaymentPartiesActive, CaptainActive
<1>7. BillsAndDebtsAgree'
  <2> SUFFICES ASSUME NEW d \in Debts
               PROVE  /\ billStatus'[BillOf(d)] = "reviewed"
                           <=> debtStatus'[d] = "none"
                      /\ billStatus'[BillOf(d)] = "voided"
                           <=> debtStatus'[d] = "voided"
    BY DEF BillsAndDebtsAgree
  <2>1. CASE BillOf(d) = b
    BY <2>1 DEF Inv, TypeOK
  <2>2. CASE BillOf(d) # b
    BY <2>2, DebtParts DEF Inv, TypeOK, BillsAndDebtsAgree
  <2> QED
    BY <2>1, <2>2
<1>8. ArchivedIsSettled'
  BY DEF ArchivedIsSettled, GroupLocked
<1> QED
  BY <1>2, <1>3, <1>4, <1>5, <1>6, <1>7, <1>8 DEF Inv

LEMMA FinalizeSteps ==
  ASSUME Inv,
         \/ \E b \in Bills : FinalizeCaptured(b)
         \/ \E r \in requests : FinalizeCommit(r)
  PROVE  Inv'
<1>1. ASSUME NEW b \in Bills, FinalizeCaptured(b) PROVE Inv'
  <2>1. requests' \in SUBSET Requests
    BY <1>1 DEF Inv, TypeOK, FinalizeCaptured
  <2> QED
    BY <1>1, <2>1, FinalizeWrites DEF FinalizeCaptured
<1>2. ASSUME NEW r \in requests, FinalizeCommit(r) PROVE Inv'
  <2>1. r.bill \in Bills /\ requests' \in SUBSET Requests
    BY <1>2 DEF Inv, TypeOK, Requests, FinalizeCommit
  <2> QED
    BY <1>2, <2>1, FinalizeWrites DEF FinalizeCommit, StillReviewed
<1> QED
  BY <1>1, <1>2

\* A void cancels awaiting debts only, and every live code that covered one of
\* them is superseded in the same step.
LEMMA VoidSteps ==
  ASSUME Inv, NEW r \in requests, VoidCommit(r)
  PROVE  Inv'
<1> DEFINE b == r.bill
<1>1. b \in Bills /\ requests' \in SUBSET Requests
  BY DEF Inv, TypeOK, Requests, VoidCommit
<1>2. /\ GroupLocked /\ Voidable(b)
      /\ UNCHANGED <<memberVars, debtPayment, payPair, payDebts, payAmount>>
      /\ payStatus' = [p \in Payments |->
           IF p \in CodesOver(b) THEN "superseded" ELSE payStatus[p]]
      /\ billStatus' = [billStatus EXCEPT ![b] = "voided"]
      /\ debtStatus' = [d \in Debts |->
           IF BillOf(d) = b /\ debtStatus[d] = "awaiting" THEN "voided"
           ELSE debtStatus[d]]
  BY DEF VoidCommit
<1> HIDE DEF b
<1> USE DEF memberVars
<1>3. \A d \in Debts : BillOf(d) = b =>
        debtStatus[d] = "awaiting" /\ debtStatus'[d] = "voided"
  BY <1>2 DEF Voidable, DebtsOfBill
<1>4. \A d \in Debts : BillOf(d) # b => debtStatus'[d] = debtStatus[d]
  BY <1>2
<1>5. \A p \in Payments :
        payStatus'[p] # payStatus[p] =>
          payStatus[p] = "pending_proof" /\ payStatus'[p] = "superseded"
  BY <1>2 DEF CodesOver
<1>6. TypeOK'
  BY <1>1, <1>2 DEF Inv, TypeOK, BillStatuses, DebtStatuses, PaymentStatuses
<1>7. PaymentsWellFormed'
  BY <1>2, <1>5 DEF Inv, PaymentsWellFormed
<1>8. DebtsFollowPayments'
  <2>1. \A d \in Debts :
          debtStatus'[d] \in {"pending_confirmation", "settled"} =>
            debtStatus'[d] = debtStatus[d]
    BY <1>3, <1>4
  <2>2. \A p \in Payments : payStatus'[p] \in {"pending_confirmation", "confirmed"}
          => \A d \in payDebts[p] : debtStatus'[d] = debtStatus[d]
    BY <1>3, <1>4, <1>5 DEF Inv, TypeOK, DebtsFollowPayments
  <2>3. \A d \in Debts : debtStatus'[d] \in {"none", "awaiting", "voided"} =>
          debtStatus[d] \in {"none", "awaiting", "voided"}
    BY <1>3, <1>4
  <2> QED
    BY <1>2, <1>5, <2>1, <2>2, <2>3 DEF Inv, TypeOK, DebtsFollowPayments
<1>9. LiveCodesArePayable'
  <2>1. \A p \in Payments : payStatus'[p] = "pending_proof" =>
          \A d \in payDebts[p] : d \in Debts /\ BillOf(d) # b
    BY <1>2, <1>5 DEF Inv, TypeOK, CodesOver, DebtsOfBill
  <2>2. \A p \in Payments : payStatus'[p] = "pending_proof" =>
          \A d \in payDebts[p] : /\ debtStatus'[d] = "awaiting"
                                 /\ billStatus'[BillOf(d)] = "finalized"
    BY <1>2, <1>4, <1>5, <2>1, DebtParts
    DEF Inv, TypeOK, LiveCodesArePayable
  <2> QED
    BY <1>2, <1>5, <2>2 DEF Inv, LiveCodesArePayable
<1>10. PaymentPartiesActive' /\ CaptainActive'
  BY <1>2, <1>5 DEF Inv, PaymentPartiesActive, CaptainActive
<1>11. BillsAndDebtsAgree'
  <2> SUFFICES ASSUME NEW d \in Debts
               PROVE  /\ billStatus'[BillOf(d)] = "reviewed"
                           <=> debtStatus'[d] = "none"
                      /\ billStatus'[BillOf(d)] = "voided"
                           <=> debtStatus'[d] = "voided"
    BY DEF BillsAndDebtsAgree
  <2>1. CASE BillOf(d) = b
    BY <1>1, <1>2, <1>3, <2>1 DEF Inv, TypeOK
  <2>2. CASE BillOf(d) # b
    BY <1>2, <1>4, <2>2, DebtParts DEF Inv, TypeOK, BillsAndDebtsAgree
  <2> QED
    BY <2>1, <2>2
<1>12. ArchivedIsSettled'
  BY <1>2 DEF ArchivedIsSettled, GroupLocked
<1> QED
  BY <1>6, <1>7, <1>8, <1>9, <1>10, <1>11, <1>12 DEF Inv

-----------------------------------------------------------------------------
(* Payments. *)

\* A new code takes the place of the live code of its pair, if there is one,
\* and covers debts that are awaiting.
LEMMA CreatePaymentStep ==
  ASSUME Inv, NEW p \in Payments, NEW m \in Members, NEW c \in Members,
         NEW S \in SUBSET Debts, CreatePayment(p, m, c, S)
  PROVE  Inv'
<1> USE DEF memberVars, billVars
<1>1. /\ GroupLocked /\ m \in active /\ c \in active /\ S # {}
      /\ \A d \in S : PairOf(d) = <<m, c>> /\ debtStatus[d] = "awaiting"
      /\ payStatus[p] = "none"
      /\ payPair' = [payPair EXCEPT ![p] = <<m, c>>]
      /\ payDebts' = [payDebts EXCEPT ![p] = S]
      /\ UNCHANGED <<memberVars, billVars, requests>>
  BY DEF CreatePayment
<1>2. payStatus' = [q \in Payments |->
        IF q = p THEN "pending_proof"
        ELSE IF q \in PendingProofs(<<m, c>>) THEN "superseded"
        ELSE payStatus[q]]
  BY DEF CreatePayment
<1>3. \A q \in Payments : q # p =>
        /\ payPair'[q] = payPair[q]
        /\ payDebts'[q] = payDebts[q]
        /\ payStatus'[q] # payStatus[q] =>
             payStatus[q] = "pending_proof" /\ payStatus'[q] = "superseded"
  BY <1>1, <1>2 DEF Inv, TypeOK, PendingProofs
<1>4. /\ payStatus'[p] = "pending_proof"
      /\ payPair'[p] = <<m, c>>
      /\ payDebts'[p] = S
  BY <1>1, <1>2 DEF Inv, TypeOK
<1>5. TypeOK'
  BY <1>1, <1>2 DEF Inv, TypeOK, PaymentStatuses
<1>6. PaymentsWellFormed'
  BY <1>1, <1>3, <1>4 DEF Inv, PaymentsWellFormed
<1>7. DebtsFollowPayments'
  <2>1. \A d \in Debts : debtPayment[d] # p
    BY <1>1, SettlementAssumption
    DEF Inv, TypeOK, DebtsFollowPayments, DebtStatuses
  <2> QED
    BY <1>1, <1>3, <1>4, <2>1 DEF Inv, TypeOK, DebtsFollowPayments
<1>8. LiveCodesArePayable'
  <2>1. \A q \in Payments : payStatus'[q] = "pending_proof" =>
          /\ payDebts'[q] # {}
          /\ \A d \in payDebts'[q] : debtStatus[d] = "awaiting"
                                  /\ billStatus[BillOf(d)] = "finalized"
    <3>1. \A d \in S : billStatus[BillOf(d)] = "finalized"
      BY <1>1, DebtParts DEF Inv, TypeOK, BillsAndDebtsAgree, BillStatuses
    <3> QED
      BY <1>1, <1>3, <1>4, <3>1 DEF Inv, LiveCodesArePayable
  <2>2. ASSUME NEW q \in Payments, NEW q2 \in Payments,
               payStatus'[q] = "pending_proof",
               payStatus'[q2] = "pending_proof",
               payPair'[q] = payPair'[q2]
        PROVE  q = q2
    <3>1. \A x \in Payments \ {p} : payStatus'[x] = "pending_proof" =>
            payStatus[x] = "pending_proof" /\ payPair[x] # <<m, c>>
      BY <1>2 DEF PendingProofs
    <3> QED
      BY <1>3, <1>4, <2>2, <3>1 DEF Inv, LiveCodesArePayable
  <2> QED
    BY <1>1, <2>1, <2>2 DEF LiveCodesArePayable
<1>9. PaymentPartiesActive'
  BY <1>1, <1>3, <1>4 DEF Inv, PaymentPartiesActive
<1>10. BillsAndDebtsAgree' /\ CaptainActive'
  BY <1>1 DEF Inv, BillsAndDebtsAgree, CaptainActive
<1>11. ArchivedIsSettled'
  BY <1>1 DEF ArchivedIsSettled, GroupLocked
<1> QED
  BY <1>5, <1>6, <1>7, <1>8, <1>9, <1>10, <1>11 DEF Inv

\* A debt of two payments of one kind: both would claim it, so they are one.
LEMMA SubmitProofStep ==
  ASSUME Inv, NEW p \in Payments, NEW m \in Members, SubmitProof(p, m)
  PROVE  Inv'
<1> USE DEF memberVars
<1>1. /\ GroupLocked
      /\ \A d \in payDebts[p] : debtStatus[d] = "awaiting"
      /\ payStatus[p] = "pending_proof"
      /\ payStatus' = [payStatus EXCEPT ![p] = "pending_confirmation"]
      /\ debtStatus' = [d \in Debts |->
           IF d \in payDebts[p] THEN "pending_confirmation" ELSE debtStatus[d]]
      /\ debtPayment' = [d \in Debts |->
           IF d \in payDebts[p] THEN p ELSE debtPayment[d]]
      /\ UNCHANGED <<memberVars, billStatus, payPair, payDebts, requests>>
  BY DEF SubmitProof
<1>2. payDebts[p] \subseteq Debts
  BY DEF Inv, TypeOK
<1>3. \A q \in Payments :
        q # p /\ payStatus[q] = "pending_proof" => payDebts[q] \cap payDebts[p] = {}
  BY <1>1 DEF Inv, LiveCodesArePayable, PaymentsWellFormed
<1>4. \A q \in Payments :
        payStatus[q] \in {"pending_confirmation", "confirmed"} =>
          payDebts[q] \cap payDebts[p] = {}
  BY <1>1 DEF Inv, DebtsFollowPayments
<1>5. TypeOK'
  BY <1>1 DEF Inv, TypeOK, PaymentStatuses, DebtStatuses
<1>6. PaymentsWellFormed'
  BY <1>1 DEF Inv, TypeOK, PaymentsWellFormed
<1>7. DebtsFollowPayments'
  <2>1. \A d \in Debts : d \notin payDebts[p] => debtPayment[d] # p
    BY <1>1, SettlementAssumption
    DEF Inv, TypeOK, DebtsFollowPayments, DebtStatuses
  <2>2. \A d \in Debts :
          /\ debtStatus'[d] = "pending_confirmation" =>
               /\ debtPayment'[d] \in Payments
               /\ d \in payDebts[debtPayment'[d]]
               /\ payStatus'[debtPayment'[d]] = "pending_confirmation"
          /\ debtStatus'[d] = "settled" =>
               /\ debtPayment'[d] \in Payments
               /\ d \in payDebts[debtPayment'[d]]
               /\ payStatus'[debtPayment'[d]] = "confirmed"
          /\ debtStatus'[d] \in {"none", "awaiting", "voided"} =>
               debtPayment'[d] = NoPayment
    BY <1>1, <2>1 DEF Inv, TypeOK, DebtsFollowPayments
  <2>3. \A q \in Payments : \A d \in payDebts[q] :
          /\ payStatus'[q] = "pending_confirmation" =>
               debtStatus'[d] = "pending_confirmation" /\ debtPayment'[d] = q
          /\ payStatus'[q] = "confirmed" =>
               debtStatus'[d] = "settled" /\ debtPayment'[d] = q
    BY <1>1, <1>4 DEF Inv, TypeOK, DebtsFollowPayments
  <2> QED
    BY <1>1, <2>2, <2>3 DEF DebtsFollowPayments
<1>8. LiveCodesArePayable'
  BY <1>1, <1>3 DEF Inv, TypeOK, LiveCodesArePayable
<1>9. PaymentPartiesActive' /\ CaptainActive'
  BY <1>1 DEF Inv, TypeOK, PaymentPartiesActive, CaptainActive
<1>10. BillsAndDebtsAgree'
  BY <1>1 DEF Inv, BillsAndDebtsAgree
<1>11. ArchivedIsSettled'
  BY <1>1 DEF ArchivedIsSettled, GroupLocked
<1> QED
  BY <1>5, <1>6, <1>7, <1>8, <1>9, <1>10, <1>11 DEF Inv

\* The creditor's answer moves exactly the debts of the payment.
LEMMA FinishSteps ==
  ASSUME Inv, NEW p \in Payments, NEW m \in Members,
         ConfirmPayment(p, m) \/ RejectPayment(p, m)
  PROVE  Inv'
<1> USE DEF memberVars
<1>1. /\ GroupLocked
      /\ payDebts[p] \subseteq Debts
      /\ \A d \in payDebts[p] :
           debtStatus[d] = "pending_confirmation" /\ debtPayment[d] = p
      /\ payStatus[p] = "pending_confirmation"
      /\ UNCHANGED <<memberVars, billStatus, payPair, payDebts, requests>>
  BY DEF Inv, TypeOK, ConfirmPayment, RejectPayment, Finishable
<1>2. /\ \A q \in Payments : q # p => payStatus'[q] = payStatus[q]
      /\ \A d \in Debts : d \notin payDebts[p] =>
           debtStatus'[d] = debtStatus[d] /\ debtPayment'[d] = debtPayment[d]
  BY DEF Inv, TypeOK, ConfirmPayment, RejectPayment, ReleaseDebts
<1>3. \/ /\ payStatus'[p] = "confirmed"
         /\ \A d \in payDebts[p] : debtStatus'[d] = "settled" /\ debtPayment'[d] = p
      \/ /\ payStatus'[p] = "rejected"
         /\ \A d \in payDebts[p] :
              debtStatus'[d] = "awaiting" /\ debtPayment'[d] = NoPayment
  BY <1>1 DEF Inv, TypeOK, ConfirmPayment, RejectPayment, ReleaseDebts
<1>4. \A q \in Payments :
        q # p /\ payStatus[q] \in {"pending_proof", "pending_confirmation", "confirmed"}
          => payDebts[q] \cap payDebts[p] = {}
  BY <1>1 DEF Inv, DebtsFollowPayments, LiveCodesArePayable
<1>5. TypeOK'
  <2>1. CASE ConfirmPayment(p, m)
    BY <2>1, <1>1 DEF Inv, TypeOK, ConfirmPayment, PaymentStatuses, DebtStatuses
  <2>2. CASE RejectPayment(p, m)
    BY <2>2, <1>1
    DEF Inv, TypeOK, RejectPayment, ReleaseDebts, PaymentStatuses, DebtStatuses
  <2> QED
    BY <2>1, <2>2
<1>6. PaymentsWellFormed'
  BY <1>1, <1>2 DEF Inv, PaymentsWellFormed
<1>7. DebtsFollowPayments'
  <2>1. \A d \in Debts : d \notin payDebts[p] => debtPayment[d] # p
    BY <1>1, SettlementAssumption
    DEF Inv, TypeOK, DebtsFollowPayments, DebtStatuses
  <2>2. \A d \in Debts :
          /\ debtStatus'[d] = "pending_confirmation" =>
               /\ debtPayment'[d] \in Payments
               /\ d \in payDebts[debtPayment'[d]]
               /\ payStatus'[debtPayment'[d]] = "pending_confirmation"
          /\ debtStatus'[d] = "settled" =>
               /\ debtPayment'[d] \in Payments
               /\ d \in payDebts[debtPayment'[d]]
               /\ payStatus'[debtPayment'[d]] = "confirmed"
          /\ debtStatus'[d] \in {"none", "awaiting", "voided"} =>
               debtPayment'[d] = NoPayment
    BY <1>2, <1>3, <2>1 DEF Inv, TypeOK, DebtsFollowPayments
  <2>3. \A q \in Payments : \A d \in payDebts[q] :
          /\ payStatus'[q] = "pending_confirmation" =>
               debtStatus'[d] = "pending_confirmation" /\ debtPayment'[d] = q
          /\ payStatus'[q] = "confirmed" =>
               debtStatus'[d] = "settled" /\ debtPayment'[d] = q
    BY <1>2, <1>3, <1>4 DEF Inv, TypeOK, DebtsFollowPayments
  <2> QED
    BY <1>1, <2>2, <2>3 DEF DebtsFollowPayments
<1>8. LiveCodesArePayable'
  BY <1>1, <1>2, <1>3, <1>4 DEF Inv, TypeOK, LiveCodesArePayable
<1>9. PaymentPartiesActive' /\ CaptainActive'
  BY <1>1, <1>2, <1>3 DEF Inv, PaymentPartiesActive, CaptainActive
<1>10. BillsAndDebtsAgree'
  <2> SUFFICES ASSUME NEW d \in Debts
               PROVE  /\ billStatus[BillOf(d)] = "reviewed"
                           <=> debtStatus'[d] = "none"
                      /\ billStatus[BillOf(d)] = "voided"
                           <=> debtStatus'[d] = "voided"
    BY <1>1 DEF BillsAndDebtsAgree
  <2> QED
    BY <1>1, <1>2, <1>3 DEF Inv, BillsAndDebtsAgree
<1>11. ArchivedIsSettled'
  BY <1>1 DEF ArchivedIsSettled, GroupLocked
<1> QED
  BY <1>5, <1>6, <1>7, <1>8, <1>9, <1>10, <1>11 DEF Inv

-----------------------------------------------------------------------------
\* Every step keeps the invariant.
LEMMA NextInv == Inv /\ [Next]_vars => Inv'
<1> SUFFICES ASSUME Inv, [Next]_vars PROVE Inv'
  OBVIOUS
<1>1. CASE MemberNext
  BY <1>1, MemberSteps
<1>2. CASE BillNext
  BY <1>2, ReadSteps, FinalizeSteps, VoidSteps DEF BillNext
<1>3. CASE PaymentNext
  BY <1>3, CreatePaymentStep, SubmitProofStep, FinishSteps DEF PaymentNext
<1>4. CASE UNCHANGED vars
  <2>1. requests' \in SUBSET Requests
    BY <1>4 DEF vars, Inv, TypeOK
  <2> QED
    BY <1>4, <2>1, RequestsOnly DEF vars
<1> QED
  BY <1>1, <1>2, <1>3, <1>4 DEF Next

\* The inductive invariant holds in every reachable state.
THEOREM Invariance == Spec => []Inv
BY InitInv, NextInv, PTL DEF Spec

\* Type correctness.
THEOREM TypeCorrect == Spec => []TypeOK
BY Invariance, PTL DEF Inv

\* No debt is claimed or settled by two payments, and no payment is split
\* (SubmitProof, finishPayment and VoidBill in any order).
THEOREM OnePaymentPerDebt == Spec => []DebtsFollowPayments
BY Invariance, PTL DEF Inv

\* A QR code that can still take a proof covers awaiting debts of finalized
\* bills, and there is one per debtor and creditor (CreatePayment, VoidBill).
THEOREM NoStaleCode == Spec => []LiveCodesArePayable
BY Invariance, PTL DEF Inv

\* Neither party of a payment that can still move has left the group, although
\* finalize does not lock the memberships it reads.
THEOREM PartiesStay == Spec => []PaymentPartiesActive
BY Invariance, PTL DEF Inv

\* Debts exist, and are voided, exactly together with their bill.
THEOREM BillsMatchDebts == Spec => []BillsAndDebtsAgree
BY Invariance, PTL DEF Inv

\* A disbanded group has no open debt and no payment left to answer.
THEOREM DisbandIsSafe == Spec => []ArchivedIsSettled
BY Invariance, PTL DEF Inv

\* An active group always has an active captain: a captain cannot leave or be
\* removed, and a transfer names a member that is active at that moment.
THEOREM CaptainStays == Spec => []CaptainActive
<1>1. Inv => CaptainActive
  BY DEF Inv
<1> QED
  BY <1>1, Invariance, PTL

-----------------------------------------------------------------------------
\* No step changes a confirmed payment or what it settled.
LEMMA ConfirmedStep ==
  ASSUME Inv, [Next]_vars, NEW p \in Payments, payStatus[p] = "confirmed"
  PROVE  /\ payStatus'[p] = "confirmed"
         /\ \A d \in payDebts[p] :
              debtStatus'[d] = "settled" /\ debtPayment'[d] = p
<1>1. \A d \in payDebts[p] :
        d \in Debts /\ debtStatus[d] = "settled" /\ debtPayment[d] = p
  BY DEF Inv, TypeOK, DebtsFollowPayments
<1>2. CASE UNCHANGED <<billVars, payVars>>
  BY <1>1, <1>2 DEF billVars, payVars
<1>3. ASSUME NEW b \in Bills, billStatus[b] = "reviewed",
             WriteFinalized(b), UNCHANGED payVars
      PROVE  /\ payStatus'[p] = "confirmed"
             /\ \A d \in payDebts[p] :
                  debtStatus'[d] = "settled" /\ debtPayment'[d] = p
  <2>1. \A d \in payDebts[p] : BillOf(d) # b
    BY <1>1, <1>3 DEF Inv, BillsAndDebtsAgree
  <2> QED
    BY <1>1, <1>3, <2>1 DEF WriteFinalized, payVars
<1>4. ASSUME NEW r \in requests, VoidCommit(r)
      PROVE  /\ payStatus'[p] = "confirmed"
             /\ \A d \in payDebts[p] :
                  debtStatus'[d] = "settled" /\ debtPayment'[d] = p
  BY <1>1, <1>4 DEF VoidCommit, CodesOver
<1>5. ASSUME NEW q \in Payments, NEW m \in Members,
             \/ \E c \in Members, S \in SUBSET Debts : CreatePayment(q, m, c, S)
             \/ SubmitProof(q, m)
             \/ ConfirmPayment(q, m)
             \/ RejectPayment(q, m)
      PROVE  /\ payStatus'[p] = "confirmed"
             /\ \A d \in payDebts[p] :
                  debtStatus'[d] = "settled" /\ debtPayment'[d] = p
  <2>1. CASE \E c \in Members, S \in SUBSET Debts : CreatePayment(q, m, c, S)
    BY <1>1, <2>1 DEF CreatePayment, PendingProofs, billVars, Inv, TypeOK
  <2>2. CASE SubmitProof(q, m)
    BY <1>1, <2>2 DEF SubmitProof, Inv, TypeOK
  <2>3. CASE ConfirmPayment(q, m) \/ RejectPayment(q, m)
    BY <1>1, <2>3
    DEF ConfirmPayment, RejectPayment, Finishable, ReleaseDebts, Inv, TypeOK
  <2> QED
    BY <1>5, <2>1, <2>2, <2>3
<1>6. CASE MemberNext
  <2>1. UNCHANGED <<billVars, payVars>>
    BY <1>6 DEF MemberNext, RedeemInvite, LeaveOrRemoveMember, TransferCaptain,
                DisbandGroup, UpdateBankProfile
  <2> QED
    BY <1>2, <2>1
<1>7. CASE BillNext
  <2>1. ASSUME NEW b \in Bills, FinalizeCaptured(b)
        PROVE  billStatus[b] = "reviewed" /\ WriteFinalized(b) /\ UNCHANGED payVars
    BY <2>1 DEF FinalizeCaptured
  <2>2. ASSUME NEW r \in requests, FinalizeCommit(r)
        PROVE  /\ r.bill \in Bills
               /\ billStatus[r.bill] = "reviewed"
               /\ WriteFinalized(r.bill)
               /\ UNCHANGED payVars
    BY <2>2 DEF FinalizeCommit, StillReviewed, Inv, TypeOK, Requests
  <2>3. CASE \/ \E b \in Bills, m \in Members :
                  FinalizeReadCaller(b, m) \/ VoidReadCaller(b, m)
             \/ \E r \in requests : \/ FinalizeReadMembers(r)
                                    \/ FinalizeReadBank(r)
                                    \/ RequestEnds(r)
    <3>1. UNCHANGED <<billVars, payVars>>
      BY <2>3 DEF FinalizeReadCaller, VoidReadCaller, FinalizeReadMembers,
                  FinalizeReadBank, RequestEnds
    <3> QED
      BY <1>2, <3>1
  <2> QED
    BY <1>3, <1>4, <1>7, <2>1, <2>2, <2>3 DEF BillNext
<1>8. CASE PaymentNext
  BY <1>5, <1>8 DEF PaymentNext
<1>9. CASE UNCHANGED vars
  BY <1>2, <1>9 DEF vars
<1> QED
  BY <1>6, <1>7, <1>8, <1>9 DEF Next

\* A confirmed payment and its debts never change again (finishPayment is the
\* last word on a payment).
THEOREM ConfirmedStays == Spec => ConfirmedIsFinal
<1>1. Inv /\ [Next]_vars =>
        [\A p \in Payments : payStatus[p] = "confirmed" =>
           /\ payStatus'[p] = "confirmed"
           /\ \A d \in payDebts[p] :
                debtStatus'[d] = "settled" /\ debtPayment'[d] = p]_vars
  BY ConfirmedStep
<1> QED
  BY <1>1, Invariance, PTL DEF Spec, ConfirmedIsFinal
-----------------------------------------------------------------------------
(* The ledger implements the abstract book of debts (DebtBook): each step  *)
(* is, seen through the refinement mapping of Book, one step of the book   *)
(* or a stutter.                                                           *)

\* The mapped state, under the names of DebtBook.
OwedDebts == {d \in Debts : debtStatus[d] = "awaiting"}
Claims == {payDebts[p] : p \in {q \in Payments :
                                  payStatus[q] = "pending_confirmation"}}
PaidDebts == {d \in Debts : debtStatus[d] = "settled"}
CancelledDebts == {d \in Debts : debtStatus[d] = "voided"}

BookUnchanged ==
  /\ OwedDebts' = OwedDebts
  /\ Claims' = Claims
  /\ PaidDebts' = PaidDebts
  /\ CancelledDebts' = CancelledDebts

\* A step that leaves the debts, and the claims of the payments, alone.
LEMMA StutterSteps ==
  ASSUME Inv, UNCHANGED billVars,
         \A p \in Payments :
           \/ payStatus'[p] = payStatus[p] /\ payDebts'[p] = payDebts[p]
           \/ /\ payStatus[p] # "pending_confirmation"
              /\ payStatus'[p] # "pending_confirmation"
  PROVE  BookUnchanged
<1>1. OwedDebts' = OwedDebts /\ PaidDebts' = PaidDebts
      /\ CancelledDebts' = CancelledDebts
  BY DEF OwedDebts, PaidDebts, CancelledDebts, billVars
<1>2. Claims' = Claims
  BY DEF Claims
<1> QED
  BY <1>1, <1>2 DEF BookUnchanged

\* Finalizing a bill issues its debts, which the book has never seen.
LEMMA IssueStep ==
  ASSUME Inv, NEW b \in Bills, billStatus[b] = "reviewed",
         WriteFinalized(b), UNCHANGED payVars
  PROVE  Book!Issue(b)
<1>1. \A d \in Debts : BillOf(d) = b => debtStatus[d] = "none"
  BY DEF Inv, BillsAndDebtsAgree
<1>2. \A S \in Claims : \A d \in S : debtStatus[d] = "pending_confirmation"
  BY DEF Claims, Inv, DebtsFollowPayments
<1>3. Book!DebtsOf(b) \cap Book!Known = {}
  <2> SUFFICES ASSUME NEW d \in Debts, BillOf(d) = b
               PROVE  d \notin Book!Known
    BY DEF Book!DebtsOf
  <2>1. d \notin OwedDebts \cup PaidDebts \cup CancelledDebts
    BY <1>1 DEF OwedDebts, PaidDebts, CancelledDebts
  <2>2. d \notin UNION Claims
    BY <1>1, <1>2
  <2> QED
    BY <2>1, <2>2
    DEF Book!Known, OwedDebts, Claims, PaidDebts, CancelledDebts
<1>4. OwedDebts' = OwedDebts \cup Book!DebtsOf(b)
  BY <1>1 DEF OwedDebts, WriteFinalized, Book!DebtsOf
<1>5. PaidDebts' = PaidDebts /\ CancelledDebts' = CancelledDebts
  BY <1>1 DEF PaidDebts, CancelledDebts, WriteFinalized
<1>6. Claims' = Claims
  BY DEF Claims, payVars
<1> QED
  BY <1>3, <1>4, <1>5, <1>6
  DEF Book!Issue, OwedDebts, Claims, PaidDebts, CancelledDebts

\* Voiding a bill cancels its debts, all of them still owed.
LEMMA CancelStep ==
  ASSUME Inv, NEW r \in requests, VoidCommit(r)
  PROVE  r.bill \in Bills /\ Book!Cancel(r.bill)
<1>1. r.bill \in Bills
  BY DEF Inv, TypeOK, Requests
<1>2. \A d \in Debts : BillOf(d) = r.bill =>
        debtStatus[d] = "awaiting" /\ debtStatus'[d] = "voided"
  BY DEF VoidCommit, Voidable, DebtsOfBill
<1>3. \A d \in Debts : BillOf(d) # r.bill => debtStatus'[d] = debtStatus[d]
  BY DEF VoidCommit
<1>4. /\ OwedDebts' = OwedDebts \ Book!DebtsOf(r.bill)
      /\ Book!DebtsOf(r.bill) \subseteq OwedDebts
      /\ CancelledDebts' = CancelledDebts \cup Book!DebtsOf(r.bill)
      /\ PaidDebts' = PaidDebts
  BY <1>2, <1>3 DEF OwedDebts, CancelledDebts, PaidDebts, Book!DebtsOf
<1>5. Claims' = Claims
  <2>1. \A p \in Payments :
          /\ payDebts'[p] = payDebts[p]
          /\ payStatus'[p] = "pending_confirmation"
               <=> payStatus[p] = "pending_confirmation"
    BY DEF VoidCommit, CodesOver, Inv, TypeOK
  <2> QED
    BY <2>1 DEF Claims
<1> QED
  BY <1>1, <1>4, <1>5
  DEF Book!Cancel, OwedDebts, Claims, PaidDebts, CancelledDebts

\* A proof claims the debts of its payment.
LEMMA ClaimStep ==
  ASSUME Inv, NEW p \in Payments, NEW m \in Members, SubmitProof(p, m),
         NEW S \in SUBSET Debts, S = payDebts[p]
  PROVE  Book!Claim(S)
<1>1. /\ payDebts[p] \subseteq Debts /\ payDebts[p] # {}
      /\ \A d \in payDebts[p] : debtStatus[d] = "awaiting"
      /\ \A d, e \in payDebts[p] : PairOf(d) = PairOf(e)
  BY DEF SubmitProof, Inv, TypeOK, PaymentsWellFormed
<1>2. debtStatus' = [d \in Debts |->
        IF d \in payDebts[p] THEN "pending_confirmation" ELSE debtStatus[d]]
  BY DEF SubmitProof
<1>3. OwedDebts' = OwedDebts \ payDebts[p] /\ payDebts[p] \subseteq OwedDebts
  BY <1>1, <1>2 DEF OwedDebts
<1>4. PaidDebts' = PaidDebts /\ CancelledDebts' = CancelledDebts
  BY <1>1, <1>2 DEF PaidDebts, CancelledDebts
<1>5. Claims' = Claims \cup {payDebts[p]}
  BY DEF Claims, SubmitProof, Inv, TypeOK
<1> QED
  BY <1>1, <1>3, <1>4, <1>5
  DEF Book!Claim, OwedDebts, Claims, PaidDebts, CancelledDebts

\* The answer of the creditor ends the claim of this payment and of no other.
LEMMA AnswerSteps ==
  ASSUME Inv, NEW p \in Payments, NEW m \in Members,
         ConfirmPayment(p, m) \/ RejectPayment(p, m),
         NEW S \in SUBSET Debts, S = payDebts[p]
  PROVE  Book!Pay(S) \/ Book!Release(S)
<1>1. /\ payDebts[p] \subseteq Debts /\ payDebts[p] # {}
      /\ payStatus[p] = "pending_confirmation"
      /\ \A d \in payDebts[p] :
           debtStatus[d] = "pending_confirmation" /\ debtPayment[d] = p
      /\ payDebts' = payDebts
  BY DEF ConfirmPayment, RejectPayment, Finishable, Inv, TypeOK
<1>2. \A q \in Payments : q # p /\ payStatus[q] = "pending_confirmation" =>
        payDebts[q] # payDebts[p]
  BY <1>1 DEF Inv, DebtsFollowPayments
<1>3. \A q \in Payments : payStatus'[q] = "pending_confirmation"
        <=> (q # p /\ payStatus[q] = "pending_confirmation")
  BY DEF ConfirmPayment, RejectPayment, Inv, TypeOK
<1>4. payDebts[p] \in Claims /\ Claims' = Claims \ {payDebts[p]}
  BY <1>1, <1>2, <1>3 DEF Claims
<1>5. CASE ConfirmPayment(p, m)
  <2>1. debtStatus' = [d \in Debts |->
          IF d \in payDebts[p] THEN "settled" ELSE debtStatus[d]]
    BY <1>5 DEF ConfirmPayment
  <2>2. /\ OwedDebts' = OwedDebts
        /\ PaidDebts' = PaidDebts \cup payDebts[p]
        /\ CancelledDebts' = CancelledDebts
    BY <1>1, <2>1 DEF OwedDebts, PaidDebts, CancelledDebts
  <2> QED
    BY <1>4, <2>2 DEF Book!Pay, OwedDebts, Claims, PaidDebts, CancelledDebts
<1>6. CASE RejectPayment(p, m)
  <2>1. debtStatus' = [d \in Debts |->
          IF d \in payDebts[p] THEN "awaiting" ELSE debtStatus[d]]
    BY <1>6 DEF RejectPayment
  <2>2. /\ OwedDebts' = OwedDebts \cup payDebts[p]
        /\ PaidDebts' = PaidDebts
        /\ CancelledDebts' = CancelledDebts
    BY <1>1, <2>1 DEF OwedDebts, PaidDebts, CancelledDebts
  <2> QED
    BY <1>4, <2>2 DEF Book!Release, OwedDebts, Claims, PaidDebts, CancelledDebts
<1> QED
  BY <1>5, <1>6

-----------------------------------------------------------------------------
\* The empty ledger is the empty book.
LEMMA BookInitial == Init => Book!BookInit
BY DEF Init, Book!BookInit

\* Every step of the ledger is a step of the book or leaves it alone.
LEMMA BookStep == Inv /\ [Next]_vars => [Book!BookNext]_(Book!bookVars)
<1> SUFFICES ASSUME Inv, [Next]_vars
             PROVE  Book!BookNext \/ BookUnchanged
  BY DEF BookUnchanged, Book!bookVars, OwedDebts, Claims, PaidDebts,
         CancelledDebts
<1>1. CASE MemberNext
  <2>1. UNCHANGED <<billVars, payVars>>
    BY <1>1 DEF MemberNext, RedeemInvite, LeaveOrRemoveMember, TransferCaptain,
                DisbandGroup, UpdateBankProfile
  <2> QED
    BY <2>1, StutterSteps DEF payVars
<1>2. CASE BillNext
  <2>1. ASSUME NEW b \in Bills, FinalizeCaptured(b)
        PROVE  Book!BookNext
    BY <2>1, IssueStep DEF FinalizeCaptured, Book!BookNext
  <2>2. ASSUME NEW r \in requests, FinalizeCommit(r)
        PROVE  Book!BookNext
    <3>1. r.bill \in Bills
      BY DEF Inv, TypeOK, Requests
    <3> QED
      BY <2>2, <3>1, IssueStep DEF FinalizeCommit, StillReviewed, Book!BookNext
  <2>3. ASSUME NEW r \in requests, VoidCommit(r)
        PROVE  Book!BookNext
    BY <2>3, CancelStep DEF Book!BookNext
  <2>4. CASE \/ \E b \in Bills, m \in Members :
                  FinalizeReadCaller(b, m) \/ VoidReadCaller(b, m)
             \/ \E r \in requests : \/ FinalizeReadMembers(r)
                                    \/ FinalizeReadBank(r)
                                    \/ RequestEnds(r)
    <3>1. UNCHANGED <<billVars, payVars>>
      BY <2>4 DEF FinalizeReadCaller, VoidReadCaller, FinalizeReadMembers,
                  FinalizeReadBank, RequestEnds
    <3> QED
      BY <3>1, StutterSteps DEF payVars
  <2> QED
    BY <1>2, <2>1, <2>2, <2>3, <2>4 DEF BillNext
<1>3. CASE PaymentNext
  <2>1. PICK p \in Payments, m \in Members :
          \/ \E c \in Members, S \in SUBSET Debts : CreatePayment(p, m, c, S)
          \/ SubmitProof(p, m)
          \/ ConfirmPayment(p, m)
          \/ RejectPayment(p, m)
    BY <1>3 DEF PaymentNext
  <2>2. PICK T \in SUBSET Debts : T = payDebts[p]
    BY DEF Inv, TypeOK
  <2>3. CASE \E c \in Members, S \in SUBSET Debts : CreatePayment(p, m, c, S)
    <3>1. UNCHANGED billVars
      BY <2>3 DEF CreatePayment
    <3>2. \A q \in Payments :
            \/ payStatus'[q] = payStatus[q] /\ payDebts'[q] = payDebts[q]
            \/ /\ payStatus[q] # "pending_confirmation"
               /\ payStatus'[q] # "pending_confirmation"
      BY <2>3 DEF CreatePayment, PendingProofs, Inv, TypeOK
    <3> QED
      BY <3>1, <3>2, StutterSteps
  <2>4. CASE SubmitProof(p, m)
    <3>1. Book!Claim(T)
      BY <2>2, <2>4, ClaimStep
    <3> QED
      BY <3>1 DEF Book!BookNext
  <2>5. CASE ConfirmPayment(p, m) \/ RejectPayment(p, m)
    <3>1. Book!Pay(T) \/ Book!Release(T)
      BY <2>2, <2>5, AnswerSteps
    <3> QED
      BY <3>1 DEF Book!BookNext
  <2> QED
    BY <2>1, <2>3, <2>4, <2>5
<1>4. CASE UNCHANGED vars
  BY <1>4, StutterSteps DEF vars, payVars
<1> QED
  BY <1>1, <1>2, <1>3, <1>4 DEF Next

\* The ledger keeps every promise of the abstract book of debts.
THEOREM LedgerImplementsBook == Spec => BookSpec
BY BookInitial, BookStep, Invariance, PTL DEF Spec, BookSpec, Book!BookSpec

-----------------------------------------------------------------------------
(* The amounts of the ledger. *)

LEMMA Amounts ==
  /\ IsFiniteSet(Debts)
  /\ \A d \in Debts : AmountOf[d] \in Nat
  /\ \A S \in SUBSET Debts : IsFiniteSet(S) /\ Sum(S) \in Nat
  /\ \A S, T \in SUBSET Debts : S \cap T = {} => Sum(S \cup T) = Sum(S) + Sum(T)
  /\ Sum({}) = 0
<1>1. IsFiniteSet(Debts)
  <2>1. IsFiniteSet(Bills \X Members)
    BY LedgerAssumption, FS_Product
  <2>2. Debts \in SUBSET (Bills \X Members)
    BY DEF Debts
  <2> QED
    BY <2>1, <2>2, FS_Subset
<1>2. \A d \in Debts : AmountOf[d] \in Nat
  BY SettlementAssumption DEF Debts, AmountOf
<1>3. \A S \in SUBSET Debts : IsFiniteSet(S)
  BY <1>1, FS_Subset
<1>4. \A S \in SUBSET Debts : Sum(S) \in Nat
  BY <1>2, <1>3, SumNat DEF Sum
<1>5. ASSUME NEW S \in SUBSET Debts, NEW T \in SUBSET Debts, S \cap T = {}
      PROVE  Sum(S \cup T) = Sum(S) + Sum(T)
  BY <1>2, <1>3, <1>5, SumUnion DEF Sum
<1> QED
  BY <1>1, <1>2, <1>3, <1>4, <1>5, SumEmpty DEF Sum

\* The amount of a payment is the sum of the debts it was made for.
AmountsFixed ==
  /\ payAmount \in [Payments -> Nat]
  /\ \A p \in Payments : payStatus[p] # "none" => payAmount[p] = Sum(payDebts[p])

LEMMA AmountsInit == Init => AmountsFixed
BY DEF Init, AmountsFixed

LEMMA AmountsStep ==
  ASSUME Inv, AmountsFixed, [Next]_vars
  PROVE  AmountsFixed'
<1>1. ASSUME NEW p \in Payments, NEW m \in Members, NEW c \in Members,
             NEW S \in SUBSET Debts, CreatePayment(p, m, c, S)
      PROVE  AmountsFixed'
  <2>1. Sum(S) \in Nat
    BY Amounts
  <2>2. payAmount' = [payAmount EXCEPT ![p] = Sum(S)] /\ payDebts' = [payDebts EXCEPT ![p] = S]
    BY <1>1 DEF CreatePayment, CodeAmount
  <2>3. \A q \in Payments \ {p} : payStatus'[q] # "none" => payStatus[q] # "none"
    BY <1>1 DEF CreatePayment, PendingProofs
  <2>4. payAmount' \in [Payments -> Nat]
    BY <2>1, <2>2 DEF AmountsFixed
  <2>5. ASSUME NEW q \in Payments, payStatus'[q] # "none"
        PROVE  payAmount'[q] = Sum(payDebts'[q])
    <3>1. CASE q = p
      BY <2>2, <3>1 DEF AmountsFixed, Inv, TypeOK
    <3>2. CASE q # p
      <4>1. payAmount'[q] = payAmount[q] /\ payDebts'[q] = payDebts[q]
        BY <2>2, <3>2 DEF AmountsFixed, Inv, TypeOK
      <4> QED
        BY <2>3, <2>5, <3>2, <4>1 DEF AmountsFixed
    <3> QED
      BY <3>1, <3>2
  <2>6. \A q \in Payments : Sum(payDebts[q])' = Sum(payDebts'[q])
    BY DEF Sum
  <2> QED
    BY <2>4, <2>5, <2>6 DEF AmountsFixed
<1>2. CASE /\ UNCHANGED <<payAmount, payDebts>>
           /\ \A q \in Payments : payStatus'[q] # "none" => payStatus[q] # "none"
  BY <1>2 DEF AmountsFixed, Sum
<1>3. \/ \E p \in Payments, m \in Members, c \in Members, S \in SUBSET Debts :
           CreatePayment(p, m, c, S)
      \/ /\ UNCHANGED <<payAmount, payDebts>>
         /\ \A q \in Payments : payStatus'[q] # "none" => payStatus[q] # "none"
  <2>1. CASE MemberNext \/ UNCHANGED vars
    BY <2>1 DEF MemberNext, RedeemInvite, LeaveOrRemoveMember, TransferCaptain, DisbandGroup,
      UpdateBankProfile, vars, payVars
  <2>2. CASE BillNext
    <3>1. ASSUME NEW r \in requests, VoidCommit(r)
          PROVE  /\ UNCHANGED <<payAmount, payDebts>>
                 /\ \A q \in Payments : payStatus'[q] # "none" => payStatus[q] # "none"
      BY <3>1 DEF VoidCommit, CodesOver
    <3>2. (\E r \in requests : VoidCommit(r)) \/ UNCHANGED payVars
      BY <2>2 DEF BillNext, FinalizeReadCaller, VoidReadCaller, FinalizeCaptured,
        FinalizeReadMembers, FinalizeReadBank, FinalizeCommit, RequestEnds
    <3> QED
      BY <3>1, <3>2 DEF payVars
  <2>3. ASSUME NEW p \in Payments, NEW m \in Members,
               SubmitProof(p, m) \/ ConfirmPayment(p, m) \/ RejectPayment(p, m)
        PROVE  /\ UNCHANGED <<payAmount, payDebts>>
               /\ \A q \in Payments : payStatus'[q] # "none" => payStatus[q] # "none"
    BY <2>3 DEF SubmitProof, ConfirmPayment, RejectPayment, Finishable, Inv, TypeOK
  <2> QED
    BY <2>1, <2>2, <2>3 DEF Next, PaymentNext
<1> QED
  BY <1>1, <1>2, <1>3

-----------------------------------------------------------------------------
(* What is settled is what was paid. *)

SettledOf(m, side) == {d \in Debts : debtStatus[d] = "settled" /\ PairOf(d)[side] = m}
PaidFor(m, side) == {p \in Payments : payStatus[p] = "confirmed" /\ payPair[p][side] = m}

LEMMA SettledIsPaid ==
  ASSUME Inv, AmountsFixed, NEW m \in Members, NEW side \in {1, 2}
  PROVE  Sum(SettledOf(m, side)) = Paid(m, side)
<1> DEFINE By(Q) == {d \in SettledOf(m, side) : debtPayment[d] \in Q}
           PaidBy(Q) == {p \in Q : p \in PaidFor(m, side)}
           F == {Q \in SUBSET Payments : Sum(By(Q)) = SumFunctionOnSet(payAmount, PaidBy(Q))}
<1>1. {} \in F
  <2>1. By({}) = {} /\ PaidBy({}) = {}
    OBVIOUS
  <2> QED
    BY <2>1, Amounts, SumEmpty
<1>2. ASSUME NEW Q \in F, NEW p \in Payments \ Q PROVE Q \cup {p} \in F
  <2> DEFINE U == Q \cup {p}
             D == {d \in SettledOf(m, side) : debtPayment[d] = p}
  <2>1. By(U) = By(Q) \cup D /\ By(Q) \cap D = {} /\ By(Q) \in SUBSET Debts /\ D \in SUBSET Debts
    BY DEF SettledOf
  <2>2. Sum(By(U)) = Sum(By(Q)) + Sum(D)
    BY <2>1, Amounts
  <2>3. IsFiniteSet(PaidBy(U)) /\ \A q \in PaidBy(U) : payAmount[q] \in Nat
    <3>1. PaidBy(U) \in SUBSET Payments
      OBVIOUS
    <3> QED
      BY <3>1, LedgerAssumption, FS_Subset DEF AmountsFixed
  <2>4. Sum(By(Q)) \in Nat
    BY <2>1, Amounts
  <2>5. CASE p \in PaidFor(m, side)
    <3>1. D = payDebts[p]
      BY <2>5 DEF Inv, TypeOK, DebtsFollowPayments, PaymentsWellFormed, SettledOf, PaidFor
    <3>2. PaidBy(U) \ {p} = PaidBy(Q) /\ p \in PaidBy(U)
      BY <2>5
    <3>3. SumFunctionOnSet(payAmount, PaidBy(U)) = payAmount[p] + SumFunctionOnSet(payAmount, PaidBy(Q))
      BY <2>3, <3>2, SumRemove
    <3>4. payAmount[p] = Sum(D) /\ payAmount[p] \in Nat
      BY <2>5, <3>1 DEF AmountsFixed, PaidFor
    <3>5. Sum(By(U)) = SumFunctionOnSet(payAmount, PaidBy(U))
      BY <2>2, <2>4, <3>3, <3>4
    <3> QED
      BY <3>5
  <2>6. CASE p \notin PaidFor(m, side)
    <3>1. D = {}
      BY <2>6 DEF Inv, TypeOK, DebtsFollowPayments, PaymentsWellFormed, SettledOf, PaidFor
    <3>2. PaidBy(U) = PaidBy(Q)
      BY <2>6
    <3>3. Sum(By(U)) = SumFunctionOnSet(payAmount, PaidBy(U))
      BY <2>2, <2>4, <3>1, <3>2, Amounts
    <3> QED
      BY <3>3
  <2> QED
    BY <2>5, <2>6
<1>3. Payments \in F
  <2>1. F \in SUBSET (SUBSET Payments)
    OBVIOUS
  <2> HIDE DEF F
  <2> QED
    BY <1>1, <1>2, <2>1, LedgerAssumption, SubsetInduction
<1>4. By(Payments) = SettledOf(m, side)
  BY DEF Inv, DebtsFollowPayments, SettledOf
<1>5. PaidBy(Payments) = {p \in Payments : payStatus[p] = "confirmed" /\ payPair[p][side] = m}
  BY DEF PaidFor
<1> QED
  BY <1>3, <1>4, <1>5 DEF Paid

\* What is owed or settled is what the bills in force ask for.
LEMMA ChargedIsShownOrSettled ==
  ASSUME Inv, NEW m \in Members, NEW side \in {1, 2}
  PROVE  Charged(m, side) = Sum({d \in Shown : PairOf(d)[side] = m}) + Sum(SettledOf(m, side))
<1> DEFINE S == {d \in Shown : PairOf(d)[side] = m}
           T == SettledOf(m, side)
<1>1. \A d \in Debts : billStatus[BillOf(d)] = "finalized" <=>
                         debtStatus[d] \in {"awaiting", "pending_confirmation", "settled"}
  BY DebtParts DEF Inv, TypeOK, BillsAndDebtsAgree, BillStatuses, DebtStatuses
<1>2. {d \in Debts : billStatus[BillOf(d)] = "finalized" /\ PairOf(d)[side] = m} = S \cup T
  BY <1>1 DEF Shown, SettledOf
<1>3. S \cap T = {} /\ S \in SUBSET Debts /\ T \in SUBSET Debts
  BY DEF Shown, SettledOf
<1>4. Sum(S \cup T) = Sum(S) + Sum(T)
  <2> HIDE DEF S, T
  <2> QED BY <1>3, Amounts
<1> QED
  BY <1>2, <1>4 DEF Charged

-----------------------------------------------------------------------------
(* The matrix. *)

Directional(p) == Sum({d \in Shown : PairOf(d) = p})
Net(p) == Directional(p) - Directional(<<p[2], p[1]>>)
RowOf(p) == [debtor |-> p[1], creditor |-> p[2], amount |-> Net(p)]

LEMMA MatrixRows ==
  /\ DebtMatrix = {RowOf(p) : p \in {q \in {PairOf(d) : d \in Shown} : Net(q) > 0}}
  /\ IsFiniteSet(DebtMatrix)
  /\ \A row \in DebtMatrix : row.amount \in Nat
  /\ \A p \in Members \X Members : Directional(p) \in Nat /\ Net(p) \in Int
<1>1. DebtMatrix = {RowOf(p) : p \in {q \in {PairOf(d) : d \in Shown} : Net(q) > 0}}
  BY DEF DebtMatrix, RowOf, Net, Directional
<1>2. Shown \in SUBSET Debts /\ IsFiniteSet(Shown)
  BY Amounts DEF Shown
<1>3. \A p : Directional(p) \in Nat
  <2> SUFFICES ASSUME NEW p PROVE Directional(p) \in Nat
    OBVIOUS
  <2>1. {d \in Shown : PairOf(d) = p} \in SUBSET Debts
    BY <1>2
  <2> QED
    BY <2>1, Amounts DEF Directional
<1>4. \A p : Net(p) \in Int
  BY <1>3 DEF Net
<1>5. IsFiniteSet(DebtMatrix)
  <2> DEFINE rows == {RowOf(PairOf(d)) : d \in Shown}
           row == [d \in Shown |-> RowOf(PairOf(d))]
  <2>1. IsFiniteSet(rows)
    <3>1. row \in Surjection(Shown, rows)
      BY DEF Surjection
    <3> HIDE DEF row, rows
    <3> QED
      BY <1>2, <3>1, FS_Surjection
  <2>2. DebtMatrix \in SUBSET rows
    BY <1>1
  <2> QED
    BY <2>1, <2>2, FS_Subset
<1>6. \A row \in DebtMatrix : row.amount \in Nat
  BY <1>1, <1>4 DEF RowOf
<1> QED
  BY <1>1, <1>3, <1>4, <1>5, <1>6

\* RowsTotal reads one amount per row, whichever set of rows it is asked for.
LEMMA RowsAddUp ==
  /\ \A S \in SUBSET DebtMatrix : RowsTotal(S) \in Nat
  /\ \A S, T \in SUBSET DebtMatrix : S \cap T = {} => RowsTotal(S \cup T) = RowsTotal(S) + RowsTotal(T)
  /\ \A row \in DebtMatrix : RowsTotal({row}) = row.amount
  /\ RowsTotal({}) = 0
<1> DEFINE f == [row \in DebtMatrix |-> row.amount]
<1>1. \A S \in SUBSET DebtMatrix : IsFiniteSet(S)
  BY MatrixRows, FS_Subset
<1>2. ASSUME NEW S \in SUBSET DebtMatrix PROVE RowsTotal(S) = SumFunctionOnSet(f, S)
  <2> DEFINE g == [row \in S |-> row.amount]
  <2>1. \A row \in S : g[row] \in Nat /\ g[row] = f[row]
    BY MatrixRows
  <2> HIDE DEF f, g
  <2>2. SumFunctionOnSet(g, S) = SumFunctionOnSet(f, S)
    BY <1>1, <2>1, SumSame
  <2> QED
    BY <2>2 DEF RowsTotal, g
<1>3. \A row \in DebtMatrix : f[row] = row.amount /\ f[row] \in Nat
  BY MatrixRows
<1> HIDE DEF f
<1>4. \A S \in SUBSET DebtMatrix : RowsTotal(S) \in Nat
  BY <1>1, <1>2, <1>3, SumNat
<1>5. ASSUME NEW S \in SUBSET DebtMatrix, NEW T \in SUBSET DebtMatrix, S \cap T = {}
      PROVE  RowsTotal(S \cup T) = RowsTotal(S) + RowsTotal(T)
  <2>1. SumFunctionOnSet(f, S \cup T) = SumFunctionOnSet(f, S) + SumFunctionOnSet(f, T)
    BY <1>1, <1>3, <1>5, SumUnion
  <2>2. S \cup T \in SUBSET DebtMatrix
    OBVIOUS
  <2> QED
    BY <1>2, <2>1, <2>2
<1>6. RowsTotal({}) = 0
  BY <1>2, SumEmpty
<1>7. ASSUME NEW row \in DebtMatrix PROVE RowsTotal({row}) = row.amount
  <2>1. {row} \in SUBSET DebtMatrix
    OBVIOUS
  <2>2. f[row] \in Int /\ f[row] = row.amount
    BY <1>3
  <2>3. SumFunctionOnSet(f, {row}) = f[row]
    BY <2>2, SumSingle
  <2> QED
    BY <1>2, <2>1, <2>2, <2>3
<1> QED
  BY <1>4, <1>5, <1>6, <1>7

\* The row between a member and another one, if there is one.
LEMMA RowsOfPair ==
  ASSUME NEW p \in Members \X Members
  PROVE  /\ {row \in DebtMatrix : row.debtor = p[1] /\ row.creditor = p[2]} =
              IF Net(p) > 0 THEN {RowOf(p)} ELSE {}
         /\ RowsTotal({row \in DebtMatrix : row.debtor = p[1] /\ row.creditor = p[2]}) =
              IF Net(p) > 0 THEN Net(p) ELSE 0
<1> DEFINE rows == {row \in DebtMatrix : row.debtor = p[1] /\ row.creditor = p[2]}
<1>1. \A d \in Shown : PairOf(d) \in Members \X Members
  BY DebtParts DEF Shown
<1>2. ASSUME NEW row \in rows PROVE row = RowOf(p) /\ Net(p) > 0
  <2>1. PICK q \in {PairOf(d) : d \in Shown} : Net(q) > 0 /\ row = RowOf(q)
    BY MatrixRows
  <2>2. q \in Members \X Members
    BY <1>1
  <2>3. q = p
    BY <2>1, <2>2 DEF RowOf
  <2> QED
    BY <2>1, <2>3
<1>3. ASSUME Net(p) > 0 PROVE RowOf(p) \in rows
  <2>1. \E d \in Shown : PairOf(d) = p
    <3> SUFFICES ASSUME \A d \in Shown : PairOf(d) # p PROVE FALSE
      OBVIOUS
    <3>1. Directional(p) = 0
      <4>1. {d \in Shown : PairOf(d) = p} = {}
        OBVIOUS
      <4> QED
        BY <4>1, Amounts DEF Directional
    <3>2. <<p[2], p[1]>> \in Members \X Members
      OBVIOUS
    <3>3. Directional(<<p[2], p[1]>>) \in Nat
      BY <3>2, MatrixRows
    <3> QED
      BY <1>3, <3>1, <3>3 DEF Net
  <2>2. RowOf(p) \in DebtMatrix
    BY <1>3, <2>1, MatrixRows
  <2> QED
    BY <2>2 DEF RowOf
<1>4. rows = IF Net(p) > 0 THEN {RowOf(p)} ELSE {}
  BY <1>2, <1>3
<1> HIDE DEF rows
<1>5. RowsTotal(rows) = IF Net(p) > 0 THEN Net(p) ELSE 0
  <2>1. CASE Net(p) > 0
    <3>1. RowOf(p) \in DebtMatrix
      BY <1>3, <2>1 DEF rows
    <3>2. RowsTotal({RowOf(p)}) = Net(p)
      BY <3>1, RowsAddUp DEF RowOf
    <3> QED
      BY <1>4, <2>1, <3>2
  <2>2. CASE ~(Net(p) > 0)
    BY <1>4, <2>2, RowsAddUp
  <2> QED
    BY <2>1, <2>2
<1> QED
  BY <1>4, <1>5 DEF rows

\* A member's rows add up to what it is owed less what it owes: true of the
\* rows and debts with any set of other members, one member at a time.
LEMMA MatrixIsBalance ==
  ASSUME NEW m \in Members
  PROVE  OwedTo(m) - OwedBy(m) =
           RowsTotal({row \in DebtMatrix : row.creditor = m})
           - RowsTotal({row \in DebtMatrix : row.debtor = m})
<1> DEFINE To(Q) == {d \in Shown : PairOf(d)[2] = m /\ PairOf(d)[1] \in Q}
           From(Q) == {d \in Shown : PairOf(d)[1] = m /\ PairOf(d)[2] \in Q}
           RowsTo(Q) == {row \in DebtMatrix : row.creditor = m /\ row.debtor \in Q}
           RowsFrom(Q) == {row \in DebtMatrix : row.debtor = m /\ row.creditor \in Q}
           F == {Q \in SUBSET Members :
                   Sum(To(Q)) - Sum(From(Q)) = RowsTotal(RowsTo(Q)) - RowsTotal(RowsFrom(Q))}
<1>1. {} \in F
  <2>1. To({}) = {} /\ From({}) = {} /\ RowsTo({}) = {} /\ RowsFrom({}) = {}
    OBVIOUS
  <2>2. Sum(To({})) - Sum(From({})) = RowsTotal(RowsTo({})) - RowsTotal(RowsFrom({}))
    <3> HIDE DEF To, From, RowsTo, RowsFrom
    <3> QED
      BY <2>1, Amounts, RowsAddUp
  <2> QED
    BY <2>2
<1>2. ASSUME NEW Q \in F, NEW q \in Members \ Q PROVE Q \cup {q} \in F
  <2> DEFINE U == Q \cup {q}
             D == {d \in Shown : PairOf(d) = <<q, m>>}
             E == {d \in Shown : PairOf(d) = <<m, q>>}
             R == {row \in DebtMatrix : row.debtor = q /\ row.creditor = m}
             S == {row \in DebtMatrix : row.debtor = m /\ row.creditor = q}
  <2>0. \A d \in Shown : d \in Debts /\ PairOf(d) = <<PairOf(d)[1], PairOf(d)[2]>>
    BY DebtParts DEF Shown, PairOf
  <2>1. Sum(To(U)) = Sum(To(Q)) + Directional(<<q, m>>)
    <3>1. To(U) = To(Q) \cup D /\ To(Q) \cap D = {} /\ To(Q) \in SUBSET Debts /\ D \in SUBSET Debts
      BY <2>0
    <3> QED
      BY <3>1, Amounts DEF Directional
  <2>2. Sum(From(U)) = Sum(From(Q)) + Directional(<<m, q>>)
    <3>1. From(U) = From(Q) \cup E /\ From(Q) \cap E = {} /\ From(Q) \in SUBSET Debts
          /\ E \in SUBSET Debts
      BY <2>0
    <3> QED
      BY <3>1, Amounts DEF Directional
  <2>3. RowsTotal(RowsTo(U)) = RowsTotal(RowsTo(Q)) + RowsTotal(R)
    <3>1. RowsTo(U) = RowsTo(Q) \cup R /\ RowsTo(Q) \cap R = {}
          /\ RowsTo(Q) \in SUBSET DebtMatrix /\ R \in SUBSET DebtMatrix
      OBVIOUS
    <3> HIDE DEF RowsTo, R
    <3> QED
      BY <3>1, RowsAddUp
  <2>4. RowsTotal(RowsFrom(U)) = RowsTotal(RowsFrom(Q)) + RowsTotal(S)
    <3>1. RowsFrom(U) = RowsFrom(Q) \cup S /\ RowsFrom(Q) \cap S = {}
          /\ RowsFrom(Q) \in SUBSET DebtMatrix /\ S \in SUBSET DebtMatrix
      OBVIOUS
    <3> HIDE DEF RowsFrom, S
    <3> QED
      BY <3>1, RowsAddUp
  <2>5. RowsTotal(R) = IF Net(<<q, m>>) > 0 THEN Net(<<q, m>>) ELSE 0
    <3>1. <<q, m>> \in Members \X Members /\ <<q, m>>[1] = q /\ <<q, m>>[2] = m
      OBVIOUS
    <3> QED
      BY <3>1, RowsOfPair
  <2>6. RowsTotal(S) = IF Net(<<m, q>>) > 0 THEN Net(<<m, q>>) ELSE 0
    <3>1. <<m, q>> \in Members \X Members /\ <<m, q>>[1] = m /\ <<m, q>>[2] = q
      OBVIOUS
    <3> QED
      BY <3>1, RowsOfPair
  <2>7. /\ Directional(<<q, m>>) \in Nat /\ Directional(<<m, q>>) \in Nat
        /\ Net(<<q, m>>) = Directional(<<q, m>>) - Directional(<<m, q>>)
        /\ Net(<<m, q>>) = Directional(<<m, q>>) - Directional(<<q, m>>)
    BY MatrixRows DEF Net
  <2>8. /\ Sum(To(Q)) \in Nat /\ Sum(From(Q)) \in Nat
        /\ RowsTotal(RowsTo(Q)) \in Nat /\ RowsTotal(RowsFrom(Q)) \in Nat
    <3>1. To(Q) \in SUBSET Debts /\ From(Q) \in SUBSET Debts
      BY <2>0
    <3>2. RowsTo(Q) \in SUBSET DebtMatrix /\ RowsFrom(Q) \in SUBSET DebtMatrix
      OBVIOUS
    <3> HIDE DEF To, From, RowsTo, RowsFrom
    <3> QED
      BY <3>1, <3>2, Amounts, RowsAddUp
  <2>9. Sum(To(Q)) - Sum(From(Q)) = RowsTotal(RowsTo(Q)) - RowsTotal(RowsFrom(Q))
    OBVIOUS
  <2>10. Sum(To(U)) - Sum(From(U)) = RowsTotal(RowsTo(U)) - RowsTotal(RowsFrom(U))
    <3> HIDE DEF To, From, RowsTo, RowsFrom, R, S, U, F
    <3> QED
      BY <2>1, <2>2, <2>3, <2>4, <2>5, <2>6, <2>7, <2>8, <2>9
  <2> QED
    BY <2>10
<1>3. Members \in F
  <2>1. F \in SUBSET (SUBSET Members)
    OBVIOUS
  <2> HIDE DEF F
  <2> QED
    BY <1>1, <1>2, <2>1, LedgerAssumption, SubsetInduction
<1>4. To(Members) = {d \in Shown : PairOf(d)[2] = m} /\ From(Members) = {d \in Shown : PairOf(d)[1] = m}
  BY DebtParts DEF Shown
<1>5. \A row \in DebtMatrix : row.debtor \in Members /\ row.creditor \in Members
  <2> SUFFICES ASSUME NEW row \in DebtMatrix PROVE row.debtor \in Members /\ row.creditor \in Members
    OBVIOUS
  <2>1. PICK d \in Shown : row = RowOf(PairOf(d))
    BY MatrixRows
  <2> QED
    BY <2>1, DebtParts DEF Shown, RowOf
<1>6. /\ RowsTo(Members) = {row \in DebtMatrix : row.creditor = m}
      /\ RowsFrom(Members) = {row \in DebtMatrix : row.debtor = m}
  BY <1>5
<1> QED
  BY <1>3, <1>4, <1>6 DEF OwedTo, OwedBy

\* The ledger's views in a state with the invariants.
LEMMA MoneyAdds == Inv /\ AmountsFixed => MoneyConserved
<1> SUFFICES ASSUME Inv, AmountsFixed, NEW m \in Members
             PROVE  /\ ExpenseSummary(m).settled = Paid(m, 1)
                    /\ CallerDebtTotals(m).payable = Charged(m, 1) - Paid(m, 1)
                    /\ CallerDebtTotals(m).receivable = Charged(m, 2) - Paid(m, 2)
                    /\ ExpenseSummary(m).netBalance =
                         CallerDebtTotals(m).receivable - CallerDebtTotals(m).payable
                    /\ ExpenseSummary(m).netBalance =
                         RowsTotal({row \in DebtMatrix : row.creditor = m})
                         - RowsTotal({row \in DebtMatrix : row.debtor = m})
  BY DEF MoneyConserved
<1>1. /\ ExpenseSummary(m).settled = Sum(SettledOf(m, 1))
      /\ ExpenseSummary(m).netBalance = OwedTo(m) - OwedBy(m)
      /\ CallerDebtTotals(m).payable = OwedBy(m)
      /\ CallerDebtTotals(m).receivable = OwedTo(m)
  BY DEF ExpenseSummary, CallerDebtTotals, SettledOf
<1>2. Sum(SettledOf(m, 1)) = Paid(m, 1) /\ Sum(SettledOf(m, 2)) = Paid(m, 2)
  BY SettledIsPaid
<1>3. Charged(m, 1) = OwedBy(m) + Sum(SettledOf(m, 1))
      /\ Charged(m, 2) = OwedTo(m) + Sum(SettledOf(m, 2))
  BY ChargedIsShownOrSettled DEF OwedBy, OwedTo
<1>4. /\ OwedBy(m) \in Nat /\ OwedTo(m) \in Nat
      /\ Sum(SettledOf(m, 1)) \in Nat /\ Sum(SettledOf(m, 2)) \in Nat
  <2>1. /\ {d \in Shown : PairOf(d)[1] = m} \in SUBSET Debts
        /\ {d \in Shown : PairOf(d)[2] = m} \in SUBSET Debts
        /\ SettledOf(m, 1) \in SUBSET Debts /\ SettledOf(m, 2) \in SUBSET Debts
    BY DEF Shown, SettledOf
  <2> QED
    BY <2>1, Amounts DEF OwedBy, OwedTo
<1> QED
  BY <1>1, <1>2, <1>3, <1>4, MatrixIsBalance

\* GetDebtMatrix, GetCallerDebtTotals and GetExpenseSummary show every member
\* what the finalized bills ask of it less its confirmed payments, whatever
\* finalizes, voids, codes, proofs and answers came before, for every number of
\* members, bills and payments and all amounts.
THEOREM MoneyIsConserved == Spec => []MoneyConserved
<1>1. Inv /\ AmountsFixed /\ [Next]_vars => AmountsFixed'
  BY AmountsStep
<1> QED
  BY <1>1, AmountsInit, InitInv, NextInv, MoneyAdds, PTL DEF Spec
=============================================================================
