----------------------------- MODULE Settlement -----------------------------
(***************************************************************************)
(* The ledger of one PaySplit group: its members, its reviewed bills, the  *)
(* debts that finalizing a bill creates, and the payments that settle      *)
(* them.                                                                   *)
(*                                                                         *)
(* Every mutation runs in one PostgreSQL transaction that first takes the  *)
(* row of the group FOR UPDATE (LockActiveGroup), so each transaction is   *)
(* one action whose first conjunct is GroupLocked.  What is NOT atomic is  *)
(* modelled as it is: the single-bill finalize and void read the caller,   *)
(* the members and the bank profile before the transaction starts, and     *)
(* only then lock.  Such a call is a record in `requests`, which other     *)
(* transactions interleave with and which may disappear (timeout, crash).  *)
(*                                                                         *)
(* The content of a bill is fixed here: its editing, the idempotency keys, *)
(* the upload of a proof and the reminders are not part of this module.    *)
(***************************************************************************)
EXTENDS Naturals, FiniteSets, Functions

CONSTANTS
  Members,       \* memberships (rows of group_members)
  Founder,       \* the member who created the group
  Bills,         \* bills, reviewed at the start
  Payments,      \* identifiers of payments
  NoPayment,     \* debts.payment_id IS NULL
  Creditor,      \* Creditor[b]: the member who paid bill b
  Owes,          \* Owes[b]: the members whose share of b is positive
  Amount,        \* Amount[b][m]: that share
  ProfileEditors, \* bound: the members whose bank profile comes and goes; the others have one
  MaxInFlight    \* bound: finalize and void calls between read and commit

ASSUME SettlementAssumption ==
  /\ Founder \in Members
  /\ NoPayment \notin Payments
  /\ Creditor \in [Bills -> Members]
  /\ Owes \in [Bills -> SUBSET Members]
  /\ \A b \in Bills : Creditor[b] \notin Owes[b]
  /\ Amount \in [Bills -> [Members -> Nat]]
  /\ ProfileEditors \subseteq Members
  /\ MaxInFlight \in Nat

VARIABLES
  groupStatus,   \* groups.status
  active,        \* members with group_members.status = 'active'
  captain,       \* the member with role = 'captain'
  bank,          \* members whose user has a complete bank profile
  billStatus,    \* bills.status
  debtStatus,    \* debts.status, "none" before the row exists
  debtPayment,   \* debts.payment_id
  payStatus,     \* payments.status, "none" before the row exists
  payPair,       \* payments.(debtor_member_id, creditor_member_id)
  payDebts,      \* rows of payment_debts
  payAmount,     \* payments.amount
  requests       \* finalize and void calls that have read but not committed

memberVars == <<groupStatus, active, captain, bank>>
billVars == <<billStatus, debtStatus, debtPayment>>
payVars == <<payStatus, payPair, payDebts, payAmount>>
vars == <<memberVars, billVars, payVars, requests>>

-----------------------------------------------------------------------------
(* Rows and what the queries select. *)

\* UNIQUE (bill_id, debtor, creditor), and a bill has one creditor: a debt is
\* its bill and its debtor.
Debts == {d \in Bills \X Members : d[2] \in Owes[d[1]]}
BillOf(d) == d[1]
PairOf(d) == <<d[2], Creditor[d[1]]>>
AmountOf == [d \in Debts |-> Amount[d[1]][d[2]]]
DebtsOfBill(b) == {d \in Debts : BillOf(d) = b}

GroupStatuses == {"active", "archived"}
BillStatuses == {"reviewed", "finalized", "voided"}
DebtStatuses ==
  {"none", "awaiting", "pending_confirmation", "settled", "voided"}
PaymentStatuses ==
  {"none", "pending_proof", "pending_confirmation",
   "confirmed", "rejected", "superseded"}
Stages == {"authorized", "members_read", "bank_read"}
Requests ==
  [op : {"finalize", "void"}, bill : Bills, stage : Stages]

GroupLocked == groupStatus = "active"

\* status NOT IN ('settled', 'voided')
Open(d) == debtStatus[d] \in {"awaiting", "pending_confirmation"}

\* Mutant: the receivable side is not counted.
OpenDebtorDebtsOf(m) == {d \in Debts : Open(d) /\ m = PairOf(d)[1]}

\* SumOpenDebtorTotal and SumOpenCreditorTotal.
OpenDebtsOf(m) == {d \in Debts : Open(d) /\ m \in {PairOf(d)[1], PairOf(d)[2]}}

PendingProofs(pair) ==
  {p \in Payments : payStatus[p] = "pending_proof" /\ payPair[p] = pair}

Sum(S) == SumFunctionOnSet(AmountOf, S)

Init ==
  /\ groupStatus = "active"
  /\ active = Members
  /\ captain = Founder
  /\ bank \in {B \in SUBSET Members : Members \ ProfileEditors \subseteq B}
  /\ billStatus = [b \in Bills |-> "reviewed"]
  /\ debtStatus = [d \in Debts |-> "none"]
  /\ debtPayment = [d \in Debts |-> NoPayment]
  /\ payStatus = [p \in Payments |-> "none"]
  /\ payPair = [p \in Payments |-> <<Founder, Founder>>]
  /\ payDebts = [p \in Payments |-> {}]
  /\ payAmount = [p \in Payments |-> 0]
  /\ requests = {}

-----------------------------------------------------------------------------
(* Membership and bank profiles. *)

\* RedeemInvite: a member who left (or was removed) joins again.
RedeemInvite(m) ==
  /\ GroupLocked
  /\ m \notin active
  /\ active' = active \cup {m}
  /\ UNCHANGED <<groupStatus, captain, bank, billVars, payVars, requests>>

MayLeave(m) == m \in active /\ m # captain /\ OpenDebtsOf(m) = {}

\* LeaveOrRemoveMember: the member itself, or the captain, and only when no
\* open debt names the member.
LeaveOrRemoveMember(m, caller) ==
  /\ GroupLocked
  /\ caller = m \/ (caller \in active /\ caller = captain)
  /\ MayLeave(m)
  /\ active' = active \ {m}
  /\ UNCHANGED <<groupStatus, captain, bank, billVars, payVars, requests>>

TransferCaptain(m, caller) ==
  /\ GroupLocked
  /\ caller \in active
  /\ caller = captain
  /\ m \in active \ {caller}
  /\ captain' = m
  /\ UNCHANGED <<groupStatus, active, bank, billVars, payVars, requests>>

\* Mutant: only the bills are counted.
BillsDone == \A b \in Bills : billStatus[b] \in {"finalized", "voided"}

\* CountUnfinishedBills and CountOpenDebts are both zero.
ObligationsSettled ==
  /\ \A b \in Bills : billStatus[b] \in {"finalized", "voided"}
  /\ \A d \in Debts : ~Open(d)

DisbandGroup(caller) ==
  /\ GroupLocked
  /\ caller \in active
  /\ caller = captain
  /\ ObligationsSettled
  /\ groupStatus' = "archived"
  /\ active' = {}
  /\ UNCHANGED <<captain, bank, billVars, payVars, requests>>

\* UpdateProfile takes no group lock; a bank profile is written or cleared as
\* a whole (validBankGroup).
UpdateBankProfile(m) ==
  /\ m \in ProfileEditors
  /\ bank' = IF m \in bank THEN bank \ {m} ELSE bank \cup {m}
  /\ UNCHANGED <<groupStatus, active, captain, billVars, payVars, requests>>

-----------------------------------------------------------------------------
(* Finalizing and voiding bills. *)

CanAllocate(b) == Owes[b] \cup {Creditor[b]} \subseteq active

\* The writes of finalizeCore: the bill and one awaiting debt per debtor.
WriteFinalized(b) ==
  /\ billStatus' = [billStatus EXCEPT ![b] = "finalized"]
  /\ debtStatus' = [d \in Debts |->
       IF BillOf(d) = b THEN "awaiting" ELSE debtStatus[d]]
  /\ UNCHANGED debtPayment

\* Who calls is not looked at again.
InFlight(op, b, stage) == [op |-> op, bill |-> b, stage |-> stage]

Advance(r, stage) ==
  requests' = (requests \ {r}) \cup {[r EXCEPT !.stage = stage]}

\* finalizeBillImpl reads, outside any transaction and one after the other:
\* the caller and the bill, then the active members, then the bank profile.
\* A check that fails ends the call.
FinalizeReadCaller(b, m) ==
  /\ GroupLocked
  /\ m \in active
  /\ m = captain
  /\ billStatus[b] = "reviewed"
  /\ Cardinality(requests) < MaxInFlight
  /\ requests' = requests \cup {InFlight("finalize", b, "authorized")}
  /\ UNCHANGED <<memberVars, billVars, payVars>>

FinalizeReadMembers(r) ==
  /\ r.op = "finalize" /\ r.stage = "authorized"
  /\ CanAllocate(r.bill)
  /\ Advance(r, "members_read")
  /\ UNCHANGED <<memberVars, billVars, payVars>>

FinalizeReadBank(r) ==
  /\ r.op = "finalize" /\ r.stage = "members_read"
  /\ GroupLocked
  /\ Creditor[r.bill] \in bank
  /\ Advance(r, "bank_read")
  /\ UNCHANGED <<memberVars, billVars, payVars>>

\* Mutant: the UPDATE does not repeat the check of the status.
AnyBill(b) == TRUE

\* WHERE status = 'reviewed' AND version = the version that was read.
StillReviewed(b) == billStatus[b] = "reviewed"

\* The transaction looks only at the group and at the status and version of
\* the bill.
FinalizeCommit(r) ==
  /\ r.op = "finalize" /\ r.stage = "bank_read"
  /\ GroupLocked
  /\ StillReviewed(r.bill)
  /\ WriteFinalized(r.bill)
  /\ requests' = requests \ {r}
  /\ UNCHANGED <<memberVars, payVars>>

\* The worker of a bulk finalize does the same reads inside the transaction.
FinalizeCaptured(b) ==
  /\ GroupLocked
  /\ billStatus[b] = "reviewed"
  /\ CanAllocate(b)
  /\ Creditor[b] \in bank
  /\ WriteFinalized(b)
  /\ UNCHANGED <<memberVars, payVars, requests>>

VoidReadCaller(b, m) ==
  /\ GroupLocked
  /\ m \in active
  /\ m = captain
  /\ billStatus[b] = "finalized"
  /\ Cardinality(requests) < MaxInFlight
  /\ requests' = requests \cup {InFlight("void", b, "authorized")}
  /\ UNCHANGED <<memberVars, billVars, payVars>>

\* Mutant: the debts are not looked at.
FinalizedBill(b) == billStatus[b] = "finalized"

\* Only while no debt of the bill has been claimed.
Voidable(b) ==
  /\ billStatus[b] = "finalized"
  /\ \A d \in DebtsOfBill(b) :
       debtStatus[d] = "awaiting" /\ debtPayment[d] = NoPayment

\* Mutant: only codes for nothing but this bill.
CodesOnlyOver(b) ==
  {p \in Payments :
     payStatus[p] = "pending_proof" /\ payDebts[p] \subseteq DebtsOfBill(b)}

\* The QR codes that cover a debt of the bill.
CodesOver(b) ==
  {p \in Payments :
     payStatus[p] = "pending_proof" /\ payDebts[p] \cap DebtsOfBill(b) # {}}

\* VoidBill repeats every check but the captain's, supersedes the codes and
\* voids the bill and its awaiting debts.
VoidCommit(r) ==
  /\ r.op = "void"
  /\ GroupLocked
  /\ Voidable(r.bill)
  /\ payStatus' = [p \in Payments |->
       IF p \in CodesOver(r.bill) THEN "superseded" ELSE payStatus[p]]
  /\ billStatus' = [billStatus EXCEPT ![r.bill] = "voided"]
  /\ debtStatus' = [d \in Debts |->
       IF BillOf(d) = r.bill /\ debtStatus[d] = "awaiting" THEN "voided"
       ELSE debtStatus[d]]
  /\ requests' = requests \ {r}
  /\ UNCHANGED <<memberVars, debtPayment, payPair, payDebts, payAmount>>

\* The call times out, its process dies, or one of its checks fails.
RequestEnds(r) ==
  /\ requests' = requests \ {r}
  /\ UNCHANGED <<memberVars, billVars, payVars>>

-----------------------------------------------------------------------------
(* Payments. *)

\* Mutant: the amount is everything the debtor owes the creditor.
TotalOwed(m, c, S) ==
  Sum({d \in Debts : PairOf(d) = <<m, c>> /\ debtStatus[d] = "awaiting"})

\* The amount on the QR code: the debts it covers.
CodeAmount(m, c, S) == Sum(S)

\* CreatePayment: a QR code for a set S of awaiting debts of one pair.  An
\* open QR of the pair over exactly S is returned as it is, without a write;
\* over another set it is superseded.
CreatePayment(p, m, c, S) ==
  /\ GroupLocked
  /\ payStatus[p] = "none"
  /\ m \in active
  /\ c \in active
  /\ c \in bank
  /\ S # {}
  /\ \A d \in S : PairOf(d) = <<m, c>> /\ debtStatus[d] = "awaiting"
  /\ \A old \in PendingProofs(<<m, c>>) : payDebts[old] # S
  /\ payStatus' = [q \in Payments |->
       IF q = p THEN "pending_proof"
       ELSE IF q \in PendingProofs(<<m, c>>) THEN "superseded"
       ELSE payStatus[q]]
  /\ payPair' = [payPair EXCEPT ![p] = <<m, c>>]
  /\ payDebts' = [payDebts EXCEPT ![p] = S]
  /\ payAmount' = [payAmount EXCEPT ![p] = CodeAmount(m, c, S)]
  /\ UNCHANGED <<memberVars, billVars, requests>>

\* SubmitProof: the proof claims every debt of the payment.
SubmitProof(p, m) ==
  /\ GroupLocked
  /\ m \in active
  /\ payDebts[p] # {}
  /\ \A d \in payDebts[p] : debtStatus[d] = "awaiting"
  /\ m = payPair[p][1]
  /\ payStatus[p] = "pending_proof"
  /\ payPair[p][2] \in active \cap bank
  /\ payStatus' = [payStatus EXCEPT ![p] = "pending_confirmation"]
  /\ debtStatus' = [d \in Debts |->
       IF d \in payDebts[p] THEN "pending_confirmation" ELSE debtStatus[d]]
  /\ debtPayment' = [d \in Debts |->
       IF d \in payDebts[p] THEN p ELSE debtPayment[d]]
  /\ UNCHANGED <<memberVars, billStatus, payPair, payDebts, payAmount, requests>>

\* What finishPayment checks before it confirms or rejects.
Finishable(p, m) ==
  /\ GroupLocked
  /\ m \in active
  /\ payDebts[p] # {}
  /\ \A d \in payDebts[p] :
       debtStatus[d] = "pending_confirmation" /\ debtPayment[d] = p
  /\ m = payPair[p][2]
  /\ payStatus[p] = "pending_confirmation"

ConfirmPayment(p, m) ==
  /\ Finishable(p, m)
  /\ payStatus' = [payStatus EXCEPT ![p] = "confirmed"]
  /\ debtStatus' = [d \in Debts |->
       IF d \in payDebts[p] THEN "settled" ELSE debtStatus[d]]
  /\ UNCHANGED <<memberVars, billStatus, debtPayment,
                 payPair, payDebts, payAmount, requests>>

\* Mutant: the debts keep the payment that was rejected.
KeepPayment(p) == debtPayment

\* payment_id = NULL for the debts of the payment.
ReleaseDebts(p) ==
  [d \in Debts |-> IF d \in payDebts[p] THEN NoPayment ELSE debtPayment[d]]

RejectPayment(p, m) ==
  /\ Finishable(p, m)
  /\ payStatus' = [payStatus EXCEPT ![p] = "rejected"]
  /\ debtStatus' = [d \in Debts |->
       IF d \in payDebts[p] THEN "awaiting" ELSE debtStatus[d]]
  /\ debtPayment' = ReleaseDebts(p)
  /\ UNCHANGED <<memberVars, billStatus, payPair, payDebts, payAmount, requests>>

-----------------------------------------------------------------------------
MemberNext ==
  \E m \in Members :
    \/ RedeemInvite(m)
    \/ \E caller \in Members : LeaveOrRemoveMember(m, caller)
    \/ \E caller \in Members : TransferCaptain(m, caller)
    \/ DisbandGroup(m)
    \/ UpdateBankProfile(m)

BillNext ==
  \/ \E b \in Bills, m \in Members :
       FinalizeReadCaller(b, m) \/ VoidReadCaller(b, m)
  \/ \E b \in Bills : FinalizeCaptured(b)
  \/ \E r \in requests :
       \/ FinalizeReadMembers(r)
       \/ FinalizeReadBank(r)
       \/ FinalizeCommit(r)
       \/ VoidCommit(r)
       \/ RequestEnds(r)

PaymentNext ==
  \E p \in Payments, m \in Members :
    \/ \E c \in Members, S \in SUBSET Debts : CreatePayment(p, m, c, S)
    \/ SubmitProof(p, m)
    \/ ConfirmPayment(p, m)
    \/ RejectPayment(p, m)

Next == MemberNext \/ BillNext \/ PaymentNext

Spec == Init /\ [][Next]_vars

-----------------------------------------------------------------------------
(* Properties. *)

\* Every variable has its type (payAmount aside: LedgerViews!MoneyConserved
\* says what it is).
TypeOK ==
  /\ groupStatus \in GroupStatuses
  /\ active \in SUBSET Members
  /\ captain \in Members
  /\ bank \in SUBSET Members
  /\ billStatus \in [Bills -> BillStatuses]
  /\ debtStatus \in [Debts -> DebtStatuses]
  /\ debtPayment \in [Debts -> Payments \cup {NoPayment}]
  /\ payStatus \in [Payments -> PaymentStatuses]
  /\ payPair \in [Payments -> Members \X Members]
  /\ payDebts \in [Payments -> SUBSET Debts]
  /\ requests \in SUBSET Requests

\* A debt that is claimed or settled belongs to exactly the payment that did
\* it, and a payment that is waiting for its creditor or confirmed holds all
\* the debts it was made for: no interleaving of two payments, a rejection, a
\* new QR code and a void lets two payments take one debt or splits the debts
\* of a payment (SubmitProof, finishPayment, VoidBill).
DebtsFollowPayments ==
  /\ \A d \in Debts :
       /\ debtStatus[d] = "pending_confirmation" =>
            /\ debtPayment[d] \in Payments
            /\ d \in payDebts[debtPayment[d]]
            /\ payStatus[debtPayment[d]] = "pending_confirmation"
       /\ debtStatus[d] = "settled" =>
            /\ debtPayment[d] \in Payments
            /\ d \in payDebts[debtPayment[d]]
            /\ payStatus[debtPayment[d]] = "confirmed"
       /\ debtStatus[d] \in {"none", "awaiting", "voided"} =>
            debtPayment[d] = NoPayment
  /\ \A p \in Payments : \A d \in payDebts[p] :
       /\ payStatus[p] = "pending_confirmation" =>
            debtStatus[d] = "pending_confirmation" /\ debtPayment[d] = p
       /\ payStatus[p] = "confirmed" =>
            debtStatus[d] = "settled" /\ debtPayment[d] = p

\* A QR code that can still take a proof asks for debts that are all awaiting,
\* of a finalized bill, and there is one such code per debtor and creditor: a
\* void, another payment or a newer code never leaves a stale one behind
\* (CreatePayment supersedes, VoidBill supersedes).
LiveCodesArePayable ==
  /\ \A p \in Payments : payStatus[p] = "pending_proof" =>
       /\ payDebts[p] # {}
       /\ \A d \in payDebts[p] :
            debtStatus[d] = "awaiting" /\ billStatus[BillOf(d)] = "finalized"
  /\ \A p, q \in Payments :
       /\ payStatus[p] = "pending_proof"
       /\ payStatus[q] = "pending_proof"
       /\ payPair[p] = payPair[q]
       => p = q

\* The debtor and the creditor of a payment that can still move are active
\* members, although finalize does not lock the memberships it reads: the
\* check for open debts in LeaveOrRemoveMember and in DisbandGroup is enough
\* once both have been active at CreatePayment.
PaymentPartiesActive ==
  \A p \in Payments :
    payStatus[p] \in {"pending_proof", "pending_confirmation"} =>
      {payPair[p][1], payPair[p][2]} \subseteq active

\* The debts of a bill exist exactly when it has been finalized, and are
\* voided together with it: a void never leaves an open debt, never touches a
\* paid one, and a debt is never voided under a bill that stands.
BillsAndDebtsAgree ==
  \A d \in Debts :
    /\ billStatus[BillOf(d)] = "reviewed" <=> debtStatus[d] = "none"
    /\ billStatus[BillOf(d)] = "voided" <=> debtStatus[d] = "voided"

\* An archived group has nothing left to pay: no member, no open debt, no
\* payment a creditor still has to answer and no QR code to pay
\* (DisbandGroup against calls that were in flight when it committed).
ArchivedIsSettled ==
  groupStatus = "archived" =>
    /\ active = {}
    /\ \A d \in Debts : ~Open(d)
    /\ \A p \in Payments :
         payStatus[p] \notin {"pending_proof", "pending_confirmation"}

\* While the group is active it has its captain among the active members.
CaptainActive == groupStatus = "active" => captain \in active

\* A confirmed payment is final: no later step changes its debts, and what it
\* settled stays settled by it.
ConfirmedIsFinal ==
  [][\A p \in Payments : payStatus[p] = "confirmed" =>
       /\ payStatus'[p] = "confirmed"
       /\ \A d \in payDebts[p] :
            debtStatus'[d] = "settled" /\ debtPayment'[d] = p]_vars

\* What the invariants above rest on: a payment that has been created covers
\* at least one debt, and only debts of its own debtor and creditor.
PaymentsWellFormed ==
  \A p \in Payments :
    /\ payStatus[p] # "none" => payDebts[p] # {}
    /\ \A d \in payDebts[p] : PairOf(d) = payPair[p]

\* An open debt names only active members, as spec 0002 AC-6 says of leaving
\* and spec 0003 AC-9 of finalizing.  The code does not keep this.
OpenDebtPartiesActive ==
  \A d \in Debts : Open(d) => {PairOf(d)[1], PairOf(d)[2]} \subseteq active

-----------------------------------------------------------------------------
(* What settlement promises of its debts. *)

Book == INSTANCE DebtBook WITH
  owed <- {d \in Debts : debtStatus[d] = "awaiting"},
  claims <- {payDebts[p] : p \in {q \in Payments :
                                    payStatus[q] = "pending_confirmation"}},
  paid <- {d \in Debts : debtStatus[d] = "settled"},
  cancelled <- {d \in Debts : debtStatus[d] = "voided"}

\* The ledger implements the abstract book of debts: debts of a bill appear
\* and are cancelled together, a claim is one set for one creditor, and is
\* paid or released as a whole.
BookSpec == Book!BookSpec
=============================================================================
