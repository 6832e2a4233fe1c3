------------------------------ MODULE DebtBook ------------------------------
(***************************************************************************)
(* What the settlement of one group promises about its debts, with the     *)
(* payments, the members and the requests left out.                        *)
(*                                                                         *)
(* A bill issues all its debts at once.  A debtor claims a set of debts    *)
(* that all go to one creditor; the claim is one thing from then on: the   *)
(* creditor pays it off or releases it as a whole.  The debts of a bill    *)
(* can be cancelled, again all together, only while none of them is        *)
(* claimed or paid.  Paid and cancelled debts never come back.             *)
(***************************************************************************)
CONSTANTS
  Debts,         \* the debts the bills of the group can give rise to
  BillOf(_),     \* the bill a debt belongs to
  PairOf(_),     \* its <<debtor, creditor>>
  Bills          \* the bills

VARIABLES
  owed,          \* debts waiting for their debtor
  claims,        \* sets of debts, each claimed by one proof of payment
  paid,          \* debts their creditor has confirmed
  cancelled      \* debts of voided bills

bookVars == <<owed, claims, paid, cancelled>>

DebtsOf(b) == {d \in Debts : BillOf(d) = b}

Known == owed \cup (UNION claims) \cup paid \cup cancelled

BookInit ==
  /\ owed = {}
  /\ claims = {}
  /\ paid = {}
  /\ cancelled = {}

Issue(b) ==
  /\ DebtsOf(b) \cap Known = {}
  /\ owed' = owed \cup DebtsOf(b)
  /\ UNCHANGED <<claims, paid, cancelled>>

Claim(S) ==
  /\ S # {}
  /\ S \subseteq owed
  /\ \A d, e \in S : PairOf(d) = PairOf(e)
  /\ owed' = owed \ S
  /\ claims' = claims \cup {S}
  /\ UNCHANGED <<paid, cancelled>>

Release(S) ==
  /\ S \in claims
  /\ claims' = claims \ {S}
  /\ owed' = owed \cup S
  /\ UNCHANGED <<paid, cancelled>>

Pay(S) ==
  /\ S \in claims
  /\ claims' = claims \ {S}
  /\ paid' = paid \cup S
  /\ UNCHANGED <<owed, cancelled>>

Cancel(b) ==
  /\ DebtsOf(b) \subseteq owed
  /\ owed' = owed \ DebtsOf(b)
  /\ cancelled' = cancelled \cup DebtsOf(b)
  /\ UNCHANGED <<claims, paid>>

BookNext ==
  \/ \E b \in Bills : Issue(b) \/ Cancel(b)
  \/ \E S \in SUBSET Debts : Claim(S) \/ Release(S) \/ Pay(S)

BookSpec == BookInit /\ [][BookNext]_bookVars
=============================================================================
