----------------------------- MODULE Reminders -----------------------------
(***************************************************************************)
(* Reminders of debts, by hand and by the hourly scan, and the alerts of   *)
(* payments that wait too long, down to the row locks: the requests of     *)
(* members lock the group, then the debt, then its payment; the scan locks *)
(* the debts (or payments) that are due, skips those that are locked, and  *)
(* needs the rows of their groups afterwards, when it inserts an activity  *)
(* (the foreign key group_activities.group_id takes a KEY SHARE lock, which*)
(* waits for FOR UPDATE).  What a transaction writes shows at its commit.  *)
(***************************************************************************)
EXTENDS Integers, FiniteSets

CONSTANTS
  Debts,    \* debts, in the order of their ids
  Groups,
  GroupOf,  \* group of a debt
  Requests, \* requests of members in flight
  Scans,    \* scan jobs in flight, of one or several processes
  Keys,     \* Idempotency-Keys
  MaxCount  \* reminders of one debt (3 in the code)

ASSUME RemindersAssumption ==
  /\ Debts \subseteq Nat \ {0}            \* 0 is "no debt"
  /\ GroupOf \in [Debts -> Groups]
  /\ Requests \cap Scans = {}
  /\ IsFiniteSet(Keys) /\ 0 \notin Keys    \* 0 is "no key"
  /\ MaxCount \in Nat \ {0}

VARIABLES
  status,   \* debts.status
  count,    \* debts.reminder_count
  recent,   \* debts whose last_reminded_at is less than 24 hours ago
  payment,  \* the payment that covers the debt: "none", "fresh", "old"
  alerted,  \* payments whose stalled_alerted_at is set
  keys,     \* payment_idempotency_keys of remind_debt: the debt, 0 if unused
  txs,      \* the open transactions and what they hold
  byScan,   \* history: reminders the scan committed for a debt
  alerts    \* history: alerts committed for the payment of a debt

tables == <<status, count, recent, payment, alerted, keys, byScan, alerts>>
reminderVars == <<tables, txs>>

-----------------------------------------------------------------------------
Transactions == Requests \cup Scans
Ops == {"remind", "submit", "confirm", "reject"}
Rows == {"debt", "payment"} \X Debts
Tx == [phase : {"idle", "begun", "key", "group", "rows",
                 "reminders", "reminded", "stalled"},
       op : Ops, debt : Debts \cup {0}, key : Keys \cup {0},
       group : SUBSET Groups,  \* locked FOR UPDATE
       shared : SUBSET Groups, \* locked FOR KEY SHARE
       rows : SUBSET Rows,     \* debts and payments locked
       todo : SUBSET Debts]    \* what the scan has still to write

RemindersTypeOK ==
  /\ status \in [Debts -> {"awaiting", "pending_confirmation", "settled"}]
  /\ count \in [Debts -> 0..MaxCount]
  /\ recent \subseteq Debts
  /\ payment \in [Debts -> {"none", "fresh", "old"}]
  /\ alerted \subseteq Debts
  /\ keys \in [Keys -> Debts \cup {0}]
  /\ txs \in [Transactions -> Tx]
  /\ byScan \in [Debts -> Nat] /\ alerts \in [Debts -> Nat]

Idle == [phase |-> "idle", op |-> "remind", debt |-> 0, key |-> 0,
         group |-> {}, shared |-> {}, rows |-> {}, todo |-> {}]

RemindersInit ==
  /\ status = [d \in Debts |-> "awaiting"]
  /\ count = [d \in Debts |-> 0]
  /\ recent = {}
  /\ payment = [d \in Debts |-> "none"]
  /\ alerted = {}
  /\ keys = [k \in Keys |-> 0]
  /\ txs = [t \in Transactions |-> Idle]
  /\ byScan = [d \in Debts |-> 0] /\ alerts = [d \in Debts |-> 0]

-----------------------------------------------------------------------------
(* Locks. *)

RowHolders(r) == {t \in Transactions : r \in txs[t].rows}
GroupHolders(g) == {t \in Transactions : g \in txs[t].group}
GroupSharers(g) == {t \in Transactions : g \in txs[t].shared}
\* An inserted key blocks the same INSERT until the end of its transaction.
KeyHolders(k) == {t \in Transactions : txs[t].phase \in {"group", "rows"} /\ txs[t].key = k}

\* The rows an operation locks after the group, debts before payments.
RowsOf(op, d) == IF op = "remind" THEN {<<"debt", d>>}
                 ELSE {<<"debt", d>>, <<"payment", d>>}
NextRow(t) ==
  IF <<"debt", txs[t].debt>> \notin txs[t].rows
  THEN <<"debt", txs[t].debt>> ELSE <<"payment", txs[t].debt>>

\* ORDER BY id.
NextItem(t) == CHOOSE d \in txs[t].todo : \A e \in txs[t].todo : d <= e

\* The transactions t waits for.
Blockers(t) ==
  CASE txs[t].phase = "begun" ->
         GroupHolders(GroupOf[txs[t].debt]) \cup GroupSharers(GroupOf[txs[t].debt])
    [] txs[t].phase = "key" -> KeyHolders(txs[t].key)
    [] txs[t].phase = "group" -> RowHolders(NextRow(t)) \ {t}
    [] txs[t].phase \in {"reminders", "stalled"} /\ txs[t].todo # {} ->
         GroupHolders(GroupOf[NextItem(t)])
    [] OTHER -> {}

Deadlocked(S) == S # {} /\ \A t \in S : Blockers(t) \cap S # {}

Rollback(t) == txs' = [txs EXCEPT ![t] = Idle]

\* deadlock_timeout: one of those that wait for each other is rolled back.
DeadlockVictim(t) ==
  /\ \E S \in SUBSET Transactions : t \in S /\ Deadlocked(S)
  /\ Rollback(t)
  /\ UNCHANGED tables

-----------------------------------------------------------------------------
(* Requests of members: RemindDebt, SubmitProof, finishPayment. *)

Begin(t, op, d, k) ==
  /\ txs[t].phase = "idle"
  /\ txs' = [txs EXCEPT ![t] = [Idle EXCEPT !.phase = "begun", !.op = op,
                                !.debt = d, !.key = IF op = "remind" THEN k ELSE 0]]
  /\ UNCHANGED tables

LockActiveGroup(t) ==
  /\ txs[t].phase = "begun"
  /\ Blockers(t) = {}
  /\ txs' = [txs EXCEPT ![t].phase = IF txs[t].op = "remind" THEN "key" ELSE "group",
                        ![t].group = {GroupOf[txs[t].debt]}]
  /\ UNCHANGED tables

\* Mutant: the row of a key that was used is taken over.
InsertAnyKey(t) ==
  /\ txs[t].phase = "key"
  /\ Blockers(t) = {}
  /\ txs' = [txs EXCEPT ![t].phase = "group"]
  /\ UNCHANGED tables

\* A key that was used replays its answer, or conflicts: nothing changes.
InsertKey(t) ==
  /\ txs[t].phase = "key"
  /\ Blockers(t) = {}
  /\ IF keys[txs[t].key] # 0 THEN Rollback(t)
     ELSE txs' = [txs EXCEPT ![t].phase = "group"]
  /\ UNCHANGED tables

MayProceed(op, d) ==
  CASE op = "remind" -> status[d] = "awaiting" /\ count[d] < MaxCount /\ d \notin recent
    [] op = "submit" -> status[d] = "awaiting"
    [] OTHER -> status[d] = "pending_confirmation"

\* The debt is read once it is locked.
LockRow(t) ==
  /\ txs[t].phase = "group"
  /\ Blockers(t) = {}
  /\ LET held == txs[t].rows \cup {NextRow(t)} IN
     IF ~MayProceed(txs[t].op, txs[t].debt)
     THEN Rollback(t)
     ELSE txs' = [txs EXCEPT ![t].rows = held,
                    ![t].phase = IF held = RowsOf(txs[t].op, txs[t].debt)
                                 THEN "rows" ELSE "group"]
  /\ UNCHANGED tables

RemindDebt(t) ==
  /\ txs[t].phase = "rows" /\ txs[t].op = "remind"
  /\ count' = [count EXCEPT ![txs[t].debt] = @ + 1]
  /\ recent' = recent \cup {txs[t].debt}
  /\ keys' = [keys EXCEPT ![txs[t].key] = txs[t].debt]
  /\ Rollback(t)
  /\ UNCHANGED <<status, payment, alerted, byScan, alerts>>

SubmitProof(t) ==
  /\ txs[t].phase = "rows" /\ txs[t].op = "submit"
  /\ status' = [status EXCEPT ![txs[t].debt] = "pending_confirmation"]
  /\ payment' = [payment EXCEPT ![txs[t].debt] = "fresh"]
  /\ Rollback(t)
  /\ UNCHANGED <<count, recent, alerted, keys, byScan, alerts>>

\* A payment that was rejected is over; the next one is another row.
FinishPayment(t) ==
  /\ txs[t].phase = "rows" /\ txs[t].op \in {"confirm", "reject"}
  /\ status' = [status EXCEPT ![txs[t].debt] =
                  IF txs[t].op = "confirm" THEN "settled" ELSE "awaiting"]
  /\ payment' = [payment EXCEPT ![txs[t].debt] = "none"]
  /\ alerted' = alerted \ {txs[t].debt}
  /\ alerts' = [alerts EXCEPT ![txs[t].debt] = 0]
  /\ Rollback(t)
  /\ UNCHANGED <<count, recent, keys, byScan>>

-----------------------------------------------------------------------------
(* The scan: reminders in one transaction, alerts in a second one. *)

Unlocked(kind, d) == RowHolders(<<kind, d>>) = {}

ReminderDue(d) == status[d] = "awaiting" /\ count[d] < MaxCount /\ d \notin recent
PaymentStalled(d) == payment[d] = "old" /\ d \notin alerted

DueRows(kind) ==
  {d \in Debts : IF kind = "debt" THEN ReminderDue(d) ELSE PaymentStalled(d)}

\* Mutant: the scan reads the rows without locking them.
DueUnlocked(t, kind) ==
  [Idle EXCEPT !.phase = IF kind = "debt" THEN "reminders" ELSE "stalled",
               !.todo = DueRows(kind), !.rows = {<<"read", d>> : d \in DueRows(kind)}]

\* SELECT ... FOR UPDATE SKIP LOCKED.
Claim(t, kind) ==
  LET due == {d \in DueRows(kind) : Unlocked(kind, d)}
  IN  [Idle EXCEPT !.phase = IF kind = "debt" THEN "reminders" ELSE "stalled",
                   !.todo = due, !.rows = {<<kind, d>> : d \in due}]

ClaimReminders(t) ==
  /\ txs[t].phase = "idle"
  /\ txs' = [txs EXCEPT ![t] = Claim(t, "debt")]
  /\ UNCHANGED tables

ClaimStalled(t) ==
  /\ txs[t].phase = "reminded"
  /\ txs' = [txs EXCEPT ![t] = Claim(t, "payment")]
  /\ UNCHANGED tables

InsertActivity(t) ==
  /\ txs[t].phase \in {"reminders", "stalled"} /\ txs[t].todo # {}
  /\ Blockers(t) = {}
  /\ txs' = [txs EXCEPT ![t].shared = @ \cup {GroupOf[NextItem(t)]},
                        ![t].todo = @ \ {NextItem(t)}]
  /\ UNCHANGED tables

Claimed(t) == {r[2] : r \in txs[t].rows}

CommitReminders(t) ==
  /\ txs[t].phase = "reminders" /\ txs[t].todo = {}
  /\ count' = [d \in Debts |-> IF d \in Claimed(t) THEN count[d] + 1 ELSE count[d]]
  /\ recent' = recent \cup Claimed(t)
  /\ byScan' = [d \in Debts |-> IF d \in Claimed(t) THEN byScan[d] + 1 ELSE byScan[d]]
  /\ txs' = [txs EXCEPT ![t] = [Idle EXCEPT !.phase = "reminded"]]
  /\ UNCHANGED <<status, payment, alerted, keys, alerts>>

CommitStalled(t) ==
  /\ txs[t].phase = "stalled" /\ txs[t].todo = {}
  /\ alerted' = alerted \cup Claimed(t)
  /\ alerts' = [d \in Debts |-> IF d \in Claimed(t) THEN alerts[d] + 1 ELSE alerts[d]]
  /\ Rollback(t)
  /\ UNCHANGED <<status, count, recent, payment, keys, byScan>>

-----------------------------------------------------------------------------
(* Time. *)

DayPasses(d) ==
  /\ d \in recent
  /\ recent' = recent \ {d}
  /\ UNCHANGED <<status, count, payment, alerted, keys, txs, byScan, alerts>>

PaymentAges(d) ==
  /\ payment[d] = "fresh"
  /\ payment' = [payment EXCEPT ![d] = "old"]
  /\ UNCHANGED <<status, count, recent, alerted, keys, txs, byScan, alerts>>

RemindersNext ==
  \/ \E t \in Requests :
       \/ \E op \in Ops, d \in Debts, k \in Keys : Begin(t, op, d, k)
       \/ LockActiveGroup(t) \/ InsertKey(t) \/ LockRow(t)
       \/ RemindDebt(t) \/ SubmitProof(t) \/ FinishPayment(t)
  \/ \E t \in Scans :
       \/ ClaimReminders(t) \/ ClaimStalled(t) \/ InsertActivity(t)
       \/ CommitReminders(t) \/ CommitStalled(t)
  \/ \E t \in Transactions : DeadlockVictim(t)
  \/ \E d \in Debts : DayPasses(d) \/ PaymentAges(d)

RemindersSpec == RemindersInit /\ [][RemindersNext]_reminderVars

-----------------------------------------------------------------------------
(* Properties. *)

(* Every reminder of a debt is one the scan sent or one of its own request:*)
(* a request that is repeated with its key, after an answer that was lost  *)
(* or a deadlock, is not counted again, and none is lost.  A payment is    *)
(* alerted once (RemindDebt, ProcessAutomatedReminders,                    *)
(* ProcessStalledPayments).                                                *)
CountedOnce == \A d \in Debts :
  /\ count[d] = byScan[d] + Cardinality({k \in Keys : keys[k] = d})
  /\ alerts[d] <= 1

(* Members and scans together remind a debt only while it is awaiting, one *)
(* day after the last time at the earliest, and not more than MaxCount     *)
(* times; what they checked still holds when they commit.                  *)
RemindersSpaced == [][\A d \in Debts : count'[d] # count[d] =>
  /\ count'[d] = count[d] + 1 /\ count'[d] <= MaxCount
  /\ status[d] = "awaiting" /\ d \notin recent]_reminderVars
=============================================================================
