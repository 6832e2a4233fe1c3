----------------------------- MODULE BillClose -----------------------------
(***************************************************************************)
(* Closing the bills of one group (spec 0008): the lock on new bills and   *)
(* the bulk finalize.                                                      *)
(*                                                                         *)
(* A bulk finalize is one transaction that locks submissions, captures     *)
(* every open bill with its version and enqueues one River job per bill.   *)
(* A job treats its bill in one transaction and then, in another one,      *)
(* completes the batch if nothing is pending.  In between its process may  *)
(* die; River delivers a failed job again until its attempts are used up.  *)
(*                                                                         *)
(* Every transaction starts by locking the active group, so that each is   *)
(* one action.  The creation of a bill checks the lock twice, before it    *)
(* uploads images and in its transaction.  All actions below are those of  *)
(* the captain or the creditor; Settlement models the membership.          *)
(***************************************************************************)
EXTENDS Naturals, FiniteSets

CONSTANTS
  Bills,       \* bound: bills that may be created
  Batches,     \* bound: bulk finalizes
  MaxVersion,  \* bound: no update or review of a bill beyond this version
  MaxAttempts  \* attempts of a River job

ASSUME CloseAssumption ==
  /\ IsFiniteSet(Bills)
  /\ MaxVersion \in Nat
  /\ MaxAttempts \in Nat \ {0}

VARIABLES
  group,     \* groups.status
  locked,    \* groups.bill_submission_locked_at IS NOT NULL
  bills,     \* bills.(status, version)
  creating,  \* bills whose CreateBill has passed the first check of the lock
  batches,   \* group_bill_finalize_batches
  items,     \* group_bill_finalize_items
  jobs,      \* River jobs of the items
  lockHeld   \* history: the lock is held since the batch was started

vars == <<group, locked, bills, creating, batches, items, jobs, lockHeld>>

-----------------------------------------------------------------------------
GroupStatuses == {"active", "archived"}
BillStatuses == {"none", "draft", "reviewed", "finalized", "voided", "deleted"}
OpenStatuses == {"draft", "reviewed"}
BatchStatuses == {"none", "queued", "processing", "completed"}
ItemStatuses == {"none", "pending", "finalized", "failed"}
JobPhases == {"none", "available", "completing", "done", "discarded"}

Batch == [status : BatchStatuses, target : Nat, finalized : Nat, failed : Nat]
Item == [status : ItemStatuses, version : Nat, reviewed : BOOLEAN]
Job == [phase : JobPhases, attempt : 0..MaxAttempts]

NoItem == [status |-> "none", version |-> 0, reviewed |-> FALSE]
NoJob == [phase |-> "none", attempt |-> 0]

Init ==
  /\ group = "active"
  /\ locked = FALSE
  /\ bills = [b \in Bills |-> [status |-> "none", version |-> 0]]
  /\ creating = {}
  /\ batches = [k \in Batches |->
       [status |-> "none", target |-> 0, finalized |-> 0, failed |-> 0]]
  /\ items = [k \in Batches |-> [b \in Bills |-> NoItem]]
  /\ jobs = [k \in Batches |-> [b \in Bills |-> NoJob]]
  /\ lockHeld = [k \in Batches |-> FALSE]

IsOpen(b) == bills[b].status \in OpenStatuses
IsRunning(k) == batches[k].status \in {"queued", "processing"}

-----------------------------------------------------------------------------
(* The bills. *)

CreateCheck(b) ==
  /\ bills[b].status = "none"
  /\ b \notin creating
  /\ group = "active"
  /\ ~locked
  /\ creating' = creating \cup {b}
  /\ UNCHANGED <<group, locked, bills, batches, items, jobs, lockHeld>>

\* Mutant: the check before the upload is enough.
CreationOpenBefore == TRUE

\* The check of the lock in the transaction of CreateBill.
CreationOpen == ~locked

CreateCommit(b) ==
  /\ b \in creating
  /\ group = "active"
  /\ CreationOpen
  /\ creating' = creating \ {b}
  /\ bills' = [bills EXCEPT ![b] = [status |-> "draft", version |-> 1]]
  /\ UNCHANGED <<group, locked, batches, items, jobs, lockHeld>>

CreateFails(b) ==
  /\ b \in creating
  /\ creating' = creating \ {b}
  /\ UNCHANGED <<group, locked, bills, batches, items, jobs, lockHeld>>

\* UPDATE bills SET status = to, version = version + 1 WHERE status IN from.
\* The version of the caller is the current one, else nothing happens.
Transition(b, from, to) ==
  /\ group = "active"
  /\ bills[b].status \in from
  /\ bills' = [bills EXCEPT ![b] =
       [status |-> to, version |-> bills[b].version + 1]]
  /\ UNCHANGED <<group, locked, creating, batches, items, jobs, lockHeld>>

UpdateDraftBill(b) ==
  bills[b].version < MaxVersion /\ Transition(b, OpenStatuses, "draft")
ReviewBill(b) ==
  bills[b].version < MaxVersion /\ Transition(b, {"draft"}, "reviewed")
FinalizeBill(b) == Transition(b, {"reviewed"}, "finalized")
VoidBill(b) == Transition(b, {"finalized"}, "voided")

DeleteDraftBill(b) ==
  /\ group = "active"
  /\ bills[b].status = "draft"
  /\ bills' = [bills EXCEPT ![b].status = "deleted"]
  /\ UNCHANGED <<group, locked, creating, batches, items, jobs, lockHeld>>

-----------------------------------------------------------------------------
(* The lock and the start of a batch. *)

LockSubmissions ==
  /\ group = "active"
  /\ ~locked
  /\ locked' = TRUE
  /\ UNCHANGED <<group, bills, creating, batches, items, jobs, lockHeld>>

UnlockSubmissions ==
  /\ group = "active"
  /\ locked
  /\ locked' = FALSE
  /\ lockHeld' = [k \in Batches |-> FALSE]
  /\ UNCHANGED <<group, bills, creating, batches, items, jobs>>

\* CaptureOpenBills.
Captured == {b \in Bills : IsOpen(b)}

CapturedItem(b) ==
  IF b \in Captured
  THEN [status |-> "pending", version |-> bills[b].version,
        reviewed |-> bills[b].status = "reviewed"]
  ELSE NoItem

\* An empty batch is completed at once.
StartBulkFinalize(k) ==
  /\ group = "active"
  /\ batches[k].status = "none"
  /\ \A other \in Batches : ~IsRunning(other)
  /\ locked' = TRUE
  /\ lockHeld' = [lockHeld EXCEPT ![k] = TRUE]
  /\ batches' = [batches EXCEPT ![k] =
       [status |-> IF Captured = {} THEN "completed" ELSE "queued",
        target |-> Cardinality(Captured), finalized |-> 0, failed |-> 0]]
  /\ items' = [items EXCEPT ![k] = [b \in Bills |-> CapturedItem(b)]]
  /\ jobs' = [jobs EXCEPT ![k] = [b \in Bills |->
       IF b \in Captured THEN [phase |-> "available", attempt |-> 0]
       ELSE NoJob]]
  /\ UNCHANGED <<group, bills, creating>>

-----------------------------------------------------------------------------
(* The job of an item: ProcessBulkFinalizeItem. *)

JobGoto(k, b, phase) == jobs' = [jobs EXCEPT ![k][b].phase = phase]

\* The group is archived or the batch is completed.
ItemSkipped(k, b) ==
  /\ jobs[k][b].phase = "available"
  /\ group # "active" \/ ~IsRunning(k)
  /\ JobGoto(k, b, "done")
  /\ UNCHANGED <<group, locked, bills, creating, batches, items, lockHeld>>

\* The transaction of the item goes on.
Proceeds(k, b) ==
  /\ jobs[k][b].phase = "available"
  /\ group = "active"
  /\ IsRunning(k)

\* Mutant: a job that is delivered again is done.
AfterDuplicate == "done"

\* A job that is delivered again still has to complete the batch.
AfterProcessed == "completing"

ItemProcessedBefore(k, b) ==
  /\ Proceeds(k, b)
  /\ items[k][b].status # "pending"
  /\ batches' = [batches EXCEPT ![k].status = "processing"]
  /\ JobGoto(k, b, AfterProcessed)
  /\ UNCHANGED <<group, locked, bills, creating, items, lockHeld>>

\* Mutant: the status of the item is not looked at.
Unlooked(k, b) == items[k][b].status # "none"

\* IF item.Status != BatchItemPending.
StillPending(k, b) == items[k][b].status = "pending"

\* Finalized from exactly the captured version by somebody else.
FinalizedSince(k, b) ==
  /\ bills[b].status = "finalized"
  /\ bills[b].version = items[k][b].version + 1

\* Mutant: the current version of the bill is taken, not the captured one.
OpenAtAnyVersion(k, b) == IsOpen(b)

\* The bill is open at the captured version.
OpenAsCaptured(k, b) ==
  /\ IsOpen(b)
  /\ bills[b].version = items[k][b].version

\* One review and one finalize, or the finalize alone.
FinalVersion(bill) == bill.version + (IF bill.status = "draft" THEN 2 ELSE 1)

\* finishItemFinalized.
MarkFinalized(k, b) ==
  /\ items' = [items EXCEPT ![k][b].status = "finalized"]
  /\ batches' = [batches EXCEPT ![k].status = "processing",
                                ![k].finalized = @ + 1]
  /\ JobGoto(k, b, "completing")

ItemWasFinalized(k, b) ==
  /\ Proceeds(k, b)
  /\ StillPending(k, b)
  /\ FinalizedSince(k, b)
  /\ MarkFinalized(k, b)
  /\ UNCHANGED <<group, locked, bills, creating, lockHeld>>

\* finalizeCapturedBill.
ItemFinalizes(k, b) ==
  /\ Proceeds(k, b)
  /\ StillPending(k, b)
  /\ OpenAsCaptured(k, b)
  /\ bills' = [bills EXCEPT ![b] =
       [status |-> "finalized", version |-> FinalVersion(bills[b])]]
  /\ MarkFinalized(k, b)
  /\ UNCHANGED <<group, locked, creating, lockHeld>>

\* The bill is gone, changed or not ready; which of them is ready is left open.
ItemFails(k, b) ==
  /\ Proceeds(k, b)
  /\ StillPending(k, b)
  /\ ~FinalizedSince(k, b)
  /\ items' = [items EXCEPT ![k][b].status = "failed"]
  /\ batches' = [batches EXCEPT ![k].status = "processing",
                                ![k].failed = @ + 1]
  /\ JobGoto(k, b, "completing")
  /\ UNCHANGED <<group, locked, bills, creating, lockHeld>>

NonePending(k) == \A b \in Bills : items[k][b].status # "pending"

\* TryCompleteBatch: the batch may be completed already, or wait for others.
CompleteBatchIfDone(k, b) ==
  /\ jobs[k][b].phase = "completing"
  /\ group = "active"
  /\ LET done == /\ IsRunning(k)
                 /\ NonePending(k)
                 /\ batches[k].finalized + batches[k].failed = batches[k].target
     IN batches' = IF done THEN [batches EXCEPT ![k].status = "completed"]
                   ELSE batches
  /\ JobGoto(k, b, "done")
  /\ UNCHANGED <<group, locked, bills, creating, items, lockHeld>>

\* An error, a timeout or the death of the process, before the transaction of
\* the item or after it.
JobFails(k, b) ==
  /\ jobs[k][b].phase \in {"available", "completing"}
  /\ jobs' = [jobs EXCEPT ![k][b] =
       [phase |-> IF jobs[k][b].attempt + 1 = MaxAttempts
                  THEN "discarded" ELSE "available",
        attempt |-> jobs[k][b].attempt + 1]]
  /\ UNCHANGED <<group, locked, bills, creating, batches, items, lockHeld>>

-----------------------------------------------------------------------------
\* The active batch and CountUnfinishedBills.
MayDisband ==
  /\ \A k \in Batches : ~IsRunning(k)
  /\ \A b \in Bills : ~IsOpen(b)

DisbandGroup ==
  /\ group = "active"
  /\ MayDisband
  /\ group' = "archived"
  /\ UNCHANGED <<locked, bills, creating, batches, items, jobs, lockHeld>>

BillStep(b) ==
  \/ CreateCheck(b) \/ CreateCommit(b) \/ CreateFails(b)
  \/ UpdateDraftBill(b) \/ ReviewBill(b) \/ FinalizeBill(b) \/ VoidBill(b)
  \/ DeleteDraftBill(b)

\* One job runs on.
JobStep(k, b) ==
  \/ ItemSkipped(k, b) \/ ItemProcessedBefore(k, b)
  \/ ItemWasFinalized(k, b) \/ ItemFinalizes(k, b) \/ ItemFails(k, b)
  \/ CompleteBatchIfDone(k, b)

Next ==
  \/ \E b \in Bills : BillStep(b)
  \/ LockSubmissions \/ UnlockSubmissions \/ DisbandGroup
  \/ \E k \in Batches : StartBulkFinalize(k)
  \/ \E k \in Batches, b \in Bills : JobStep(k, b) \/ JobFails(k, b)

Spec == Init /\ [][Next]_vars

\* River runs every job that it has.
Fairness == \A k \in Batches, b \in Bills : WF_vars(JobStep(k, b))

FairSpec == Spec /\ Fairness

-----------------------------------------------------------------------------
(* Properties. *)

Types ==
  /\ group \in GroupStatuses
  /\ locked \in BOOLEAN
  /\ bills \in [Bills -> [status : BillStatuses, version : Nat]]
  /\ creating \in SUBSET Bills
  /\ batches \in [Batches -> Batch]
  /\ items \in [Batches -> [Bills -> Item]]
  /\ jobs \in [Batches -> [Bills -> Job]]
  /\ lockHeld \in [Batches -> BOOLEAN]

\* Every variable has its type, and a batch satisfies the CHECK constraints of
\* its table: a result that is counted twice would make every later job fail.
TypeOK ==
  /\ Types
  /\ \A k \in Batches :
       /\ batches[k].finalized + batches[k].failed <= batches[k].target
       /\ batches[k].status = "completed" =>
            batches[k].finalized + batches[k].failed = batches[k].target

WithStatus(k, status) == {b \in Bills : items[k][b].status = status}

\* The counters of a batch are the truth, although jobs are delivered again and
\* several jobs count at the same time: a batch is neither stuck because of a
\* result that was counted twice nor completed with an item pending.
CountsAgree ==
  \A k \in Batches :
    /\ batches[k].finalized = Cardinality(WithStatus(k, "finalized"))
    /\ batches[k].failed = Cardinality(WithStatus(k, "failed"))
    /\ batches[k].target =
         Cardinality({b \in Bills : items[k][b].status # "none"})
    /\ batches[k].status = "completed" => WithStatus(k, "pending") = {}

\* What a batch reports as finalized was finalized from exactly the version
\* that the captain saw when the batch was started: no edit, review or
\* replacement in between slips through (spec 0008 AC-5).
FinalizedAsCaptured ==
  \A k \in Batches, b \in Bills : items[k][b].status = "finalized" =>
    LET final == items[k][b].version + (IF items[k][b].reviewed THEN 1 ELSE 2)
    IN \/ bills[b].status = "finalized" /\ bills[b].version = final
       \/ bills[b].status = "voided" /\ bills[b].version = final + 1

\* As long as the lock is held since a batch was started, the batch covers
\* everything: a bill that is still open after the batch is one of those it
\* reports as failed, and no creation that was under way adds another one.
CloseIsComplete ==
  \A k \in Batches : lockHeld[k] =>
    \A b \in Bills : IsOpen(b) =>
      items[k][b].status \in
        (IF batches[k].status = "completed" THEN {"failed"}
         ELSE {"pending", "failed"})

\* A group is archived only when its close has ended: no batch runs, no bill is
\* open, and no job of an earlier batch can still change a bill.
ArchivedIsClosed ==
  group = "archived" =>
    /\ \A b \in Bills : ~IsOpen(b)
    /\ \A k \in Batches : ~IsRunning(k) /\ WithStatus(k, "pending") = {}

\* A batch is completed, unless a job of it has used up its attempts: whatever
\* the order of the last two jobs, and also when a process dies between the
\* result of the last item and the completion.
BatchEnds ==
  \A k \in Batches :
    IsRunning(k) ~> \/ batches[k].status = "completed"
                    \/ \E b \in Bills : jobs[k][b].phase = "discarded"
=============================================================================
