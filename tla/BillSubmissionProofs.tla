------------------------ MODULE BillSubmissionProofs ------------------------
(***************************************************************************)
(* Theorems about the two sides of the submission lock of a group: the     *)
(* close that takes it and the creation that checks it twice.              *)
(*                                                                         *)
(* BillClose, for every finite set of bills, every set of batches, every   *)
(* number of attempts and every version.  The inductive invariant is the   *)
(* conjunction Inv.  That a batch reports what was captured                *)
(* (FinalizedAsCaptured) rests on versions that only grow                  *)
(* (CapturesAreOld); that a close is complete (LockCovers) on the lock     *)
(* that creations check in their transaction; that a completed batch has   *)
(* nothing pending on the counters being cardinalities (Counts).           *)
(*                                                                         *)
(* BillCreation, for every finite set of requests and every number of      *)
(* images.  Everything in CreationInv rests on HolderIsAlone: the request  *)
(* that is under way holds the reservation.  A bill whose creation was     *)
(* acknowledged keeps the key from then on (SinceHoldsKey), because only   *)
(* its own request could have released it, and that is past the release    *)
(* (BillStages).  What is stored of a request, and queued, depends on its  *)
(* stage: UploadsStored, CommitsHaveAll, QueuedAfterRejection.             *)
(***************************************************************************)
EXTENDS BillClose, BillCreation, FiniteSetTheorems, TLAPS

NotNone(k) == {b \in Bills : items[k][b].status # "none"}

\* The counters, and when a batch is none or completed.
Counts(k) ==
  /\ batches[k].finalized = Cardinality(WithStatus(k, "finalized"))
  /\ batches[k].failed = Cardinality(WithStatus(k, "failed"))
  /\ batches[k].target = Cardinality(NotNone(k))
  /\ batches[k].status = "none" => NotNone(k) = {}
  /\ batches[k].status = "completed" => WithStatus(k, "pending") = {}

CountsInv == \A k \in Batches : Counts(k)

\* A creation under way has no bill yet, and no batch has captured it.
CreationsAreNew ==
  /\ \A b \in creating : bills[b].status = "none"
  /\ \A k \in Batches, b \in Bills :
       items[k][b].status # "none" => bills[b].status # "none"

\* What a batch has captured of a bill was true at that version.
CapturesAreOld ==
  \A k \in Batches, b \in Bills : items[k][b].status # "none" =>
    /\ items[k][b].version <= bills[b].version
    /\ IsOpen(b) /\ items[k][b].version = bills[b].version =>
         (items[k][b].reviewed <=> bills[b].status = "reviewed")
    /\ bills[b].status = "finalized"
         /\ bills[b].version = items[k][b].version + 1 => items[k][b].reviewed

\* A batch that holds the lock covers every open bill.
LockCovers ==
  \A k \in Batches : lockHeld[k] =>
    /\ locked
    /\ batches[k].status # "none"
    /\ \A b \in Bills : IsOpen(b) => items[k][b].status \in {"pending", "failed"}

\* A job that may still fail has an attempt left.
AttemptsLeft ==
  \A k \in Batches, b \in Bills :
    jobs[k][b].phase \in {"available", "completing"} =>
      jobs[k][b].attempt < MaxAttempts

Inv ==
  /\ Types
  /\ AttemptsLeft
  /\ CountsInv
  /\ CreationsAreNew
  /\ CapturesAreOld
  /\ FinalizedAsCaptured
  /\ LockCovers
  /\ ArchivedIsClosed
-----------------------------------------------------------------------------
\* The initial state satisfies the invariant.
LEMMA InitInv == Init => Inv
<1> SUFFICES ASSUME Init PROVE Inv
  OBVIOUS
<1> USE CloseAssumption DEF Init, NoItem, NoJob
<1>1. Types
  <2>1. batches \in [Batches -> Batch] /\ lockHeld \in [Batches -> BOOLEAN]
    BY DEF Batch, BatchStatuses
  <2>2. items \in [Batches -> [Bills -> Item]]
    BY DEF Item, ItemStatuses
  <2>3. jobs \in [Batches -> [Bills -> Job]]
    BY DEF Job, JobPhases
  <2> QED
    BY <2>1, <2>2, <2>3 DEF Types, GroupStatuses, BillStatuses
<1>2. AttemptsLeft
  BY DEF AttemptsLeft
<1>3. CountsInv
  <2> SUFFICES ASSUME NEW k \in Batches PROVE Counts(k)
    BY DEF CountsInv
  <2>1. /\ WithStatus(k, "finalized") = {} /\ WithStatus(k, "failed") = {}
        /\ WithStatus(k, "pending") = {} /\ NotNone(k) = {}
    BY DEF WithStatus, NotNone
  <2> QED
    BY <2>1, FS_EmptySet DEF Counts
<1>4. CreationsAreNew /\ CapturesAreOld
  BY DEF CreationsAreNew, CapturesAreOld
<1>5. FinalizedAsCaptured /\ LockCovers /\ ArchivedIsClosed
  BY DEF FinalizedAsCaptured, LockCovers, ArchivedIsClosed
<1> QED
  BY <1>1, <1>2, <1>3, <1>4, <1>5 DEF Inv

-----------------------------------------------------------------------------
(* Jobs and counters.                                                      *)

JobsOK ==
  /\ jobs \in [Batches -> [Bills -> Job]]
  /\ AttemptsLeft

\* A job that goes to another phase without failing keeps its attempts.
LEMMA JobGoes ==
  ASSUME JobsOK, NEW k \in Batches, NEW b \in Bills,
         jobs[k][b].phase \in {"available", "completing"},
         NEW q \in JobPhases, JobGoto(k, b, q)
  PROVE  JobsOK'
<1>1. jobs[k] \in [Bills -> Job] /\ jobs[k][b] \in Job
  BY DEF JobsOK
<1>2. [jobs[k][b] EXCEPT !.phase = q] \in Job
      /\ [jobs[k][b] EXCEPT !.phase = q].attempt = jobs[k][b].attempt
  BY <1>1 DEF Job
<1>3. jobs' = [jobs EXCEPT ![k] =
        [jobs[k] EXCEPT ![b] = [jobs[k][b] EXCEPT !.phase = q]]]
  BY <1>1 DEF JobsOK, JobGoto
<1>4. jobs' \in [Batches -> [Bills -> Job]]
  BY <1>1, <1>2, <1>3 DEF JobsOK
<1>5. \A l \in Batches, c \in Bills :
        jobs'[l][c] = IF l = k /\ c = b THEN [jobs[k][b] EXCEPT !.phase = q]
                      ELSE jobs[l][c]
  BY <1>1, <1>3 DEF JobsOK
<1>6. AttemptsLeft'
  <2> SUFFICES ASSUME NEW l \in Batches, NEW c \in Bills,
                      jobs'[l][c].phase \in {"available", "completing"}
               PROVE  jobs'[l][c].attempt < MaxAttempts
    BY DEF AttemptsLeft
  <2>1. CASE l = k /\ c = b
    <3>1. jobs'[l][c].attempt = jobs[k][b].attempt
      BY <1>2, <1>5, <2>1
    <3>2. jobs[k][b].attempt < MaxAttempts
      BY DEF AttemptsLeft, JobsOK
    <3> QED
      BY <3>1, <3>2
  <2>2. CASE ~(l = k /\ c = b)
    <3>1. jobs'[l][c] = jobs[l][c]
      BY <1>5, <2>2
    <3> QED
      BY <3>1 DEF AttemptsLeft, JobsOK
  <2> QED
    BY <2>1, <2>2
<1> QED
  BY <1>4, <1>6 DEF JobsOK

\* A job that fails has one attempt less, or is discarded.
LEMMA JobLoses ==
  ASSUME JobsOK, NEW k \in Batches, NEW b \in Bills, JobFails(k, b)
  PROVE  JobsOK'
<1> DEFINE j == [phase |-> IF jobs[k][b].attempt + 1 = MaxAttempts
                           THEN "discarded" ELSE "available",
                 attempt |-> jobs[k][b].attempt + 1]
<1>1. jobs[k] \in [Bills -> Job] /\ jobs[k][b] \in Job
      /\ jobs[k][b].attempt \in Nat /\ jobs[k][b].attempt < MaxAttempts
  BY DEF JobsOK, JobFails, AttemptsLeft, Job
<1>2. j \in Job
  BY <1>1, CloseAssumption DEF Job, JobPhases
<1>3. jobs' = [jobs EXCEPT ![k] = [jobs[k] EXCEPT ![b] = j]]
  BY <1>1 DEF JobsOK, JobFails
<1> HIDE DEF j
<1>4. jobs' \in [Batches -> [Bills -> Job]]
  BY <1>1, <1>2, <1>3 DEF JobsOK
<1>5. \A l \in Batches, c \in Bills :
        jobs'[l][c] = IF l = k /\ c = b THEN j ELSE jobs[l][c]
  BY <1>1, <1>3 DEF JobsOK
<1>6. j.phase \in {"available", "completing"} => j.attempt < MaxAttempts
  BY <1>1, CloseAssumption DEF j
<1>7. AttemptsLeft'
  BY <1>5, <1>6 DEF AttemptsLeft, JobsOK
<1> QED
  BY <1>4, <1>7 DEF JobsOK

\* The sets that are counted are finite, the counters natural numbers.
LEMMA FiniteCounts ==
  ASSUME NEW k \in Batches, NEW s \in ItemStatuses
  PROVE  /\ IsFiniteSet(WithStatus(k, s)) /\ Cardinality(WithStatus(k, s)) \in Nat
         /\ IsFiniteSet(NotNone(k)) /\ Cardinality(NotNone(k)) \in Nat
BY CloseAssumption, FS_Subset, FS_CardinalityType DEF WithStatus, NotNone

\* The results of a batch are at most its items, and all of them when nothing
\* is pending.
LEMMA ResultsBounded ==
  ASSUME Types, NEW k \in Batches, Counts(k)
  PROVE  /\ batches[k].finalized + batches[k].failed <= batches[k].target
         /\ WithStatus(k, "pending") = {} =>
              batches[k].finalized + batches[k].failed = batches[k].target
<1> DEFINE F == WithStatus(k, "finalized")
           X == WithStatus(k, "failed")
<1>1. IsFiniteSet(F) /\ IsFiniteSet(X) /\ IsFiniteSet(NotNone(k))
      /\ Cardinality(F) \in Nat /\ Cardinality(X) \in Nat
  BY FiniteCounts DEF ItemStatuses
<1>2. F \cap X = {} /\ F \cup X \in SUBSET NotNone(k)
  BY DEF WithStatus, NotNone
<1>3. Cardinality(F \cup X) = Cardinality(F) + Cardinality(X) - Cardinality(F \cap X)
  BY <1>1, FS_Union
<1>4. Cardinality(F \cup X) = Cardinality(F) + Cardinality(X)
  <2>1. Cardinality(F \cap X) = 0
    BY <1>2, FS_EmptySet
  <2> QED
    BY <1>1, <1>3, <2>1
<1>5. Cardinality(F \cup X) <= Cardinality(NotNone(k))
  BY <1>1, <1>2, FS_Subset
<1>6. WithStatus(k, "pending") = {} => F \cup X = NotNone(k)
  BY DEF WithStatus, NotNone, Types, Item, ItemStatuses
<1> QED
  BY <1>1, <1>4, <1>5, <1>6 DEF Counts

\* The counters do not change.
LEMMA CountsSame ==
  ASSUME CountsInv, UNCHANGED <<items, batches>>
  PROVE  CountsInv'
<1> SUFFICES ASSUME NEW k \in Batches PROVE Counts(k)'
  BY DEF CountsInv
<1>1. /\ NotNone(k)' = NotNone(k)
      /\ \A s \in ItemStatuses : WithStatus(k, s)' = WithStatus(k, s)
  BY DEF WithStatus, NotNone
<1>2. Counts(k)
  BY DEF CountsInv
<1> QED
  BY <1>1, <1>2 DEF Counts, ItemStatuses

\* The invariant implies the properties.
LEMMA InvImplies ==
  Inv => TypeOK /\ CountsAgree /\ FinalizedAsCaptured /\ CloseIsComplete
         /\ ArchivedIsClosed
<1> SUFFICES ASSUME Inv
             PROVE  TypeOK /\ CountsAgree /\ FinalizedAsCaptured
                    /\ CloseIsComplete /\ ArchivedIsClosed
  OBVIOUS
<1> USE DEF Inv
<1>1. TypeOK
  BY ResultsBounded DEF TypeOK, CountsInv, Counts
<1>2. CountsAgree
  BY DEF CountsAgree, CountsInv, Counts, NotNone
<1>3. CloseIsComplete
  <2> SUFFICES ASSUME NEW k \in Batches, lockHeld[k], NEW b \in Bills, IsOpen(b)
               PROVE  items[k][b].status \in
                        (IF batches[k].status = "completed" THEN {"failed"}
                         ELSE {"pending", "failed"})
    BY DEF CloseIsComplete
  <2>1. items[k][b].status \in {"pending", "failed"}
    BY DEF LockCovers
  <2>2. batches[k].status = "completed" => items[k][b].status # "pending"
    BY DEF CountsInv, Counts, WithStatus
  <2> QED
    BY <2>1, <2>2
<1> QED
  BY <1>1, <1>2, <1>3
-----------------------------------------------------------------------------
(* Steps that change no bill and no item: the lock, the first check of a   *)
(* creation, jobs that end, are skipped or complete their batch.           *)

LEMMA QuietStep ==
  ASSUME Inv, JobsOK', UNCHANGED <<group, bills, items>>,
         locked' \in BOOLEAN,
         lockHeld' \in [Batches -> BOOLEAN],
         \A k \in Batches : lockHeld'[k] => lockHeld[k] /\ locked',
         creating' \in SUBSET Bills,
         \A b \in creating' : bills[b].status = "none",
         batches' \in [Batches -> Batch],
         \A k \in Batches :
           /\ batches'[k].target = batches[k].target
           /\ batches'[k].finalized = batches[k].finalized
           /\ batches'[k].failed = batches[k].failed
           /\ \/ batches'[k].status = batches[k].status
              \/ IsRunning(k) /\ batches'[k].status = "processing"
              \/ /\ IsRunning(k)
                 /\ batches'[k].status = "completed"
                 /\ WithStatus(k, "pending") = {}
  PROVE  Inv'
<1> USE DEF Inv
<1>1. Types' /\ AttemptsLeft'
  BY DEF Types, JobsOK
<1>2. CountsInv'
  <2> SUFFICES ASSUME NEW k \in Batches PROVE Counts(k)'
    BY DEF CountsInv
  <2>1. /\ NotNone(k)' = NotNone(k)
        /\ \A s \in ItemStatuses : WithStatus(k, s)' = WithStatus(k, s)
    BY DEF WithStatus, NotNone
  <2>2. Counts(k)
    BY DEF CountsInv
  <2> QED
    BY <2>1, <2>2 DEF Counts, IsRunning, ItemStatuses
<1>3. CreationsAreNew' /\ CapturesAreOld' /\ FinalizedAsCaptured'
  BY DEF CreationsAreNew, CapturesAreOld, FinalizedAsCaptured, IsOpen
<1>4. LockCovers'
  BY DEF LockCovers, IsOpen, IsRunning
<1>5. ArchivedIsClosed'
  BY DEF ArchivedIsClosed, IsOpen, IsRunning, WithStatus
<1> QED
  BY <1>1, <1>2, <1>3, <1>4, <1>5

\* The captain, or a creation that checks, gives up or fails.
LEMMA LockStep ==
  ASSUME Inv,
         \/ \E b \in Bills : CreateCheck(b) \/ CreateFails(b)
         \/ LockSubmissions \/ UnlockSubmissions
  PROVE  Inv'
<1> USE DEF Inv
<1>1. UNCHANGED <<group, bills, items, batches, jobs>>
  BY DEF CreateCheck, CreateFails, LockSubmissions, UnlockSubmissions
<1>2. JobsOK'
  BY <1>1 DEF JobsOK, Types, AttemptsLeft
<1>3. /\ creating' \in SUBSET Bills
      /\ \A b \in creating' : bills[b].status = "none"
  BY DEF CreateCheck, CreateFails, LockSubmissions, UnlockSubmissions, Types,
         CreationsAreNew
<1>4. locked' \in BOOLEAN /\ lockHeld' \in [Batches -> BOOLEAN]
  BY DEF CreateCheck, CreateFails, LockSubmissions, UnlockSubmissions, Types
<1>5. \A k \in Batches : lockHeld'[k] => lockHeld[k] /\ locked'
  BY DEF CreateCheck, CreateFails, LockSubmissions, UnlockSubmissions, LockCovers
<1> QED
  BY <1>1, <1>2, <1>3, <1>4, <1>5, QuietStep DEF Types

\* A job that changes no item.
LEMMA QuietJobStep ==
  ASSUME Inv, NEW k \in Batches, NEW b \in Bills,
         \/ ItemSkipped(k, b) \/ ItemProcessedBefore(k, b)
         \/ CompleteBatchIfDone(k, b) \/ JobFails(k, b)
  PROVE  Inv'
<1> USE DEF Inv
<1>1. UNCHANGED <<group, bills, items, locked, lockHeld, creating>>
  BY DEF ItemSkipped, ItemProcessedBefore, CompleteBatchIfDone, JobFails
<1>2. JobsOK'
  <2>1. JobsOK
    BY DEF JobsOK, Types
  <2>2. CASE JobFails(k, b)
    BY <2>1, <2>2, JobLoses
  <2>3. CASE ItemSkipped(k, b) \/ CompleteBatchIfDone(k, b)
    <3>1. "done" \in JobPhases /\ JobGoto(k, b, "done")
          /\ jobs[k][b].phase \in {"available", "completing"}
      BY <2>3 DEF ItemSkipped, CompleteBatchIfDone, JobPhases
    <3> QED
      BY <2>1, <3>1, JobGoes
  <2>4. CASE ItemProcessedBefore(k, b)
    <3>1. "completing" \in JobPhases /\ JobGoto(k, b, "completing")
          /\ jobs[k][b].phase \in {"available", "completing"}
      BY <2>4 DEF ItemProcessedBefore, Proceeds, AfterProcessed, JobPhases
    <3> QED
      BY <2>1, <3>1, JobGoes
  <2> QED
    BY <2>2, <2>3, <2>4
<1>3. /\ batches' \in [Batches -> Batch]
      /\ \A l \in Batches :
           /\ batches'[l].target = batches[l].target
           /\ batches'[l].finalized = batches[l].finalized
           /\ batches'[l].failed = batches[l].failed
           /\ \/ batches'[l].status = batches[l].status
              \/ IsRunning(l) /\ batches'[l].status = "processing"
              \/ /\ IsRunning(l)
                 /\ batches'[l].status = "completed"
                 /\ WithStatus(l, "pending") = {}
  <2> batches \in [Batches -> Batch]
    BY DEF Types
  <2>1. CASE ItemSkipped(k, b) \/ JobFails(k, b)
    BY <2>1 DEF ItemSkipped, JobFails
  <2>2. CASE ItemProcessedBefore(k, b)
    BY <2>2 DEF ItemProcessedBefore, Proceeds, Batch, BatchStatuses
  <2>3. CASE CompleteBatchIfDone(k, b)
    BY <2>3 DEF CompleteBatchIfDone, NonePending, WithStatus, Batch, BatchStatuses
  <2> QED
    BY <2>1, <2>2, <2>3
<1>4. \A c \in creating : bills[c].status = "none"
  BY DEF CreationsAreNew
<1>5. \A l \in Batches : lockHeld[l] => locked
  BY DEF LockCovers
<1> QED
  BY <1>1, <1>2, <1>3, <1>4, <1>5, QuietStep DEF Types

\* A group is archived when no bill is open and no batch runs.
LEMMA DisbandStep ==
  ASSUME Inv, DisbandGroup
  PROVE  Inv'
<1> USE DEF Inv, DisbandGroup
<1>1. Types' /\ AttemptsLeft'
  BY DEF Types, AttemptsLeft, GroupStatuses
<1>2. CountsInv'
  BY CountsSame
<1>3. CreationsAreNew' /\ CapturesAreOld' /\ FinalizedAsCaptured' /\ LockCovers'
  BY DEF CreationsAreNew, CapturesAreOld, FinalizedAsCaptured, LockCovers, IsOpen
<1>4. ArchivedIsClosed'
  <2>1. ASSUME NEW k \in Batches
        PROVE  ~IsRunning(k) /\ WithStatus(k, "pending") = {}
    <3>1. ~IsRunning(k)
      BY DEF MayDisband
    <3>2. batches[k].status \in {"none", "completed"}
      BY <3>1 DEF IsRunning, Types, Batch, BatchStatuses
    <3>3. WithStatus(k, "pending") \subseteq NotNone(k)
      BY DEF WithStatus, NotNone
    <3> QED
      BY <3>1, <3>2, <3>3 DEF CountsInv, Counts
  <2> QED
    BY <2>1 DEF ArchivedIsClosed, MayDisband, IsOpen, IsRunning, WithStatus
<1> QED
  BY <1>1, <1>2, <1>3, <1>4
-----------------------------------------------------------------------------
(* A bill is created, edited, finalized, voided or deleted.                *)

LEMMA BillChanges ==
  ASSUME Inv, NEW b \in Bills, NEW new \in [status : BillStatuses, version : Nat],
         group = "active",
         bills' = [bills EXCEPT ![b] = new],
         UNCHANGED <<group, locked, batches, items, jobs, lockHeld>>,
         creating' \subseteq creating, b \notin creating',
         new.status # "none",
         bills[b].status = "none" \/ bills[b].version <= new.version,
         new.status \in OpenStatuses =>
           \/ bills[b].status = "none" /\ ~locked
           \/ IsOpen(b) /\ bills[b].version < new.version,
         new.status = "finalized" =>
           bills[b].status = "reviewed" /\ new.version = bills[b].version + 1,
         bills[b].status = "finalized" =>
           new.status = "voided" /\ new.version = bills[b].version + 1,
         bills[b].status # "voided"
  PROVE  Inv'
<1> USE DEF Inv
<1>1. \A c \in Bills : bills'[c] = IF c = b THEN new ELSE bills[c]
  BY DEF Types
<1>2. Types' /\ AttemptsLeft'
  BY DEF Types, AttemptsLeft
<1>3. CountsInv'
  BY CountsSame
<1>4. CreationsAreNew'
  BY <1>1 DEF CreationsAreNew, Types
<1>5. CapturesAreOld'
  <2> SUFFICES ASSUME NEW k \in Batches, NEW c \in Bills,
                      items[k][c].status # "none"
               PROVE  /\ items[k][c].version <= bills'[c].version
                      /\ bills'[c].status \in OpenStatuses
                           /\ items[k][c].version = bills'[c].version =>
                           (items[k][c].reviewed <=> bills'[c].status = "reviewed")
                      /\ bills'[c].status = "finalized"
                           /\ bills'[c].version = items[k][c].version + 1 =>
                           items[k][c].reviewed
    BY DEF CapturesAreOld, IsOpen
  <2>1. /\ bills[c].status # "none"
        /\ bills[c].version \in Nat /\ items[k][c].version \in Nat
    BY DEF CreationsAreNew, Types, Item
  <2>2. CASE c # b
    BY <1>1, <2>2 DEF CapturesAreOld, IsOpen
  <2>3. CASE c = b
    BY <1>1, <2>1, <2>3 DEF CapturesAreOld, IsOpen, OpenStatuses
  <2> QED
    BY <2>2, <2>3
<1>6. FinalizedAsCaptured'
  <2> SUFFICES ASSUME NEW k \in Batches, NEW c \in Bills,
                      items[k][c].status = "finalized"
               PROVE  LET final == items[k][c].version
                                     + (IF items[k][c].reviewed THEN 1 ELSE 2)
                      IN \/ bills'[c].status = "finalized" /\ bills'[c].version = final
                         \/ bills'[c].status = "voided" /\ bills'[c].version = final + 1
    BY DEF FinalizedAsCaptured
  <2> QED
    BY <1>1 DEF FinalizedAsCaptured
<1>7. LockCovers'
  <2>1. \A c \in Bills : IsOpen(c)' => IsOpen(c) \/ ~locked
    BY <1>1 DEF IsOpen
  <2> QED
    BY <2>1 DEF LockCovers
<1>8. ArchivedIsClosed'
  BY DEF ArchivedIsClosed
<1> QED
  BY <1>2, <1>3, <1>4, <1>5, <1>6, <1>7, <1>8

\* The steps of the bills are such changes.
LEMMA BillStepInv ==
  ASSUME Inv, NEW b \in Bills,
         \/ CreateCommit(b) \/ UpdateDraftBill(b) \/ ReviewBill(b)
         \/ FinalizeBill(b) \/ VoidBill(b) \/ DeleteDraftBill(b)
  PROVE  Inv'
<1> USE DEF Inv
<1>0. bills \in [Bills -> [status : BillStatuses, version : Nat]]
      /\ bills[b] \in [status : BillStatuses, version : Nat]
  BY DEF Types
<1>1. CASE CreateCommit(b)
  <2>1. [status |-> "draft", version |-> 1] \in [status : BillStatuses, version : Nat]
    BY DEF BillStatuses
  <2>2. bills[b].status = "none"
    BY <1>1 DEF CreateCommit, CreationsAreNew
  <2> QED
    BY <1>1, <2>1, <2>2, BillChanges DEF CreateCommit, CreationOpen
<1>2. ASSUME NEW from \in SUBSET BillStatuses, NEW to \in BillStatuses,
             Transition(b, from, to),
             "none" \notin from /\ "voided" \notin from,
             to # "none",
             "finalized" \in from => to = "voided",
             to = "finalized" => from = {"reviewed"},
             to \in OpenStatuses => from \subseteq OpenStatuses
      PROVE  Inv'
  <2> DEFINE new == [status |-> to, version |-> bills[b].version + 1]
  <2>1. new \in [status : BillStatuses, version : Nat]
        /\ new.status = to /\ new.version = bills[b].version + 1
    BY <1>0
  <2>2. b \notin creating
    BY <1>2 DEF Transition, CreationsAreNew
  <2>3. /\ bills' = [bills EXCEPT ![b] = new]
        /\ group = "active" /\ bills[b].status \in from
        /\ UNCHANGED <<group, locked, creating, batches, items, jobs, lockHeld>>
    BY <1>2 DEF Transition
  <2>4. bills[b].version \in Nat
    BY <1>0
  <2> HIDE DEF new
  <2>5. bills[b].version <= new.version
    BY <2>1, <2>4
  <2>6. new.status \in OpenStatuses => IsOpen(b) /\ bills[b].version < new.version
    BY <1>2, <2>1, <2>3, <2>4 DEF IsOpen
  <2>7. new.status = "finalized" =>
          bills[b].status = "reviewed" /\ new.version = bills[b].version + 1
    BY <1>2, <2>1, <2>3
  <2>8. bills[b].status = "finalized" =>
          new.status = "voided" /\ new.version = bills[b].version + 1
    BY <1>2, <2>1, <2>3
  <2>9. bills[b].status # "voided" /\ new.status # "none"
    BY <1>2, <2>1, <2>3
  <2> QED
    BY <2>1, <2>2, <2>3, <2>5, <2>6, <2>7, <2>8, <2>9, BillChanges
<1>3. CASE UpdateDraftBill(b)
  BY <1>2, <1>3 DEF UpdateDraftBill, OpenStatuses, BillStatuses
<1>4. CASE ReviewBill(b)
  BY <1>2, <1>4 DEF ReviewBill, OpenStatuses, BillStatuses
<1>5. CASE FinalizeBill(b)
  BY <1>2, <1>5 DEF FinalizeBill, OpenStatuses, BillStatuses
<1>6. CASE VoidBill(b)
  BY <1>2, <1>6 DEF VoidBill, OpenStatuses, BillStatuses
<1>7. CASE DeleteDraftBill(b)
  <2> DEFINE new == [status |-> "deleted", version |-> bills[b].version]
  <2>1. new \in [status : BillStatuses, version : Nat]
        /\ new.status = "deleted" /\ new.version = bills[b].version
    BY <1>0 DEF BillStatuses
  <2>2. [bills[b] EXCEPT !.status = "deleted"] = new
    BY <1>0
  <2>3. bills' = [bills EXCEPT ![b] = new]
    BY <1>0, <1>7, <2>2 DEF DeleteDraftBill
  <2>4. b \notin creating /\ bills[b].version \in Nat
    BY <1>0, <1>7 DEF DeleteDraftBill, CreationsAreNew
  <2>5. /\ group = "active" /\ bills[b].status = "draft"
        /\ UNCHANGED <<group, locked, creating, batches, items, jobs, lockHeld>>
    BY <1>7 DEF DeleteDraftBill
  <2> HIDE DEF new
  <2>6. bills[b].version <= new.version
    BY <2>1, <2>4
  <2>7. new.status \notin OpenStatuses /\ new.status # "finalized"
        /\ new.status # "none"
    BY <2>1 DEF OpenStatuses
  <2> QED
    BY <2>1, <2>3, <2>4, <2>5, <2>6, <2>7, BillChanges
<1> QED
  BY <1>1, <1>3, <1>4, <1>5, <1>6, <1>7
-----------------------------------------------------------------------------
(* A batch captures the open bills and takes the lock.                     *)

LEMMA StartStep ==
  ASSUME Inv, NEW k \in Batches, StartBulkFinalize(k)
  PROVE  Inv'
<1> USE DEF Inv
<1>1. /\ UNCHANGED <<group, bills, creating>>
      /\ group = "active" /\ locked' = TRUE
      /\ batches[k].status = "none"
      /\ lockHeld' = [lockHeld EXCEPT ![k] = TRUE]
  BY DEF StartBulkFinalize
<1>2. /\ \A l \in Batches : l # k => items'[l] = items[l] /\ batches'[l] = batches[l]
      /\ \A b \in Bills : items'[k][b] = CapturedItem(b)
      /\ batches'[k] = [status |-> IF Captured = {} THEN "completed" ELSE "queued",
                        target |-> Cardinality(Captured), finalized |-> 0,
                        failed |-> 0]
  BY DEF StartBulkFinalize, Types
<1>3. IsFiniteSet(Captured) /\ Cardinality(Captured) \in Nat
  BY CloseAssumption, FS_Subset, FS_CardinalityType DEF Captured
<1>4. \A b \in Bills :
        /\ CapturedItem(b) \in Item
        /\ CapturedItem(b).status \in {"none", "pending"}
        /\ CapturedItem(b).status = "pending" <=> b \in Captured
        /\ b \in Captured => /\ CapturedItem(b).version = bills[b].version
                             /\ CapturedItem(b).reviewed <=> bills[b].status = "reviewed"
  BY DEF CapturedItem, NoItem, Item, ItemStatuses, Types
<1>5. JobsOK'
  <2> DEFINE j(b) == IF b \in Captured THEN [phase |-> "available", attempt |-> 0]
                     ELSE NoJob
  <2>1. \A b \in Bills : j(b) \in Job
                         /\ (j(b).phase \in {"available", "completing"} =>
                               j(b).attempt < MaxAttempts)
    BY CloseAssumption DEF Job, JobPhases, NoJob
  <2>2. jobs' = [jobs EXCEPT ![k] = [b \in Bills |-> j(b)]]
    BY DEF StartBulkFinalize
  <2> HIDE DEF j
  <2> QED
    BY <2>1, <2>2 DEF JobsOK, AttemptsLeft, Types
<1>6. Types' /\ AttemptsLeft'
  <2>1. items' \in [Batches -> [Bills -> Item]]
    <3>1. [b \in Bills |-> CapturedItem(b)] \in [Bills -> Item]
      BY <1>4
    <3>2. items' = [items EXCEPT ![k] = [b \in Bills |-> CapturedItem(b)]]
      BY DEF StartBulkFinalize
    <3> QED
      BY <3>1, <3>2 DEF Types
  <2>2. batches' \in [Batches -> Batch]
    BY <1>3 DEF StartBulkFinalize, Types, Batch, BatchStatuses
  <2> QED
    BY <1>1, <1>5, <2>1, <2>2 DEF Types, JobsOK
<1>7. CountsInv'
  <2> SUFFICES ASSUME NEW l \in Batches PROVE Counts(l)'
    BY DEF CountsInv
  <2>1. CASE l # k
    <3>1. /\ NotNone(l)' = NotNone(l)
          /\ \A s \in ItemStatuses : WithStatus(l, s)' = WithStatus(l, s)
      BY <1>2, <2>1 DEF WithStatus, NotNone
    <3>2. Counts(l)
      BY DEF CountsInv
    <3> QED
      BY <1>2, <2>1, <3>1, <3>2 DEF Counts, ItemStatuses
  <2>2. CASE l = k
    <3>1. /\ WithStatus(k, "finalized")' = {} /\ WithStatus(k, "failed")' = {}
      BY <1>2, <1>4 DEF WithStatus
    <3>2. NotNone(k)' = Captured /\ WithStatus(k, "pending")' = Captured
      BY <1>2, <1>4 DEF WithStatus, NotNone, Captured
    <3> QED
      BY <1>2, <2>2, <3>1, <3>2, FS_EmptySet DEF Counts
  <2> QED
    BY <2>1, <2>2
<1>8. \A b \in Captured : IsOpen(b) /\ bills[b].status # "none"
  BY DEF Captured, IsOpen, OpenStatuses
<1>9. CreationsAreNew'
  BY <1>1, <1>2, <1>4, <1>8 DEF CreationsAreNew
<1>10. CapturesAreOld'
  <2> SUFFICES ASSUME NEW l \in Batches, NEW b \in Bills,
                      items'[l][b].status # "none"
               PROVE  /\ items'[l][b].version <= bills[b].version
                      /\ IsOpen(b) /\ items'[l][b].version = bills[b].version =>
                           (items'[l][b].reviewed <=> bills[b].status = "reviewed")
                      /\ bills[b].status = "finalized"
                           /\ bills[b].version = items'[l][b].version + 1 =>
                           items'[l][b].reviewed
    BY <1>1 DEF CapturesAreOld, IsOpen
  <2>1. CASE l # k
    BY <1>2, <2>1 DEF CapturesAreOld
  <2>2. CASE l = k
    <3>1. b \in Captured /\ items'[l][b].version = bills[b].version
          /\ (items'[l][b].reviewed <=> bills[b].status = "reviewed")
      BY <1>2, <1>4, <2>2
    <3>2. bills[b].version \in Nat /\ bills[b].status # "finalized"
      BY <1>8, <3>1 DEF Types, IsOpen, OpenStatuses
    <3> QED
      BY <3>1, <3>2
  <2> QED
    BY <2>1, <2>2
<1>11. FinalizedAsCaptured'
  <2>1. \A l \in Batches, b \in Bills : items'[l][b].status = "finalized" =>
          l # k /\ items'[l][b] = items[l][b]
    BY <1>2, <1>4
  <2> QED
    BY <1>1, <2>1 DEF FinalizedAsCaptured
<1>12. LockCovers'
  <2> SUFFICES ASSUME NEW l \in Batches, lockHeld'[l]
               PROVE  /\ batches'[l].status # "none"
                      /\ \A b \in Bills : IsOpen(b) =>
                           items'[l][b].status \in {"pending", "failed"}
    BY <1>1 DEF LockCovers, IsOpen
  <2>1. CASE l # k
    BY <1>1, <1>2, <2>1 DEF LockCovers, Types
  <2>2. CASE l = k
    BY <1>2, <1>4, <2>2 DEF Captured
  <2> QED
    BY <2>1, <2>2
<1>13. ArchivedIsClosed'
  BY <1>1 DEF ArchivedIsClosed
<1> QED
  BY <1>6, <1>7, <1>9, <1>10, <1>11, <1>12, <1>13

-----------------------------------------------------------------------------
(* A job gives its item a result: finalized, by itself or before it, or    *)
(* failed.                                                                 *)

\* The version that a captured item is finalized with.
Final(k, b) == items[k][b].version + (IF items[k][b].reviewed THEN 1 ELSE 2)

LEMMA ResultStep ==
  ASSUME Inv, NEW k \in Batches, NEW b \in Bills,
         ItemWasFinalized(k, b) \/ ItemFinalizes(k, b) \/ ItemFails(k, b)
  PROVE  Inv'
<1> USE DEF Inv
<1>1. PICK result \in {"finalized", "failed"} :
        /\ items' = [items EXCEPT ![k][b].status = result]
        /\ batches' = IF result = "finalized"
             THEN [batches EXCEPT ![k].status = "processing", ![k].finalized = @ + 1]
             ELSE [batches EXCEPT ![k].status = "processing", ![k].failed = @ + 1]
        /\ JobGoto(k, b, "completing")
        /\ result = "finalized" =>
             ItemWasFinalized(k, b) \/ ItemFinalizes(k, b)
        /\ result = "failed" => bills' = bills
  BY DEF ItemWasFinalized, ItemFinalizes, ItemFails, MarkFinalized
<1>2. /\ UNCHANGED <<group, locked, creating, lockHeld>>
      /\ group = "active" /\ IsRunning(k) /\ items[k][b].status = "pending"
      /\ jobs[k][b].phase = "available"
  BY DEF ItemWasFinalized, ItemFinalizes, ItemFails, Proceeds, StillPending
<1>3. items[k] \in [Bills -> Item] /\ items[k][b] \in Item
      /\ bills[b] \in [status : BillStatuses, version : Nat]
  BY DEF Types
<1>4. /\ items' \in [Batches -> [Bills -> Item]]
      /\ \A l \in Batches, c \in Bills :
           /\ items'[l][c].version = items[l][c].version
           /\ items'[l][c].reviewed = items[l][c].reviewed
           /\ items'[l][c].status =
                IF l = k /\ c = b THEN result ELSE items[l][c].status
  <2> DEFINE new == [items[k][b] EXCEPT !.status = result]
  <2>1. new \in Item /\ new.status = result
        /\ new.version = items[k][b].version /\ new.reviewed = items[k][b].reviewed
    BY <1>3 DEF Item, ItemStatuses
  <2>2. items' = [items EXCEPT ![k] = [items[k] EXCEPT ![b] = new]]
    BY <1>1, <1>3 DEF Types
  <2> HIDE DEF new
  <2> QED
    BY <1>3, <2>1, <2>2 DEF Types
<1>5. /\ batches' \in [Batches -> Batch]
      /\ \A l \in Batches : l # k => batches'[l] = batches[l]
      /\ batches'[k].status = "processing" /\ batches'[k].target = batches[k].target
      /\ batches'[k].finalized =
           batches[k].finalized + (IF result = "finalized" THEN 1 ELSE 0)
      /\ batches'[k].failed =
           batches[k].failed + (IF result = "failed" THEN 1 ELSE 0)
  <2>0. batches \in [Batches -> Batch] /\ batches[k] \in Batch
    BY DEF Types
  <2> DEFINE started == [batches[k] EXCEPT !.status = "processing"]
  <2>1. started \in Batch /\ started.status = "processing"
        /\ started.target = batches[k].target
        /\ started.finalized = batches[k].finalized
        /\ started.failed = batches[k].failed
    BY <2>0 DEF Batch, BatchStatuses
  <2>2. CASE result = "finalized"
    <3> DEFINE new == [started EXCEPT !.finalized = batches[k].finalized + 1]
    <3>1. batches' = [batches EXCEPT ![k] = new]
      BY <1>1, <2>2
    <3> HIDE DEF started
    <3>2. /\ new \in Batch /\ new.status = "processing"
          /\ new.target = batches[k].target /\ new.failed = batches[k].failed
          /\ new.finalized = batches[k].finalized + 1
      BY <2>0, <2>1 DEF Batch
    <3> HIDE DEF new
    <3> QED
      BY <2>0, <2>2, <3>1, <3>2 DEF Batch
  <2>3. CASE result = "failed"
    <3> DEFINE new == [started EXCEPT !.failed = batches[k].failed + 1]
    <3>1. batches' = [batches EXCEPT ![k] = new]
      BY <1>1, <2>3
    <3> HIDE DEF started
    <3>2. /\ new \in Batch /\ new.status = "processing"
          /\ new.target = batches[k].target
          /\ new.finalized = batches[k].finalized
          /\ new.failed = batches[k].failed + 1
      BY <2>0, <2>1 DEF Batch
    <3> HIDE DEF new
    <3> QED
      BY <2>0, <2>3, <3>1, <3>2 DEF Batch
  <2> QED
    BY <2>2, <2>3
<1>6. JobsOK'
  <2>1. JobsOK
    BY DEF JobsOK, Types
  <2> QED
    BY <1>1, <1>2, <2>1, JobGoes DEF JobPhases
\* What happens to the bill.
<1>7. \/ bills' = bills
      \/ /\ IsOpen(b) /\ bills[b].version = items[k][b].version
         /\ result = "finalized"
         /\ bills' = [bills EXCEPT ![b] =
              [status |-> "finalized", version |-> FinalVersion(bills[b])]]
  BY <1>1 DEF ItemWasFinalized, ItemFinalizes, OpenAsCaptured
<1>8. bills' \in [Bills -> [status : BillStatuses, version : Nat]]
  BY <1>3, <1>7 DEF Types, BillStatuses, FinalVersion
<1>9. \A c \in Bills :
        \/ bills'[c] = bills[c]
        \/ /\ c = b /\ IsOpen(b) /\ bills[b].version = items[k][b].version
           /\ bills'[b].status = "finalized"
           /\ bills'[b].version =
                bills[b].version + (IF bills[b].status = "draft" THEN 2 ELSE 1)
  BY <1>7 DEF Types, FinalVersion
<1>10. Types' /\ AttemptsLeft'
  BY <1>2, <1>4, <1>5, <1>6, <1>8 DEF Types, JobsOK
<1>11. CountsInv'
  <2> SUFFICES ASSUME NEW l \in Batches PROVE Counts(l)'
    BY DEF CountsInv
  <2>1. Counts(l)
    BY DEF CountsInv
  <2>2. CASE l # k
    <3>1. /\ NotNone(l)' = NotNone(l)
          /\ \A s \in ItemStatuses : WithStatus(l, s)' = WithStatus(l, s)
      BY <1>4, <2>2 DEF WithStatus, NotNone
    <3> QED
      BY <1>5, <2>1, <2>2, <3>1 DEF Counts, ItemStatuses
  <2>3. CASE l = k
    <3>1. NotNone(k)' = NotNone(k)
      BY <1>2, <1>4 DEF NotNone
    <3>2. /\ WithStatus(k, result)' = WithStatus(k, result) \cup {b}
          /\ b \notin WithStatus(k, result)
      BY <1>2, <1>4 DEF WithStatus
    <3>3. Cardinality(WithStatus(k, result)') = Cardinality(WithStatus(k, result)) + 1
      <4>1. IsFiniteSet(WithStatus(k, result))
        BY FiniteCounts DEF ItemStatuses
      <4> QED
        BY <3>2, <4>1, FS_AddElement
    <3>4. \A s \in {"finalized", "failed"} : s # result =>
            WithStatus(k, s)' = WithStatus(k, s)
      BY <1>2, <1>4 DEF WithStatus
    <3>5. batches[k].finalized \in Nat /\ batches[k].failed \in Nat
      BY DEF Types, Batch
    <3>6. CASE result = "finalized"
      <4>1. WithStatus(k, "failed")' = WithStatus(k, "failed")
        BY <3>4, <3>6
      <4>2. Cardinality(WithStatus(k, "finalized")') =
              Cardinality(WithStatus(k, "finalized")) + 1
        BY <3>3, <3>6
      <4> QED
        BY <1>5, <2>1, <2>3, <3>1, <3>5, <3>6, <4>1, <4>2 DEF Counts
    <3>7. CASE result = "failed"
      <4>1. WithStatus(k, "finalized")' = WithStatus(k, "finalized")
        BY <3>4, <3>7
      <4>2. Cardinality(WithStatus(k, "failed")') =
              Cardinality(WithStatus(k, "failed")) + 1
        BY <3>3, <3>7
      <4> QED
        BY <1>5, <2>1, <2>3, <3>1, <3>5, <3>7, <4>1, <4>2 DEF Counts
    <3> QED
      BY <3>6, <3>7
  <2> QED
    BY <2>2, <2>3
<1>12. CreationsAreNew'
  <2>1. \A c \in Bills :
          (bills[c].status = "none" <=> bills'[c].status = "none")
    BY <1>9 DEF IsOpen, OpenStatuses
  <2>2. \A l \in Batches, c \in Bills :
          items'[l][c].status # "none" => items[l][c].status # "none"
    BY <1>2, <1>4
  <2> QED
    BY <1>2, <2>1, <2>2 DEF CreationsAreNew, Types
<1>13. CapturesAreOld'
  <2> SUFFICES ASSUME NEW l \in Batches, NEW c \in Bills,
                      items'[l][c].status # "none"
               PROVE  /\ items[l][c].version <= bills'[c].version
                      /\ bills'[c].status \in OpenStatuses
                           /\ items[l][c].version = bills'[c].version =>
                           (items[l][c].reviewed <=> bills'[c].status = "reviewed")
                      /\ bills'[c].status = "finalized"
                           /\ bills'[c].version = items[l][c].version + 1 =>
                           items[l][c].reviewed
    BY <1>4 DEF CapturesAreOld, IsOpen
  <2>1. items[l][c].status # "none"
    BY <1>2, <1>4
  <2>2. items[l][c].version \in Nat /\ bills[c].version \in Nat
    BY DEF Types, Item
  <2>3. CASE bills'[c] = bills[c]
    BY <2>1, <2>3 DEF CapturesAreOld, IsOpen
  <2>4. CASE bills'[c] # bills[c]
    <3>1. items[l][c].version <= bills[c].version
          /\ (items[l][c].version = bills[c].version =>
                (items[l][c].reviewed <=> bills[c].status = "reviewed"))
      BY <1>9, <2>1, <2>4 DEF CapturesAreOld
    <3>2. bills[c].status \in {"draft", "reviewed"}
      BY <1>9, <2>4 DEF IsOpen, OpenStatuses
    <3> QED
      BY <1>9, <2>2, <2>4, <3>1, <3>2 DEF OpenStatuses
  <2> QED
    BY <2>3, <2>4
<1>14. FinalizedAsCaptured'
  <2> SUFFICES ASSUME NEW l \in Batches, NEW c \in Bills,
                      items'[l][c].status = "finalized"
               PROVE  \/ bills'[c].status = "finalized"
                           /\ bills'[c].version = Final(l, c)
                      \/ bills'[c].status = "voided"
                           /\ bills'[c].version = Final(l, c) + 1
    BY <1>4 DEF FinalizedAsCaptured, Final
  <2>1. CASE items[l][c].status = "finalized"
    <3>1. bills[c].status \in {"finalized", "voided"}
      BY <2>1 DEF FinalizedAsCaptured
    <3>2. bills'[c] = bills[c]
      BY <1>9, <3>1 DEF IsOpen, OpenStatuses
    <3> QED
      BY <2>1, <3>2 DEF FinalizedAsCaptured, Final
  <2>2. CASE items[l][c].status # "finalized"
    <3>1. l = k /\ c = b /\ result = "finalized"
      BY <1>4, <2>2
    <3>2. CASE ItemWasFinalized(k, b)
      <4>1. /\ bills' = bills /\ bills[b].status = "finalized"
            /\ bills[b].version = items[k][b].version + 1
        BY <3>2 DEF ItemWasFinalized, FinalizedSince
      <4>2. items[k][b].reviewed
        BY <1>2, <4>1 DEF CapturesAreOld
      <4> QED
        BY <3>1, <4>1, <4>2 DEF Final
    <3>3. CASE ItemFinalizes(k, b)
      <4>1. /\ IsOpen(b) /\ bills[b].version = items[k][b].version
            /\ bills'[b].status = "finalized"
            /\ bills'[b].version = FinalVersion(bills[b])
        BY <1>8, <3>3 DEF ItemFinalizes, OpenAsCaptured, Types
      <4>2. items[k][b].reviewed <=> bills[b].status = "reviewed"
        BY <1>2, <4>1 DEF CapturesAreOld
      <4>3. bills[b].status \in {"draft", "reviewed"}
        BY <4>1 DEF IsOpen, OpenStatuses
      <4> QED
        BY <3>1, <4>1, <4>2, <4>3 DEF Final, FinalVersion
    <3> QED
      BY <1>1, <3>1, <3>2, <3>3
  <2> QED
    BY <2>1, <2>2
<1>15. LockCovers'
  <2> SUFFICES ASSUME NEW l \in Batches, lockHeld[l]
               PROVE  /\ batches'[l].status # "none"
                      /\ \A c \in Bills : bills'[c].status \in OpenStatuses =>
                           items'[l][c].status \in {"pending", "failed"}
    BY <1>2 DEF LockCovers, IsOpen
  <2>1. batches'[l].status # "none"
    BY <1>5 DEF LockCovers
  <2>2. ASSUME NEW c \in Bills, bills'[c].status \in OpenStatuses
        PROVE  items'[l][c].status \in {"pending", "failed"}
    <3>1. IsOpen(c) /\ items[l][c].status \in {"pending", "failed"}
      BY <1>9, <2>2 DEF LockCovers, IsOpen, OpenStatuses
    <3>2. ~(l = k /\ c = b /\ result = "finalized")
      <4> SUFFICES ASSUME l = k, c = b, result = "finalized" PROVE FALSE
        OBVIOUS
      <4>1. items'[l][c].status = "finalized"
        BY <1>4
      <4>2. bills'[c].status \in {"finalized", "voided"}
        BY <1>14, <4>1 DEF FinalizedAsCaptured
      <4> QED
        BY <2>2, <4>2 DEF OpenStatuses
    <3> QED
      BY <1>4, <3>1, <3>2
  <2> QED
    BY <2>1, <2>2
<1>16. ArchivedIsClosed'
  BY <1>2 DEF ArchivedIsClosed
<1> QED
  BY <1>10, <1>11, <1>12, <1>13, <1>14, <1>15, <1>16
-----------------------------------------------------------------------------
\* Every step preserves the invariant.
LEMMA NextInv == Inv /\ [Next]_vars => Inv'
<1> SUFFICES ASSUME Inv, [Next]_vars PROVE Inv'
  OBVIOUS
<1>1. ASSUME NEW b \in Bills, BillStep(b) PROVE Inv'
  BY <1>1, LockStep, BillStepInv DEF BillStep
<1>2. CASE LockSubmissions \/ UnlockSubmissions
  BY <1>2, LockStep
<1>3. CASE DisbandGroup
  BY <1>3, DisbandStep
<1>4. ASSUME NEW k \in Batches, StartBulkFinalize(k) PROVE Inv'
  BY <1>4, StartStep
<1>5. ASSUME NEW k \in Batches, NEW b \in Bills, JobStep(k, b) \/ JobFails(k, b)
      PROVE  Inv'
  BY <1>5, QuietJobStep, ResultStep DEF JobStep
<1>6. CASE UNCHANGED vars
  <2>1. CountsInv'
    BY <1>6, CountsSame DEF Inv, vars
  <2> QED
    BY <1>6, <2>1
    DEF vars, Inv, Types, AttemptsLeft, CreationsAreNew, CapturesAreOld,
        FinalizedAsCaptured, LockCovers, ArchivedIsClosed, IsOpen, IsRunning,
        WithStatus
<1> QED
  BY <1>1, <1>2, <1>3, <1>4, <1>5, <1>6 DEF Next

\* The invariant holds in every reachable state.
LEMMA InvHolds == Spec => []Inv
BY InitInv, NextInv, PTL DEF Spec

\* Every reachable state has the declared types, and no batch counts more
\* results than it has items.
THEOREM CloseTypes == Spec => []TypeOK
BY InvHolds, InvImplies, PTL

\* The counters of a batch are the numbers of its items with that result,
\* however often jobs are delivered, and a completed batch has no item pending.
THEOREM CountsAreTrue == Spec => []CountsAgree
BY InvHolds, InvImplies, PTL

\* What a batch reports as finalized was finalized from the captured version.
THEOREM CapturedVersionIsFinal == Spec => []FinalizedAsCaptured
BY InvHolds, InvImplies, PTL

\* As long as the lock of a batch is held, every open bill is one of its items
\* and, once it is completed, one that it reports as failed.
THEOREM CloseCoversAll == Spec => []CloseIsComplete
BY InvHolds, InvImplies, PTL

\* An archived group has no open bill, no running batch and no pending item.
THEOREM ArchiveIsFinal == Spec => []ArchivedIsClosed
BY InvHolds, InvImplies, PTL

-----------------------------------------------------------------------------
(* BillCreation *)

\* The request that is under way holds the reservation.
HolderIsAlone == \A r \in Requests :
  stage[r] \in Live => key = [state |-> "in_progress", request |-> r]

\* A request whose bill exists has got that far, and goes no way back, unless
\* it does not know.
BillStages == \A r \in newBills :
  /\ stage[r] \in {"complete", "created", "undo", "release", "failed", "dead"}
  /\ r \notin unsure => stage[r] \in {"complete", "created", "dead"}

CompletionHasBill == \A r \in Requests :
  stage[r] = "complete" => r \in newBills /\ r \notin unsure

KeyHasBill ==
  key.state = "completed" => key.request \in newBills /\ key.request \notin unsure

SinceHoldsKey ==
  /\ since \cup unsure \subseteq newBills
  /\ \A r \in since : r \notin unsure => key.state # "none" /\ key.request = r

UploadsStored == \A r \in Requests :
  stage[r] \in {"none", "check", "upload", "commit"} => UploadsOf(r) \subseteq stored

CommitsHaveAll == \A r \in Requests :
  stage[r] \in {"commit", "reject"} => acked[r] = ImageCount

QueuedAfterRejection == \A r \in Requests :
  \/ stage[r] \in {"none", "check", "upload", "commit", "reject"}
  \/ r \in newBills
  => ImagesOf(r) \cap queued = {}

RejectedStages == \A r \in rejected :
  stage[r] \in {"undo", "release", "failed", "dead"}

KeyInv ==
  /\ HolderIsAlone
  /\ BillStages
  /\ CompletionHasBill
  /\ KeyHasBill
  /\ SinceHoldsKey

ImageInv ==
  /\ UploadsStored
  /\ CommitsHaveAll
  /\ QueuedAfterRejection
  /\ RejectedStages
  /\ BillImagesKept
  /\ RejectedIsClean

CreationInv == CreationTypeOK /\ KeyInv /\ ImageInv

-----------------------------------------------------------------------------
\* The images of different requests are different.
LEMMA ImageSets ==
  ASSUME CreationTypeOK, NEW r \in Requests
  PROVE  /\ ImagesOf(r) \subseteq Image
         /\ UploadsOf(r) \subseteq ImagesOf(r)
         /\ acked[r] = ImageCount => UploadsOf(r) = ImagesOf(r)
         /\ \A s \in Requests : s # r => ImagesOf(r) \cap ImagesOf(s) = {}
         /\ \A s \in Requests : s # r => ImagesOf(r) \cap UploadsOf(s) = {}
<1>1. \A s \in Requests : acked[s] \in 0..ImageCount
  BY DEF CreationTypeOK
<1>2. \A s \in Requests : UploadsOf(s) \subseteq ImagesOf(s)
  BY <1>1, CreationAssumption DEF UploadsOf, ImagesOf
<1>3. \A s \in Requests : s # r => ImagesOf(r) \cap ImagesOf(s) = {}
  BY DEF ImagesOf
<1>4. acked[r] = ImageCount => UploadsOf(r) = ImagesOf(r)
  BY DEF UploadsOf, ImagesOf
<1>5. ImagesOf(r) \subseteq Image
  BY DEF Image, ImagesOf
<1> QED
  BY <1>2, <1>3, <1>4, <1>5

\* The initial state satisfies the invariant.
LEMMA CreationInitInv == CreationInit => CreationInv
<1> SUFFICES ASSUME CreationInit PROVE CreationInv
  OBVIOUS
<1> USE CreationAssumption DEF CreationInit, NoKey
<1>1. CreationTypeOK
  <2>1. stage \in [Requests -> Stages] /\ acked \in [Requests -> 0..ImageCount]
    BY DEF Stages
  <2>2. key \in [state : KeyStates, request : Requests \cup {Nobody}]
    BY DEF KeyStates
  <2> QED
    BY <2>1, <2>2 DEF CreationTypeOK
<1>2. KeyInv
  BY DEF KeyInv, HolderIsAlone, BillStages, CompletionHasBill, KeyHasBill,
     SinceHoldsKey, Live
<1>3. \A r \in Requests : UploadsOf(r) = {}
  BY DEF UploadsOf
<1>4. ImageInv
  BY <1>3 DEF ImageInv, UploadsStored, CommitsHaveAll, QueuedAfterRejection,
     RejectedStages, BillImagesKept, RejectedIsClean
<1> QED
  BY <1>1, <1>2, <1>4 DEF CreationInv

\* One request goes to another stage, the others stay where they are.
LEMMA StageMoves ==
  ASSUME CreationTypeOK, NEW r \in Requests, NEW x \in Stages, Goto(r, x)
  PROVE  /\ stage' \in [Requests -> Stages]
         /\ stage'[r] = x
         /\ \A s \in Requests : s # r => stage'[s] = stage[s]
BY DEF CreationTypeOK, Goto

-----------------------------------------------------------------------------
(* The key. *)

\* A step that leaves the key and the bills alone, and no request complete.
LEMMA KeyStays ==
  ASSUME CreationTypeOK, KeyInv, NEW r \in Requests, stage[r] \in Live,
         \A s \in Requests : s # r => stage'[s] = stage[s],
         stage'[r] # "complete",
         r \in newBills =>
           /\ stage'[r] \in {"created", "undo", "release", "failed", "dead"}
           /\ r \notin unsure => stage'[r] \in {"created", "dead"},
         UNCHANGED <<key, newBills, unsure, since>>
  PROVE  KeyInv'
<1>1. newBills \subseteq Requests
  BY DEF CreationTypeOK
<1>2. HolderIsAlone'
  BY DEF KeyInv, HolderIsAlone
<1>3. BillStages'
  BY <1>1 DEF KeyInv, BillStages
<1>4. CompletionHasBill' /\ KeyHasBill' /\ SinceHoldsKey'
  BY DEF KeyInv, CompletionHasBill, KeyHasBill, SinceHoldsKey
<1> QED
  BY <1>2, <1>3, <1>4 DEF KeyInv

LEMMA ReserveKeepsKey ==
  ASSUME CreationTypeOK, KeyInv, NEW r \in Requests, CheckOrReserveIdempotency(r)
  PROVE  CreationTypeOK' /\ KeyInv'
<1>1. At(r, "none") /\ UNCHANGED <<ended, submissionLocked, outcome, images>>
  BY DEF CheckOrReserveIdempotency
<1>2. r \notin newBills /\ newBills \subseteq Requests
  BY <1>1 DEF At, KeyInv, BillStages, CreationTypeOK
<1>3. CASE Reservable /\ key' = [state |-> "in_progress", request |-> r]
           /\ Goto(r, "check")
  <2>1. "check" \in Stages /\ "in_progress" \in KeyStates
    BY DEF Stages, Live, KeyStates
  <2>2. /\ stage' \in [Requests -> Stages] /\ stage'[r] = "check"
        /\ \A s \in Requests : s # r => stage'[s] = stage[s]
    BY <1>3, <2>1, StageMoves
  <2>3. CreationTypeOK'
    BY <1>1, <1>3, <2>1, <2>2 DEF CreationTypeOK, outcome, images
  <2>4. HolderIsAlone'
    BY <1>3, <2>2 DEF KeyInv, HolderIsAlone, Reservable
  <2>5. BillStages' /\ CompletionHasBill' /\ KeyHasBill'
    BY <1>1, <1>2, <1>3, <2>2
       DEF KeyInv, BillStages, CompletionHasBill, KeyHasBill, outcome
  <2>6. SinceHoldsKey'
    BY <1>1, <1>3 DEF KeyInv, SinceHoldsKey, Reservable, outcome
  <2> QED
    BY <2>3, <2>4, <2>5, <2>6 DEF KeyInv
<1>4. ASSUME NEW x \in {"replayed", "refused"}, Goto(r, x), UNCHANGED key
      PROVE  CreationTypeOK' /\ KeyInv'
  <2>1. x \in Stages /\ x \notin Live /\ x # "complete"
    BY DEF Stages, Live
  <2>2. /\ stage' \in [Requests -> Stages] /\ stage'[r] = x
        /\ \A s \in Requests : s # r => stage'[s] = stage[s]
    BY <1>4, <2>1, StageMoves
  <2>3. CreationTypeOK'
    BY <1>1, <1>4, <2>2 DEF CreationTypeOK, outcome, images
  <2>4. KeyInv'
    BY <1>1, <1>2, <1>4, <2>1, <2>2
       DEF KeyInv, HolderIsAlone, BillStages, CompletionHasBill, KeyHasBill,
           SinceHoldsKey, outcome
  <2> QED
    BY <2>3, <2>4
<1> QED
  BY <1>3, <1>4 DEF CheckOrReserveIdempotency

LEMMA CompleteKeepsKey ==
  ASSUME CreationTypeOK, KeyInv, NEW r \in Requests, CompleteIdempotency(r)
  PROVE  CreationTypeOK' /\ KeyInv'
<1>1. /\ stage[r] = "complete" /\ Goto(r, "created")
      /\ UNCHANGED <<ended, submissionLocked, outcome, images>>
  BY DEF CompleteIdempotency, At, AfterCompletion
<1>2. /\ key = [state |-> "in_progress", request |-> r]
      /\ r \in newBills /\ r \notin unsure /\ newBills \subseteq Requests
  BY <1>1 DEF KeyInv, HolderIsAlone, CompletionHasBill, Live, CreationTypeOK
<1>3. key' \in {key, [state |-> "completed", request |-> r]}
  BY DEF CompleteIdempotency
<1>4. "created" \in Stages /\ "created" \notin Live /\ "completed" \in KeyStates
  BY DEF Stages, Live, KeyStates
<1>5. /\ stage' \in [Requests -> Stages] /\ stage'[r] = "created"
      /\ \A s \in Requests : s # r => stage'[s] = stage[s]
  BY <1>1, <1>4, StageMoves
<1>6. CreationTypeOK'
  BY <1>1, <1>3, <1>4, <1>5 DEF CreationTypeOK, outcome, images
<1>7. \A s \in Requests : s # r => stage[s] \notin Live
  BY <1>2 DEF KeyInv, HolderIsAlone
<1>8. HolderIsAlone'
  BY <1>4, <1>5, <1>7 DEF HolderIsAlone
<1>9. BillStages' /\ CompletionHasBill' /\ KeyHasBill'
  BY <1>1, <1>2, <1>3, <1>5
     DEF KeyInv, BillStages, CompletionHasBill, KeyHasBill, outcome
<1>10. SinceHoldsKey'
  BY <1>1, <1>2, <1>3 DEF KeyInv, SinceHoldsKey, outcome
<1> QED
  BY <1>6, <1>8, <1>9, <1>10 DEF KeyInv

LEMMA ReleaseKeepsKey ==
  ASSUME CreationTypeOK, KeyInv, NEW r \in Requests, ReleaseIdempotency(r)
  PROVE  CreationTypeOK' /\ KeyInv'
<1>1. /\ stage[r] = "release" /\ Goto(r, "failed")
      /\ UNCHANGED <<ended, submissionLocked, outcome, images>>
  BY DEF ReleaseIdempotency, At
<1>2. /\ key = [state |-> "in_progress", request |-> r]
      /\ r \in newBills => r \in unsure
      /\ newBills \subseteq Requests
  BY <1>1 DEF KeyInv, HolderIsAlone, BillStages, Live, CreationTypeOK
<1>3. key' \in {key, NoKey}
  BY DEF ReleaseIdempotency, AfterRelease
<1>4. "failed" \in Stages /\ "failed" \notin Live
      /\ NoKey.state = "none" /\ NoKey.request = Nobody
      /\ NoKey \in [state : KeyStates, request : Requests \cup {Nobody}]
  BY DEF Stages, Live, KeyStates, NoKey
<1>5. /\ stage' \in [Requests -> Stages] /\ stage'[r] = "failed"
      /\ \A s \in Requests : s # r => stage'[s] = stage[s]
  BY <1>1, <1>4, StageMoves
<1>6. CreationTypeOK'
  BY <1>1, <1>3, <1>4, <1>5 DEF CreationTypeOK, outcome, images
<1>7. \A s \in Requests : s # r => stage[s] \notin Live
  BY <1>2 DEF KeyInv, HolderIsAlone
<1>8. HolderIsAlone'
  BY <1>4, <1>5, <1>7 DEF HolderIsAlone
<1>9. BillStages' /\ CompletionHasBill' /\ KeyHasBill'
  BY <1>1, <1>2, <1>3, <1>4, <1>5
     DEF KeyInv, BillStages, CompletionHasBill, KeyHasBill, outcome
<1>10. \A s \in since : s \in unsure
  BY <1>2 DEF KeyInv, SinceHoldsKey
<1>11. SinceHoldsKey'
  BY <1>1, <1>10 DEF KeyInv, SinceHoldsKey, outcome
<1> QED
  BY <1>6, <1>8, <1>9, <1>11 DEF KeyInv

LEMMA ExpireKeepsKey ==
  ASSUME CreationTypeOK, KeyInv, Expire
  PROVE  CreationTypeOK' /\ KeyInv'
<1>1. /\ \A r \in Requests : stage[r] \notin Live
      /\ key' = NoKey /\ since' = {}
      /\ UNCHANGED <<stage, ended, submissionLocked, newBills, unsure, rejected, images>>
  BY DEF Expire
<1>2. /\ NoKey.state = "none"
      /\ NoKey \in [state : KeyStates, request : Requests \cup {Nobody}]
  BY DEF KeyStates, NoKey
<1>3. CreationTypeOK'
  BY <1>1, <1>2 DEF CreationTypeOK, images
<1>4. KeyInv'
  BY <1>1, <1>2 DEF KeyInv, HolderIsAlone, BillStages, CompletionHasBill,
     KeyHasBill, SinceHoldsKey
<1> QED
  BY <1>3, <1>4

\* The commit of the bill, acknowledged or not.
LEMMA CommitKeepsKey ==
  ASSUME CreationTypeOK, KeyInv, NEW r \in Requests, stage[r] = "commit",
         NEW x \in {"complete", "undo"}, Goto(r, x),
         newBills' = newBills \cup {r}, since' = since \cup {r},
         unsure' = IF x = "complete" THEN unsure ELSE unsure \cup {r},
         UNCHANGED key
  PROVE  KeyInv'
<1>1. x \in Stages
  BY DEF Stages, Live
<1>2. /\ stage'[r] = x /\ \A s \in Requests : s # r => stage'[s] = stage[s]
  BY <1>1, StageMoves
<1>3. key = [state |-> "in_progress", request |-> r] /\ r \notin newBills
  BY DEF KeyInv, HolderIsAlone, BillStages, Live
<1>4. r \notin unsure
  BY <1>3 DEF KeyInv, SinceHoldsKey
<1>5. newBills \subseteq Requests
  BY DEF CreationTypeOK
<1>6. HolderIsAlone'
  BY <1>2, <1>3 DEF KeyInv, HolderIsAlone
<1>7. BillStages'
  BY <1>2, <1>3, <1>5 DEF KeyInv, BillStages
<1>8. CompletionHasBill' /\ KeyHasBill'
  BY <1>2, <1>3, <1>4 DEF KeyInv, CompletionHasBill, KeyHasBill
<1>9. SinceHoldsKey'
  BY <1>3 DEF KeyInv, SinceHoldsKey
<1> QED
  BY <1>6, <1>7, <1>8, <1>9 DEF KeyInv

-----------------------------------------------------------------------------
(* The images. *)

\* A request that goes on without touching an image, to a stage that is right
\* for what it has uploaded.
LEMMA ImagesStay ==
  ASSUME CreationTypeOK, ImageInv, NEW r \in Requests,
         \A s \in Requests : s # r => stage'[s] = stage[s],
         stage'[r] \in {"none", "check", "upload", "commit"}
           => UploadsOf(r) \subseteq stored,
         stage'[r] \in {"commit", "reject"} => acked[r] = ImageCount,
         stage'[r] \in {"none", "check", "upload", "commit", "reject"}
           => ImagesOf(r) \cap queued = {},
         r \in rejected => stage'[r] \in {"undo", "release", "failed", "dead"},
         UNCHANGED <<newBills, unsure, rejected, images>>
  PROVE  ImageInv'
<1>1. /\ newBills \subseteq Requests /\ rejected \subseteq Requests
      /\ UNCHANGED <<acked, stored, queued>>
  BY DEF CreationTypeOK, images
<1>2. \A s \in Requests : UploadsOf(s)' = UploadsOf(s)
  BY <1>1 DEF UploadsOf
<1>3. UploadsStored' /\ CommitsHaveAll'
  BY <1>1, <1>2 DEF ImageInv, UploadsStored, CommitsHaveAll
<1>4. QueuedAfterRejection' /\ RejectedStages'
  BY <1>1 DEF ImageInv, QueuedAfterRejection, RejectedStages, ImagesOf
<1>5. BillImagesKept' /\ RejectedIsClean'
  BY <1>1 DEF ImageInv, BillImagesKept, RejectedIsClean, ImagesOf
<1> QED
  BY <1>3, <1>4, <1>5 DEF ImageInv

\* The commit of the bill finds its images stored and not queued.
LEMMA CommitKeepsImages ==
  ASSUME CreationInv, NEW r \in Requests, stage[r] = "commit",
         NEW x \in {"complete", "undo"}, Goto(r, x),
         newBills' = newBills \cup {r}, unsure \subseteq unsure',
         UNCHANGED <<rejected, images>>
  PROVE  ImageInv'
<1>1. CreationTypeOK /\ ImageInv
  BY DEF CreationInv
<1>2. x \in Stages
  BY DEF Stages, Live
<1>3. /\ stage'[r] = x /\ \A s \in Requests : s # r => stage'[s] = stage[s]
  BY <1>1, <1>2, StageMoves
<1>4. /\ newBills \subseteq Requests /\ rejected \subseteq Requests
      /\ UNCHANGED <<acked, stored, queued>>
  BY <1>1 DEF CreationTypeOK, images
<1>5. ImagesOf(r) \subseteq stored /\ ImagesOf(r) \cap queued = {}
  <2>1. acked[r] = ImageCount /\ UploadsOf(r) \subseteq stored
    BY <1>1 DEF ImageInv, CommitsHaveAll, UploadsStored
  <2>2. ImagesOf(r) \cap queued = {}
    BY <1>1 DEF ImageInv, QueuedAfterRejection
  <2> QED
    BY <1>1, <2>1, <2>2, ImageSets
<1>6. \A s \in Requests : UploadsOf(s)' = UploadsOf(s)
  BY <1>4 DEF UploadsOf
<1>7. UploadsStored' /\ CommitsHaveAll'
  BY <1>1, <1>3, <1>4, <1>6 DEF ImageInv, UploadsStored, CommitsHaveAll
<1>8. QueuedAfterRejection'
  BY <1>1, <1>3, <1>4, <1>5 DEF ImageInv, QueuedAfterRejection, ImagesOf
<1>9. RejectedStages'
  BY <1>1, <1>3, <1>4 DEF ImageInv, RejectedStages
<1>10. BillImagesKept' /\ RejectedIsClean'
  BY <1>1, <1>4, <1>5 DEF ImageInv, BillImagesKept, RejectedIsClean, ImagesOf
<1> QED
  BY <1>7, <1>8, <1>9, <1>10 DEF ImageInv

\* An upload adds one image of its own request.
LEMMA UploadKeepsInv ==
  ASSUME CreationInv, NEW r \in Requests, Upload(r)
  PROVE  CreationInv'
<1>1. CreationTypeOK /\ KeyInv /\ ImageInv
  BY DEF CreationInv
<1>2. /\ stage[r] = "upload"
      /\ UNCHANGED <<ended, key, submissionLocked, queued, newBills, unsure, since, rejected>>
  BY DEF Upload, At, outcome
<1>3. /\ stage[r] \in Live /\ r \notin newBills /\ r \notin rejected
      /\ newBills \subseteq Requests /\ rejected \subseteq Requests
  BY <1>1, <1>2
     DEF KeyInv, BillStages, ImageInv, RejectedStages, CreationTypeOK, Live
<1>4. /\ UploadsOf(r) \subseteq stored /\ ImagesOf(r) \cap queued = {}
      /\ acked[r] \in 0..ImageCount /\ ImageCount \in Nat
  BY <1>1, <1>2, CreationAssumption
     DEF ImageInv, UploadsStored, QueuedAfterRejection, CreationTypeOK
<1>5. "commit" \in Stages /\ "undo" \in Stages
  BY DEF Stages, Live
<1>6. CASE AllUploaded(r) /\ Goto(r, "commit") /\ UNCHANGED <<acked, stored>>
  <2>1. /\ stage' \in [Requests -> Stages] /\ stage'[r] = "commit"
        /\ \A s \in Requests : s # r => stage'[s] = stage[s]
    BY <1>1, <1>5, <1>6, StageMoves
  <2>2. CreationTypeOK'
    BY <1>1, <1>2, <1>6, <2>1 DEF CreationTypeOK
  <2>3. KeyInv'
    BY <1>1, <1>2, <1>3, <2>1, KeyStays
  <2>4. ImageInv'
    BY <1>1, <1>2, <1>3, <1>4, <1>6, <2>1, ImagesStay DEF images, AllUploaded
  <2> QED
    BY <2>2, <2>3, <2>4 DEF CreationInv
<1>7. CASE /\ ~AllUploaded(r)
           /\ acked' = [acked EXCEPT ![r] = acked[r] + 1]
           /\ stored' = stored \cup {<<r, acked[r] + 1>>}
           /\ UNCHANGED stage
  <2>1. acked[r] + 1 \in 1..ImageCount
    BY <1>4, <1>7 DEF AllUploaded
  <2>2. <<r, acked[r] + 1>> \in ImagesOf(r)
    BY <2>1 DEF ImagesOf
  <2>3. /\ acked' \in [Requests -> 0..ImageCount] /\ acked'[r] = acked[r] + 1
        /\ \A s \in Requests : s # r => acked'[s] = acked[s]
    BY <1>1, <1>7, <2>1 DEF CreationTypeOK
  <2>4. stored' \in SUBSET Image
    BY <1>1, <1>7, <2>2, ImageSets DEF CreationTypeOK
  <2>5. CreationTypeOK'
    BY <1>1, <1>2, <1>7, <2>3, <2>4 DEF CreationTypeOK
  <2>6. KeyInv'
    BY <1>1, <1>2, <1>3, <1>7, KeyStays
  <2>7. UploadsStored'
    <3>1. \A s \in Requests : s # r => UploadsOf(s)' = UploadsOf(s)
      BY <2>3 DEF UploadsOf
    <3>2. UploadsOf(r)' = UploadsOf(r) \cup {<<r, acked[r] + 1>>}
      <4>1. 1..(acked[r] + 1) = (1..acked[r]) \cup {acked[r] + 1}
        BY <1>4
      <4> QED
        BY <2>3, <4>1 DEF UploadsOf
    <3> QED
      BY <1>1, <1>4, <1>7, <3>1, <3>2 DEF ImageInv, UploadsStored
  <2>8. CommitsHaveAll'
    BY <1>1, <1>2, <1>7, <2>3 DEF ImageInv, CommitsHaveAll
  <2>9. QueuedAfterRejection' /\ RejectedStages' /\ BillImagesKept'
    BY <1>1, <1>2, <1>7
       DEF ImageInv, QueuedAfterRejection, RejectedStages, BillImagesKept, ImagesOf
  <2>10. RejectedIsClean'
    <3>1. \A s \in rejected : <<r, acked[r] + 1>> \notin ImagesOf(s)
      BY <1>1, <1>3, <2>2, ImageSets
    <3> QED
      BY <1>1, <1>2, <1>7, <3>1 DEF ImageInv, RejectedIsClean, ImagesOf
  <2> QED
    BY <2>5, <2>6, <2>7, <2>8, <2>9, <2>10 DEF CreationInv, ImageInv
<1>8. CASE /\ ~AllUploaded(r) /\ Goto(r, "undo") /\ UNCHANGED acked
           /\ stored' \in {stored, stored \cup {<<r, acked[r] + 1>>}}
  <2>1. <<r, acked[r] + 1>> \in ImagesOf(r)
    BY <1>4, <1>8 DEF ImagesOf, AllUploaded
  <2>2. stored' \in SUBSET Image
    BY <1>1, <1>8, <2>1, ImageSets DEF CreationTypeOK
  <2>3. /\ stage' \in [Requests -> Stages] /\ stage'[r] = "undo"
        /\ \A s \in Requests : s # r => stage'[s] = stage[s]
    BY <1>1, <1>5, <1>8, StageMoves
  <2>4. CreationTypeOK'
    BY <1>1, <1>2, <1>8, <2>2, <2>3 DEF CreationTypeOK
  <2>5. KeyInv'
    BY <1>1, <1>2, <1>3, <2>3, KeyStays
  <2>6. UploadsStored' /\ CommitsHaveAll'
    <3>1. \A s \in Requests : UploadsOf(s)' = UploadsOf(s)
      BY <1>8 DEF UploadsOf
    <3> QED
      BY <1>1, <1>8, <2>3, <3>1 DEF ImageInv, UploadsStored, CommitsHaveAll
  <2>7. QueuedAfterRejection' /\ RejectedStages'
    BY <1>1, <1>2, <1>3, <2>3
       DEF ImageInv, QueuedAfterRejection, RejectedStages, ImagesOf
  <2>8. BillImagesKept'
    BY <1>1, <1>2, <1>8 DEF ImageInv, BillImagesKept, ImagesOf
  <2>9. RejectedIsClean'
    <3>1. \A s \in rejected : <<r, acked[r] + 1>> \notin ImagesOf(s)
      BY <1>1, <1>3, <2>1, ImageSets
    <3> QED
      BY <1>1, <1>2, <1>8, <3>1 DEF ImageInv, RejectedIsClean, ImagesOf
  <2> QED
    BY <2>4, <2>5, <2>6, <2>7, <2>8, <2>9 DEF CreationInv, ImageInv
<1> QED
  BY <1>6, <1>7, <1>8 DEF Upload

\* A rejection queues images of its own request only, and all of them unless
\* its context has ended.
LEMMA RejectKeepsInv ==
  ASSUME CreationInv, NEW r \in Requests, Reject(r)
  PROVE  CreationInv'
<1>1. CreationTypeOK /\ KeyInv /\ ImageInv
  BY DEF CreationInv
<1>2. /\ stage[r] = "reject" /\ Goto(r, "undo")
      /\ UNCHANGED <<ended, key, submissionLocked, acked, stored, newBills, unsure, since>>
  BY DEF Reject, At
<1>3. /\ stage[r] \in Live /\ r \notin newBills
      /\ newBills \subseteq Requests /\ rejected \subseteq Requests
  BY <1>1, <1>2 DEF KeyInv, BillStages, CreationTypeOK, Live
<1>4. UploadsOf(r) = ImagesOf(r) /\ ImagesOf(r) \subseteq Image
  BY <1>1, <1>2, ImageSets DEF ImageInv, CommitsHaveAll
<1>5. /\ queued \subseteq queued' /\ queued' \subseteq queued \cup ImagesOf(r)
      /\ \/ rejected' = rejected
         \/ rejected' = rejected \cup {r} /\ ImagesOf(r) \subseteq queued'
  BY <1>4 DEF Reject, QueuedUploads
<1>6. "undo" \in Stages
  BY DEF Stages, Live
<1>7. /\ stage' \in [Requests -> Stages] /\ stage'[r] = "undo"
      /\ \A s \in Requests : s # r => stage'[s] = stage[s]
  BY <1>1, <1>2, <1>6, StageMoves
<1>8. CreationTypeOK'
  BY <1>1, <1>2, <1>3, <1>4, <1>5, <1>7 DEF CreationTypeOK
<1>9. KeyInv'
  BY <1>1, <1>2, <1>3, <1>7, KeyStays
<1>10. \A s \in Requests : s # r => ImagesOf(s) \cap ImagesOf(r) = {}
  BY <1>1, ImageSets
<1>11. UploadsStored' /\ CommitsHaveAll'
  <2>1. \A s \in Requests : UploadsOf(s)' = UploadsOf(s)
    BY <1>2 DEF UploadsOf
  <2> QED
    BY <1>1, <1>2, <1>7, <2>1 DEF ImageInv, UploadsStored, CommitsHaveAll
<1>12. QueuedAfterRejection'
  <2> SUFFICES ASSUME NEW s \in Requests,
                      \/ stage'[s] \in {"none", "check", "upload", "commit", "reject"}
                      \/ s \in newBills'
               PROVE  ImagesOf(s) \cap queued' = {}
    BY DEF QueuedAfterRejection, ImagesOf
  <2>1. s # r
    BY <1>2, <1>3, <1>7
  <2>2. ImagesOf(s) \cap queued = {}
    BY <1>1, <1>2, <1>7, <2>1 DEF ImageInv, QueuedAfterRejection
  <2> QED
    BY <1>5, <1>10, <2>1, <2>2
<1>13. RejectedStages'
  BY <1>1, <1>3, <1>5, <1>7 DEF ImageInv, RejectedStages
<1>14. BillImagesKept'
  <2> SUFFICES ASSUME NEW s \in newBills, s \notin unsure
               PROVE  ImagesOf(s) \subseteq stored /\ ImagesOf(s) \cap queued' = {}
    BY <1>2 DEF BillImagesKept, ImagesOf
  <2>1. ImagesOf(s) \subseteq stored /\ ImagesOf(s) \cap queued = {}
    BY <1>1 DEF ImageInv, BillImagesKept
  <2>2. s # r /\ s \in Requests
    BY <1>3
  <2> QED
    BY <1>5, <1>10, <2>1, <2>2
<1>15. RejectedIsClean'
  <2> SUFFICES ASSUME NEW s \in rejected'
               PROVE  ImagesOf(s) \cap stored \subseteq queued'
    BY <1>2 DEF RejectedIsClean, ImagesOf
  <2>1. CASE s \in rejected
    BY <1>1, <1>5, <2>1 DEF ImageInv, RejectedIsClean
  <2>2. CASE s \notin rejected
    BY <1>5, <2>2
  <2> QED
    BY <2>1, <2>2
<1> QED
  BY <1>8, <1>9, <1>11, <1>12, <1>13, <1>14, <1>15 DEF CreationInv, ImageInv

\* The deferred deletion deletes images of its own request only.
LEMMA UndoKeepsInv ==
  ASSUME CreationInv, NEW r \in Requests, Undo(r)
  PROVE  CreationInv'
<1>1. CreationTypeOK /\ KeyInv /\ ImageInv
  BY DEF CreationInv
<1>2. /\ stage[r] = "undo" /\ Goto(r, "release")
      /\ UNCHANGED <<ended, key, submissionLocked, acked, queued, newBills, unsure, since, rejected>>
  BY DEF Undo, At, outcome
<1>3. PICK gone \in SUBSET UploadsOf(r) : stored' = stored \ gone
  BY DEF Undo
<1>4. /\ stage[r] \in Live /\ (r \in newBills => r \in unsure)
      /\ newBills \subseteq Requests /\ rejected \subseteq Requests
  BY <1>1, <1>2 DEF KeyInv, BillStages, CreationTypeOK, Live
<1>5. "release" \in Stages
  BY DEF Stages, Live
<1>6. /\ stage' \in [Requests -> Stages] /\ stage'[r] = "release"
      /\ \A s \in Requests : s # r => stage'[s] = stage[s]
  BY <1>1, <1>2, <1>5, StageMoves
<1>7. /\ gone \subseteq ImagesOf(r)
      /\ \A s \in Requests :
           s # r => ImagesOf(s) \cap gone = {} /\ UploadsOf(s) \cap gone = {}
  BY <1>1, <1>3, ImageSets
<1>8. CreationTypeOK'
  BY <1>1, <1>2, <1>3, <1>6 DEF CreationTypeOK
<1>9. KeyInv'
  BY <1>1, <1>2, <1>4, <1>6, KeyStays
<1>10. UploadsStored' /\ CommitsHaveAll'
  <2>1. \A s \in Requests : UploadsOf(s)' = UploadsOf(s)
    BY <1>2 DEF UploadsOf
  <2> QED
    BY <1>1, <1>2, <1>3, <1>6, <1>7, <2>1
       DEF ImageInv, UploadsStored, CommitsHaveAll
<1>11. QueuedAfterRejection' /\ RejectedStages'
  BY <1>1, <1>2, <1>4, <1>6
     DEF ImageInv, QueuedAfterRejection, RejectedStages, ImagesOf
<1>12. BillImagesKept'
  <2> SUFFICES ASSUME NEW s \in newBills, s \notin unsure
               PROVE  ImagesOf(s) \subseteq stored' /\ ImagesOf(s) \cap queued = {}
    BY <1>2 DEF BillImagesKept, ImagesOf
  <2>1. ImagesOf(s) \subseteq stored /\ ImagesOf(s) \cap queued = {}
    BY <1>1 DEF ImageInv, BillImagesKept
  <2>2. s # r /\ s \in Requests
    BY <1>4
  <2> QED
    BY <1>3, <1>7, <2>1, <2>2
<1>13. RejectedIsClean'
  BY <1>1, <1>2, <1>3 DEF ImageInv, RejectedIsClean, ImagesOf
<1> QED
  BY <1>8, <1>9, <1>10, <1>11, <1>12, <1>13 DEF CreationInv, ImageInv

\* The cleanup workers delete what is queued, which no bill needs.
LEMMA CleanUpKeepsInv ==
  ASSUME CreationInv, NEW i \in Image, CleanUp(i)
  PROVE  CreationInv'
<1>1. CreationTypeOK /\ KeyInv /\ ImageInv
  BY DEF CreationInv
<1>2. /\ i \in queued /\ queued' = queued \ {i} /\ stored' = stored \ {i}
      /\ UNCHANGED <<stage, acked, ended, key, submissionLocked, newBills, unsure, since, rejected>>
  BY DEF CleanUp, outcome
<1>3. CreationTypeOK'
  BY <1>1, <1>2 DEF CreationTypeOK
<1>4. KeyInv'
  BY <1>1, <1>2 DEF KeyInv, HolderIsAlone, BillStages, CompletionHasBill,
     KeyHasBill, SinceHoldsKey
<1>5. \A s \in Requests : UploadsOf(s)' = UploadsOf(s)
  BY <1>2 DEF UploadsOf
<1>6. \A s \in Requests : UploadsOf(s) \subseteq ImagesOf(s)
  BY <1>1, ImageSets
<1>7. UploadsStored'
  BY <1>1, <1>2, <1>5, <1>6 DEF ImageInv, UploadsStored, QueuedAfterRejection
<1>8. CommitsHaveAll' /\ QueuedAfterRejection' /\ RejectedStages'
  BY <1>1, <1>2
     DEF ImageInv, CommitsHaveAll, QueuedAfterRejection, RejectedStages, ImagesOf
<1>9. BillImagesKept' /\ RejectedIsClean'
  BY <1>1, <1>2 DEF ImageInv, BillImagesKept, RejectedIsClean, ImagesOf
<1> QED
  BY <1>3, <1>4, <1>7, <1>8, <1>9 DEF CreationInv, ImageInv

\* The steps that touch the key touch no image.
LEMMA KeyStepsKeepInv ==
  ASSUME CreationInv, NEW r \in Requests,
         \/ CheckOrReserveIdempotency(r) \/ CompleteIdempotency(r)
         \/ ReleaseIdempotency(r)
  PROVE  CreationInv'
<1>1. CreationTypeOK /\ KeyInv /\ ImageInv
  BY DEF CreationInv
<1>2. CreationTypeOK' /\ KeyInv'
  BY <1>1, ReserveKeepsKey, CompleteKeepsKey, ReleaseKeepsKey
<1>3. UNCHANGED <<newBills, unsure, rejected, images>>
  BY DEF CheckOrReserveIdempotency, CompleteIdempotency, ReleaseIdempotency, outcome
<1>4. ASSUME NEW x \in {"check", "replayed", "refused", "created", "failed"},
             Goto(r, x),
             x = "check" => stage[r] = "none",
             r \in rejected => x = "failed"
      PROVE  ImageInv'
  <2>1. x \in Stages
    BY DEF Stages, Live
  <2>2. /\ stage'[r] = x /\ \A s \in Requests : s # r => stage'[s] = stage[s]
    BY <1>1, <1>4, <2>1, StageMoves
  <2>3. stage'[r] \in {"none", "check", "upload", "commit", "reject"}
          => UploadsOf(r) \subseteq stored /\ ImagesOf(r) \cap queued = {}
    BY <1>1, <1>4, <2>2 DEF ImageInv, UploadsStored, QueuedAfterRejection
  <2> QED
    BY <1>1, <1>3, <1>4, <2>2, <2>3, ImagesStay
<1>5. r \in rejected => stage[r] \notin {"none", "complete"}
  BY <1>1 DEF ImageInv, RejectedStages
<1>6. CheckOrReserveIdempotency(r) => ImageInv'
  BY <1>4, <1>5 DEF CheckOrReserveIdempotency, At
<1>7. CompleteIdempotency(r) => ImageInv'
  BY <1>4, <1>5 DEF CompleteIdempotency, At, AfterCompletion
<1>8. ReleaseIdempotency(r) => ImageInv'
  BY <1>4 DEF ReleaseIdempotency, At
<1> QED
  BY <1>2, <1>6, <1>7, <1>8 DEF CreationInv

\* A request that goes on, is refused or dies, without a change of the key, the
\* bills or the images.
LEMMA GoingOnKeepsInv ==
  ASSUME CreationInv, NEW r \in Requests, stage[r] \in Live,
         NEW x \in {"upload", "reject", "undo", "release", "dead"}, Goto(r, x),
         x = "upload" => stage[r] = "check",
         x = "reject" => stage[r] = "commit",
         x = "undo" => stage[r] = "commit",
         x = "release" => stage[r] = "check",
         UNCHANGED <<ended, key, submissionLocked, outcome, images>>
  PROVE  CreationInv'
<1>1. CreationTypeOK /\ KeyInv /\ ImageInv
  BY DEF CreationInv
<1>2. x \in Stages
  BY DEF Stages, Live
<1>3. /\ stage' \in [Requests -> Stages] /\ stage'[r] = x
      /\ \A s \in Requests : s # r => stage'[s] = stage[s]
  BY <1>1, <1>2, StageMoves
<1>4. CreationTypeOK'
  BY <1>1, <1>3 DEF CreationTypeOK, outcome, images
<1>5. r \in newBills \/ r \in rejected => stage[r] \notin {"check", "commit"}
  BY <1>1 DEF KeyInv, BillStages, ImageInv, RejectedStages
<1>6. KeyInv'
  BY <1>1, <1>3, <1>5, KeyStays DEF outcome
<1>7. stage'[r] \in {"upload", "reject"} => ImagesOf(r) \cap queued = {}
  BY <1>1, <1>3 DEF ImageInv, QueuedAfterRejection
<1>8. stage'[r] = "upload" => UploadsOf(r) \subseteq stored
  BY <1>1, <1>3 DEF ImageInv, UploadsStored
<1>9. stage'[r] = "reject" => acked[r] = ImageCount
  BY <1>1, <1>3 DEF ImageInv, CommitsHaveAll
<1>10. ImageInv'
  BY <1>1, <1>3, <1>5, <1>7, <1>8, <1>9, ImagesStay DEF outcome
<1> QED
  BY <1>4, <1>6, <1>10 DEF CreationInv

LEMMA CreateBillKeepsInv ==
  ASSUME CreationInv, NEW r \in Requests, CreateBill(r)
  PROVE  CreationInv'
<1>1. CreationTypeOK /\ KeyInv /\ ImageInv
  BY DEF CreationInv
<1>2. /\ stage[r] = "commit" /\ stage[r] \in Live
      /\ UNCHANGED <<ended, key, submissionLocked, images>>
  BY DEF CreateBill, At, Live
<1>3. ASSUME NEW x \in {"complete", "undo"}, Goto(r, x),
             newBills' = newBills \cup {r}, since' = since \cup {r},
             unsure' = IF x = "complete" THEN unsure ELSE unsure \cup {r},
             UNCHANGED rejected
      PROVE  CreationInv'
  <2>1. x \in Stages
    BY DEF Stages, Live
  <2>2. stage' \in [Requests -> Stages]
    BY <1>1, <1>3, <2>1, StageMoves
  <2>3. CreationTypeOK'
    BY <1>1, <1>2, <1>3, <2>2 DEF CreationTypeOK, images
  <2>4. KeyInv'
    BY <1>1, <1>2, <1>3, CommitKeepsKey
  <2>5. ImageInv'
    BY <1>2, <1>3, CommitKeepsImages
  <2> QED
    BY <2>3, <2>4, <2>5 DEF CreationInv
<1>4. ASSUME NEW x \in {"reject", "undo"}, Goto(r, x), UNCHANGED outcome
      PROVE  CreationInv'
  BY <1>2, <1>4, GoingOnKeepsInv
<1>5. CASE /\ Goto(r, "complete") /\ newBills' = newBills \cup {r}
           /\ since' = since \cup {r} /\ UNCHANGED <<unsure, rejected>>
  BY <1>3, <1>5
<1>6. CASE /\ Goto(r, "undo") /\ newBills' = newBills \cup {r}
           /\ since' = since \cup {r} /\ unsure' = unsure \cup {r}
           /\ UNCHANGED rejected
  BY <1>3, <1>6
<1> QED
  BY <1>4, <1>5, <1>6 DEF CreateBill

\* Steps that move no request.
LEMMA EnvironmentKeepsInv ==
  ASSUME CreationInv,
         \/ UNCHANGED creationVars
         \/ Expire \/ ToggleLock \/ \E r \in Requests : ContextEnds(r)
  PROVE  CreationInv'
<1>1. CreationTypeOK /\ KeyInv /\ ImageInv
  BY DEF CreationInv
<1>2. UNCHANGED <<stage, newBills, unsure, rejected, images>>
  BY DEF creationVars, images, Expire, ToggleLock, ContextEnds, outcome
<1>3. ImageInv'
  <2>1. \A s \in Requests : UploadsOf(s)' = UploadsOf(s)
    BY <1>2 DEF UploadsOf, images
  <2> QED
    BY <1>1, <1>2, <2>1 DEF images, ImageInv, UploadsStored, CommitsHaveAll,
       QueuedAfterRejection, RejectedStages, BillImagesKept, RejectedIsClean, ImagesOf
<1>4. CASE Expire
  BY <1>1, <1>3, <1>4, ExpireKeepsKey DEF CreationInv
<1>5. CASE ~Expire
  <2>1. UNCHANGED <<key, since>>
    BY <1>5 DEF creationVars, ToggleLock, ContextEnds, outcome
  <2>2. CreationTypeOK'
    BY <1>1, <1>2, <1>5, <2>1 DEF CreationTypeOK, creationVars, images, ToggleLock, ContextEnds
  <2>3. KeyInv'
    BY <1>1, <1>2, <2>1 DEF KeyInv, HolderIsAlone, BillStages, CompletionHasBill,
       KeyHasBill, SinceHoldsKey
  <2> QED
    BY <1>3, <2>2, <2>3 DEF CreationInv
<1> QED
  BY <1>4, <1>5

-----------------------------------------------------------------------------
(* The theorems. *)

\* Every step preserves the invariant.
LEMMA CreationNextInv == CreationInv /\ [CreationNext]_creationVars => CreationInv'
<1> SUFFICES ASSUME CreationInv, [CreationNext]_creationVars PROVE CreationInv'
  OBVIOUS
<1>1. ASSUME NEW r \in Requests, Check(r) PROVE CreationInv'
  <2>1. stage[r] = "check" /\ stage[r] \in Live
    BY <1>1 DEF Check, At, Live
  <2> QED
    BY <1>1, <2>1, GoingOnKeepsInv DEF Check
<1>2. ASSUME NEW r \in Requests, Crash(r) PROVE CreationInv'
  BY <1>2, GoingOnKeepsInv DEF Crash
<1>3. ASSUME NEW r \in Requests, RequestStep(r) PROVE CreationInv'
  BY <1>1, <1>2, <1>3, KeyStepsKeepInv, UploadKeepsInv, CreateBillKeepsInv,
     RejectKeepsInv, UndoKeepsInv, EnvironmentKeepsInv DEF RequestStep
<1> QED
  BY <1>3, CleanUpKeepsInv, EnvironmentKeepsInv DEF CreationNext

\* The invariant holds in every reachable state.
LEMMA CreationInvHolds == CreationSpec => []CreationInv
BY CreationInitInv, CreationNextInv, PTL DEF CreationSpec

\* Every reachable state has the declared types; no request uploads more than
\* its images.
THEOREM CreationTypes == CreationSpec => []CreationTypeOK
<1>1. CreationInv => CreationTypeOK
  BY DEF CreationInv
<1> QED
  BY <1>1, CreationInvHolds, PTL

\* As long as the key lives, only a commit whose answer was lost lets a second
\* bill be created under it, for any number of retries.
THEOREM KeyMakesOneBill == CreationSpec => []OneBillPerKey
<1>1. CreationInv => OneBillPerKey
  <2> SUFFICES ASSUME CreationInv, NEW a \in since, NEW b \in since,
                      a \notin unsure, b \notin unsure
               PROVE  a = b
    BY DEF OneBillPerKey
  <2>1. SinceHoldsKey
    BY DEF CreationInv, KeyInv
  <2> QED
    BY <2>1 DEF SinceHoldsKey
<1> QED
  BY <1>1, CreationInvHolds, PTL

\* A completed key answers with a bill that exists and has all its images.
THEOREM ReplayTellsTheTruth == CreationSpec => []ReplayIsTrue
<1>1. CreationInv => ReplayIsTrue
  BY DEF CreationInv, KeyInv, KeyHasBill, ImageInv, BillImagesKept, ReplayIsTrue
<1> QED
  BY <1>1, CreationInvHolds, PTL

\* Compensations and cleanups keep off the images of acknowledged bills.
THEOREM ImagesAreKept == CreationSpec => []BillImagesKept
<1>1. CreationInv => BillImagesKept
  BY DEF CreationInv, ImageInv
<1> QED
  BY <1>1, CreationInvHolds, PTL

\* Every image of a creation that the lock has rejected is gone or queued.
THEOREM RejectionIsClean == CreationSpec => []RejectedIsClean
<1>1. CreationInv => RejectedIsClean
  BY DEF CreationInv, ImageInv
<1> QED
  BY <1>1, CreationInvHolds, PTL
=============================================================================
