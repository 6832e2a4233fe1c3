------------------------- MODULE ProofUploadProofs -------------------------
(***************************************************************************)
(* Theorems about MediaCleanup, for every number of objects and workers    *)
(* and every limit of attempts, and about ProofUpload, which extends it,   *)
(* for every number of calls and keys and every choice of the faults that  *)
(* may happen.                                                             *)
(*                                                                         *)
(* MediaCleanup.  That a completed job has removed its object              *)
(* (CompletedIsGone) needs two facts about the claims: the object of a     *)
(* claim has a job, so that nobody uploads it again, and the object of a   *)
(* claim that got its "ok" is gone.                                        *)
(*                                                                         *)
(* ProofUpload.  The inductive invariant is the conjunction Inv.  Its core *)
(* is that an operation belongs to one call or to one record at a time: a  *)
(* record that may be retried is held by no call (RetriesAreFree), and the *)
(* operation of the payment's proof is held by no call but one that does   *)
(* not know that it has won (WinnerIsKnown).  Whatever deletes objects, a  *)
(* compensation or a cleanup job, works on an operation that is doomed     *)
(* already (DoomedAreOver).                                                *)
(***************************************************************************)
EXTENDS ProofUpload, TLAPS

ClaimsAreTrue ==
  \A c \in claims :
    /\ jobs[c.object] # "none"
    /\ c.deleted => c.object \notin stored

MediaInv ==
  /\ MediaTypeOK
  /\ ClaimsAreTrue
  /\ CompletedIsGone

-----------------------------------------------------------------------------
\* Every step of a worker keeps the types of the media tables.
LEMMA WorkerTypes ==
  ASSUME MediaTypeOK, WorkerNext
  PROVE  MediaTypeOK'
<1> USE MediaAssumption DEF MediaTypeOK
<1>1. ASSUME NEW w \in Workers, NEW o \in Objects, ClaimJob(w, o)
      PROVE  MediaTypeOK'
  <2>1. CountAttempt(o) \in 0..AttemptLimit
    BY DEF CountAttempt
  <2>2. [worker |-> w, object |-> o, deleted |-> FALSE] \in Claims
    BY DEF Claims
  <2> QED
    BY <1>1, <2>1, <2>2 DEF ClaimJob
<1>2. ASSUME NEW c \in claims, DeleteClaimed(c)
      PROVE  MediaTypeOK'
  <2>1. [c EXCEPT !.deleted = TRUE] \in Claims
    BY DEF Claims
  <2>2. stored' \in SUBSET Objects
    BY <1>2 DEF DeleteClaimed, AfterDestroy
  <2> QED
    BY <1>2, <2>1, <2>2 DEF DeleteClaimed
<1>3. ASSUME NEW c \in claims, DeleteFails(c)
      PROVE  MediaTypeOK'
  BY <1>3 DEF DeleteFails, AfterDestroy
<1>4. ASSUME NEW c \in claims, CompleteJob(c)
      PROVE  MediaTypeOK'
  BY <1>4 DEF CompleteJob, JobStatuses, Claims
<1>5. ASSUME NEW c \in claims, AbandonClaim(c)
      PROVE  MediaTypeOK'
  BY <1>5 DEF AbandonClaim
<1>6. ASSUME NEW o \in Objects, BecomesDue(o) \/ PurgeJob(o)
      PROVE  MediaTypeOK'
  BY <1>6 DEF BecomesDue, PurgeJob, JobStatuses
<1> QED
  BY <1>1, <1>2, <1>3, <1>4, <1>5, <1>6 DEF WorkerNext

-----------------------------------------------------------------------------
\* Every step of a worker preserves the invariant.
LEMMA WorkerKeepsInv ==
  ASSUME MediaInv, WorkerNext
  PROVE  MediaInv'
<1> USE DEF MediaInv
<1>0. MediaTypeOK'
  BY WorkerTypes
<1>1. ASSUME NEW w \in Workers, NEW o \in Objects, ClaimJob(w, o)
      PROVE  ClaimsAreTrue' /\ CompletedIsGone'
  BY <1>1 DEF ClaimJob, Claimable, ClaimsAreTrue, CompletedIsGone
<1>2. ASSUME NEW c \in claims, DeleteClaimed(c)
      PROVE  ClaimsAreTrue' /\ CompletedIsGone'
  <2> DEFINE new == [c EXCEPT !.deleted = TRUE]
  <2>1. c \in Claims
    BY DEF MediaTypeOK
  <2>2. new.object = c.object
    BY <2>1 DEF Claims
  <2>3. stored' = stored \ {c.object} /\ jobs' = jobs
    BY <1>2 DEF DeleteClaimed, DestroyOk, AfterDestroy
  <2>4. claims' = (claims \ {c}) \cup {new}
    BY <1>2 DEF DeleteClaimed
  <2> HIDE DEF new
  <2> QED
    BY <2>2, <2>3, <2>4 DEF ClaimsAreTrue, CompletedIsGone
<1>3. ASSUME NEW c \in claims, DeleteFails(c) \/ AbandonClaim(c)
      PROVE  ClaimsAreTrue' /\ CompletedIsGone'
  <2>1. stored' \subseteq stored /\ claims' \subseteq claims /\ jobs' = jobs
    BY <1>3 DEF DeleteFails, AbandonClaim, AfterDestroy
  <2> QED
    BY <2>1 DEF ClaimsAreTrue, CompletedIsGone
<1>4. ASSUME NEW c \in claims, CompleteJob(c)
      PROVE  ClaimsAreTrue' /\ CompletedIsGone'
  <2>1. c.object \in Objects /\ \A d \in claims : d.object \in Objects
    BY DEF MediaTypeOK, Claims
  <2>2. \A o \in Objects :
          jobs'[o] = IF o = c.object THEN "completed" ELSE jobs[o]
    BY <1>4 DEF CompleteJob, MediaTypeOK
  <2>3. claims' \subseteq claims /\ stored' = stored /\ c.object \notin stored
    BY <1>4 DEF CompleteJob, ClaimsAreTrue
  <2> QED
    BY <2>1, <2>2, <2>3 DEF ClaimsAreTrue, CompletedIsGone
<1>5. ASSUME NEW o \in Objects, BecomesDue(o) \/ PurgeJob(o)
      PROVE  ClaimsAreTrue' /\ CompletedIsGone'
  <2>1. \A c \in claims : c.object \in Objects
    BY DEF MediaTypeOK, Claims
  <2>2. CASE BecomesDue(o)
    BY <2>2 DEF BecomesDue, ClaimsAreTrue, CompletedIsGone
  <2>3. CASE PurgeJob(o)
    <3>1. \A p \in Objects : jobs'[p] = IF p = o THEN "purged" ELSE jobs[p]
      BY <2>3 DEF PurgeJob, MediaTypeOK
    <3>2. o \notin stored /\ stored' = stored /\ claims' = claims
      BY <2>3 DEF PurgeJob, CompletedIsGone
    <3> QED
      BY <2>1, <3>1, <3>2 DEF ClaimsAreTrue, CompletedIsGone
  <2> QED
    BY <1>5, <2>2, <2>3
<1> QED
  BY <1>0, <1>1, <1>2, <1>3, <1>4, <1>5 DEF WorkerNext

\* Every step of the rest of the program preserves the invariant.
LEMMA ProgramKeepsInv ==
  ASSUME MediaInv, NEW o \in Objects,
         Upload(o) \/ Discard(o) \/ CompensatingDelete(o)
  PROVE  MediaInv'
<1> USE MediaAssumption DEF MediaInv
<1>1. MediaTypeOK'
  BY DEF Upload, Discard, CompensatingDelete, QueueCleanup, MediaTypeOK, JobStatuses
<1>2. \A c \in claims : c.object \in Objects
  BY DEF MediaTypeOK, Claims
<1>3. CASE Upload(o)
  BY <1>1, <1>2, <1>3 DEF Upload, ClaimsAreTrue, CompletedIsGone
<1>4. CASE Discard(o)
  <2>1. \A p \in Objects : jobs'[p] = IF p = o THEN "open" ELSE jobs[p]
    BY <1>4 DEF Discard, QueueCleanup, MediaTypeOK
  <2>2. stored' \subseteq stored /\ claims' = claims
    BY <1>4 DEF Discard
  <2> QED
    BY <1>1, <1>2, <2>1, <2>2 DEF ClaimsAreTrue, CompletedIsGone
<1>5. CASE CompensatingDelete(o)
  BY <1>1, <1>5 DEF CompensatingDelete, ClaimsAreTrue, CompletedIsGone
<1> QED
  BY <1>3, <1>4, <1>5

\* The invariant holds in every reachable state.
LEMMA MediaInvHolds == MediaSpec => []MediaInv
<1>1. MediaInit => MediaInv
  BY MediaAssumption
  DEF MediaInit, MediaInv, MediaTypeOK, JobStatuses, ClaimsAreTrue, CompletedIsGone
<1>2. MediaInv /\ [MediaNext]_mediaVars => MediaInv'
  <2> SUFFICES ASSUME MediaInv, [MediaNext]_mediaVars PROVE MediaInv'
    OBVIOUS
  <2>1. CASE MediaNext
    BY <2>1, WorkerKeepsInv, ProgramKeepsInv DEF MediaNext
  <2>2. CASE UNCHANGED mediaVars
    BY <2>2 DEF mediaVars, MediaInv, MediaTypeOK, ClaimsAreTrue, CompletedIsGone
  <2> QED
    BY <2>1, <2>2
<1> QED
  BY <1>1, <1>2, PTL DEF MediaSpec

\* Every reachable state has the declared types: attempt_count never passes its
\* limit, for any number of workers of both kinds.
THEOREM MediaTypes == MediaSpec => []MediaTypeOK
<1>1. MediaInv => MediaTypeOK
  BY DEF MediaInv
<1> QED
  BY <1>1, MediaInvHolds, PTL

\* A job that is completed, and perhaps purged, has removed its object, for any
\* number of workers that hold the same job.
THEOREM CompletedHasGone == MediaSpec => []CompletedIsGone
<1>1. MediaInv => CompletedIsGone
  BY DEF MediaInv
<1> QED
  BY <1>1, MediaInvHolds, PTL

-----------------------------------------------------------------------------
\* A cleanup job may still delete these objects.
Doomed ==
  {o \in Objects : jobs[o] = "open" \/ \E c \in claims : c.object = o}

\* The phases of a call that still needs its operation.
Fresh(a) == calls[a].phase \in {"uploading", "submitting", "resetting_same"}

OpsAreUsed ==
  /\ \A a \in Calls : Running(a) => calls[a].op \in usedOps
  /\ \A k \in Keys : rows[k].state # "none" => rows[k].op \in usedOps
  /\ Doomed \subseteq usedOps
  /\ NoObject \notin usedOps
  /\ proof \in usedOps \cup {NoObject}

RowsIsolated ==
  \A k, l \in Keys :
    k # l /\ rows[k].state # "none" /\ rows[l].state # "none"
      => rows[k].op # rows[l].op

RetriesAreFree ==
  \A k \in Keys : rows[k].retryable =>
    /\ rows[k].state = "in_progress"
    /\ rows[k].op \notin Doomed
    /\ \A a \in Calls : Running(a) => calls[a].op # rows[k].op

WinnerIsKnown ==
  /\ proof # NoObject => payment = "pending_confirmation"
  /\ \A a \in unanswered : calls[a].phase # "idle"
  /\ \A a \in Calls : Running(a) /\ calls[a].op = proof => a \in unanswered
  /\ \A k \in Keys : rows[k].state = "in_progress" => rows[k].op # proof

DoomedAreOver ==
  /\ \A a \in Calls : Fresh(a) => calls[a].op \notin Doomed
  /\ \A a \in Calls : In(a, "submitting") => calls[a].op \in stored
  /\ proof # NoObject /\ proof \in Doomed =>
       \E a \in unanswered : calls[a].op = proof

Inv ==
  /\ TypeOK
  /\ OpsAreUsed
  /\ CallsIsolated
  /\ RowsIsolated
  /\ RetriesAreFree
  /\ WinnerIsKnown
  /\ DoomedAreOver
  /\ ProofKept
  /\ ReplayTellsTruth
-----------------------------------------------------------------------------
\* The initial state satisfies the invariant.
LEMMA InitInv == Init => Inv
<1> SUFFICES ASSUME Init PROVE Inv
  OBVIOUS
<1> USE MediaAssumption, ProofAssumption DEF Init, MediaInit
<1>1. \A a \in Calls : calls[a].phase = "idle" /\ ~Running(a) /\ ~Fresh(a)
  BY DEF Running, Fresh
<1>2. Doomed = {}
  BY DEF Doomed
<1>3. TypeOK
  <2>1. MediaTypeOK
    BY DEF MediaTypeOK, JobStatuses
  <2>2. rows \in [Keys -> Row]
    BY DEF Row, NoRow
  <2>3. calls \in [Calls -> Call]
    <3>1. ASSUME NEW k \in Keys
          PROVE  [phase |-> "idle", key |-> k, op |-> NoObject, alive |-> TRUE]
                   \in Call
      BY DEF Call, Phases
    <3> QED
      BY <3>1
  <2> QED
    BY <2>1, <2>2, <2>3 DEF TypeOK, PaymentStatuses
<1>4. OpsAreUsed
  BY <1>1, <1>2 DEF OpsAreUsed, NoRow
<1>5. CallsIsolated /\ RowsIsolated /\ RetriesAreFree
  BY <1>1 DEF CallsIsolated, RowsIsolated, RetriesAreFree, NoRow
<1>6. WinnerIsKnown /\ DoomedAreOver
  BY <1>1 DEF WinnerIsKnown, DoomedAreOver, NoRow, In
<1>7. ProofKept /\ ReplayTellsTruth
  BY DEF ProofKept, ReplayTellsTruth, NoRow
<1> QED
  BY <1>3, <1>4, <1>5, <1>6, <1>7 DEF Inv

-----------------------------------------------------------------------------
(* Types.                                                                  *)

\* A running call has an operation.
LEMMA RunningHasObject ==
  ASSUME Inv, NEW a \in Calls, Running(a)
  PROVE  calls[a].op \in Objects /\ calls[a].op # NoObject
BY DEF Inv, OpsAreUsed, TypeOK

\* A worker dooms no object, and deletes only doomed ones.
LEMMA WorkerDoomsNothing ==
  ASSUME MediaTypeOK, WorkerNext
  PROVE  /\ Doomed' \subseteq Doomed
         /\ stored \ Doomed \subseteq stored'
<1> USE DEF MediaTypeOK, Doomed
<1>1. ASSUME NEW w \in Workers, NEW p \in Objects, ClaimJob(w, p)
      PROVE  /\ Doomed' \subseteq Doomed
             /\ stored' = stored
  BY <1>1 DEF ClaimJob, Claimable
<1>2. ASSUME NEW c \in claims,
             DeleteClaimed(c) \/ DeleteFails(c) \/ CompleteJob(c)
               \/ AbandonClaim(c)
      PROVE  /\ Doomed' \subseteq Doomed
             /\ stored \ {c.object} \subseteq stored'
  <2>1. c \in Claims /\ c.object \in Objects
    BY DEF Claims
  <2>2. CASE DeleteClaimed(c)
    <3>1. [c EXCEPT !.deleted = TRUE].object = c.object
      BY <2>1 DEF Claims
    <3> QED
      BY <2>2, <3>1 DEF DeleteClaimed, AfterDestroy
  <2>3. CASE DeleteFails(c)
    BY <2>3 DEF DeleteFails, AfterDestroy
  <2>4. CASE CompleteJob(c)
    BY <2>1, <2>4 DEF CompleteJob
  <2>5. CASE AbandonClaim(c)
    BY <2>5 DEF AbandonClaim
  <2> QED
    BY <1>2, <2>2, <2>3, <2>4, <2>5
<1>3. ASSUME NEW p \in Objects, BecomesDue(p) \/ PurgeJob(p)
      PROVE  /\ Doomed' \subseteq Doomed
             /\ stored' = stored
  BY <1>3 DEF BecomesDue, PurgeJob
<1> QED
  BY <1>1, <1>2, <1>3 DEF WorkerNext
-----------------------------------------------------------------------------
(* A call moves on, keeping its operation: to a phase that still needs the *)
(* operation only from such a phase.  It dooms or deletes no object but    *)
(* its own, and only when it is past those phases.                         *)

LEMMA CallMovesOn ==
  ASSUME Inv, MediaTypeOK', NEW a \in Calls,
         UNCHANGED <<payment, proof, rows, usedOps, unanswered>>,
         calls' \in [Calls -> Call],
         \A b \in Calls : calls'[b].op = calls[b].op,
         \A b \in Calls \ {a} : calls'[b].phase = calls[b].phase,
         calls'[a].phase # "idle",
         Running(a)' => Running(a),
         Fresh(a)' => Fresh(a),
         In(a, "submitting")' => calls[a].op \in stored',
         \A o \in Doomed' :
           \/ o \in Doomed
           \/ o = calls[a].op /\ Running(a) /\ ~Fresh(a)',
         \A o \in Objects : o \in stored =>
           \/ o \in stored'
           \/ o = calls[a].op /\ Running(a) /\ ~Fresh(a)'
  PROVE  Inv'
<1> USE DEF Inv
<1>1. \A b \in Calls : (Running(b)' => Running(b)) /\ (Fresh(b)' => Fresh(b))
  BY DEF Running, Fresh
<1>2. \A b \in Calls : Fresh(b) => Running(b)
  BY DEF Running, Fresh
<1>3. TypeOK'
  BY DEF TypeOK
<1>4. OpsAreUsed'
  BY <1>1, <1>2 DEF OpsAreUsed
<1>5. CallsIsolated' /\ RowsIsolated'
  BY <1>1 DEF CallsIsolated, RowsIsolated
<1>6. RetriesAreFree'
  <2> SUFFICES ASSUME NEW k \in Keys, rows[k].retryable
               PROVE  /\ rows[k].state = "in_progress"
                      /\ rows[k].op \notin Doomed'
                      /\ \A b \in Calls : Running(b)' => calls[b].op # rows[k].op
    BY DEF RetriesAreFree
  <2>1. rows[k].op \in Objects
    BY DEF RetriesAreFree, OpsAreUsed, TypeOK, Row
  <2> QED
    BY <1>1, <2>1 DEF RetriesAreFree
<1>7. WinnerIsKnown'
  <2>1. \A b \in unanswered : calls'[b].phase # "idle"
    BY DEF WinnerIsKnown, TypeOK
  <2> QED
    BY <1>1, <2>1 DEF WinnerIsKnown
<1>8. DoomedAreOver'
  <2>1. ASSUME NEW b \in Calls, Fresh(b)'
        PROVE  calls[b].op \notin Doomed'
    <3>1. calls[b].op \in Objects
      BY <1>1, <1>2, <2>1, RunningHasObject
    <3>2. calls[b].op # calls[a].op \/ a = b \/ ~Running(a)
      BY <1>1, <1>2, <2>1 DEF CallsIsolated
    <3> QED
      BY <1>1, <2>1, <3>1, <3>2 DEF DoomedAreOver
  <2>2. ASSUME NEW b \in Calls, In(b, "submitting")'
        PROVE  calls[b].op \in stored'
    <3>1. CASE b = a
      BY <2>2, <3>1
    <3>2. CASE b # a
      <4>1. In(b, "submitting") /\ Running(b)
        BY <2>2, <3>2 DEF In, Running
      <4>2. calls[b].op \in Objects
        BY <4>1, RunningHasObject
      <4>3. Running(a) => calls[b].op # calls[a].op
        BY <3>2, <4>1 DEF CallsIsolated
      <4> QED
        BY <4>1, <4>2, <4>3 DEF DoomedAreOver
    <3> QED
      BY <3>1, <3>2
  <2>3. proof # NoObject /\ proof \in Doomed' =>
          \E b \in unanswered : calls[b].op = proof
    BY DEF DoomedAreOver, WinnerIsKnown, TypeOK
  <2> QED
    <3>1. unanswered \subseteq Calls
      BY DEF TypeOK
    <3> QED
      BY <2>1, <2>2, <2>3, <3>1 DEF DoomedAreOver
<1>9. ProofKept'
  <2>1. unanswered \subseteq Calls /\ proof \in Objects \cup {NoObject}
    BY DEF TypeOK
  <2> QED
    BY <2>1 DEF ProofKept, WinnerIsKnown
<1>10. ReplayTellsTruth'
  BY DEF ReplayTellsTruth
<1> QED
  BY <1>3, <1>4, <1>5, <1>6, <1>7, <1>8, <1>9, <1>10
\* An upload that arrives, or that fails.
LEMMA UploadStep ==
  ASSUME Inv, NEW a \in Calls, UploadOk(a) \/ UploadFails(a)
  PROVE  Inv'
<1>1. Running(a) /\ Fresh(a) /\ calls[a].op \in Objects
  <2>1. Running(a) /\ Fresh(a)
    BY DEF UploadOk, UploadFails, In, Running, Fresh
  <2> QED
    BY <2>1, RunningHasObject
<1>2. PICK q \in {"submitting", "resetting_same"} :
        calls' = [calls EXCEPT ![a].phase = q]
  BY DEF UploadOk, UploadFails, Goto
<1>3. /\ calls' \in [Calls -> Call]
      /\ \A b \in Calls : calls'[b].op = calls[b].op
      /\ \A b \in Calls \ {a} : calls'[b].phase = calls[b].phase
      /\ calls'[a].phase = q
  BY <1>2 DEF Inv, TypeOK, Call, Phases
<1>4. /\ stored \subseteq stored'
      /\ stored' \in SUBSET Objects
      /\ q = "submitting" => calls[a].op \in stored'
      /\ UNCHANGED <<jobs, attempts, due, claims>>
      /\ UNCHANGED <<payment, proof, rows, usedOps, unanswered>>
  <2>1. CASE UploadOk(a)
    BY <1>1, <2>1 DEF UploadOk, Inv, TypeOK, MediaTypeOK
  <2>2. CASE UploadFails(a)
    <3>1. q = "resetting_same"
      BY <1>3, <2>2 DEF UploadFails, Goto, Inv, TypeOK, Call
    <3> QED
      BY <1>1, <2>2, <3>1 DEF UploadFails, Inv, TypeOK, MediaTypeOK
  <2> QED
    BY <2>1, <2>2
<1>5. MediaTypeOK'
  BY <1>4 DEF Inv, TypeOK, MediaTypeOK
<1>6. Doomed' \subseteq Doomed
  BY <1>4 DEF Doomed
<1>7. Running(a)' /\ Fresh(a)'
  BY <1>3 DEF Running, Fresh
<1>8. In(a, "submitting")' => calls[a].op \in stored'
  BY <1>3, <1>4 DEF In
<1> QED
  BY <1>1, <1>3, <1>4, <1>5, <1>6, <1>7, <1>8, CallMovesOn

\* A call only fails, ends or loses its context; a compensation deletes the
\* call's own object or queues it.
LEMMA CompensationStep ==
  ASSUME Inv, NEW a \in Calls,
         \/ PrepareEnds(a) \/ SubmitFails(a) \/ ResetFails(a) \/ Cancel(a)
         \/ DeleteOwn(a) \/ DeleteOwnFails(a)
         \/ QueueOwn(a) \/ QueueOwnFails(a)
  PROVE  Inv'
<1> USE DEF Inv, TypeOK
<1>1. CASE PrepareEnds(a) \/ SubmitFails(a) \/ ResetFails(a) \/ QueueOwnFails(a)
  <2>1. PICK q \in {"over", "deleting", "resetting_new"} :
          /\ calls' = [calls EXCEPT ![a].phase = q]
          /\ q = "over" \/ Running(a)
    BY <1>1 DEF PrepareEnds, SubmitFails, ResetFails, QueueOwnFails, Goto,
                Running, In
  <2>2. /\ calls' \in [Calls -> Call]
        /\ \A b \in Calls : calls'[b].op = calls[b].op
        /\ \A b \in Calls \ {a} : calls'[b].phase = calls[b].phase
        /\ calls'[a].phase = q
    BY <2>1 DEF Call, Phases
  <2>3. UNCHANGED <<mediaVars, payment, proof, rows, usedOps, unanswered>>
    BY <1>1 DEF PrepareEnds, SubmitFails, ResetFails, QueueOwnFails
  <2>4. MediaTypeOK' /\ stored' = stored /\ Doomed' = Doomed
    BY <2>3 DEF mediaVars, MediaTypeOK, Doomed
  <2>5. (Running(a)' => Running(a)) /\ ~Fresh(a)' /\ ~In(a, "submitting")'
    BY <2>1, <2>2 DEF Running, Fresh, In
  <2> QED
    BY <2>1, <2>2, <2>3, <2>4, <2>5, CallMovesOn
<1>2. CASE Cancel(a)
  <2>1. /\ calls' \in [Calls -> Call]
        /\ \A b \in Calls : calls'[b].op = calls[b].op
                            /\ calls'[b].phase = calls[b].phase
    BY <1>2 DEF Cancel, Call
  <2>2. UNCHANGED <<mediaVars, payment, proof, rows, usedOps, unanswered>>
    BY <1>2 DEF Cancel
  <2>3. MediaTypeOK' /\ stored' = stored /\ Doomed' = Doomed
    BY <2>2 DEF mediaVars, MediaTypeOK, Doomed
  <2>4. calls'[a].phase # "idle" /\ Running(a)' = Running(a) /\ Fresh(a)' = Fresh(a)
        /\ In(a, "submitting")' = In(a, "submitting")
    BY <1>2, <2>1 DEF Cancel, Running, Fresh, In
  <2>5. In(a, "submitting")' => calls[a].op \in stored'
    BY <2>3, <2>4 DEF DoomedAreOver
  <2> QED
    BY <2>1, <2>2, <2>3, <2>4, <2>5, CallMovesOn
<1>3. CASE DeleteOwn(a) \/ DeleteOwnFails(a) \/ QueueOwn(a)
  <2>1. Running(a) /\ calls[a].op \in Objects
    <3>1. Running(a)
      BY <1>3 DEF DeleteOwn, DeleteOwnFails, QueueOwn, Running, In
    <3> QED
      BY <3>1, RunningHasObject
  <2>2. PICK q \in {"queueing", "resetting_new"} :
          calls' = [calls EXCEPT ![a].phase = q]
    BY <1>3 DEF DeleteOwn, DeleteOwnFails, QueueOwn, Goto
  <2>3. /\ calls' \in [Calls -> Call]
        /\ \A b \in Calls : calls'[b].op = calls[b].op
        /\ \A b \in Calls \ {a} : calls'[b].phase = calls[b].phase
        /\ calls'[a].phase = q
    BY <2>2 DEF Call, Phases
  <2>4. UNCHANGED <<claims, payment, proof, rows, usedOps, unanswered>>
    BY <1>3 DEF DeleteOwn, DeleteOwnFails, QueueOwn
  <2>5. /\ stored \ {calls[a].op} \subseteq stored'
        /\ stored' \subseteq stored
        /\ MediaTypeOK'
        /\ Doomed' \subseteq Doomed \cup {calls[a].op}
    <3>1. CASE DeleteOwn(a) \/ DeleteOwnFails(a)
      BY <3>1 DEF DeleteOwn, DeleteOwnFails, MediaTypeOK, Doomed
    <3>2. CASE QueueOwn(a)
      BY <2>1, <3>2, MediaAssumption
      DEF QueueOwn, QueueCleanup, MediaTypeOK, Doomed, JobStatuses
    <3> QED
      BY <1>3, <3>1, <3>2
  <2>6. Running(a)' /\ ~Fresh(a)' /\ ~In(a, "submitting")'
    BY <2>3 DEF Running, Fresh, In
  <2> QED
    BY <2>1, <2>3, <2>4, <2>5, <2>6, CallMovesOn
<1> QED
  BY <1>1, <1>2, <1>3
-----------------------------------------------------------------------------
(* A record is taken, resumed, completed, replaced.                        *)

\* The media tables do not change.
LEMMA MediaSame ==
  ASSUME Inv, UNCHANGED mediaVars
  PROVE  /\ MediaTypeOK' /\ stored' = stored
         /\ Doomed' = Doomed
BY DEF Inv, TypeOK, mediaVars, MediaTypeOK, Doomed

\* A new record gets an operation nobody ever had.
LEMMA PrepareNewStep ==
  ASSUME Inv, NEW a \in Calls, NEW op \in Objects, PrepareNew(a, op)
  PROVE  Inv'
<1> USE DEF Inv, PrepareNew
<1> DEFINE k == calls[a].key
<1>0. k \in Keys /\ op # NoObject /\ op \in Objects
  BY ProofAssumption DEF TypeOK, Call
<1>1. /\ rows' = [rows EXCEPT ![k] =
           [state |-> "in_progress", op |-> op, retryable |-> FALSE]]
      /\ rows \in [Keys -> Row] /\ rows' \in [Keys -> Row]
  BY <1>0 DEF TypeOK, Row
<1>2. /\ calls' \in [Calls -> Call]
      /\ \A b \in Calls \ {a} : calls'[b] = calls[b]
      /\ calls'[a].op = op /\ calls'[a].phase = "uploading"
  <2> DEFINE next == [calls[a] EXCEPT !.phase = "uploading", !.op = op]
  <2>1. calls \in [Calls -> Call] /\ calls[a] \in Call
    BY DEF TypeOK
  <2>2. next \in Call /\ next.op = op /\ next.phase = "uploading"
    BY <1>0, <2>1 DEF Call, Phases
  <2>3. calls' = [calls EXCEPT ![a] = next]
    BY <2>1 DEF Call
  <2> HIDE DEF next
  <2> QED
    BY <2>1, <2>2, <2>3
<1>3. MediaTypeOK' /\ stored' = stored /\ Doomed' = Doomed
  BY MediaSame
<1>4. /\ \A b \in Calls \ {a} : Running(b)' = Running(b) /\ Fresh(b)' = Fresh(b)
                                /\ In(b, "submitting")' = In(b, "submitting")
      /\ ~In(a, "submitting")'
  BY <1>2 DEF Running, Fresh, In
<1>5. \A b \in Calls : (Running(b) => calls[b].op # op)
                       /\ (Fresh(b) => Running(b))
  BY DEF OpsAreUsed, Running, Fresh
<1>6. op \notin Doomed
  BY DEF OpsAreUsed
<1>7. \A l \in Keys : rows[l].state # "none" => rows[l].op # op
  BY DEF OpsAreUsed
<1>8. proof = NoObject
  BY DEF WinnerIsKnown
<1>9. TypeOK'
  BY <1>0, <1>1, <1>2, <1>3 DEF TypeOK
<1>10. OpsAreUsed'
  BY <1>0, <1>1, <1>2, <1>3, <1>4 DEF OpsAreUsed
<1>11. CallsIsolated' /\ RowsIsolated'
  <2>1. CallsIsolated'
    BY <1>2, <1>4, <1>5 DEF CallsIsolated
  <2>2. RowsIsolated'
    BY <1>0, <1>1, <1>7 DEF RowsIsolated
  <2> QED
    BY <2>1, <2>2
<1>12. RetriesAreFree'
  <2> SUFFICES ASSUME NEW l \in Keys, rows'[l].retryable
               PROVE  /\ rows'[l].state = "in_progress"
                      /\ rows'[l].op \notin Doomed'
                      /\ \A b \in Calls : Running(b)' => calls'[b].op # rows'[l].op
    BY DEF RetriesAreFree
  <2>1. l # k /\ rows'[l] = rows[l] /\ rows[l].retryable
    BY <1>0, <1>1
  <2>2. rows[l].state = "in_progress" /\ rows[l].op \in Objects
    BY <1>1, <2>1 DEF RetriesAreFree, OpsAreUsed, TypeOK
  <2>3. rows[l].op # op
    BY <1>7, <2>2
  <2> QED
    BY <1>2, <1>3, <1>4, <2>1, <2>2, <2>3 DEF RetriesAreFree
<1>13. WinnerIsKnown'
  <2>1. \A b \in Calls : Running(b)' => calls'[b].op # NoObject
    BY <1>10, <1>2 DEF OpsAreUsed
  <2>2. \A b \in unanswered : calls'[b].phase # "idle"
    BY <1>2 DEF WinnerIsKnown, TypeOK
  <2>3. \A l \in Keys : rows'[l].state = "in_progress" => rows'[l].op # NoObject
    BY <1>10 DEF OpsAreUsed
  <2> QED
    BY <1>8, <2>1, <2>2, <2>3 DEF WinnerIsKnown
<1>14. DoomedAreOver'
  <2>1. \A b \in Calls : Fresh(b)' => calls'[b].op \in Objects
    BY <1>2, <1>4, <1>5, RunningHasObject
  <2>2. \A b \in Calls : Fresh(b)' => calls'[b].op \notin Doomed'
    BY <1>2, <1>3, <1>4, <1>6, <2>1 DEF DoomedAreOver
  <2>3. \A b \in Calls : In(b, "submitting")' => calls'[b].op \in stored'
    BY <1>2, <1>3, <1>4 DEF DoomedAreOver
  <2> QED
    BY <1>8, <2>2, <2>3 DEF DoomedAreOver
<1>15. ProofKept' /\ ReplayTellsTruth'
  BY <1>0, <1>1, <1>8 DEF ProofKept, ReplayTellsTruth
<1> QED
  BY <1>9, <1>10, <1>11, <1>12, <1>13, <1>14, <1>15

\* A retry takes over the operation of a record that no call holds.
LEMMA PrepareRetryStep ==
  ASSUME Inv, NEW a \in Calls, PrepareRetry(a)
  PROVE  Inv'
<1> USE DEF Inv, PrepareRetry, MayRetry, Row_
<1> DEFINE k == calls[a].key
           op == rows[k].op
<1>0. k \in Keys /\ op \in Objects /\ op # NoObject /\ op \in usedOps
  BY DEF TypeOK, Call, Row, OpsAreUsed
<1>1. /\ rows \in [Keys -> Row] /\ rows' \in [Keys -> Row]
      /\ \A l \in Keys \ {k} : rows'[l] = rows[l]
      /\ rows'[k].op = op /\ rows'[k].state = "in_progress"
      /\ rows'[k].retryable = FALSE
  BY <1>0 DEF TypeOK, Row, Resumed
<1>2. /\ calls' \in [Calls -> Call]
      /\ \A b \in Calls \ {a} : calls'[b] = calls[b]
      /\ calls'[a].op = op /\ calls'[a].phase = "uploading"
  <2> DEFINE next == [calls[a] EXCEPT !.phase = "uploading", !.op = op]
  <2>1. calls \in [Calls -> Call] /\ calls[a] \in Call
    BY DEF TypeOK
  <2>2. next \in Call /\ next.op = op /\ next.phase = "uploading"
    BY <1>0, <2>1 DEF Call, Phases
  <2>3. calls' = [calls EXCEPT ![a] = next]
    OBVIOUS
  <2> HIDE DEF next, op, k, Inv, PrepareRetry, MayRetry
  <2> QED
    BY <2>1, <2>2, <2>3
<1>3. MediaTypeOK' /\ stored' = stored /\ Doomed' = Doomed
  BY MediaSame
<1>4. /\ \A b \in Calls \ {a} : Running(b)' = Running(b) /\ Fresh(b)' = Fresh(b)
                                /\ In(b, "submitting")' = In(b, "submitting")
      /\ ~In(a, "submitting")'
  BY <1>2 DEF Running, Fresh, In
<1>5. \A b \in Calls : (Running(b) => calls[b].op # op)
                       /\ (Fresh(b) => Running(b))
  BY <1>0 DEF RetriesAreFree, Running, Fresh
<1>6. op \notin Doomed /\ op # proof
  BY <1>0 DEF RetriesAreFree, WinnerIsKnown
<1>7. \A l \in Keys \ {k} : rows[l].state # "none" => rows[l].op # op
  BY <1>0 DEF RowsIsolated
<1>8. TypeOK' /\ OpsAreUsed'
  <2>1. TypeOK'
    BY <1>1, <1>2, <1>3 DEF TypeOK
  <2>2. \A b \in Calls : Running(b)' => calls'[b].op \in usedOps'
    BY <1>0, <1>2, <1>4 DEF OpsAreUsed
  <2>3. \A l \in Keys : rows'[l].state # "none" => rows'[l].op \in usedOps'
    BY <1>0, <1>1 DEF OpsAreUsed
  <2> QED
    BY <1>3, <2>1, <2>2, <2>3 DEF OpsAreUsed
<1>9. CallsIsolated'
  BY <1>2, <1>4, <1>5 DEF CallsIsolated
<1>10. RowsIsolated'
  BY <1>1, <1>0 DEF RowsIsolated
<1>11. RetriesAreFree'
  <2> SUFFICES ASSUME NEW l \in Keys, rows'[l].retryable
               PROVE  /\ rows'[l].state = "in_progress"
                      /\ rows'[l].op \notin Doomed'
                      /\ \A b \in Calls : Running(b)' => calls'[b].op # rows'[l].op
    BY DEF RetriesAreFree
  <2>1. l # k /\ rows'[l] = rows[l] /\ rows[l].retryable
    BY <1>0, <1>1
  <2>2. rows[l].state = "in_progress" /\ rows[l].op \in Objects
    BY <1>1, <2>1 DEF RetriesAreFree, OpsAreUsed, TypeOK
  <2>3. rows[l].op # op
    BY <1>7, <2>1, <2>2
  <2> QED
    BY <1>2, <1>3, <1>4, <2>1, <2>2, <2>3 DEF RetriesAreFree
<1>12. WinnerIsKnown'
  <2>1. \A b \in Calls : Running(b)' /\ calls'[b].op = proof => b \in unanswered
    BY <1>2, <1>4, <1>6 DEF WinnerIsKnown
  <2>2. \A b \in unanswered : calls'[b].phase # "idle"
    BY <1>2 DEF WinnerIsKnown, TypeOK
  <2>3. \A l \in Keys : rows'[l].state = "in_progress" => rows'[l].op # proof
    BY <1>1, <1>6 DEF WinnerIsKnown
  <2> QED
    BY <2>1, <2>2, <2>3 DEF WinnerIsKnown
<1>13. \A b \in unanswered : b \in Calls /\ calls'[b].op = calls[b].op
  BY <1>2 DEF WinnerIsKnown, TypeOK, In
<1>14. DoomedAreOver'
  <2>1. \A b \in Calls : Fresh(b)' => calls'[b].op \in Objects
    BY <1>0, <1>2, <1>4, <1>5, RunningHasObject
  <2>2. \A b \in Calls : Fresh(b)' => calls'[b].op \notin Doomed'
    BY <1>2, <1>3, <1>4, <1>6, <2>1 DEF DoomedAreOver
  <2>3. \A b \in Calls : In(b, "submitting")' => calls'[b].op \in stored'
    BY <1>2, <1>3, <1>4 DEF DoomedAreOver
  <2>4. proof # NoObject /\ proof \in Doomed' =>
          \E b \in unanswered : calls'[b].op = proof
    BY <1>3, <1>13 DEF DoomedAreOver, TypeOK
  <2> QED
    BY <2>2, <2>3, <2>4 DEF DoomedAreOver
<1>15. ProofKept'
  BY <1>3, <1>13 DEF ProofKept
<1>16. ReplayTellsTruth'
  BY <1>0, <1>1 DEF ReplayTellsTruth
<1> QED
  BY <1>8, <1>9, <1>10, <1>11, <1>12, <1>14, <1>15, <1>16
\* The winner writes its operation into the payment.
LEMMA SubmitStep ==
  ASSUME Inv, NEW a \in Calls, SubmitOk(a) \/ SubmitAnswerLost(a)
  PROVE  Inv'
<1> USE DEF Inv
<1> DEFINE k == calls[a].key
           op == calls[a].op
<1>0. /\ k \in Keys /\ op \in Objects /\ op # NoObject
      /\ Running(a) /\ Fresh(a)
      /\ op \in stored /\ op \notin Doomed
  <2>1. Running(a) /\ Fresh(a) /\ In(a, "submitting")
    BY DEF SubmitOk, SubmitAnswerLost, Submit, In, Running, Fresh
  <2>2. op \in stored /\ op \notin Doomed
    BY <2>1 DEF DoomedAreOver
  <2> QED
    BY <2>1, <2>2, RunningHasObject DEF TypeOK, Call
<1>1. PICK q \in {"over", "deleting"} :
        /\ calls' = [calls EXCEPT ![a].phase = q]
        /\ unanswered' = IF q = "over" THEN unanswered ELSE unanswered \cup {a}
  BY DEF SubmitOk, SubmitAnswerLost, Submit, Goto
<1>2. /\ calls' \in [Calls -> Call]
      /\ \A b \in Calls : calls'[b].op = calls[b].op
      /\ \A b \in Calls \ {a} : calls'[b].phase = calls[b].phase
      /\ calls'[a].phase = q
  BY <1>1 DEF TypeOK, Call, Phases
<1>3. /\ payment = "pending_proof"
      /\ payment' = "pending_confirmation"
      /\ proof' = op
      /\ rows[k].state = "in_progress" /\ rows[k].op = op
      /\ rows' = [rows EXCEPT ![k].state = "completed"]
      /\ UNCHANGED <<mediaVars, usedOps>>
  BY DEF SubmitOk, SubmitAnswerLost, Submit, MayResume, PaymentOpen, Row_
<1>4. /\ rows \in [Keys -> Row] /\ rows' \in [Keys -> Row]
      /\ \A l \in Keys : rows'[l].op = rows[l].op
                         /\ rows'[l].retryable = rows[l].retryable
      /\ \A l \in Keys \ {k} : rows'[l].state = rows[l].state
      /\ rows'[k].state = "completed"
  BY <1>0, <1>3 DEF TypeOK, Row
<1>5. MediaTypeOK' /\ stored' = stored /\ Doomed' = Doomed
  BY <1>3, MediaSame
<1>6. /\ \A b \in Calls \ {a} : Running(b)' = Running(b) /\ Fresh(b)' = Fresh(b)
                                /\ In(b, "submitting")' = In(b, "submitting")
      /\ ~Fresh(a)' /\ ~In(a, "submitting")'
      /\ Running(a)' => a \in unanswered'
  BY <1>1, <1>2 DEF Running, Fresh, In
<1>7. ~rows[k].retryable
  BY <1>0, <1>3 DEF RetriesAreFree
<1>8. proof = NoObject
  BY <1>3 DEF WinnerIsKnown
<1>9. unanswered \subseteq Calls /\ unanswered' \subseteq Calls
      /\ unanswered' \subseteq unanswered \cup {a}
  BY <1>1 DEF TypeOK
<1>10. TypeOK'
  BY <1>0, <1>2, <1>3, <1>4, <1>5, <1>9 DEF TypeOK, PaymentStatuses
<1>11. OpsAreUsed'
  BY <1>0, <1>2, <1>3, <1>4, <1>5, <1>6 DEF OpsAreUsed
<1>12. CallsIsolated'
  BY <1>0, <1>2, <1>6 DEF CallsIsolated
<1>13. RowsIsolated'
  BY <1>0, <1>3, <1>4 DEF RowsIsolated
<1>14. RetriesAreFree'
  BY <1>0, <1>2, <1>4, <1>5, <1>6, <1>7 DEF RetriesAreFree
<1>15. WinnerIsKnown'
  <2>1. \A b \in Calls : Running(b)' /\ calls'[b].op = op => b \in unanswered'
    BY <1>0, <1>2, <1>6 DEF CallsIsolated
  <2>2. \A b \in unanswered' : calls'[b].phase # "idle"
    BY <1>2, <1>9 DEF WinnerIsKnown
  <2>3. \A l \in Keys : rows'[l].state = "in_progress" => rows'[l].op # op
    BY <1>0, <1>3, <1>4 DEF RowsIsolated
  <2> QED
    BY <1>3, <2>1, <2>2, <2>3 DEF WinnerIsKnown
<1>16. DoomedAreOver'
  BY <1>0, <1>2, <1>3, <1>5, <1>6 DEF DoomedAreOver
<1>17. ProofKept'
  BY <1>0, <1>3, <1>5 DEF ProofKept
<1>18. ReplayTellsTruth'
  BY <1>0, <1>3, <1>4 DEF ReplayTellsTruth
<1> QED
  BY <1>10, <1>11, <1>12, <1>13, <1>14, <1>15, <1>16, <1>17, <1>18

\* After a failed upload the record may be retried with the same operation,
\* after a failed transaction with a new one.
LEMMA ResetStep ==
  ASSUME Inv, NEW a \in Calls, ResetSame(a) \/ ResetNew(a)
  PROVE  Inv'
<1> USE DEF Inv
<1> DEFINE k == calls[a].key
<1>0. /\ Running(a) /\ k \in Keys /\ calls[a].op \in Objects
      /\ rows[k].state = "in_progress" /\ rows[k].op = calls[a].op
      /\ UNCHANGED <<mediaVars, payment, proof, unanswered>>
  <2>1. Running(a)
    BY DEF ResetSame, ResetNew, In, Running
  <2> QED
    BY <2>1, RunningHasObject
    DEF ResetSame, ResetNew, Resettable, Row_, TypeOK, Call
<1>1. /\ calls' \in [Calls -> Call]
      /\ \A b \in Calls : calls'[b].op = calls[b].op
      /\ \A b \in Calls \ {a} : calls'[b].phase = calls[b].phase
      /\ calls'[a].phase = "over"
  BY DEF ResetSame, ResetNew, Goto, TypeOK, Call, Phases
<1>2. PICK op \in Objects :
        /\ rows' \in [Keys -> Row]
        /\ \A l \in Keys \ {k} : rows'[l] = rows[l]
        /\ rows'[k].op = op /\ rows'[k].state = "in_progress"
        /\ usedOps' = usedOps \cup {op}
        /\ \/ op = calls[a].op /\ ResetSame(a)
           \/ op \notin usedOps
  <2> rows \in [Keys -> Row]
    BY DEF TypeOK
  <2>1. CASE ResetSame(a)
    <3>1. usedOps' = usedOps \cup {calls[a].op}
      BY <1>0, <2>1 DEF ResetSame, OpsAreUsed
    <3>2. rows' = [rows EXCEPT ![k].retryable = TRUE]
      BY <2>1 DEF ResetSame
    <3> QED
      BY <1>0, <2>1, <3>1, <3>2 DEF Row
  <2>2. CASE ResetNew(a)
    <3>1. PICK p \in Objects \ usedOps :
            /\ rows' = [rows EXCEPT ![k] =
                 [state |-> "in_progress", op |-> p, retryable |-> TRUE]]
            /\ usedOps' = usedOps \cup {p}
      BY <2>2 DEF ResetNew, NewOperation
    <3>2. [state |-> "in_progress", op |-> p, retryable |-> TRUE] \in Row
      BY DEF Row
    <3> QED
      BY <1>0, <3>1, <3>2
  <2> QED
    BY <2>1, <2>2
<1>3. op # NoObject /\ op \in usedOps'
  BY <1>2, ProofAssumption
<1>4. \A l \in Keys : l # k => rows'[l] = rows[l]
  BY <1>2
<1>5. MediaTypeOK' /\ stored' = stored /\ Doomed' = Doomed
  BY <1>0, MediaSame
<1>6. /\ \A b \in Calls \ {a} : Running(b)' = Running(b) /\ Fresh(b)' = Fresh(b)
                                /\ In(b, "submitting")' = In(b, "submitting")
      /\ ~Running(a)' /\ ~Fresh(a)' /\ ~In(a, "submitting")'
  BY <1>1 DEF Running, Fresh, In
\* Nobody but the call itself has the operation.
<1>7. /\ \A b \in Calls \ {a} : Running(b) => calls[b].op # op
      /\ \A l \in Keys \ {k} : rows[l].state # "none" => rows[l].op # op
      /\ op \notin Doomed /\ op # proof
  <2>1. CASE ResetSame(a) /\ op = calls[a].op
    <3>1. Fresh(a)
      BY <2>1 DEF ResetSame, In, Fresh
    <3> QED
      BY <1>0, <2>1, <3>1
      DEF CallsIsolated, RowsIsolated, DoomedAreOver, WinnerIsKnown
  <2>2. CASE op \notin usedOps
    <3>1. proof = NoObject \/ proof \in usedOps
      BY DEF OpsAreUsed
    <3> QED
      BY <1>3, <2>2, <3>1 DEF OpsAreUsed
  <2> QED
    BY <1>2, <2>1, <2>2
<1>8. TypeOK'
  BY <1>0, <1>1, <1>2, <1>5 DEF TypeOK
<1>9. OpsAreUsed'
  <2>1. \A l \in Keys : rows'[l].state # "none" => rows'[l].op \in usedOps'
    BY <1>2, <1>3, <1>4 DEF OpsAreUsed
  <2> QED
    BY <1>0, <1>1, <1>2, <1>3, <1>5, <1>6, <2>1 DEF OpsAreUsed
<1>10. CallsIsolated'
  BY <1>1, <1>6 DEF CallsIsolated
<1>11. RowsIsolated'
  BY <1>0, <1>2, <1>4, <1>7 DEF RowsIsolated
<1>12. RetriesAreFree'
  BY <1>0, <1>1, <1>2, <1>4, <1>5, <1>6, <1>7 DEF RetriesAreFree
<1>13. WinnerIsKnown'
  <2>1. \A b \in unanswered : calls'[b].phase # "idle"
    BY <1>1 DEF WinnerIsKnown, TypeOK
  <2> QED
    BY <1>0, <1>1, <1>2, <1>4, <1>6, <1>7, <2>1 DEF WinnerIsKnown
<1>14. unanswered \subseteq Calls
  BY DEF TypeOK
<1>15. DoomedAreOver'
  BY <1>0, <1>1, <1>5, <1>6, <1>14 DEF DoomedAreOver
<1>16. ProofKept'
  BY <1>0, <1>1, <1>5, <1>14 DEF ProofKept
<1>17. ReplayTellsTruth'
  BY <1>0, <1>2, <1>4 DEF ReplayTellsTruth
<1> QED
  BY <1>8, <1>9, <1>10, <1>11, <1>12, <1>13, <1>15, <1>16, <1>17
-----------------------------------------------------------------------------
(* The rest of the program.                                                *)

\* Superseding a payment, removing a record and the workers touch no call.
LEMMA EnvironmentStep ==
  ASSUME Inv,
         \/ Supersede
         \/ \E k \in Keys : PurgeRecord(k)
         \/ WorkerNext /\ UNCHANGED proofVars
  PROVE  Inv'
<1> USE DEF Inv
<1>1. CASE Supersede
  <2>1. UNCHANGED <<mediaVars, proof, rows, calls, usedOps, unanswered>>
        /\ payment = "pending_proof" /\ payment' = "superseded"
    BY <1>1 DEF Supersede
  <2>2. MediaTypeOK' /\ stored' = stored /\ Doomed' = Doomed
    BY <2>1, MediaSame
  <2>3. TypeOK' /\ OpsAreUsed' /\ CallsIsolated' /\ RowsIsolated'
    BY <2>1, <2>2
    DEF TypeOK, PaymentStatuses, OpsAreUsed, CallsIsolated, RowsIsolated, Running
  <2>4. RetriesAreFree' /\ WinnerIsKnown' /\ DoomedAreOver'
    BY <2>1, <2>2
    DEF RetriesAreFree, WinnerIsKnown, DoomedAreOver, Running, Fresh, In
  <2>5. ProofKept' /\ ReplayTellsTruth'
    BY <2>1, <2>2 DEF ProofKept, ReplayTellsTruth
  <2> QED
    BY <2>3, <2>4, <2>5
<1>2. ASSUME NEW k \in Keys, PurgeRecord(k)
      PROVE  Inv'
  <2>1. /\ UNCHANGED <<mediaVars, payment, proof, calls, usedOps, unanswered>>
        /\ rows' = [rows EXCEPT ![k] = NoRow]
    BY <1>2 DEF PurgeRecord
  <2>2. MediaTypeOK' /\ stored' = stored /\ Doomed' = Doomed
    BY <2>1, MediaSame
  <2>3. /\ rows' \in [Keys -> Row]
        /\ \A l \in Keys \ {k} : rows'[l] = rows[l]
        /\ rows'[k].state = "none" /\ ~rows'[k].retryable
    BY <2>1 DEF NoRow, Row, TypeOK
  <2>4. TypeOK' /\ OpsAreUsed' /\ CallsIsolated' /\ RowsIsolated'
    BY <2>1, <2>2, <2>3
    DEF TypeOK, OpsAreUsed, CallsIsolated, RowsIsolated, Running
  <2>5. RetriesAreFree' /\ WinnerIsKnown' /\ DoomedAreOver'
    BY <2>1, <2>2, <2>3
    DEF RetriesAreFree, WinnerIsKnown, DoomedAreOver, Running, Fresh, In
  <2>6. ProofKept' /\ ReplayTellsTruth'
    BY <2>1, <2>2, <2>3 DEF ProofKept, ReplayTellsTruth
  <2> QED
    BY <2>4, <2>5, <2>6
<1>3. CASE WorkerNext /\ UNCHANGED proofVars
  <2>1. UNCHANGED <<payment, proof, rows, calls, usedOps, unanswered>>
    BY <1>3 DEF proofVars
  <2>2. MediaTypeOK' /\ Doomed' \subseteq Doomed /\ stored \ Doomed \subseteq stored'
    BY <1>3, WorkerTypes, WorkerDoomsNothing DEF TypeOK
  <2>3. TypeOK' /\ OpsAreUsed' /\ CallsIsolated' /\ RowsIsolated'
    BY <2>1, <2>2 DEF TypeOK, OpsAreUsed, CallsIsolated, RowsIsolated, Running
  <2>4. RetriesAreFree' /\ WinnerIsKnown'
    BY <2>1, <2>2 DEF RetriesAreFree, WinnerIsKnown, Running
  <2>5. DoomedAreOver'
    <3>1. \A a \in Calls : In(a, "submitting") => Fresh(a)
      BY DEF In, Fresh
    <3> QED
      BY <2>1, <2>2, <3>1 DEF DoomedAreOver, Fresh, In
  <2>6. ProofKept' /\ ReplayTellsTruth'
    BY <2>1, <2>2 DEF ProofKept, DoomedAreOver, ReplayTellsTruth
  <2> QED
    BY <2>3, <2>4, <2>5, <2>6
<1> QED
  BY <1>1, <1>2, <1>3

-----------------------------------------------------------------------------
\* Every step preserves the invariant.
LEMMA NextInv == Inv /\ [Next]_vars => Inv'
<1> SUFFICES ASSUME Inv, [Next]_vars PROVE Inv'
  OBVIOUS
<1>1. ASSUME NEW a \in Calls, CallNext(a)
      PROVE  Inv'
  BY <1>1, PrepareNewStep, PrepareRetryStep, UploadStep, SubmitStep, ResetStep,
     CompensationStep
  DEF CallNext
<1>2. CASE UNCHANGED vars
  <2>1. UNCHANGED <<mediaVars, payment, proof, rows, calls, usedOps, unanswered>>
    BY <1>2 DEF vars, proofVars
  <2>2. MediaTypeOK' /\ stored' = stored /\ Doomed' = Doomed
    BY <2>1, MediaSame
  <2> QED
    BY <2>1, <2>2
    DEF Inv, TypeOK, OpsAreUsed, CallsIsolated, RowsIsolated, RetriesAreFree,
        WinnerIsKnown, DoomedAreOver, ProofKept, ReplayTellsTruth, Running,
        Fresh, In
<1> QED
  BY <1>1, <1>2, EnvironmentStep DEF Next

\* The invariant holds in every reachable state.
LEMMA InvHolds == Spec => []Inv
BY InitInv, NextInv, PTL DEF Spec

\* Every reachable state has the declared types, for every set of calls, keys,
\* objects and workers and every choice of faults.
THEOREM UploadTypes == Spec => []TypeOK
<1>1. Inv => TypeOK
  BY DEF Inv
<1> QED
  BY <1>1, InvHolds, PTL

\* Two calls of SubmitProof never work on the same object at the same time,
\* whatever retries and purges of records lie between them.
THEOREM NoSharedObject == Spec => []CallsIsolated
<1>1. Inv => CallsIsolated
  BY DEF Inv
<1> QED
  BY <1>1, InvHolds, PTL

\* The proof of a payment is not deleted by a compensation, a retry or a
\* cleanup job, except by a call that does not know that it has won.
THEOREM ProofStaysStored == Spec => []ProofKept
<1>1. Inv => ProofKept
  BY DEF Inv
<1> QED
  BY <1>1, InvHolds, PTL

\* A completed record belongs to the call whose proof the payment has.
THEOREM ReplayIsTrue == Spec => []ReplayTellsTruth
<1>1. Inv => ReplayTellsTruth
  BY DEF Inv
<1> QED
  BY <1>1, InvHolds, PTL

\* A payment takes one proof, and none once it has been superseded.
THEOREM FirstProofWins == Spec => FirstProofStays
<1> DEFINE Step == /\ proof # NoObject => proof' = proof
                   /\ payment = "superseded" => proof' = NoObject
<1>1. Inv /\ [Next]_vars => [Step]_vars
  <2> SUFFICES ASSUME Inv, Next PROVE Step
    OBVIOUS
  <2>1. proof # NoObject => payment = "pending_confirmation"
    BY DEF Inv, WinnerIsKnown
  <2>2. proof' = proof \/ payment = "pending_proof"
    <3>1. ASSUME NEW a \in Calls, CallNext(a)
          PROVE  proof' = proof \/ payment = "pending_proof"
      BY <3>1
      DEF CallNext, PrepareNew, PrepareRetry, PrepareEnds, UploadOk, UploadFails,
          SubmitOk, SubmitAnswerLost, Submit, PaymentOpen, SubmitFails, DeleteOwn,
          DeleteOwnFails, QueueOwn, QueueOwnFails, ResetSame, ResetNew,
          ResetFails, Cancel
    <3> QED
      BY <3>1 DEF Next, Supersede, PurgeRecord, proofVars
  <2> QED
    BY <2>1, <2>2
<1> QED
  BY <1>1, InvHolds, PTL DEF Spec, FirstProofStays
=============================================================================
