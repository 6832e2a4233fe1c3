---------------------------- MODULE ProofUpload ----------------------------
(***************************************************************************)
(* Submitting the proof of one payment: POST .../payments/{id}/proof.      *)
(*                                                                         *)
(* A call takes or resumes its idempotency record (PrepareProof, one       *)
(* transaction), uploads the image to the key of the record's operation,   *)
(* and claims the payment (SubmitProof, one transaction).  When the upload *)
(* fails the record may be retried with the same operation; when the       *)
(* transaction fails the call deletes its own object, or else queues it    *)
(* for cleanup, and gives the record a new operation.                      *)
(*                                                                         *)
(* All steps of a call use the context of its HTTP request: once that is   *)
(* cancelled every later step fails.  The answer to a COMMIT may be lost.  *)
(* The objects are operation IDs: the key of an object is its operation.   *)
(***************************************************************************)
EXTENDS MediaCleanup

CONSTANTS
  Calls,      \* bound: calls of SubmitProof
  Keys,       \* idempotency keys, each with its request hash
  NoObject,   \* no operation, no image_object_key
  Faults      \* the kinds of failure that may happen

ASSUME ProofAssumption ==
  /\ NoObject \notin Objects
  \* A COMMIT takes effect without an answer, the context of a request is
  \* cancelled, a single statement of the compensation fails, a record reaches
  \* its 24 hours.
  /\ Faults \subseteq {"answer_lost", "cancelled", "statement", "expiry"}

VARIABLES
  payment,   \* payments.status
  proof,     \* payments.image_object_key
  rows,      \* payment_idempotency_keys
  calls,     \* locals of the calls
  usedOps,   \* operation IDs that have been generated
  unanswered \* history: calls whose COMMIT took effect without an answer

proofVars == <<payment, proof, rows, calls, usedOps, unanswered>>
vars == <<mediaVars, proofVars>>

-----------------------------------------------------------------------------
PaymentStatuses == {"pending_proof", "pending_confirmation", "superseded"}
Phases == {"idle", "uploading", "submitting", "deleting", "queueing",
           "resetting_same", "resetting_new", "over"}
Row == [state : {"none", "in_progress", "completed"},
        op : Objects \cup {NoObject}, retryable : BOOLEAN]
Call == [phase : Phases, key : Keys, op : Objects \cup {NoObject},
         alive : BOOLEAN]

NoRow == [state |-> "none", op |-> NoObject, retryable |-> FALSE]

Init ==
  /\ MediaInit
  /\ payment = "pending_proof"
  /\ proof = NoObject
  /\ rows = [k \in Keys |-> NoRow]
  /\ calls \in [Calls -> {[phase |-> "idle", key |-> k, op |-> NoObject,
                           alive |-> TRUE] : k \in Keys}]
  /\ usedOps = {}
  /\ unanswered = {}

Goto(a, phase) == calls' = [calls EXCEPT ![a].phase = phase]
In(a, phase) == calls[a].phase = phase
Row_(a) == rows[calls[a].key]
Running(a) == calls[a].phase \notin {"idle", "over"}

-----------------------------------------------------------------------------
(* PrepareProof. *)

\* A new record, for a payment that waits for its proof.
PrepareNew(a, op) ==
  /\ In(a, "idle")
  /\ Row_(a).state = "none"
  /\ payment = "pending_proof"
  /\ op \notin usedOps
  /\ rows' = [rows EXCEPT ![calls[a].key] =
       [state |-> "in_progress", op |-> op, retryable |-> FALSE]]
  /\ calls' = [calls EXCEPT ![a].phase = "uploading", ![a].op = op]
  /\ usedOps' = usedOps \cup {op}
  /\ UNCHANGED <<mediaVars, payment, proof, unanswered>>

\* The call that had the record before has ended.
MayRetry(a) == Row_(a).state = "in_progress" /\ Row_(a).retryable

\* SET retry_after = NULL.
Resumed(row) == [row EXCEPT !.retryable = FALSE]

\* A record that may be retried keeps its operation; the payment is not looked
\* at again.
PrepareRetry(a) ==
  /\ In(a, "idle")
  /\ MayRetry(a)
  /\ rows' = [rows EXCEPT ![calls[a].key] = Resumed(@)]
  /\ calls' = [calls EXCEPT ![a].phase = "uploading", ![a].op = Row_(a).op]
  /\ UNCHANGED <<mediaVars, payment, proof, usedOps, unanswered>>

\* A completed record is replayed, every other case is an error.
PrepareEnds(a) ==
  /\ In(a, "idle")
  /\ Goto(a, "over")
  /\ UNCHANGED <<mediaVars, payment, proof, rows, usedOps, unanswered>>

-----------------------------------------------------------------------------
(* The upload. *)

UploadOk(a) ==
  /\ In(a, "uploading")
  /\ calls[a].alive
  /\ stored' = stored \cup {calls[a].op}
  /\ Goto(a, "submitting")
  /\ UNCHANGED <<jobs, attempts, due, claims, payment, proof, rows, usedOps,
                 unanswered>>

\* The upload may have arrived although the call sees an error.
UploadFails(a) ==
  /\ In(a, "uploading")
  /\ stored' \in {stored, stored \cup {calls[a].op}}
  /\ Goto(a, "resetting_same")
  /\ UNCHANGED <<jobs, attempts, due, claims, payment, proof, rows, usedOps,
                 unanswered>>

-----------------------------------------------------------------------------
(* SubmitProof. *)

\* Mutant: any operation of the record will do.
RecordOpen(a) == Row_(a).state = "in_progress"

\* resumeProofIdempotency.
MayResume(a) ==
  /\ Row_(a).state = "in_progress"
  /\ Row_(a).op = calls[a].op

\* Mutant: the state of the payment is checked by PrepareProof only.
AnyPayment == TRUE

\* The debts are awaiting and the payment waits for its proof.
PaymentOpen == payment = "pending_proof"

\* The transaction: the payment and its record change together.
Submit(a, next) ==
  /\ In(a, "submitting")
  /\ calls[a].alive
  /\ MayResume(a)
  /\ PaymentOpen
  /\ payment' = "pending_confirmation"
  /\ proof' = calls[a].op
  /\ rows' = [rows EXCEPT ![calls[a].key].state = "completed"]
  /\ Goto(a, next)
  /\ UNCHANGED <<mediaVars, usedOps>>

SubmitOk(a) == Submit(a, "over") /\ UNCHANGED unanswered

\* COMMIT has taken effect, the connection is lost before the answer.
SubmitAnswerLost(a) ==
  /\ "answer_lost" \in Faults
  /\ Submit(a, "deleting")
  /\ unanswered' = unanswered \cup {a}

\* A check or a statement fails; nothing is written.
SubmitFails(a) ==
  /\ In(a, "submitting")
  /\ Goto(a, "deleting")
  /\ UNCHANGED <<mediaVars, payment, proof, rows, usedOps, unanswered>>

-----------------------------------------------------------------------------
(* Compensation. *)

DeleteOwn(a) ==
  /\ In(a, "deleting")
  /\ calls[a].alive
  /\ calls[a].op \in stored
  /\ stored' = stored \ {calls[a].op}
  /\ Goto(a, "resetting_new")
  /\ UNCHANGED <<jobs, attempts, due, claims, payment, proof, rows, usedOps,
                 unanswered>>

\* With a live context the object may be gone all the same.
DeleteOwnFails(a) ==
  /\ In(a, "deleting")
  /\ stored' \in {stored} \cup
                 (IF calls[a].alive THEN {stored \ {calls[a].op}} ELSE {})
  /\ Goto(a, "queueing")
  /\ UNCHANGED <<jobs, attempts, due, claims, payment, proof, rows, usedOps,
                 unanswered>>

QueueOwn(a) ==
  /\ In(a, "queueing")
  /\ calls[a].alive
  /\ QueueCleanup(calls[a].op)
  /\ Goto(a, "resetting_new")
  /\ UNCHANGED <<stored, claims, payment, proof, rows, usedOps, unanswered>>

QueueOwnFails(a) ==
  /\ In(a, "queueing")
  /\ calls[a].alive => "statement" \in Faults
  /\ Goto(a, "resetting_new")
  /\ UNCHANGED <<mediaVars, payment, proof, rows, usedOps, unanswered>>

\* WHERE operation_id = $4 AND state = 'in_progress' AND expires_at > now().
Resettable(a) ==
  /\ calls[a].alive
  /\ Row_(a).state = "in_progress"
  /\ Row_(a).op = calls[a].op

ResetSame(a) ==
  /\ In(a, "resetting_same")
  /\ Resettable(a)
  /\ rows' = [rows EXCEPT ![calls[a].key].retryable = TRUE]
  /\ Goto(a, "over")
  /\ UNCHANGED <<mediaVars, payment, proof, usedOps, unanswered>>

\* Mutant: the record keeps the operation whose object was just removed.
SameOperation(a) == {calls[a].op}

\* The operations a replaced record may get.
NewOperation(a) == Objects \ usedOps

ResetNew(a) ==
  /\ In(a, "resetting_new")
  /\ Resettable(a)
  /\ \E op \in NewOperation(a) :
       /\ rows' = [rows EXCEPT ![calls[a].key] =
            [state |-> "in_progress", op |-> op, retryable |-> TRUE]]
       /\ usedOps' = usedOps \cup {op}
  /\ Goto(a, "over")
  /\ UNCHANGED <<mediaVars, payment, proof, unanswered>>

ResetFails(a) ==
  /\ calls[a].phase \in {"resetting_same", "resetting_new"}
  /\ Resettable(a) => "statement" \in Faults
  /\ Goto(a, "over")
  /\ UNCHANGED <<mediaVars, payment, proof, rows, usedOps, unanswered>>

\* The timeout of 15 seconds, or the client goes away.
Cancel(a) ==
  /\ "cancelled" \in Faults
  /\ Running(a)
  /\ calls[a].alive
  /\ calls' = [calls EXCEPT ![a].alive = FALSE]
  /\ UNCHANGED <<mediaVars, payment, proof, rows, usedOps, unanswered>>

-----------------------------------------------------------------------------
(* Everything else that touches the payment, the records or the objects. *)

\* VoidBill, or a new QR code.
Supersede ==
  /\ payment = "pending_proof"
  /\ payment' = "superseded"
  /\ UNCHANGED <<mediaVars, proof, rows, calls, usedOps, unanswered>>

\* DeleteExpiredIdempotency removes a record in any state, 24 hours after it
\* was made.  Its calls may still be running: a retry comes at any time.
PurgeRecord(k) ==
  /\ "expiry" \in Faults
  /\ rows[k].state # "none"
  /\ rows' = [rows EXCEPT ![k] = NoRow]
  /\ UNCHANGED <<mediaVars, payment, proof, calls, usedOps, unanswered>>

CallNext(a) ==
  \/ \E op \in Objects : PrepareNew(a, op)
  \/ PrepareRetry(a) \/ PrepareEnds(a)
  \/ UploadOk(a) \/ UploadFails(a)
  \/ SubmitOk(a) \/ SubmitAnswerLost(a) \/ SubmitFails(a)
  \/ DeleteOwn(a) \/ DeleteOwnFails(a)
  \/ QueueOwn(a) \/ QueueOwnFails(a)
  \/ ResetSame(a) \/ ResetNew(a) \/ ResetFails(a)
  \/ Cancel(a)

Next ==
  \/ \E a \in Calls : CallNext(a)
  \/ Supersede
  \/ \E k \in Keys : PurgeRecord(k)
  \/ WorkerNext /\ UNCHANGED proofVars

Spec == Init /\ [][Next]_vars

-----------------------------------------------------------------------------
(* Properties. *)

\* Every variable has its type.
TypeOK ==
  /\ MediaTypeOK
  /\ payment \in PaymentStatuses
  /\ proof \in Objects \cup {NoObject}
  /\ rows \in [Keys -> Row]
  /\ calls \in [Calls -> Call]
  /\ usedOps \in SUBSET Objects
  /\ unanswered \in SUBSET Calls

\* Two calls never work on the same object at the same time, whatever retries
\* and purges of records lie between them: so that the compensation of one
\* cannot touch the object of the other.
CallsIsolated ==
  \A a, b \in Calls :
    a # b /\ Running(a) /\ Running(b) => calls[a].op # calls[b].op

\* The proof of a payment that waits for its creditor is there to be looked at:
\* no losing call, no retry and no cleanup job, however late, removes it, and a
\* call whose own transaction succeeded only if it never learns of that.
ProofKept ==
  proof # NoObject =>
    proof \in stored \/ \E a \in unanswered : calls[a].op = proof

\* A call that is answered from its record is told the truth: the record is
\* completed by the call whose proof the payment has.
ReplayTellsTruth ==
  \A k \in Keys : rows[k].state = "completed" =>
    /\ payment = "pending_confirmation"
    /\ proof = rows[k].op

\* The first proof stays: of two calls that both passed PrepareProof one wins,
\* and a payment that was superseded in between takes no proof at all.
FirstProofStays ==
  [][ /\ proof # NoObject => proof' = proof
      /\ payment = "superseded" => proof' = NoObject ]_vars
=============================================================================
