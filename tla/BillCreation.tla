---------------------------- MODULE BillCreation ----------------------------
(***************************************************************************)
(* POST /bills with images (spec 0003 AC-1, spec 0008 AC-2): one body that *)
(* a client sends again and again under one Idempotency-Key.               *)
(*                                                                         *)
(* A request reserves the key, uploads the images, creates the bill in one *)
(* transaction and completes the key, each on its own; the uploads of a    *)
(* request that fails are deleted and the key is released.  The process    *)
(* may die at every step.  The context of the request may end, because the *)
(* client has gone or the database has: every later statement made in that *)
(* context fails, the release and the completion of the key included.  The *)
(* deletion of the uploads has a context of its own.                       *)
(*                                                                         *)
(* The bill and the images of a request are named after it: each call of   *)
(* CreateBill draws new IDs.                                               *)
(***************************************************************************)
EXTENDS Naturals, FiniteSets

CONSTANTS
  Requests,    \* bound: requests with the key
  Nobody,      \* the key has no request
  ImageCount   \* images of the body

ASSUME CreationAssumption ==
  /\ IsFiniteSet(Requests)
  /\ Nobody \notin Requests
  /\ ImageCount \in Nat

VARIABLES
  stage,    \* where each request is
  acked,    \* images of the request whose upload was acknowledged
  ended,    \* requests whose context has ended
  key,      \* the row of bill_idempotency_keys
  submissionLocked, \* groups.bill_submission_locked_at IS NOT NULL
  newBills, \* requests whose bill exists
  stored,   \* images in Cloudinary
  queued,   \* images in media_cleanup_jobs
  unsure,   \* history: requests whose commit was not acknowledged
  since,    \* history: bills created since the key last expired
  rejected  \* history: requests rejected by the lock while their context lasts

creationVars == <<stage, acked, ended, key, submissionLocked, newBills, stored,
                  queued, unsure, since, rejected>>
images == <<acked, stored, queued>>
outcome == <<newBills, unsure, since, rejected>>

-----------------------------------------------------------------------------
Live == {"check", "upload", "commit", "reject", "undo", "release", "complete"}
Stages == {"none", "created", "replayed", "refused", "failed", "dead"} \cup Live
KeyStates == {"none", "in_progress", "completed"}

Image == Requests \X (1..ImageCount)
ImagesOf(r) == {r} \X (1..ImageCount)
UploadsOf(r) == {r} \X (1..acked[r])

NoKey == [state |-> "none", request |-> Nobody]

CreationInit ==
  /\ stage = [r \in Requests |-> "none"]
  /\ acked = [r \in Requests |-> 0]
  /\ ended = {}
  /\ key = NoKey
  /\ submissionLocked = FALSE
  /\ newBills = {}
  /\ stored = {}
  /\ queued = {}
  /\ unsure = {}
  /\ since = {}
  /\ rejected = {}

At(r, s) == stage[r] = s
Goto(r, s) == stage' = [stage EXCEPT ![r] = s]

-----------------------------------------------------------------------------
(* The key. *)

\* Mutant: a key in progress is taken over.
ReservableUnlessCompleted == key.state # "completed"

\* INSERT ... ON CONFLICT DO UPDATE WHERE expires_at <= now(): see Expire.
Reservable == key.state = "none"

CheckOrReserveIdempotency(r) ==
  /\ At(r, "none")
  /\ \/ /\ Reservable
        /\ key' = [state |-> "in_progress", request |-> r]
        /\ Goto(r, "check")
     \/ /\ ~Reservable
        /\ Goto(r, IF key.state = "completed" THEN "replayed" ELSE "refused")
        /\ UNCHANGED key
  /\ UNCHANGED <<ended, submissionLocked, outcome, images>>

\* Mutant: the bill of a key that was not completed is undone.
UndoneIfEnded(r) == IF r \in ended THEN "undo" ELSE "created"

\* An error of the completion is ignored.
AfterCompletion(r) == "created"

\* The reservation is completed whoever has made it.
CompleteIdempotency(r) ==
  /\ At(r, "complete")
  /\ Goto(r, AfterCompletion(r))
  /\ key' = IF r \in ended \/ key.state = "none" THEN key
            ELSE [state |-> "completed", request |-> r]
  /\ UNCHANGED <<ended, submissionLocked, outcome, images>>

\* Mutant: the failure is kept as the answer.
AfterFailure == [key EXCEPT !.state = "completed"]

\* DELETE ... WHERE state = 'in_progress'
AfterRelease == IF key.state = "in_progress" THEN NoKey ELSE key

ReleaseIdempotency(r) ==
  /\ At(r, "release")
  /\ Goto(r, "failed")
  /\ key' = IF r \in ended THEN key ELSE AfterRelease
  /\ UNCHANGED <<ended, submissionLocked, outcome, images>>

\* A reservation lives for 24 hours, longer than any request takes.
Expire ==
  /\ key # NoKey
  /\ \A r \in Requests : stage[r] \notin Live
  /\ key' = NoKey
  /\ since' = {}
  /\ UNCHANGED <<stage, ended, submissionLocked, newBills, unsure, rejected, images>>

-----------------------------------------------------------------------------
(* CreateBill *)

\* The checks before the upload: the caller, the lock, the input.
Check(r) ==
  /\ At(r, "check")
  /\ \/ ~submissionLocked /\ r \notin ended /\ Goto(r, "upload")
     \/ Goto(r, "release")
  /\ UNCHANGED <<ended, key, submissionLocked, outcome, images>>

AllUploaded(r) == acked[r] = ImageCount

\* An upload that fails may have stored the image all the same.
Upload(r) ==
  /\ At(r, "upload")
  /\ \/ /\ AllUploaded(r)
        /\ Goto(r, "commit")
        /\ UNCHANGED <<acked, stored>>
     \/ /\ ~AllUploaded(r)
        /\ r \notin ended
        /\ acked' = [acked EXCEPT ![r] = acked[r] + 1]
        /\ stored' = stored \cup {<<r, acked[r] + 1>>}
        /\ UNCHANGED stage
     \/ /\ ~AllUploaded(r)
        /\ Goto(r, "undo")
        /\ \/ stored' = stored \cup {<<r, acked[r] + 1>>}
           \/ UNCHANGED stored
        /\ UNCHANGED acked
  /\ UNCHANGED <<ended, key, submissionLocked, queued, outcome>>

\* The transaction: the lock is checked again; the answer to the commit may be
\* lost, or the transaction fail.
CreateBill(r) ==
  /\ At(r, "commit")
  /\ \/ /\ ~submissionLocked /\ r \notin ended
        /\ Goto(r, "complete")
        /\ newBills' = newBills \cup {r}
        /\ since' = since \cup {r}
        /\ UNCHANGED <<unsure, rejected>>
     \/ /\ ~submissionLocked
        /\ Goto(r, "undo")
        /\ newBills' = newBills \cup {r}
        /\ since' = since \cup {r}
        /\ unsure' = unsure \cup {r}
        /\ UNCHANGED rejected
     \/ /\ submissionLocked /\ r \notin ended
        /\ Goto(r, "reject")
        /\ UNCHANGED outcome
     \/ /\ Goto(r, "undo")
        /\ UNCHANGED outcome
  /\ UNCHANGED <<ended, key, submissionLocked, images>>

\* EnqueueMediaCleanup
QueuedUploads(r) == queued \cup UploadsOf(r)

\* An image that cannot be queued is deleted in the same context, or left to
\* the deferred function: see Undo.
Reject(r) ==
  /\ At(r, "reject")
  /\ \/ /\ r \notin ended
        /\ queued' = QueuedUploads(r)
        /\ rejected' = rejected \cup {r}
     \/ /\ r \in ended
        /\ \E some \in SUBSET UploadsOf(r) : queued' = queued \cup some
        /\ UNCHANGED rejected
  /\ Goto(r, "undo")
  /\ UNCHANGED <<ended, key, submissionLocked, acked, stored, newBills, unsure, since>>

\* The deferred function, whose errors are ignored, and afterwards, in the
\* handler, the release.
Undo(r) ==
  /\ At(r, "undo")
  /\ \E gone \in SUBSET UploadsOf(r) : stored' = stored \ gone
  /\ Goto(r, "release")
  /\ UNCHANGED <<ended, key, submissionLocked, acked, queued, outcome>>

-----------------------------------------------------------------------------
(* The environment. *)

ContextEnds(r) ==
  /\ stage[r] \in Live
  /\ r \notin ended
  /\ ended' = ended \cup {r}
  /\ UNCHANGED <<stage, key, submissionLocked, outcome, images>>

Crash(r) ==
  /\ stage[r] \in Live
  /\ Goto(r, "dead")
  /\ UNCHANGED <<ended, key, submissionLocked, outcome, images>>

\* LockSubmissions, UnlockSubmissions
ToggleLock ==
  /\ submissionLocked' = ~submissionLocked
  /\ UNCHANGED <<stage, ended, key, outcome, images>>

\* The cleanup workers: see MediaCleanup.
CleanUp(i) ==
  /\ i \in queued
  /\ queued' = queued \ {i}
  /\ stored' = stored \ {i}
  /\ UNCHANGED <<stage, acked, ended, key, submissionLocked, outcome>>

RequestStep(r) ==
  \/ CheckOrReserveIdempotency(r) \/ CompleteIdempotency(r)
  \/ ReleaseIdempotency(r)
  \/ Check(r) \/ Upload(r) \/ CreateBill(r) \/ Reject(r) \/ Undo(r)
  \/ ContextEnds(r) \/ Crash(r)

CreationNext ==
  \/ \E r \in Requests : RequestStep(r)
  \/ Expire \/ ToggleLock
  \/ \E i \in Image : CleanUp(i)

CreationSpec == CreationInit /\ [][CreationNext]_creationVars

-----------------------------------------------------------------------------
(* Properties *)

CreationTypeOK ==
  /\ stage \in [Requests -> Stages]
  /\ acked \in [Requests -> 0..ImageCount]
  /\ ended \in SUBSET Requests
  /\ key \in [state : KeyStates, request : Requests \cup {Nobody}]
  /\ submissionLocked \in BOOLEAN
  /\ newBills \in SUBSET Requests
  /\ stored \in SUBSET Image
  /\ queued \in SUBSET Image
  /\ unsure \in SUBSET Requests
  /\ since \in SUBSET Requests
  /\ rejected \in SUBSET Requests

\* However often a client sends a request and wherever each attempt fails, a
\* key makes one bill before it expires; a second one only after a commit whose
\* answer was lost, which releases the key of a bill that exists.
OneBillPerKey ==
  \A a, b \in since : a # b => {a, b} \cap unsure # {}

\* What is replayed is true: the bill that was answered exists, with all its
\* images.
ReplayIsTrue ==
  key.state = "completed"
  => key.request \in newBills /\ ImagesOf(key.request) \subseteq stored

\* No compensation and no cleanup touches an image of a bill, but for a bill
\* whose commit was not acknowledged.
BillImagesKept ==
  \A r \in newBills \ unsure :
    ImagesOf(r) \subseteq stored /\ ImagesOf(r) \cap queued = {}

\* A creation that has lost the race against the lock leaves no image that the
\* durable cleanup does not know of (spec 0008 AC-2), even if all deletions of
\* the deferred function fail.
RejectedIsClean ==
  \A r \in rejected : ImagesOf(r) \cap stored \subseteq queued
=============================================================================
