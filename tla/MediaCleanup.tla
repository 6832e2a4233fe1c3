---------------------------- MODULE MediaCleanup ----------------------------
(***************************************************************************)
(* Stored images that nothing needs any more, the table media_cleanup_jobs *)
(* and the two workers that share it: the ticker of the auth module, in    *)
(* every API process, and the daily cleanup of the settlement module.      *)
(*                                                                         *)
(* A worker claims due jobs in one transaction and then treats each in     *)
(* turn: a call to Cloudinary, a write of the result.  A claim is a lease: *)
(* it only moves next_attempt_at, so that another worker may claim the     *)
(* same job while the first still works on it, or after it has crashed.    *)
(* A batch of claims is modelled as single claims, one after the other.    *)
(*                                                                         *)
(* Avatars have the Cloudinary delivery type "upload", images of bills and *)
(* proofs of payment "private".  A worker deletes through one adapter, and *)
(* Cloudinary answers "not found" for an object of the other type.         *)
(***************************************************************************)
EXTENDS Naturals, FiniteSets

CONSTANTS
  Objects,           \* keys of stored images
  Avatars,           \* those with delivery type "upload"
  AuthWorkers,       \* tickers of the auth module
  SettlementWorkers, \* runs of the settlement cleanup
  AttemptLimit       \* attempt_count < 10

ASSUME MediaAssumption ==
  /\ Avatars \subseteq Objects
  /\ AuthWorkers \cap SettlementWorkers = {}
  /\ AttemptLimit \in Nat \ {0}

VARIABLES
  stored,    \* objects that exist in Cloudinary
  jobs,      \* the cleanup job of an object
  attempts,  \* attempt_count
  due,       \* jobs with next_attempt_at <= now()
  claims     \* jobs in the hands of a worker

mediaVars == <<stored, jobs, attempts, due, claims>>

Workers == AuthWorkers \cup SettlementWorkers
JobStatuses == {"none", "open", "completed", "purged"}
Claims == [worker : Workers, object : Objects, deleted : BOOLEAN]
Private == Objects \ Avatars

MediaInit ==
  /\ stored = {}
  /\ jobs = [o \in Objects |-> "none"]
  /\ attempts = [o \in Objects |-> 0]
  /\ due = {}
  /\ claims = {}

-----------------------------------------------------------------------------
(* Cloudinary. *)

\* authjobs.New gets the avatar storage, settlementjobs.Register the proof
\* storage.
Reaches(w, o) == (w \in AuthWorkers) <=> (o \in Avatars)

\* Mutant: "not found" is good enough.
DestroyAnything(w, o) == TRUE

\* Destroy answers "ok": the object is there, under the type of the adapter.
DestroyOk(w, o) == o \in stored /\ Reaches(w, o)

\* What Destroy leaves of the stored objects.
AfterDestroy(w, o) == IF Reaches(w, o) THEN stored \ {o} ELSE stored

-----------------------------------------------------------------------------
(* Jobs. *)

\* EnqueueMediaCleanup, QueueMediaCleanup, InsertMediaCleanupJob:
\* ON CONFLICT DO NOTHING.
QueueCleanup(o) ==
  IF jobs[o] = "open" THEN UNCHANGED <<jobs, attempts, due>>
  ELSE /\ jobs' = [jobs EXCEPT ![o] = "open"]
       /\ attempts' = [attempts EXCEPT ![o] = 0]
       /\ due' = due \cup {o}

\* Mutant: the settlement worker respects the limit too.
ClaimableBelowLimit(w, o) ==
  /\ jobs[o] = "open"
  /\ o \in due
  /\ attempts[o] < AttemptLimit

\* Only the auth worker gives up.
Claimable(w, o) ==
  /\ jobs[o] = "open"
  /\ o \in due
  /\ w \in AuthWorkers => attempts[o] < AttemptLimit

\* attempt_count + 1, capped by LEAST(..., 10) in the settlement worker.
CountAttempt(o) ==
  IF attempts[o] < AttemptLimit THEN attempts[o] + 1 ELSE attempts[o]

\* ClaimMediaCleanup and the first statement of ProcessMediaCleanup.
ClaimJob(w, o) ==
  /\ Claimable(w, o)
  /\ \A c \in claims : ~(c.worker = w /\ c.object = o)
  /\ attempts' = [attempts EXCEPT ![o] = CountAttempt(o)]
  /\ due' = due \ {o}
  /\ claims' = claims \cup {[worker |-> w, object |-> o, deleted |-> FALSE]}
  /\ UNCHANGED <<stored, jobs>>

DeleteClaimed(c) ==
  /\ ~c.deleted
  /\ DestroyOk(c.worker, c.object)
  /\ stored' = AfterDestroy(c.worker, c.object)
  /\ claims' = (claims \ {c}) \cup {[c EXCEPT !.deleted = TRUE]}
  /\ UNCHANGED <<jobs, attempts, due>>

\* Destroy answers "not found", or fails with or without having deleted the
\* object.  FailMediaCleanup postpones an open job, the settlement worker had
\* postponed it when it claimed it.
DeleteFails(c) ==
  /\ ~c.deleted
  /\ stored' \in {stored, AfterDestroy(c.worker, c.object)}
  /\ due' = IF c.worker \in AuthWorkers /\ jobs[c.object] = "open"
            THEN due \ {c.object} ELSE due
  /\ claims' = claims \ {c}
  /\ UNCHANGED <<jobs, attempts>>

CompleteJob(c) ==
  /\ c.deleted
  /\ jobs' = [jobs EXCEPT ![c.object] = "completed"]
  /\ claims' = claims \ {c}
  /\ UNCHANGED <<stored, attempts, due>>

\* The process dies, or the write of the result fails.
AbandonClaim(c) ==
  /\ claims' = claims \ {c}
  /\ UNCHANGED <<stored, jobs, attempts, due>>

\* next_attempt_at is reached.
BecomesDue(o) ==
  /\ jobs[o] = "open"
  /\ o \notin due
  /\ due' = due \cup {o}
  /\ UNCHANGED <<stored, jobs, attempts, claims>>

\* CleanupExpiredAuth removes completed jobs after the retention, which is far
\* longer than any claim.
PurgeJob(o) ==
  /\ jobs[o] = "completed"
  /\ \A c \in claims : c.object # o
  /\ jobs' = [jobs EXCEPT ![o] = "purged"]
  /\ UNCHANGED <<stored, attempts, due, claims>>

WorkerNext ==
  \/ \E w \in Workers, o \in Objects : ClaimJob(w, o)
  \/ \E c \in claims :
       DeleteClaimed(c) \/ DeleteFails(c) \/ CompleteJob(c) \/ AbandonClaim(c)
  \/ \E o \in Objects : BecomesDue(o) \/ PurgeJob(o)

-----------------------------------------------------------------------------
(* The rest of the program, for this module alone: an image is uploaded,   *)
(* and later no row refers to it.                                          *)

Upload(o) ==
  /\ jobs[o] = "none"
  /\ o \notin stored
  /\ stored' = stored \cup {o}
  /\ UNCHANGED <<jobs, attempts, due, claims>>

\* A request deletes the object and queues it when that fails, as UploadAvatar
\* and DeleteAvatar do; or queues it at once, as DeleteDraftBill does.
Discard(o) ==
  /\ jobs[o] = "none"
  /\ o \in stored
  /\ QueueCleanup(o)
  /\ stored' \in {stored, stored \ {o}}
  /\ UNCHANGED claims

\* CreateBill that loses against the submission lock: its images are queued,
\* and then deleted by the deferred compensation.
CompensatingDelete(o) ==
  /\ jobs[o] = "open"
  /\ o \in Private \cap stored
  /\ stored' = stored \ {o}
  /\ UNCHANGED <<jobs, attempts, due, claims>>

MediaNext ==
  \/ WorkerNext
  \/ \E o \in Objects : Upload(o) \/ Discard(o) \/ CompensatingDelete(o)

MediaSpec == MediaInit /\ [][MediaNext]_mediaVars

\* Time passes, the workers run, and no call to Cloudinary that can succeed
\* fails forever.  Nothing is assumed of a worker that cannot reach the object.
MediaFairness ==
  \A o \in Objects :
    /\ WF_mediaVars(BecomesDue(o))
    /\ \A w \in {x \in Workers : Reaches(x, o)} :
         /\ WF_mediaVars(ClaimJob(w, o))
         /\ SF_mediaVars(\E c \in claims :
              c.worker = w /\ c.object = o /\ DeleteClaimed(c))
         /\ SF_mediaVars(\E c \in claims :
              c.worker = w /\ c.object = o /\ CompleteJob(c))

FairMediaSpec == MediaSpec /\ MediaFairness

-----------------------------------------------------------------------------
(* Properties. *)

\* Every variable has its type; attempt_count stays within its CHECK constraint
\* although the settlement worker never stops counting.
MediaTypeOK ==
  /\ stored \in SUBSET Objects
  /\ jobs \in [Objects -> JobStatuses]
  /\ attempts \in [Objects -> 0..AttemptLimit]
  /\ due \in SUBSET Objects
  /\ claims \in SUBSET Claims

\* A job that is completed, and perhaps purged, has really removed its object,
\* although one of the two workers can never remove it, claims expire and two
\* workers may hold the same job: only an "ok" of Cloudinary completes a job.
CompletedIsGone ==
  \A o \in Objects : jobs[o] \in {"completed", "purged"} => o \notin stored

\* An image of a bill or a proof that is queued is removed in the end, however
\* often the auth workers, which cannot remove it, use up its attempts.
PrivateImagesGo ==
  \A o \in Private : (jobs[o] = "open") ~> (o \notin stored)
=============================================================================
