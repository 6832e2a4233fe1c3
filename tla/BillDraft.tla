----------------------------- MODULE BillDraft -----------------------------
(***************************************************************************)
(* One bill with images, from its creation to its review: the edits of its *)
(* creditor and captain, and the OCR jobs that propose contents for it     *)
(* (spec 0003).                                                            *)
(*                                                                         *)
(* A request reads the bill in statements of its own and writes it later,  *)
(* in one transaction that locks the active group: reads and write are     *)
(* separate actions, and a write compares the version the request has      *)
(* read.  A job is a row of ocr_jobs and a River job.  Each attempt of the *)
(* River job is an execution of OCRWorker.Work; its process may die, or    *)
(* stall until River rescues the job, and go on afterwards.                *)
(*                                                                         *)
(* Of the contents of a bill only one thing matters here: whether they are *)
(* balanced (evaluateAllocation finds no blocker), or bare - they have     *)
(* items, but pass for balanced only when none of them is read, as when    *)
(* the subtotal is 0 - or off.  A candidate is known by the attempt that   *)
(* has stored it.  The limit of manual retries is left out: a count that   *)
(* fails lets every retry pass, so it promises nothing.  The group stays   *)
(* active: it does as long as a bill is open (BillClose).                  *)
(***************************************************************************)
EXTENDS Naturals, FiniteSets

CONSTANTS
  Jobs,         \* bound: OCR jobs of the bill
  Clients,      \* bound: requests in progress at a time
  NoJob,        \* the request is about no candidate
  MaxAttempts,  \* BILL_OCR_MAX_ATTEMPTS
  MaxVersion    \* bound: no change of the bill beyond this version

ASSUME DraftAssumption ==
  /\ IsFiniteSet(Jobs)
  /\ IsFiniteSet(Clients)
  /\ NoJob \notin Jobs
  /\ MaxAttempts \in Nat \ {0}
  /\ MaxVersion \in Nat

VARIABLES
  bill,     \* the row of bills, its contents, and (history) whether its
            \* review has missed its items
  rows,     \* ocr_jobs
  river,    \* River jobs
  exec,     \* executions of Work, by job and attempt
  clients,  \* requests between their reads and their write
  edited    \* history: jobs since whose creation the contents have changed

vars == <<bill, rows, river, exec, clients, edited>>

-----------------------------------------------------------------------------
BillStatuses == {"none", "draft", "reviewed", "finalized", "deleted"}
RowStatuses == {"none", "queued", "processing", "succeeded", "failed", "gone"}
RiverPhases == {"none", "available", "running", "completed", "discarded"}
Stages == {"none", "begin", "extract", "store", "fail", "lost"}
Ops == {"idle", "retry", "read", "review", "blind", "apply"}
BillContent == {"balanced", "bare", "off"}

Attempts == 1..MaxAttempts

Bill == [status : BillStatuses, version : Nat, contents : BillContent,
         unread : BOOLEAN]
Row == [status : RowStatuses, version : Nat, candidate : 0..MaxAttempts]
RiverJob == [phase : RiverPhases, attempt : 0..MaxAttempts]
Client == [op : Ops, version : Nat, job : Jobs \cup {NoJob}]

Idle == [op |-> "idle", version |-> 0, job |-> NoJob]

Init ==
  /\ bill = [status |-> "none", version |-> 0, contents |-> "off", unread |-> FALSE]
  /\ rows = [j \in Jobs |->
       [status |-> "none", version |-> 0, candidate |-> 0]]
  /\ river = [j \in Jobs |-> [phase |-> "none", attempt |-> 0]]
  /\ exec = [j \in Jobs |-> [k \in Attempts |-> "none"]]
  /\ clients = [c \in Clients |-> Idle]
  /\ edited = {}

BillOpen == bill.status \in {"draft", "reviewed"}
RowActive(j) == rows[j].status \in {"queued", "processing"}
Requested == {j \in Jobs : rows[j].status # "none"}

-----------------------------------------------------------------------------
(* The OCR jobs. *)

\* The row and its River job are inserted in one transaction.
InsertJob(j, version) ==
  /\ rows[j].status = "none"
  /\ rows' = [rows EXCEPT ![j] =
       [status |-> "queued", version |-> version, candidate |-> 0]]
  /\ river' = [river EXCEPT ![j] = [phase |-> "available", attempt |-> 0]]

CreateBill(j) ==
  /\ bill.status = "none"
  /\ InsertJob(j, 1)
  /\ \E contents \in BillContent :
       bill' = [status |-> "draft", version |-> 1, contents |-> contents,
                unread |-> FALSE]
  /\ UNCHANGED <<exec, clients, edited>>

\* River starts the next attempt of a job.
Fetch(j) ==
  /\ river[j].phase = "available"
  /\ LET k == river[j].attempt + 1 IN
       /\ river' = [river EXCEPT ![j] = [phase |-> "running", attempt |-> k]]
       /\ exec' = [exec EXCEPT ![j][k] = "begin"]
  /\ UNCHANGED <<bill, rows, clients, edited>>

AfterFailure(k) == IF k < MaxAttempts THEN "available" ELSE "discarded"

\* River takes the result of the attempt it knows of.
Report(j, k, phase) ==
  river' = IF river[j] = [phase |-> "running", attempt |-> k]
           THEN [river EXCEPT ![j].phase = phase]
           ELSE river

\* Work returns nil, or an error.
Return(j, k, stage) ==
  /\ exec' = [exec EXCEPT ![j][k] = stage]
  /\ Report(j, k, "completed")
ReturnError(j, k) ==
  /\ exec' = [exec EXCEPT ![j][k] = "none"]
  /\ Report(j, k, AfterFailure(k))

Goto(j, k, stage) ==
  /\ exec' = [exec EXCEPT ![j][k] = stage]
  /\ UNCHANGED river

\* The WHERE clause of UpdateOCRJobProcessing: an attempt that follows another
\* finds the row processing.
Startable(j) == RowActive(j)

Begin(j, k) ==
  /\ exec[j][k] = "begin"
  /\ \/ /\ Startable(j)
        /\ rows' = [rows EXCEPT ![j].status = "processing"]
        /\ Goto(j, k, "extract")
     \/ /\ ~Startable(j)
        /\ Return(j, k, "none")
        /\ UNCHANGED rows
  /\ UNCHANGED <<bill, clients, edited>>

\* The provider has an answer; or the bill or its images are gone, the answer
\* is malformed, or this is the last attempt; or the next one may do better.
Extract(j, k) ==
  /\ exec[j][k] = "extract"
  /\ \/ bill.status # "deleted" /\ Goto(j, k, "store")
     \/ Goto(j, k, "fail")
     \/ /\ k < MaxAttempts
        /\ bill.status # "deleted"
        /\ ReturnError(j, k)
  /\ UNCHANGED <<bill, rows, clients, edited>>

\* Mutant: a result is stored whatever the row says.
StorableAlways(j) == rows[j].status \in {"processing", "succeeded", "failed"}

\* The WHERE clauses of UpdateOCRJobSuccess and UpdateOCRJobFailed.
Storable(j) == rows[j].status = "processing"

Store(j, k) ==
  /\ exec[j][k] = "store"
  /\ \/ /\ Storable(j)
        /\ rows' = [rows EXCEPT ![j] =
             [status |-> "succeeded", version |-> rows[j].version,
              candidate |-> k]]
     \/ ~Storable(j) /\ UNCHANGED rows
  /\ Return(j, k, "none")
  /\ UNCHANGED <<bill, clients, edited>>

\* failJob.  Its error is ignored: the update may be lost.
Fail(j, k) ==
  /\ exec[j][k] = "fail"
  /\ \/ /\ Storable(j)
        /\ rows' = [rows EXCEPT ![j].status = "failed"]
        /\ Return(j, k, "none")
     \/ /\ ~Storable(j)
        /\ Return(j, k, "none")
        /\ UNCHANGED rows
     \/ /\ Return(j, k, "lost")
        /\ UNCHANGED rows
  /\ UNCHANGED <<bill, clients, edited>>

\* A statement of the attempt fails.
DatabaseFails(j, k) ==
  /\ exec[j][k] \in {"begin", "extract", "store"}
  /\ ReturnError(j, k)
  /\ UNCHANGED <<bill, rows, clients, edited>>

Crash(j, k) ==
  /\ exec[j][k] \in {"begin", "extract", "store", "fail"}
  /\ Goto(j, k, "none")
  /\ UNCHANGED <<bill, rows, clients, edited>>

\* River gives up on an attempt that has not reported for an hour.
Rescue(j) ==
  /\ river[j].phase = "running"
  /\ river' = [river EXCEPT ![j].phase = AfterFailure(river[j].attempt)]
  /\ UNCHANGED <<bill, rows, exec, clients, edited>>

-----------------------------------------------------------------------------
(* The requests. *)

Pending(c, op) == clients[c].op = op
Remember(c, op, version, j) ==
  /\ clients' = [clients EXCEPT ![c] =
       [op |-> op, version |-> version, job |-> j]]
  /\ UNCHANGED <<bill, rows, river, exec, edited>>
Forget(c) == clients' = [clients EXCEPT ![c] = Idle]

\* The request is refused, fails, or its process dies.
Abandon(c) ==
  /\ clients[c] # Idle
  /\ Forget(c)
  /\ UNCHANGED <<bill, rows, river, exec, edited>>

\* RetryOCR looks for an active job, too, but passes when it cannot see one.
RetryOCRRead(c) ==
  /\ clients[c] = Idle
  /\ BillOpen
  /\ Remember(c, "retry", bill.version, NoJob)

\* CreateOCRJob: the bill exists, and the partial unique index lets one active
\* row per bill in.
RetryOCRCommit(c, j) ==
  /\ Pending(c, "retry")
  /\ bill.status # "deleted"
  /\ \A i \in Jobs : ~RowActive(i)
  /\ InsertJob(j, clients[c].version)
  /\ Forget(c)
  /\ UNCHANGED <<bill, exec, edited>>

\* What evaluateAllocation lets pass.  When the items cannot be read, the error
\* is dropped, and the bill is evaluated as one that has none; a balanced one
\* that passes all the same has items for 0 VND, and they change nothing.
PassesWithItems == bill.contents = "balanced"
PassesWithout == bill.contents = "bare"

\* ReviewBill reads the row of the bill first and its items afterwards.
ReviewReadRow(c) ==
  /\ clients[c] = Idle
  /\ bill.status = "draft"
  /\ Remember(c, "read", bill.version, NoJob)

ReviewReadItems(c) ==
  /\ Pending(c, "read")
  /\ bill.status # "deleted"
  /\ \/ PassesWithItems /\ Remember(c, "review", clients[c].version, NoJob)
     \/ PassesWithout /\ Remember(c, "blind", clients[c].version, NoJob)

\* Mutant: a draft is a draft.
AnyVersion(c) == TRUE

\* ... AND version = the version the request has read
SameVersion(c) == bill.version = clients[c].version

Moved(status, unread) ==
  [status |-> status, version |-> bill.version + 1, contents |-> bill.contents,
   unread |-> unread]

ReviewCommit(c) ==
  /\ Pending(c, "review") \/ Pending(c, "blind")
  /\ bill.status = "draft"
  /\ SameVersion(c)
  /\ bill' = Moved("reviewed", Pending(c, "blind"))
  /\ Forget(c)
  /\ UNCHANGED <<rows, river, exec, edited>>

\* Mutant: the version of the client is enough.
FreshForClient(j) == TRUE

\* bill.Version = ocrJob.Version
Fresh(j) == bill.version = rows[j].version

ApplyCandidateRead(c, j) ==
  /\ clients[c] = Idle
  /\ BillOpen
  /\ rows[j].status = "succeeded"
  /\ Fresh(j)
  /\ bill.version < MaxVersion
  /\ Remember(c, "apply", bill.version, j)

\* UpdateDraftBill of the repository: new contents, and back to draft.
\* Nothing is known of the balance of either an edit or a candidate.
WriteContents ==
  /\ BillOpen
  /\ \E contents \in BillContent :
       bill' = [status |-> "draft", version |-> bill.version + 1,
                contents |-> contents, unread |-> FALSE]
  /\ edited' = Requested

ApplyCandidateCommit(c) ==
  /\ Pending(c, "apply")
  /\ SameVersion(c)
  /\ WriteContents
  /\ Forget(c)
  /\ UNCHANGED <<rows, river, exec>>

\* What an edit writes depends on nothing it has read but the version.
UpdateDraftBill ==
  /\ bill.version < MaxVersion
  /\ WriteContents
  /\ UNCHANGED <<rows, river, exec, clients>>

\* The allocation is evaluated again, on what can be read, and the version
\* compared.
FinalizeBill ==
  /\ bill.status = "reviewed"
  /\ PassesWithItems \/ PassesWithout
  /\ bill' = Moved("finalized", bill.unread)
  /\ UNCHANGED <<rows, river, exec, clients, edited>>

\* The rows of ocr_jobs go with the bill; the River jobs stay.
DeleteDraftBill ==
  /\ bill.status = "draft"
  /\ bill' = [status |-> "deleted", version |-> 0, contents |-> "off",
              unread |-> FALSE]
  /\ rows' = [j \in Jobs |->
       IF rows[j].status = "none" THEN rows[j]
       ELSE [rows[j] EXCEPT !.status = "gone"]]
  /\ UNCHANGED <<river, exec, clients, edited>>

-----------------------------------------------------------------------------
JobStep == \E j \in Jobs :
  \/ CreateBill(j) \/ Fetch(j) \/ Rescue(j)
  \/ \E k \in Attempts :
       \/ Begin(j, k) \/ Extract(j, k) \/ Store(j, k) \/ Fail(j, k)
       \/ DatabaseFails(j, k) \/ Crash(j, k)

ClientStep == \E c \in Clients :
  \/ Abandon(c) \/ RetryOCRRead(c) \/ ReviewReadRow(c) \/ ReviewReadItems(c)
  \/ ReviewCommit(c) \/ ApplyCandidateCommit(c)
  \/ \E j \in Jobs : RetryOCRCommit(c, j) \/ ApplyCandidateRead(c, j)

Next == JobStep \/ ClientStep
        \/ UpdateDraftBill \/ FinalizeBill \/ DeleteDraftBill

Spec == Init /\ [][Next]_vars

-----------------------------------------------------------------------------
(* Properties *)

TypeOK ==
  /\ bill \in Bill
  /\ rows \in [Jobs -> Row]
  /\ river \in [Jobs -> RiverJob]
  /\ exec \in [Jobs -> [Attempts -> Stages]]
  /\ clients \in [Clients -> Client]
  /\ edited \in SUBSET Jobs

\* The contents of a reviewed bill are those that were evaluated, whatever
\* edits and candidates were written between the reads of the review and its
\* write, or between one of its reads and the next: they are balanced - or bare,
\* if its review could not read its items (ReviewBill; loadBillByID).
ReviewedAddsUp == bill.status \in {"reviewed", "finalized"} =>
  \/ bill.contents = "balanced"
  \/ bill.contents = "bare" /\ bill.unread

\* A candidate is applied only if nobody has changed the contents since its
\* job was created (spec 0003 AC-4); in particular it is applied once.
CandidateIsFresh == [][\A c \in Clients :
  clients[c].op = "apply" /\ clients'[c] = Idle /\ bill' # bill
  => clients[c].job \notin edited]_vars

\* A result stays: an attempt that River had given up on does not overwrite
\* the result of a later one.  A result goes only with its bill.
ResultIsFinal == [][\A j \in Jobs :
  rows[j].status \in {"succeeded", "failed"}
  => rows'[j] = rows[j] \/ rows'[j].status = "gone"]_vars

\* Once River takes a job for done, its row has a result or is gone, but for
\* the update of failJob, whose failure nobody notices.
CompletedHasResult == \A j \in Jobs :
  river[j].phase = "completed" /\ RowActive(j)
  => \E k \in Attempts : exec[j][k] = "lost"
=============================================================================
