-------------------------- MODULE BillDraftProofs --------------------------
(***************************************************************************)
(* Theorems about BillDraft, for every finite set of jobs and requests,    *)
(* every number of attempts and every version; and, in the second half,    *)
(* about BillAllocation, for every bill.                                   *)
(*                                                                         *)
(* The inductive invariant is Inv.  The version of the bill is a clock:    *)
(* what a request has read, and what a job was made for, is no newer than  *)
(* the bill (ReadsAreOld, JobsAreOld), so that a change makes all of it    *)
(* stale at once.  As long as the version is the same, a review has seen   *)
(* what it will write (ReviewsAreTrue), and a candidate belongs to the     *)
(* contents (CandidatesAreTrue, AppliesAreTrue).                           *)
(***************************************************************************)
EXTENDS BillContents, FiniteSums

\* A job that may be tried again has an attempt left.
AttemptsLeft == \A j \in Jobs :
  river[j].phase = "available" => river[j].attempt < MaxAttempts

\* An attempt that has begun has found the row startable.
BegunRows == \A j \in Jobs, k \in Attempts :
  exec[j][k] \in {"extract", "store", "fail"}
  => rows[j].status \in {"processing", "succeeded", "failed", "gone"}

\* Nobody knows of a bill that does not exist.
NothingBefore == bill.status = "none" =>
  /\ bill.version = 0
  /\ Requested = {}
  /\ \A c \in Clients : clients[c] = Idle

ReadsAreOld == bill.status # "deleted" =>
  \A c \in Clients : clients[c].version <= bill.version

JobsAreOld == bill.status # "deleted" =>
  \A j \in Jobs : rows[j].version <= bill.version

ReviewsAreTrue == \A c \in Clients :
  bill.status = "draft" /\ clients[c].version = bill.version =>
    /\ clients[c].op = "review" => PassesWithItems
    /\ clients[c].op = "blind" => PassesWithout

EditedRequested == edited \subseteq Requested

CandidatesAreTrue == \A j \in Requested :
  BillOpen /\ rows[j].version = bill.version => j \notin edited

AppliesAreTrue == \A c \in Clients :
  BillOpen /\ clients[c].op = "apply" /\ clients[c].version = bill.version
  => clients[c].job \notin edited

Results ==
  /\ AttemptsLeft
  /\ BegunRows
  /\ CompletedHasResult

Contents ==
  /\ NothingBefore
  /\ ReadsAreOld
  /\ JobsAreOld
  /\ ReviewedAddsUp
  /\ ReviewsAreTrue
  /\ EditedRequested
  /\ CandidatesAreTrue
  /\ AppliesAreTrue

Inv == TypeOK /\ Results /\ Contents

\* The steps of one attempt.
AttemptStep(j, k) ==
  \/ Begin(j, k) \/ Extract(j, k) \/ Store(j, k) \/ Fail(j, k)
  \/ DatabaseFails(j, k) \/ Crash(j, k)

-----------------------------------------------------------------------------
\* The initial state satisfies the invariant.
LEMMA InitInv == Init => Inv
<1> SUFFICES ASSUME Init PROVE Inv
  OBVIOUS
<1> USE DraftAssumption DEF Init, Idle
<1>1. TypeOK
  <2>1. bill \in Bill /\ rows \in [Jobs -> Row]
    BY DEF Bill, BillContent, BillStatuses, Row, RowStatuses
  <2>2. river \in [Jobs -> RiverJob] /\ exec \in [Jobs -> [Attempts -> Stages]]
    BY DEF RiverJob, RiverPhases, Stages
  <2>3. clients \in [Clients -> Client]
    BY DEF Client, Ops
  <2> QED
    BY <2>1, <2>2, <2>3 DEF TypeOK
<1>2. Results
  BY DEF Results, AttemptsLeft, BegunRows, CompletedHasResult, RowActive
<1>3. Requested = {}
  BY DEF Requested
<1>4. Contents
  BY <1>3 DEF Contents, NothingBefore, ReadsAreOld, JobsAreOld, ReviewedAddsUp,
     ReviewsAreTrue, EditedRequested, CandidatesAreTrue, AppliesAreTrue
<1> QED
  BY <1>1, <1>2, <1>4 DEF Inv

-----------------------------------------------------------------------------
(* Attempts and River jobs. *)

\* One attempt moves, the others stay where they are.
LEMMA ExecMoves ==
  ASSUME TypeOK, NEW j \in Jobs, NEW k \in Attempts, NEW s \in Stages,
         exec' = [exec EXCEPT ![j][k] = s]
  PROVE  /\ exec' \in [Jobs -> [Attempts -> Stages]]
         /\ \A i \in Jobs, l \in Attempts :
              exec'[i][l] = IF i = j /\ l = k THEN s ELSE exec[i][l]
<1>1. exec \in [Jobs -> [Attempts -> Stages]]
  BY DEF TypeOK
<1>2. [exec[j] EXCEPT ![k] = s] \in [Attempts -> Stages]
  BY <1>1
<1>3. exec' = [exec EXCEPT ![j] = [exec[j] EXCEPT ![k] = s]]
  OBVIOUS
<1>4. exec' \in [Jobs -> [Attempts -> Stages]]
  BY <1>1, <1>2, <1>3
<1>5. \A i \in Jobs : exec'[i] = IF i = j THEN [exec[j] EXCEPT ![k] = s] ELSE exec[i]
  BY <1>1, <1>3
<1> QED
  BY <1>1, <1>4, <1>5

\* A report changes the phase of the job, or nothing.
LEMMA ReportMoves ==
  ASSUME TypeOK, AttemptsLeft, NEW j \in Jobs, NEW k \in Attempts,
         NEW p \in RiverPhases, p = "available" => k < MaxAttempts,
         Report(j, k, p)
  PROVE  /\ river' \in [Jobs -> RiverJob]
         /\ AttemptsLeft'
         /\ \A i \in Jobs :
              \/ river'[i] = river[i]
              \/ i = j /\ river'[i].phase = p
<1>1. river \in [Jobs -> RiverJob] /\ river[j] \in RiverJob
  BY DEF TypeOK
<1>2. CASE river[j] = [phase |-> "running", attempt |-> k]
  <2> DEFINE new == [river[j] EXCEPT !.phase = p]
  <2>1. new \in RiverJob /\ new.phase = p /\ new.attempt = k
    BY <1>1, <1>2 DEF RiverJob
  <2>2. river' = [river EXCEPT ![j] = new]
    BY <1>2 DEF Report
  <2> HIDE DEF new
  <2>3. \A i \in Jobs : river'[i] = IF i = j THEN new ELSE river[i]
    BY <1>1, <2>2
  <2>4. river' \in [Jobs -> RiverJob]
    BY <1>1, <2>1, <2>2
  <2> QED
    BY <2>1, <2>3, <2>4 DEF AttemptsLeft
<1>3. CASE river[j] # [phase |-> "running", attempt |-> k]
  BY <1>1, <1>3 DEF Report, AttemptsLeft
<1> QED
  BY <1>2, <1>3

\* What a failed attempt is followed by.
LEMMA AfterFailureIsPhase ==
  ASSUME NEW k \in Attempts
  PROVE  /\ AfterFailure(k) \in RiverPhases
         /\ AfterFailure(k) # "completed"
         /\ AfterFailure(k) = "available" => k < MaxAttempts
BY DEF AfterFailure, RiverPhases

\* Whatever an attempt does, it leaves its stage and tells River at most that
\* it is completed or has failed.
LEMMA AttemptMoves ==
  ASSUME TypeOK, AttemptsLeft, NEW j \in Jobs, NEW k \in Attempts,
         AttemptStep(j, k)
  PROVE  /\ exec' \in [Jobs -> [Attempts -> Stages]]
         /\ river' \in [Jobs -> RiverJob]
         /\ AttemptsLeft'
         /\ \A i \in Jobs, l \in Attempts :
              i # j \/ l # k => exec'[i][l] = exec[i][l]
         /\ \A i \in Jobs : i # j => river'[i] = river[i]
<1> USE DEF TypeOK
<1>1. ASSUME NEW s \in Stages, NEW p \in RiverPhases,
             p = "available" => k < MaxAttempts,
             exec' = [exec EXCEPT ![j][k] = s], Report(j, k, p)
      PROVE  /\ exec' \in [Jobs -> [Attempts -> Stages]]
             /\ river' \in [Jobs -> RiverJob]
             /\ AttemptsLeft'
             /\ \A i \in Jobs, l \in Attempts :
                  i # j \/ l # k => exec'[i][l] = exec[i][l]
             /\ \A i \in Jobs : i # j => river'[i] = river[i]
  BY <1>1, ExecMoves, ReportMoves
<1>2. ASSUME NEW s \in Stages, Goto(j, k, s)
      PROVE  /\ exec' \in [Jobs -> [Attempts -> Stages]]
             /\ river' \in [Jobs -> RiverJob]
             /\ AttemptsLeft'
             /\ \A i \in Jobs, l \in Attempts :
                  i # j \/ l # k => exec'[i][l] = exec[i][l]
             /\ \A i \in Jobs : i # j => river'[i] = river[i]
  BY <1>2, ExecMoves DEF Goto, AttemptsLeft
<1>3. {"none", "extract", "store", "fail", "lost"} \subseteq Stages
  BY DEF Stages
<1>4. "completed" \in RiverPhases
  BY DEF RiverPhases
<1>5. CASE \E s \in Stages : Goto(j, k, s)
  BY <1>2, <1>5
<1>6. CASE \E s \in Stages : Return(j, k, s)
  BY <1>1, <1>4, <1>6 DEF Return
<1>7. CASE ReturnError(j, k)
  BY <1>1, <1>3, <1>7, AfterFailureIsPhase DEF ReturnError
<1>8. \/ \E s \in Stages : Goto(j, k, s)
      \/ \E s \in Stages : Return(j, k, s)
      \/ ReturnError(j, k)
  BY <1>3 DEF AttemptStep, Begin, Extract, Store, Fail, DatabaseFails, Crash
<1> QED
  BY <1>5, <1>6, <1>7, <1>8

\* An attempt writes the row of its job only while that is active, and keeps
\* its version.
LEMMA RowMoves ==
  ASSUME TypeOK, NEW j \in Jobs, NEW k \in Attempts, AttemptStep(j, k)
  PROVE  /\ rows' \in [Jobs -> Row]
         /\ \A i \in Jobs : i # j => rows'[i] = rows[i]
         /\ rows'[j].version = rows[j].version
         /\ \/ rows' = rows
            \/ /\ RowActive(j)
               /\ rows'[j].status \in {"processing", "succeeded", "failed"}
<1>1. rows \in [Jobs -> Row] /\ rows[j] \in Row
  BY DEF TypeOK
<1>2. ASSUME NEW new \in Row, rows' = [rows EXCEPT ![j] = new],
             RowActive(j), new.version = rows[j].version,
             new.status \in {"processing", "succeeded", "failed"}
      PROVE  /\ rows' \in [Jobs -> Row]
             /\ \A i \in Jobs : i # j => rows'[i] = rows[i]
             /\ rows'[j].version = rows[j].version
             /\ rows'[j].status \in {"processing", "succeeded", "failed"}
  BY <1>1, <1>2
<1>3. CASE rows' = rows
  BY <1>1, <1>3
<1>4. CASE rows' = [rows EXCEPT ![j].status = "processing"] /\ Startable(j)
  <2> DEFINE new == [rows[j] EXCEPT !.status = "processing"]
  <2>1. new \in Row /\ new.version = rows[j].version /\ new.status = "processing"
    BY <1>1 DEF Row, RowStatuses
  <2>2. rows' = [rows EXCEPT ![j] = new] /\ RowActive(j)
    BY <1>4 DEF Startable
  <2> HIDE DEF new
  <2> QED
    BY <1>2, <2>1, <2>2
<1>5. CASE /\ Storable(j)
           /\ rows' = [rows EXCEPT ![j] =
                [status |-> "succeeded", version |-> rows[j].version, candidate |-> k]]
  <2> DEFINE new ==
        [status |-> "succeeded", version |-> rows[j].version, candidate |-> k]
  <2>1. new \in Row /\ new.version = rows[j].version /\ new.status = "succeeded"
    BY <1>1, DraftAssumption DEF Row, RowStatuses, Attempts
  <2>2. rows' = [rows EXCEPT ![j] = new] /\ RowActive(j)
    BY <1>5 DEF Storable, RowActive
  <2> HIDE DEF new
  <2> QED
    BY <1>2, <2>1, <2>2
<1>6. CASE rows' = [rows EXCEPT ![j].status = "failed"] /\ Storable(j)
  <2> DEFINE new == [rows[j] EXCEPT !.status = "failed"]
  <2>1. new \in Row /\ new.version = rows[j].version /\ new.status = "failed"
    BY <1>1 DEF Row, RowStatuses
  <2>2. rows' = [rows EXCEPT ![j] = new] /\ RowActive(j)
    BY <1>6 DEF Storable, RowActive
  <2> HIDE DEF new
  <2> QED
    BY <1>2, <2>1, <2>2
<1> QED
  BY <1>3, <1>4, <1>5, <1>6
     DEF AttemptStep, Begin, Extract, Store, Fail, DatabaseFails, Crash

\* An attempt keeps what is said of rows and results.
LEMMA AttemptKeepsResults ==
  ASSUME TypeOK, Results, NEW j \in Jobs, NEW k \in Attempts, AttemptStep(j, k)
  PROVE  Results'
<1> USE DEF Results
<1> DEFINE Begun == {"extract", "store", "fail"}
<1> DEFINE Known == {"processing", "succeeded", "failed", "gone"}
<1>1. /\ exec \in [Jobs -> [Attempts -> Stages]]
      /\ exec' \in [Jobs -> [Attempts -> Stages]]
      /\ AttemptsLeft'
      /\ \A i \in Jobs, l \in Attempts :
           i # j \/ l # k => exec'[i][l] = exec[i][l]
      /\ \A i \in Jobs : i # j => river'[i] = river[i]
  BY AttemptMoves DEF TypeOK
<1>2. /\ \A i \in Jobs : i # j => rows'[i] = rows[i]
      /\ \/ rows' = rows
         \/ RowActive(j) /\ rows'[j].status \in {"processing", "succeeded", "failed"}
  BY RowMoves
<1>3. exec[j][k] \in {"begin", "extract", "store", "fail"}
  BY DEF AttemptStep, Begin, Extract, Store, Fail, DatabaseFails, Crash
<1>4. exec[j][k] \in Begun => rows[j].status \in Known
  BY DEF BegunRows
<1>5. exec'[j][k] \in Begun => rows'[j].status \in Known
  <2>1. ASSUME NEW s, exec' = [exec EXCEPT ![j][k] = s]
        PROVE  exec'[j][k] = s
    BY <1>1, <2>1
  <2>2. ASSUME NEW s, Goto(j, k, s) PROVE exec'[j][k] = s
    BY <2>1, <2>2 DEF Goto
  <2>3. ASSUME NEW s, Return(j, k, s) PROVE exec'[j][k] = s
    BY <2>1, <2>3 DEF Return
  <2>4. ASSUME ReturnError(j, k) PROVE exec'[j][k] = "none"
    BY <2>1, <2>4 DEF ReturnError
  <2>5. CASE Begin(j, k)
    <3>1. CASE Return(j, k, "none")
      BY <2>3, <3>1
    <3>2. CASE rows' = [rows EXCEPT ![j].status = "processing"]
      BY <3>2 DEF TypeOK, Row
    <3> QED
      BY <2>5, <3>1, <3>2 DEF Begin
  <2>6. CASE Extract(j, k)
    BY <1>4, <2>6 DEF Extract
  <2>7. CASE Store(j, k)
    BY <2>3, <2>7 DEF Store
  <2>8. CASE Fail(j, k)
    BY <2>3, <2>8 DEF Fail
  <2>9. CASE DatabaseFails(j, k) \/ Crash(j, k)
    BY <2>2, <2>4, <2>9 DEF DatabaseFails, Crash
  <2> QED
    BY <2>5, <2>6, <2>7, <2>8, <2>9 DEF AttemptStep
<1>6. BegunRows'
  <2> SUFFICES ASSUME NEW i \in Jobs, NEW l \in Attempts, exec'[i][l] \in Begun
               PROVE  rows'[i].status \in Known
    BY DEF BegunRows
  <2>1. CASE i = j /\ l = k
    BY <1>5, <2>1
  <2>2. CASE i # j \/ l # k
    <3>1. rows[i].status \in Known
      BY <1>1, <2>2 DEF BegunRows
    <3> QED
      BY <1>2, <3>1
  <2> QED
    BY <2>1, <2>2
<1>7. RowActive(j)' => RowActive(j)
  BY <1>2 DEF RowActive
<1>8. ASSUME river'[j].phase = "completed", RowActive(j)'
      PROVE  \E l \in Attempts : exec'[j][l] = "lost"
  <2>1. CASE river'[j] = river[j]
    <3>1. PICK l \in Attempts : exec[j][l] = "lost"
      BY <1>7, <1>8, <2>1 DEF CompletedHasResult
    <3>2. l # k
      BY <1>3, <3>1
    <3> QED
      BY <1>1, <3>1, <3>2
  <2>2. CASE ReturnError(j, k)
    <3>1. river' = river \/ river'[j].phase = AfterFailure(k)
      BY <2>2, ReportMoves, AfterFailureIsPhase DEF ReturnError, Report, TypeOK
    <3> QED
      BY <1>8, <2>1, <3>1, AfterFailureIsPhase
  <2>3. CASE Return(j, k, "lost")
    <3>1. exec'[j][k] = "lost"
      BY <1>1, <2>3 DEF Return
    <3> QED
      BY <3>1
  <2>4. CASE Begin(j, k) /\ Return(j, k, "none")
    <3>1. exec'[j][k] = "none"
      BY <1>1, <2>4 DEF Return
    <3>2. ~Goto(j, k, "extract")
      BY <1>1, <3>1 DEF Goto
    <3> QED
      BY <1>7, <1>8, <2>4, <3>2 DEF Begin, Startable
  <2>5. CASE Store(j, k)
    <3>1. rows[j].status \in Known
      BY <1>4, <2>5 DEF Store
    <3>2. CASE ~Storable(j)
      BY <1>8, <2>5, <3>1, <3>2 DEF Store, Storable, RowActive
    <3>3. CASE Storable(j)
      <4>1. rows'[j].status = "succeeded"
        BY <2>5, <3>3 DEF Store, TypeOK
      <4> QED
        BY <1>8, <4>1 DEF RowActive
    <3> QED
      BY <3>2, <3>3
  <2>6. CASE Fail(j, k) /\ ~Return(j, k, "lost")
    <3>1. rows[j].status \in Known
      BY <1>4, <2>6 DEF Fail
    <3>2. CASE ~Storable(j)
      BY <1>8, <2>6, <3>1, <3>2 DEF Fail, Storable, RowActive
    <3>3. CASE rows' = [rows EXCEPT ![j].status = "failed"]
      <4>1. rows'[j].status = "failed"
        BY <3>3 DEF TypeOK, Row
      <4> QED
        BY <1>8, <4>1 DEF RowActive
    <3> QED
      BY <2>6, <3>2, <3>3 DEF Fail
  <2>7. \/ UNCHANGED river \/ ReturnError(j, k) \/ Return(j, k, "lost")
        \/ Begin(j, k) /\ Return(j, k, "none")
        \/ Store(j, k)
        \/ Fail(j, k) /\ ~Return(j, k, "lost")
    BY DEF AttemptStep, Begin, Extract, Fail, DatabaseFails, Crash, Goto
  <2> QED
    BY <2>1, <2>2, <2>3, <2>4, <2>5, <2>6, <2>7
<1>9. CompletedHasResult'
  <2> SUFFICES ASSUME NEW i \in Jobs, river'[i].phase = "completed", RowActive(i)'
               PROVE  \E l \in Attempts : exec'[i][l] = "lost"
    BY DEF CompletedHasResult
  <2>1. CASE i = j
    BY <1>8, <2>1
  <2>2. CASE i # j
    BY <1>1, <1>2, <2>2 DEF CompletedHasResult, RowActive
  <2> QED
    BY <2>1, <2>2
<1> QED
  BY <1>1, <1>6, <1>9

\* A step that touches neither the bill nor the requests, and neither adds nor
\* removes a row, keeps what is said of the contents.
LEMMA ContentsStay ==
  ASSUME TypeOK, Contents, UNCHANGED <<bill, clients, edited>>,
         \A i \in Jobs : /\ rows'[i].version = rows[i].version
                         /\ rows'[i].status = "none" <=> rows[i].status = "none"
  PROVE  Contents'
<1>1. Requested' = Requested /\ Requested \subseteq Jobs
  BY DEF Requested
<1>2. BillOpen' = BillOpen
  BY DEF BillOpen
<1> QED
  BY <1>1, <1>2 DEF Contents, NothingBefore, ReadsAreOld, JobsAreOld,
     ReviewedAddsUp, ReviewsAreTrue, EditedRequested, CandidatesAreTrue,
     AppliesAreTrue, PassesWithItems, PassesWithout

\* The steps of attempts, and of River, preserve the invariant.
LEMMA AttemptKeepsInv ==
  ASSUME Inv, NEW j \in Jobs, NEW k \in Attempts, AttemptStep(j, k)
  PROVE  Inv'
<1> USE DEF Inv
<1>1. UNCHANGED <<bill, clients, edited>>
  BY DEF AttemptStep, Begin, Extract, Store, Fail, DatabaseFails, Crash
<1>2. AttemptsLeft
  BY DEF Results
<1>3. /\ rows' \in [Jobs -> Row]
      /\ \A i \in Jobs : i # j => rows'[i] = rows[i]
      /\ rows'[j].version = rows[j].version
      /\ \/ rows' = rows
         \/ /\ RowActive(j)
            /\ rows'[j].status \in {"processing", "succeeded", "failed"}
  BY RowMoves
<1>4. TypeOK'
  <2>1. exec' \in [Jobs -> [Attempts -> Stages]] /\ river' \in [Jobs -> RiverJob]
    BY <1>2, AttemptMoves
  <2> QED
    BY <1>1, <1>3, <2>1 DEF TypeOK
<1>5. Results'
  BY AttemptKeepsResults
<1>6. Contents'
  BY <1>1, <1>3, ContentsStay DEF RowActive
<1> QED
  BY <1>4, <1>5, <1>6

LEMMA FetchKeepsInv ==
  ASSUME Inv, NEW j \in Jobs, Fetch(j)
  PROVE  Inv'
<1> USE DEF Inv
<1> DEFINE k == river[j].attempt + 1
<1> DEFINE new == [phase |-> "running", attempt |-> k]
<1>1. river \in [Jobs -> RiverJob] /\ river[j] \in RiverJob
  BY DEF TypeOK
<1>2. k \in Attempts
  BY <1>1, DraftAssumption DEF Results, AttemptsLeft, Fetch, Attempts, RiverJob
<1>3. /\ river' = [river EXCEPT ![j] = new]
      /\ exec' = [exec EXCEPT ![j][k] = "begin"]
      /\ UNCHANGED <<bill, rows, clients, edited>>
  BY DEF Fetch
<1>4. new \in RiverJob /\ new.phase = "running"
  BY <1>2, DraftAssumption DEF RiverJob, RiverPhases, Attempts
<1>5. "begin" \in Stages
  BY DEF Stages
<1> HIDE DEF k, new
<1>6. /\ exec' \in [Jobs -> [Attempts -> Stages]]
      /\ \A i \in Jobs, l \in Attempts :
           exec'[i][l] = IF i = j /\ l = k THEN "begin" ELSE exec[i][l]
  <2>1. exec' = [exec EXCEPT ![j][k] = "begin"]
    BY <1>3
  <2> QED
    BY <1>2, <1>5, <2>1, ExecMoves
<1>7. \A i \in Jobs : river'[i] = IF i = j THEN new ELSE river[i]
  BY <1>1, <1>3
<1>8. TypeOK'
  BY <1>1, <1>3, <1>4, <1>6 DEF TypeOK
<1>9. Results'
  <2>1. AttemptsLeft'
    BY <1>4, <1>7 DEF Results, AttemptsLeft
  <2>2. BegunRows'
    BY <1>3, <1>6 DEF Results, BegunRows
  <2>3. CompletedHasResult'
    <3> SUFFICES ASSUME NEW i \in Jobs, river'[i].phase = "completed", RowActive(i)'
                 PROVE  \E l \in Attempts : exec'[i][l] = "lost"
      BY DEF CompletedHasResult
    <3>1. i # j /\ river[i].phase = "completed" /\ RowActive(i)
      BY <1>3, <1>4, <1>7 DEF RowActive
    <3>2. PICK l \in Attempts : exec[i][l] = "lost"
      BY <3>1 DEF Results, CompletedHasResult
    <3> QED
      BY <1>6, <3>1, <3>2
  <2> QED
    BY <2>1, <2>2, <2>3 DEF Results
<1>10. Contents'
  BY <1>3, ContentsStay
<1> QED
  BY <1>8, <1>9, <1>10

LEMMA RescueKeepsInv ==
  ASSUME Inv, NEW j \in Jobs, Rescue(j)
  PROVE  Inv'
<1> USE DEF Inv
<1> DEFINE k == river[j].attempt
<1> DEFINE new == [river[j] EXCEPT !.phase = AfterFailure(k)]
<1>1. river \in [Jobs -> RiverJob] /\ river[j] \in RiverJob
  BY DEF TypeOK
<1>2. AfterFailure(k) \in {"available", "discarded"}
      /\ (AfterFailure(k) = "available" => k < MaxAttempts)
  BY DEF AfterFailure
<1>3. river' = [river EXCEPT ![j] = new] /\ UNCHANGED <<bill, rows, exec, clients, edited>>
  BY DEF Rescue
<1>4. new \in RiverJob /\ new.phase = AfterFailure(k) /\ new.attempt = k
  BY <1>1, <1>2 DEF RiverJob, RiverPhases
<1> HIDE DEF k, new
<1>5. \A i \in Jobs : river'[i] = IF i = j THEN new ELSE river[i]
  BY <1>1, <1>3
<1>6. TypeOK'
  BY <1>1, <1>3, <1>4 DEF TypeOK
<1>7. Results'
  <2>1. AttemptsLeft'
    BY <1>2, <1>4, <1>5 DEF Results, AttemptsLeft
  <2>2. BegunRows' /\ CompletedHasResult'
    BY <1>2, <1>3, <1>4, <1>5
       DEF Results, BegunRows, CompletedHasResult, RowActive
  <2> QED
    BY <2>1, <2>2 DEF Results
<1>8. Contents'
  BY <1>3, ContentsStay
<1> QED
  BY <1>6, <1>7, <1>8

-----------------------------------------------------------------------------
(* The bill and its requests. *)

\* A new row is requested, queued, and of the version that is given.
LEMMA JobInserted ==
  ASSUME TypeOK, Results, NEW j \in Jobs, NEW v \in Nat, InsertJob(j, v),
         UNCHANGED exec
  PROVE  /\ rows' \in [Jobs -> Row]
         /\ river' \in [Jobs -> RiverJob]
         /\ Results'
         /\ j \notin Requested
         /\ Requested' = Requested \cup {j}
         /\ \A i \in Jobs : i # j => rows'[i] = rows[i]
         /\ rows'[j].version = v
<1> USE DEF TypeOK
<1> DEFINE row == [status |-> "queued", version |-> v, candidate |-> 0]
<1> DEFINE job == [phase |-> "available", attempt |-> 0]
<1>1. row \in Row /\ row.status = "queued" /\ row.version = v
  BY DraftAssumption DEF Row, RowStatuses
<1>2. job \in RiverJob /\ job.phase = "available" /\ job.attempt < MaxAttempts
  BY DraftAssumption DEF RiverJob, RiverPhases
<1>3. /\ rows[j].status = "none"
      /\ rows' = [rows EXCEPT ![j] = row]
      /\ river' = [river EXCEPT ![j] = job]
  BY DEF InsertJob
<1> HIDE DEF row, job
<1>4. \A i \in Jobs : rows'[i] = IF i = j THEN row ELSE rows[i]
  BY <1>3
<1>5. \A i \in Jobs : river'[i] = IF i = j THEN job ELSE river[i]
  BY <1>3
<1>6. rows' \in [Jobs -> Row] /\ river' \in [Jobs -> RiverJob]
  BY <1>1, <1>2, <1>3
<1>7. j \notin Requested /\ Requested' = Requested \cup {j}
  BY <1>1, <1>3, <1>4 DEF Requested
<1>8. Results'
  <2>1. AttemptsLeft'
    BY <1>2, <1>5 DEF Results, AttemptsLeft
  <2>2. BegunRows'
    BY <1>3, <1>4 DEF Results, BegunRows
  <2>3. CompletedHasResult'
    BY <1>2, <1>4, <1>5 DEF Results, CompletedHasResult, RowActive
  <2> QED
    BY <2>1, <2>2, <2>3 DEF Results
<1> QED
  BY <1>1, <1>4, <1>6, <1>7, <1>8

LEMMA CreateKeepsInv ==
  ASSUME Inv, NEW j \in Jobs, CreateBill(j)
  PROVE  Inv'
<1> USE DEF Inv
<1>1. /\ bill.status = "none" /\ InsertJob(j, 1)
      /\ UNCHANGED <<exec, clients, edited>>
  BY DEF CreateBill
<1>2. PICK b \in BillContent :
        bill' = [status |-> "draft", version |-> 1, contents |-> b, unread |-> FALSE]
  BY DEF CreateBill
<1>3. bill' \in Bill /\ bill'.status = "draft" /\ bill'.version = 1
  BY <1>2 DEF Bill, BillStatuses
<1>4. /\ rows' \in [Jobs -> Row]
      /\ river' \in [Jobs -> RiverJob]
      /\ Results'
      /\ Requested' = Requested \cup {j}
      /\ \A i \in Jobs : i # j => rows'[i] = rows[i]
      /\ rows'[j].version = 1
  BY <1>1, JobInserted
<1>5. TypeOK'
  BY <1>1, <1>3, <1>4 DEF TypeOK
<1>6. /\ bill.version = 0 /\ Requested = {}
      /\ \A c \in Clients : clients[c] = Idle
      /\ edited = {}
  BY <1>1 DEF Contents, NothingBefore, EditedRequested
<1>7. Contents'
  <2>1. \A c \in Clients : clients'[c].op = "idle" /\ clients'[c].version = 0
    BY <1>1, <1>6 DEF Idle
  <2>2. NothingBefore' /\ ReviewedAddsUp'
    BY <1>3 DEF NothingBefore, ReviewedAddsUp
  <2>3. ReadsAreOld'
    BY <1>3, <2>1 DEF ReadsAreOld
  <2>4. JobsAreOld'
    <3>1. \A i \in Jobs : rows[i].version <= 0
      BY <1>1, <1>6 DEF Contents, JobsAreOld
    <3>2. \A i \in Jobs : rows[i].version \in Nat
      BY DEF TypeOK, Row
    <3> QED
      BY <1>3, <1>4, <3>1, <3>2 DEF JobsAreOld
  <2>5. ReviewsAreTrue' /\ AppliesAreTrue'
    BY <2>1 DEF ReviewsAreTrue, AppliesAreTrue
  <2>6. EditedRequested' /\ CandidatesAreTrue'
    BY <1>1, <1>6 DEF EditedRequested, CandidatesAreTrue
  <2> QED
    BY <2>2, <2>3, <2>4, <2>5, <2>6 DEF Contents
<1> QED
  BY <1>4, <1>5, <1>7

\* A request that remembers something that is true keeps the invariant.
LEMMA ClientMoves ==
  ASSUME Inv, NEW c \in Clients,
         clients' \in [Clients -> Client],
         \A d \in Clients : d # c => clients'[d] = clients[d],
         UNCHANGED <<bill, rows, river, exec, edited>>,
         bill.status = "none" => clients'[c] = Idle,
         bill.status # "deleted" => clients'[c].version <= bill.version,
         bill.status = "draft" /\ clients'[c].version = bill.version
         => /\ clients'[c].op = "review" => PassesWithItems
            /\ clients'[c].op = "blind" => PassesWithout,
         BillOpen /\ clients'[c].op = "apply" /\ clients'[c].version = bill.version
         => clients'[c].job \notin edited
  PROVE  Inv'
<1> USE DEF Inv
<1>3. TypeOK'
  BY DEF TypeOK
<1>4. Results'
  BY DEF Results, AttemptsLeft, BegunRows, CompletedHasResult, RowActive
<1>5. Requested' = Requested /\ BillOpen' = BillOpen
  BY DEF Requested, BillOpen
<1>6. Contents'
  <2>1. NothingBefore' /\ ReadsAreOld'
    BY <1>5 DEF Contents, NothingBefore, ReadsAreOld
  <2>2. JobsAreOld' /\ ReviewedAddsUp' /\ EditedRequested' /\ CandidatesAreTrue'
    BY <1>5 DEF Contents, JobsAreOld, ReviewedAddsUp, EditedRequested,
       CandidatesAreTrue
  <2>3. ReviewsAreTrue'
    BY DEF Contents, ReviewsAreTrue, PassesWithItems, PassesWithout
  <2>4. AppliesAreTrue'
    BY <1>5 DEF Contents, AppliesAreTrue
  <2> QED
    BY <2>1, <2>2, <2>3, <2>4 DEF Contents
<1> QED
  BY <1>3, <1>4, <1>6

\* One request is replaced by x.
LEMMA ClientReplaced ==
  ASSUME TypeOK, NEW c \in Clients, NEW x \in Client,
         clients' = [clients EXCEPT ![c] = x]
  PROVE  /\ clients' \in [Clients -> Client]
         /\ clients'[c] = x
         /\ \A d \in Clients : d # c => clients'[d] = clients[d]
BY DEF TypeOK

\* The requests read, or end.
LEMMA ReadsKeepInv ==
  ASSUME Inv, NEW c \in Clients,
         \/ Abandon(c) \/ RetryOCRRead(c) \/ ReviewReadRow(c)
         \/ ReviewReadItems(c) \/ \E j \in Jobs : ApplyCandidateRead(c, j)
  PROVE  Inv'
<1>1. /\ bill \in Bill /\ bill.version \in Nat
      /\ clients[c] \in Client /\ clients[c].version \in Nat
  BY DEF Inv, TypeOK, Bill, Client
<1>2. CASE Abandon(c)
  <2>1. Idle \in Client /\ Idle.op = "idle" /\ Idle.version = 0
    BY DEF Idle, Client, Ops
  <2>2. /\ clients' \in [Clients -> Client] /\ clients'[c] = Idle
        /\ \A d \in Clients : d # c => clients'[d] = clients[d]
    BY <1>2, <2>1, ClientReplaced DEF Inv, Abandon, Forget
  <2>3. UNCHANGED <<bill, rows, river, exec, edited>>
    BY <1>2 DEF Abandon
  <2> QED
    BY <1>1, <2>1, <2>2, <2>3, ClientMoves
<1>3. CASE RetryOCRRead(c)
  <2> DEFINE x == [op |-> "retry", version |-> bill.version, job |-> NoJob]
  <2>1. x \in Client /\ x.op = "retry" /\ x.version = bill.version
    BY <1>1 DEF Client, Ops
  <2>2. /\ clients' = [clients EXCEPT ![c] = x]
        /\ UNCHANGED <<bill, rows, river, exec, edited>>
        /\ bill.status # "none"
    BY <1>3 DEF RetryOCRRead, Remember, BillOpen
  <2> HIDE DEF x
  <2>9. /\ clients' \in [Clients -> Client] /\ clients'[c] = x
        /\ \A d \in Clients : d # c => clients'[d] = clients[d]
    BY <2>1, <2>2, ClientReplaced DEF Inv
  <2> QED
    BY <1>1, <2>1, <2>2, <2>9, ClientMoves
<1>4. CASE ReviewReadRow(c)
  <2> DEFINE x == [op |-> "read", version |-> bill.version, job |-> NoJob]
  <2>1. x \in Client /\ x.op = "read" /\ x.version = bill.version
    BY <1>1 DEF Client, Ops
  <2>2. /\ clients' = [clients EXCEPT ![c] = x]
        /\ UNCHANGED <<bill, rows, river, exec, edited>>
        /\ bill.status # "none"
    BY <1>4 DEF ReviewReadRow, Remember
  <2> HIDE DEF x
  <2>9. /\ clients' \in [Clients -> Client] /\ clients'[c] = x
        /\ \A d \in Clients : d # c => clients'[d] = clients[d]
    BY <2>1, <2>2, ClientReplaced DEF Inv
  <2> QED
    BY <1>1, <2>1, <2>2, <2>9, ClientMoves
<1>5. CASE ReviewReadItems(c)
  <2>1. PICK op \in {"review", "blind"} :
          /\ op = "review" => PassesWithItems
          /\ op = "blind" => PassesWithout
          /\ Remember(c, op, clients[c].version, NoJob)
    BY <1>5 DEF ReviewReadItems
  <2> DEFINE x == [op |-> op, version |-> clients[c].version, job |-> NoJob]
  <2>10. x \in Client /\ x.op = op /\ x.version = clients[c].version
    BY <1>1 DEF Client, Ops
  <2>2. /\ clients' = [clients EXCEPT ![c] = x]
        /\ UNCHANGED <<bill, rows, river, exec, edited>>
        /\ clients[c].op = "read"
    BY <1>5, <2>1 DEF ReviewReadItems, Remember, Pending
  <2>3. bill.status # "none"
    BY <2>2 DEF Inv, Contents, NothingBefore, Idle
  <2>4. bill.status # "deleted" => clients[c].version <= bill.version
    BY DEF Inv, Contents, ReadsAreOld
  <2> HIDE DEF x
  <2>9. /\ clients' \in [Clients -> Client] /\ clients'[c] = x
        /\ \A d \in Clients : d # c => clients'[d] = clients[d]
    BY <2>10, <2>2, ClientReplaced DEF Inv
  <2> QED
    BY <1>1, <2>1, <2>10, <2>2, <2>3, <2>4, <2>9, ClientMoves
<1>6. ASSUME NEW j \in Jobs, ApplyCandidateRead(c, j)
      PROVE  Inv'
  <2> DEFINE x == [op |-> "apply", version |-> bill.version, job |-> j]
  <2>1. /\ x \in Client /\ x.op = "apply" /\ x.version = bill.version
        /\ x.job = j
    BY <1>1 DEF Client, Ops
  <2>2. /\ clients' = [clients EXCEPT ![c] = x]
        /\ UNCHANGED <<bill, rows, river, exec, edited>>
        /\ BillOpen /\ rows[j].status = "succeeded" /\ Fresh(j)
    BY <1>6 DEF ApplyCandidateRead, Remember
  <2>3. j \notin edited
    BY <2>2 DEF Inv, Contents, CandidatesAreTrue, Requested, Fresh
  <2> HIDE DEF x
  <2>9. /\ clients' \in [Clients -> Client] /\ clients'[c] = x
        /\ \A d \in Clients : d # c => clients'[d] = clients[d]
    BY <2>1, <2>2, ClientReplaced DEF Inv
  <2> QED
    BY <1>1, <2>1, <2>2, <2>3, <2>9, ClientMoves DEF BillOpen
<1> QED
  BY <1>2, <1>3, <1>4, <1>5, <1>6

\* RetryOCR inserts a job for the version it has read.
LEMMA RetryKeepsInv ==
  ASSUME Inv, NEW c \in Clients, NEW j \in Jobs, RetryOCRCommit(c, j)
  PROVE  Inv'
<1> DEFINE v == clients[c].version
<1>1. /\ clients[c] # Idle /\ bill.status # "deleted"
      /\ InsertJob(j, v) /\ clients' = [clients EXCEPT ![c] = Idle]
      /\ UNCHANGED <<bill, exec, edited>>
  BY DEF RetryOCRCommit, Pending, Idle, Forget
<1>2. TypeOK /\ Results /\ Contents
  BY DEF Inv
<1>3. v \in Nat /\ bill.version \in Nat /\ v <= bill.version
  BY <1>1, <1>2 DEF TypeOK, Client, Bill, Contents, ReadsAreOld
<1> HIDE DEF v
<1>4. /\ rows' \in [Jobs -> Row]
      /\ river' \in [Jobs -> RiverJob]
      /\ Results'
      /\ j \notin Requested
      /\ Requested' = Requested \cup {j}
      /\ \A i \in Jobs : i # j => rows'[i] = rows[i]
      /\ rows'[j].version = v
  BY <1>1, <1>2, <1>3, JobInserted
<1>5. Idle \in Client /\ Idle.op = "idle" /\ Idle.version = 0
  BY DEF Idle, Client, Ops
<1>6. /\ clients' \in [Clients -> Client] /\ clients'[c] = Idle
      /\ \A d \in Clients : d # c => clients'[d] = clients[d]
  BY <1>1, <1>2, <1>5, ClientReplaced
<1>7. TypeOK'
  BY <1>1, <1>2, <1>4, <1>6 DEF TypeOK
<1>8. bill.status # "none"
  BY <1>1, <1>2 DEF Contents, NothingBefore
<1>9. Contents'
  <2>1. NothingBefore' /\ ReviewedAddsUp'
    BY <1>1, <1>2, <1>8 DEF Contents, NothingBefore, ReviewedAddsUp
  <2>2. ReadsAreOld'
    BY <1>1, <1>2, <1>3, <1>5, <1>6 DEF Contents, ReadsAreOld
  <2>3. JobsAreOld'
    BY <1>1, <1>2, <1>3, <1>4 DEF Contents, JobsAreOld
  <2>4. ReviewsAreTrue' /\ AppliesAreTrue'
    BY <1>1, <1>2, <1>5, <1>6 DEF Contents, ReviewsAreTrue, AppliesAreTrue, BillOpen,
       PassesWithItems, PassesWithout
  <2>5. EditedRequested'
    BY <1>1, <1>2, <1>4 DEF Contents, EditedRequested
  <2>6. CandidatesAreTrue'
    <3>1. j \notin edited /\ Requested \subseteq Jobs
      BY <1>2, <1>4 DEF Contents, EditedRequested, Requested
    <3>2. BillOpen' = BillOpen
      BY <1>1 DEF BillOpen
    <3> QED
      BY <1>1, <1>2, <1>4, <3>1, <3>2 DEF Contents, CandidatesAreTrue
  <2> QED
    BY <2>1, <2>2, <2>3, <2>4, <2>5, <2>6 DEF Contents
<1> QED
  BY <1>4, <1>7, <1>9 DEF Inv

\* A step of the bill makes every read, and every job, older than the bill.
LEMMA BillMoves ==
  ASSUME Inv,
         bill.status \in {"draft", "reviewed"},
         bill' \in Bill,
         bill'.status \in {"draft", "reviewed", "finalized"},
         bill'.version = bill.version + 1,
         ReviewedAddsUp',
         edited' \in {edited, Requested},
         clients' \in [Clients -> Client],
         \A c \in Clients : clients'[c] \in {clients[c], Idle},
         UNCHANGED <<rows, river, exec>>
  PROVE  Inv'
<1>1. TypeOK /\ Results /\ Contents
  BY DEF Inv
<1>2. /\ bill.version \in Nat
      /\ \A j \in Jobs : rows[j].version \in Nat
      /\ \A c \in Clients : clients[c].version \in Nat
  BY <1>1 DEF TypeOK, Bill, Row, Client
<1>3. Requested' = Requested /\ Requested \subseteq Jobs
  BY DEF Requested
<1>4. TypeOK'
  BY <1>1, <1>3 DEF TypeOK, Contents, EditedRequested
<1>5. Results'
  BY <1>1 DEF Results, AttemptsLeft, BegunRows, CompletedHasResult, RowActive
<1>6. \A c \in Clients : clients'[c].version < bill'.version
  BY <1>1, <1>2 DEF Contents, ReadsAreOld, Idle
<1>7. \A j \in Jobs : rows'[j].version < bill'.version
  BY <1>1, <1>2 DEF Contents, JobsAreOld
<1>8. bill'.version \in Nat
  BY <1>2
<1>9. Contents'
  <2>1. NothingBefore' /\ ReviewedAddsUp'
    BY DEF NothingBefore
  <2>2. ReadsAreOld' /\ ReviewsAreTrue' /\ AppliesAreTrue'
    <3>1. \A c \in Clients : clients'[c].version \in Nat
      BY DEF Client
    <3> QED
      BY <1>6, <1>8, <3>1 DEF ReadsAreOld, ReviewsAreTrue, AppliesAreTrue
  <2>3. JobsAreOld' /\ CandidatesAreTrue'
    BY <1>2, <1>3, <1>7, <1>8 DEF JobsAreOld, CandidatesAreTrue
  <2>4. EditedRequested'
    BY <1>1, <1>3 DEF Contents, EditedRequested
  <2> QED
    BY <2>1, <2>2, <2>3, <2>4 DEF Contents
<1> QED
  BY <1>4, <1>5, <1>9 DEF Inv

\* Contents are written, a review or a finalization is committed.
LEMMA BillKeepsInv ==
  ASSUME Inv,
         \/ UpdateDraftBill \/ FinalizeBill
         \/ \E c \in Clients : ReviewCommit(c) \/ ApplyCandidateCommit(c)
  PROVE  Inv'
<1>1. /\ bill \in Bill /\ bill.version \in Nat /\ bill.unread \in BOOLEAN
      /\ clients \in [Clients -> Client]
  BY DEF Inv, TypeOK, Bill
<1>2. Idle \in Client
  BY DEF Idle, Client, Ops
<1>3. ASSUME WriteContents
      PROVE  /\ bill.status \in {"draft", "reviewed"}
             /\ bill' \in Bill /\ bill'.status = "draft"
             /\ bill'.version = bill.version + 1
             /\ edited' \in {edited, Requested}
             /\ ReviewedAddsUp'
  BY <1>1, <1>3 DEF WriteContents, BillOpen, Bill, BillStatuses, ReviewedAddsUp
<1>4. ASSUME NEW s \in {"reviewed", "finalized"}, NEW u \in BOOLEAN,
             bill' = Moved(s, u)
      PROVE  /\ bill' \in Bill /\ bill'.status = s
             /\ bill'.version = bill.version + 1
             /\ bill'.contents = bill.contents /\ bill'.unread = u
  BY <1>1, <1>4 DEF Moved, Bill, BillStatuses
<1>5. CASE UpdateDraftBill
  <2>1. WriteContents /\ UNCHANGED <<rows, river, exec, clients>>
    BY <1>5 DEF UpdateDraftBill
  <2> QED
    BY <1>1, <1>3, <2>1, BillMoves
<1>6. CASE FinalizeBill
  <2>1. /\ bill.status = "reviewed" /\ bill' = Moved("finalized", bill.unread)
        /\ UNCHANGED <<rows, river, exec, clients, edited>>
    BY <1>6 DEF FinalizeBill
  <2>2. ReviewedAddsUp'
    BY <1>1, <1>4, <2>1 DEF Inv, Contents, ReviewedAddsUp
  <2> QED
    BY <1>1, <1>4, <2>1, <2>2, BillMoves
<1>7. ASSUME NEW c \in Clients, ReviewCommit(c)
      PROVE  Inv'
  <2> DEFINE u == Pending(c, "blind")
  <2>1. /\ bill.status = "draft" /\ bill' = Moved("reviewed", u)
        /\ clients' = [clients EXCEPT ![c] = Idle]
        /\ UNCHANGED <<rows, river, exec, edited>>
    BY <1>7 DEF ReviewCommit, Forget
  <2>4. u \in BOOLEAN
    BY DEF Pending
  <2>5. /\ u => PassesWithout
        /\ ~u => PassesWithItems
    BY <1>7 DEF ReviewCommit, Pending, SameVersion, Inv, Contents, ReviewsAreTrue
  <2> HIDE DEF u
  <2>2. ReviewedAddsUp'
    BY <1>4, <2>1, <2>4, <2>5 DEF ReviewedAddsUp, PassesWithout, PassesWithItems
  <2>3. /\ clients' \in [Clients -> Client]
        /\ \A d \in Clients : clients'[d] \in {clients[d], Idle}
    BY <1>1, <1>2, <2>1
  <2> QED
    BY <1>4, <2>1, <2>2, <2>3, <2>4, BillMoves
<1>8. ASSUME NEW c \in Clients, ApplyCandidateCommit(c)
      PROVE  Inv'
  <2>1. /\ WriteContents /\ clients' = [clients EXCEPT ![c] = Idle]
        /\ UNCHANGED <<rows, river, exec>>
    BY <1>8 DEF ApplyCandidateCommit, Forget
  <2>2. /\ clients' \in [Clients -> Client]
        /\ \A d \in Clients : clients'[d] \in {clients[d], Idle}
    BY <1>1, <1>2, <2>1
  <2> QED
    BY <1>3, <2>1, <2>2, BillMoves
<1> QED
  BY <1>5, <1>6, <1>7, <1>8

\* A deleted bill takes its rows with it.
LEMMA DeleteKeepsInv ==
  ASSUME Inv, DeleteDraftBill
  PROVE  Inv'
<1>1. TypeOK /\ Results /\ Contents
  BY DEF Inv
<1>2. /\ bill' = [status |-> "deleted", version |-> 0, contents |-> "off",
                unread |-> FALSE]
      /\ UNCHANGED <<river, exec, clients, edited>>
  BY DEF DeleteDraftBill
<1>3. \A j \in Jobs : rows[j] \in Row
  BY <1>1 DEF TypeOK
<1>4. \A j \in Jobs :
        rows'[j] = IF rows[j].status = "none" THEN rows[j]
                   ELSE [rows[j] EXCEPT !.status = "gone"]
  BY DEF DeleteDraftBill
<1>5. \A j \in Jobs :
        /\ rows'[j] \in Row
        /\ rows'[j].status = IF rows[j].status = "none" THEN "none" ELSE "gone"
  BY <1>3, <1>4 DEF Row, RowStatuses
<1>6. rows' \in [Jobs -> Row]
  <2>1. rows' = [j \in Jobs |-> rows'[j]]
    BY DEF DeleteDraftBill
  <2> QED
    BY <1>5, <2>1
<1>7. TypeOK'
  BY <1>1, <1>2, <1>6 DEF TypeOK, Bill, BillContent, BillStatuses
<1>8. Results'
  BY <1>1, <1>2, <1>5 DEF Results, AttemptsLeft, BegunRows, CompletedHasResult, RowActive
<1>9. Requested' = Requested
  BY <1>5 DEF Requested
<1>10. Contents'
  BY <1>1, <1>2, <1>9 DEF Contents, NothingBefore, ReadsAreOld, JobsAreOld,
     ReviewedAddsUp, ReviewsAreTrue, EditedRequested, CandidatesAreTrue,
     AppliesAreTrue, BillOpen
<1> QED
  BY <1>7, <1>8, <1>10 DEF Inv

-----------------------------------------------------------------------------
(* The theorems. *)

\* Every step preserves the invariant.
LEMMA NextKeepsInv == Inv /\ [Next]_vars => Inv'
<1> SUFFICES ASSUME Inv, [Next]_vars PROVE Inv'
  OBVIOUS
<1>1. CASE UNCHANGED vars
  BY <1>1 DEF vars, Inv, TypeOK, Results, AttemptsLeft, BegunRows,
     CompletedHasResult, RowActive, Contents, NothingBefore, ReadsAreOld,
     JobsAreOld, ReviewedAddsUp, ReviewsAreTrue, EditedRequested,
     CandidatesAreTrue, AppliesAreTrue, BillOpen, Requested, PassesWithItems,
     PassesWithout
<1>2. ASSUME NEW j \in Jobs, CreateBill(j) \/ Fetch(j) \/ Rescue(j)
      PROVE  Inv'
  BY <1>2, CreateKeepsInv, FetchKeepsInv, RescueKeepsInv
<1>3. ASSUME NEW j \in Jobs, NEW k \in Attempts, AttemptStep(j, k)
      PROVE  Inv'
  BY <1>3, AttemptKeepsInv
<1>4. ASSUME NEW c \in Clients, NEW j \in Jobs, RetryOCRCommit(c, j)
      PROVE  Inv'
  BY <1>4, RetryKeepsInv
<1>5. CASE JobStep
  BY <1>2, <1>3, <1>5 DEF JobStep, AttemptStep
<1>6. CASE ClientStep
  BY <1>4, <1>6, ReadsKeepInv, BillKeepsInv DEF ClientStep
<1>7. CASE UpdateDraftBill \/ FinalizeBill \/ DeleteDraftBill
  BY <1>7, BillKeepsInv, DeleteKeepsInv
<1> QED
  BY <1>1, <1>5, <1>6, <1>7 DEF Next

\* The invariant holds in every reachable state.
LEMMA Invariance == Spec => []Inv
BY InitInv, NextKeepsInv, PTL DEF Spec

\* Every reachable state has the declared types; no job starts more often than
\* MaxAttempts times.
THEOREM DraftTypes == Spec => []TypeOK
<1>1. Inv => TypeOK
  BY DEF Inv
<1> QED
  BY <1>1, Invariance, PTL

\* The contents of a reviewed or finalized bill are those that were evaluated -
\* balanced, or bare when the review could not read the items -, for any number
\* of requests that read, edit and apply at once.
THEOREM ReviewIsTrue == Spec => []ReviewedAddsUp
<1>1. Inv => ReviewedAddsUp
  BY DEF Inv, Contents
<1> QED
  BY <1>1, Invariance, PTL

\* What River takes for done has a result, unless failJob has failed.
THEOREM CompletionHasResult == Spec => []CompletedHasResult
<1>1. Inv => CompletedHasResult
  BY DEF Inv, Results
<1> QED
  BY <1>1, Invariance, PTL

\* A candidate is applied only to the contents its job was created for.
THEOREM AppliedIsFresh == Spec => CandidateIsFresh
<1> DEFINE Applied(c) ==
      clients[c].op = "apply" /\ clients'[c] = Idle /\ bill' # bill
      => clients[c].job \notin edited
<1>1. Inv /\ [Next]_vars => [\A c \in Clients : Applied(c)]_vars
  <2> SUFFICES ASSUME Inv, Next, NEW c \in Clients,
                      clients[c].op = "apply", clients'[c] = Idle, bill' # bill
               PROVE  clients[c].job \notin edited
    OBVIOUS
  <2>1. /\ clients \in [Clients -> Client] /\ clients[c] # Idle
        /\ AppliesAreTrue
    BY DEF Inv, TypeOK, Contents, Idle
  <2>2. PICK d \in Clients : ReviewCommit(d) \/ ApplyCandidateCommit(d)
    BY <2>1 DEF Next, JobStep, CreateBill, Fetch, Rescue, Begin, Extract, Store,
       Fail, DatabaseFails, Crash, ClientStep, Abandon, RetryOCRRead,
       ReviewReadRow, ReviewReadItems, ApplyCandidateRead, Remember,
       RetryOCRCommit, UpdateDraftBill, FinalizeBill, DeleteDraftBill
  <2>3. clients' = [clients EXCEPT ![d] = Idle]
    BY <2>2 DEF ReviewCommit, ApplyCandidateCommit, Forget
  <2>4. d = c
    BY <2>1, <2>3
  <2>5. ApplyCandidateCommit(c)
    BY <2>2, <2>4 DEF ReviewCommit, Pending
  <2>6. BillOpen /\ clients[c].version = bill.version
    BY <2>5 DEF ApplyCandidateCommit, WriteContents, SameVersion
  <2> QED
    BY <2>1, <2>6 DEF AppliesAreTrue
<1> QED
  BY <1>1, Invariance, PTL DEF Spec, CandidateIsFresh

\* A stored result is neither overwritten nor withdrawn, but with its bill.
THEOREM ResultsStay == Spec => ResultIsFinal
<1> DEFINE Stays(j) ==
      rows[j].status \in {"succeeded", "failed"}
      => rows'[j] = rows[j] \/ rows'[j].status = "gone"
<1>1. Inv /\ [Next]_vars => [\A j \in Jobs : Stays(j)]_vars
  <2> SUFFICES ASSUME Inv, Next, NEW j \in Jobs,
                      rows[j].status \in {"succeeded", "failed"}
               PROVE  rows'[j] = rows[j] \/ rows'[j].status = "gone"
    OBVIOUS
  <2>1. rows \in [Jobs -> Row]
    BY DEF Inv, TypeOK
  <2>2. ASSUME NEW i \in Jobs, NEW v, InsertJob(i, v)
        PROVE  rows'[j] = rows[j]
    BY <2>1, <2>2 DEF InsertJob
  <2>3. ASSUME NEW i \in Jobs, NEW k \in Attempts, AttemptStep(i, k)
        PROVE  rows'[j] = rows[j]
    <3>1. CASE i = j
      BY <2>3, <3>1, RowMoves DEF Inv, RowActive
    <3>2. CASE i # j
      BY <2>3, <3>2, RowMoves DEF Inv
    <3> QED
      BY <3>1, <3>2
  <2>4. CASE JobStep
    BY <2>2, <2>3, <2>4 DEF JobStep, AttemptStep, CreateBill, Fetch, Rescue
  <2>5. CASE ClientStep
    BY <2>2, <2>5 DEF ClientStep, Abandon, RetryOCRRead, ReviewReadRow,
       ReviewReadItems, ApplyCandidateRead, Remember, RetryOCRCommit,
       ReviewCommit, ApplyCandidateCommit
  <2>6. CASE UpdateDraftBill \/ FinalizeBill
    BY <2>6 DEF UpdateDraftBill, FinalizeBill
  <2>7. CASE DeleteDraftBill
    BY <2>1, <2>7 DEF DeleteDraftBill, Row
  <2> QED
    BY <2>4, <2>5, <2>6, <2>7 DEF Next
<1> QED
  BY <1>1, Invariance, PTL DEF Spec, ResultIsFinal

-----------------------------------------------------------------------------
(* How a bill is divided, for every request, receipt and input that        *)
(* AllocationAssumption admits.  The exact shares are numerators over one  *)
(* denominator, so that all sums are sums of whole numbers; of how a       *)
(* remainder is handed out, FiniteSums knows the rest.                     *)

\* An input that CalculateAllocation does not refuse at once.
Divisible(in) ==
  /\ in.creditor \in Members
  /\ in.service \in Nat /\ in.vat \in Nat /\ in.discount \in Nat
  /\ \E n \in Nat : DOMAIN in.items = 1..n
  /\ \A i \in DOMAIN in.items :
       /\ in.items[i].amount \in Nat
       /\ \A m \in DOMAIN in.items[i].weights : in.items[i].weights[m] \in Nat \ {0}
       /\ DOMAIN in.items[i].weights \in (SUBSET Members) \ {{}}

-----------------------------------------------------------------------------
(* Weights and the common denominator.                                    *)

\* Products of positive numbers are positive; a step of its own where factors are opaque.
LEMMA MulPositive ==
  ASSUME NEW a \in Nat \ {0}, NEW b \in Nat \ {0}
  PROVE  a * b \in Nat \ {0}
<1>1. a >= 1 /\ 1 * b <= a * b
  BY MulMonotone
<1> QED
  BY <1>1

\* An item with somebody to pay for it has a weight.
LEMMA WeightIsPositive ==
  ASSUME NEW in, Divisible(in), NEW i \in DOMAIN in.items
  PROVE  Weight(in.items[i]) \in Nat \ {0}
<1> DEFINE w == in.items[i].weights
           M == DOMAIN w
<1>1. M \in SUBSET Members /\ M # {} /\ (\A m \in M : w[m] \in Nat \ {0})
  BY DEF Divisible
<1>2. Weight(in.items[i]) = SumFunctionOnSet(w, M)
  BY DEF Weight, Total, SumFunction
<1> HIDE DEF w, M
<1>3. IsFiniteSet(M)
  BY <1>1, AllocationAssumption, FS_Subset
<1>4. PICK m \in M : TRUE
  BY <1>1
<1>5. SumFunctionOnSet(w, M) = w[m] + SumFunctionOnSet(w, M \ {m})
  <2>1. \A x \in M : w[x] \in Int
    BY <1>1
  <2> QED
    BY <1>3, <2>1, SumRemove
<1>6. SumFunctionOnSet(w, M \ {m}) \in Nat
  <2>1. IsFiniteSet(M \ {m}) /\ \A x \in M \ {m} : w[x] \in Nat
    BY <1>1, <1>3, FS_Subset
  <2> QED
    BY <2>1, SumNat
<1>7. w[m] \in Nat \ {0}
  BY <1>1
<1> QED
  BY <1>2, <1>5, <1>6, <1>7

\* The fold of the weights, after each of the items.
LEMMA CommonFollows ==
  ASSUME NEW in, Divisible(in), NEW n \in Nat, DOMAIN in.items = 1..n
  PROVE  \E p \in [0..n -> Nat \ {0}] :
           /\ p[0] = 1 /\ p[n] = Common(in)
           /\ \A k \in 1..n : p[k] = p[k - 1] * Weight(in.items[k])
<1> DEFINE X == Nat \ {0}
           step == [x \in X |-> [i \in 1..n |-> x * Weight(in.items[i])]]
           Rec(h) == h = [T \in SUBSET (1..n) |-> IF T = {} THEN 1
                            ELSE h[T \ {LargestOf(T)}] * Weight(in.items[LargestOf(T)])]
           iter == CHOOSE h : Rec(h)
<1>1. Common(in) = iter[1..n]
  BY DEF Common, FoldLeft, MapThenFoldSet, LargestOf, Max
<1>2. \A x \in X : \A i \in 1..n : step[x][i] = x * Weight(in.items[i]) /\ step[x][i] \in X
  <2> SUFFICES ASSUME NEW x \in X, NEW i \in 1..n PROVE x * Weight(in.items[i]) \in X
    OBVIOUS
  <2> QED
    BY WeightIsPositive, MulPositive
<1>3. \A T \in SUBSET (1..n) : T # {} =>
        LargestOf(T) \in 1..n /\ T \ {LargestOf(T)} \in SUBSET (1..n)
  BY LargestIsIn
<1> HIDE DEF step
<1>4. Rec(iter)
  <2>1. 1 \in X /\ \A x \in X : \A i \in 1..n : step[x][i] \in X
    BY <1>2
  <2> HIDE DEF X
  <2>2. PICK h \in [SUBSET (1..n) -> X] : IsRecursion(h, 1, step, n)
    BY <2>1, RecursionExists
  <2>3. ASSUME NEW T \in SUBSET (1..n)
        PROVE  h[T] = IF T = {} THEN 1
                      ELSE h[T \ {LargestOf(T)}] * Weight(in.items[LargestOf(T)])
    <3>1. T # {} => h[T \ {LargestOf(T)}] \in X
      BY <1>3
    <3> QED
      BY <1>2, <1>3, <2>2, <3>1 DEF IsRecursion
  <2>4. Rec(h)
    BY <2>3
  <2> HIDE DEF Rec
  <2> QED
    BY <2>4
<1> HIDE DEF iter
<1>5. RecursIn(iter, 1, step, X, n)
  BY <1>2, <1>3, <1>4 DEF RecursIn
<1>6. StepsIn(step, X, n) /\ 1 \in X
  BY <1>2 DEF StepsIn
<1>7. /\ iter[1..0] = 1
      /\ \A k \in 0..n : iter[1..k] \in X
      /\ \A k \in 1..n : iter[1..k] = step[iter[1..(k - 1)]][k]
  <2> HIDE DEF X
  <2> QED
    BY <1>5, <1>6, RecursionFollows
<1> DEFINE p == [k \in 0..n |-> iter[1..k]]
<1>8. p \in [0..n -> X] /\ p[0] = 1 /\ p[n] = Common(in)
  BY <1>1, <1>7
<1>9. ASSUME NEW k \in 1..n PROVE p[k] = p[k - 1] * Weight(in.items[k])
  <2>1. k \in 0..n /\ k - 1 \in 0..n
    OBVIOUS
  <2>2. p[k] = iter[1..k] /\ p[k - 1] = iter[1..(k - 1)] /\ iter[1..(k - 1)] \in X
    BY <1>7, <2>1
  <2> HIDE DEF p, X
  <2> QED
    BY <1>2, <1>7, <2>2
<1> QED
  BY <1>8, <1>9

\* Every weight divides the common denominator.
LEMMA CommonDivides ==
  ASSUME NEW in, Divisible(in)
  PROVE  /\ Common(in) \in Nat \ {0}
         /\ \A i \in DOMAIN in.items :
              /\ Common(in) \div Weight(in.items[i]) \in Nat \ {0}
              /\ (Common(in) \div Weight(in.items[i])) * Weight(in.items[i]) = Common(in)
<1>1. PICK n \in Nat : DOMAIN in.items = 1..n
  BY DEF Divisible
<1>2. PICK p \in [0..n -> Nat \ {0}] :
        /\ p[0] = 1 /\ p[n] = Common(in)
        /\ \A k \in 1..n : p[k] = p[k - 1] * Weight(in.items[k])
  BY <1>1, CommonFollows
<1>3. Common(in) \in Nat \ {0}
  BY <1>2
<1>4. ASSUME NEW i \in 1..n
      PROVE  \E q \in Nat \ {0} : Common(in) = q * Weight(in.items[i])
  <2> DEFINE W == Weight(in.items[i])
             Good(m) == i <= m /\ m <= n => \E q \in Nat \ {0} : p[m] = q * W
             N == {m \in Nat : Good(m)}
  <2>1. W \in Nat \ {0}
    BY <1>1, WeightIsPositive
  <2>2. ASSUME NEW m \in Nat, Good(m) PROVE Good(m + 1)
    <3> SUFFICES ASSUME i <= m + 1, m + 1 <= n
                 PROVE  \E q \in Nat \ {0} : p[m + 1] = q * W
      OBVIOUS
    <3>1. m + 1 \in 1..n /\ (m + 1) - 1 = m /\ m \in 0..n
      OBVIOUS
    <3>2. p[m + 1] = p[m] * Weight(in.items[m + 1]) /\ p[m] \in Nat \ {0}
      BY <1>2, <3>1
    <3>3. CASE i = m + 1
      BY <3>2, <3>3
    <3>4. CASE i <= m
      <4>1. PICK q \in Nat \ {0} : p[m] = q * W
        BY <2>2, <3>1, <3>4
      <4> DEFINE v == Weight(in.items[m + 1])
      <4>2. v \in Nat \ {0}
        BY <1>1, <3>1, WeightIsPositive
      <4> HIDE DEF v, W
      <4>3. (q * W) * v = (q * v) * W /\ q * v \in Nat \ {0}
        BY <2>1, <4>2, MulPositive
      <4> QED
        BY <3>2, <4>1, <4>3 DEF v
    <3> QED
      BY <3>1, <3>3, <3>4
  <2>3. N = Nat
    <3>1. 0 \in N /\ N \in SUBSET Nat
      OBVIOUS
    <3>2. \A m \in N : m + 1 \in N
      BY <2>2
    <3> HIDE DEF N
    <3> QED
      BY <3>1, <3>2, NatSetInduction
  <2>4. Good(n)
    BY <2>3
  <2> QED
    BY <1>2, <2>4
<1>5. ASSUME NEW i \in 1..n
      PROVE  /\ Common(in) \div Weight(in.items[i]) \in Nat \ {0}
             /\ (Common(in) \div Weight(in.items[i])) * Weight(in.items[i]) = Common(in)
  <2> DEFINE W == Weight(in.items[i])
  <2>1. W \in Nat \ {0}
    BY <1>1, WeightIsPositive
  <2>2. PICK q \in Nat \ {0} : Common(in) = q * W
    BY <1>4
  <2>3. (q * W) \div W = q
    <3> HIDE DEF W
    <3> QED
      BY <2>1, DivMul
  <2> QED
    BY <2>2, <2>3
<1> QED
  BY <1>1, <1>3, <1>5

-----------------------------------------------------------------------------
(* The part of the items that a member has. *)

\* The members a bill is divided among, and its items, are finite sets.
LEMMA SharersAre ==
  ASSUME NEW in, Divisible(in)
  PROVE  /\ Sharers(in) \subseteq Members /\ Sharers(in) \subseteq Nat
         /\ IsFiniteSet(Sharers(in)) /\ in.creditor \in Sharers(in)
         /\ IsFiniteSet(DOMAIN in.items)
         /\ \A i \in DOMAIN in.items : DOMAIN in.items[i].weights \subseteq Sharers(in)
<1>1. Sharers(in) \subseteq Members
  BY DEF Divisible, Sharers
<1>2. IsFiniteSet(Sharers(in)) /\ Sharers(in) \subseteq Nat
  BY <1>1, AllocationAssumption, FS_Subset
<1>3. IsFiniteSet(DOMAIN in.items)
  BY FS_Interval DEF Divisible
<1> QED
  BY <1>1, <1>2, <1>3 DEF Sharers

Piece(in, i, m) ==
  IF m \in DOMAIN in.items[i].weights
  THEN in.items[i].amount * in.items[i].weights[m] * (Common(in) \div Weight(in.items[i]))
  ELSE 0

\* A part of an item is not negative, and nothing unless the item costs something.
LEMMA PieceIs ==
  ASSUME NEW in, Divisible(in), NEW i \in DOMAIN in.items, NEW m
  PROVE  /\ Piece(in, i, m) \in Nat
         /\ Piece(in, i, m) # 0 =>
              m \in DOMAIN in.items[i].weights /\ in.items[i].amount > 0
<1> DEFINE a == in.items[i].amount
           w == in.items[i].weights[m]
           k == Common(in) \div Weight(in.items[i])
<1>1. CASE m \in DOMAIN in.items[i].weights
  <2>1. Piece(in, i, m) = (a * w) * k
    BY <1>1 DEF Piece
  <2>2. a \in Nat /\ w \in Nat /\ k \in Nat
    BY <1>1, CommonDivides DEF Divisible
  <2> HIDE DEF a, w, k
  <2>3. a * w \in Nat /\ (a * w) * k \in Nat /\ (a = 0 => (a * w) * k = 0)
    BY <2>2
  <2>4. Piece(in, i, m) \in Nat /\ (Piece(in, i, m) # 0 => a > 0)
    BY <2>1, <2>2, <2>3
  <2> QED
    BY <1>1, <2>4 DEF a
<1>2. CASE m \notin DOMAIN in.items[i].weights
  BY <1>2 DEF Piece
<1> QED
  BY <1>1, <1>2

\* No item costs more than all items.
LEMMA ItemsTotalIs ==
  ASSUME NEW in, Divisible(in)
  PROVE  /\ ItemsTotal(in) \in Nat
         /\ \A i \in DOMAIN in.items : in.items[i].amount <= ItemsTotal(in)
<1> DEFINE D == DOMAIN in.items
           f == [i \in D |-> in.items[i].amount]
<1>1. ItemsTotal(in) = SumFunctionOnSet(f, D)
  BY DEF ItemsTotal, Total, SumFunction
<1>2. (\A i \in D : f[i] \in Nat /\ f[i] = in.items[i].amount) /\ IsFiniteSet(D)
  BY SharersAre DEF Divisible
<1> HIDE DEF D, f
<1>3. SumFunctionOnSet(f, D) \in Nat
  BY <1>2, SumNat
<1>4. \A i \in D : f[i] <= SumFunctionOnSet(f, D)
  BY <1>2, SumAtLeast
<1> QED
  BY <1>1, <1>2, <1>3, <1>4 DEF D

\* Nobody has a part of the items but a member of an item that is not free.
LEMMA ItemsAre ==
  ASSUME NEW in, Divisible(in), NEW m
  PROVE  /\ Items(in, m) = SumFunctionOnSet([i \in DOMAIN in.items |-> Piece(in, i, m)],
                                           DOMAIN in.items)
         /\ Items(in, m) \in Nat
         /\ ItemsTotal(in) = 0 => Items(in, m) = 0
         /\ Items(in, m) # 0 => \E i \in DOMAIN in.items :
              m \in DOMAIN in.items[i].weights /\ in.items[i].amount > 0
<1> DEFINE D == DOMAIN in.items
           f == [i \in D |-> Piece(in, i, m)]
<1>1. Items(in, m) = SumFunctionOnSet(f, D)
  BY DEF Items, Total, SumFunction, Piece
<1>2. IsFiniteSet(D) /\ \A i \in D : f[i] = Piece(in, i, m) /\ f[i] \in Nat
  BY SharersAre, PieceIs
<1> HIDE DEF D, f
<1>3. SumFunctionOnSet(f, D) \in Nat
  BY <1>2, SumNat
<1>4. SumFunctionOnSet(f, D) # 0 => \E i \in D : f[i] # 0
  BY <1>2, SumZero
<1>5. Items(in, m) # 0 => \E i \in D :
        m \in DOMAIN in.items[i].weights /\ in.items[i].amount > 0
  BY <1>1, <1>2, <1>4, PieceIs DEF D
<1>6. ItemsTotal(in) = 0 => Items(in, m) = 0
  <2> SUFFICES ASSUME ItemsTotal(in) = 0, NEW i \in D, in.items[i].amount > 0
               PROVE  FALSE
    BY <1>5
  <2>1. in.items[i].amount <= 0 /\ in.items[i].amount \in Nat
    BY ItemsTotalIs DEF Divisible, D
  <2> QED
    BY <2>1
<1> QED
  BY <1>1, <1>3, <1>5, <1>6 DEF D, f

\* The parts of the items of all members make the items.
LEMMA ItemsAddUp ==
  ASSUME NEW in, Divisible(in)
  PROVE  SumFunctionOnSet([m \in Sharers(in) |-> Items(in, m)], Sharers(in))
         = ItemsTotal(in) * Common(in)
<1> DEFINE D == DOMAIN in.items
           S == Sharers(in)
           C == Common(in)
           f == [i \in D |-> [m \in S |-> Piece(in, i, m)]]
           whole == [i \in D |-> in.items[i].amount * C]
           columns == [m \in S |-> Items(in, m)]
<1>1. IsFiniteSet(D) /\ IsFiniteSet(S) /\ C \in Nat
  BY SharersAre, CommonDivides
<1>2. \A i \in D, m \in S : f[i][m] \in Int
  BY PieceIs
<1>3. ASSUME NEW i \in D PROVE whole[i] = SumFunctionOnSet(f[i], S)
  <2> DEFINE w == in.items[i].weights
             W == DOMAIN w
             a == in.items[i].amount
             k == C \div Weight(in.items[i])
             zero == [m \in W |-> 0]
             g == f[i]
  <2>1. W \in SUBSET S /\ IsFiniteSet(W)
    BY SharersAre, FS_Subset
  <2>2. a \in Nat /\ k \in Nat /\ k * Weight(in.items[i]) = C /\ \A m \in W : w[m] \in Nat
    BY CommonDivides DEF Divisible
  <2>3. Weight(in.items[i]) = SumFunctionOnSet(w, W)
    BY DEF Weight, Total, SumFunction
  <2>4. \A m \in W : g[m] = (a * w[m]) * k
    BY <2>1 DEF Piece
  <2>5. (\A m \in S : g[m] \in Int) /\ \A m \in S \ W : g[m] = 0
    BY <1>2 DEF Piece
  <2>6. zero = [m \in W |-> 0]
    OBVIOUS
  <2>7. whole[i] = a * C
    OBVIOUS
  <2> HIDE DEF w, W, a, k, zero, g, S, C, whole
  <2>8. SumFunctionOnSet(g, S) = SumFunctionOnSet(g, W)
    <3>1. \A m \in W : g[m] \in Int
      BY <2>1, <2>5
    <3> QED
      BY <1>1, <2>1, <2>5, <3>1, SumOutside
  <2>9. SumFunctionOnSet(g, W) = SumFunctionOnSet(zero, W) + (a * k) * SumFunctionOnSet(w, W)
    <3>1. a * k \in Int
      BY <2>2
    <3>2. \A m \in W : zero[m] \in Int /\ w[m] \in Int /\ g[m] = zero[m] + (a * k) * w[m]
      <4> SUFFICES ASSUME NEW m \in W
                   PROVE  zero[m] \in Int /\ w[m] \in Int /\ g[m] = zero[m] + (a * k) * w[m]
        OBVIOUS
      <4>1. zero[m] = 0 /\ w[m] \in Nat /\ g[m] = (a * w[m]) * k
        BY <2>2, <2>4, <2>6
      <4>2. (a * w[m]) * k = (a * k) * w[m]
        BY <2>2, <4>1
      <4> QED
        BY <2>2, <4>1, <4>2
    <3> QED
      BY <2>1, <3>1, <3>2, SumLinear
  <2>10. SumFunctionOnSet(zero, W) = 0
    BY <2>1, <2>6, SumZero
  <2>11. (a * k) * Weight(in.items[i]) = a * C
    <3> DEFINE v == Weight(in.items[i])
    <3>1. v \in Nat /\ k * v = C
      BY <2>2, WeightIsPositive
    <3> HIDE DEF v
    <3>2. (a * k) * v = a * (k * v)
      BY <2>2, <3>1
    <3> QED
      BY <3>1, <3>2 DEF v
  <2>12. a * C \in Int
    BY <1>1, <2>2
  <2> QED
    BY <2>3, <2>7, <2>8, <2>9, <2>10, <2>11, <2>12 DEF g
<1>4. ASSUME NEW m \in S
      PROVE  columns[m] = SumFunctionOnSet([i \in D |-> f[i][m]], D)
  <2>1. [i \in D |-> f[i][m]] = [i \in D |-> Piece(in, i, m)]
    OBVIOUS
  <2> QED
    BY <2>1, ItemsAre
<1>5. SumFunctionOnSet(whole, D) = SumFunctionOnSet(columns, S)
  <2> HIDE DEF D, S, f, whole, columns
  <2>1. IsTable(f, D, S)
    BY <1>2 DEF IsTable
  <2>2. AreRows(whole, f, D, S)
    BY <1>3 DEF AreRows
  <2>3. AreColumns(columns, f, D, S)
    BY <1>4 DEF AreColumns
  <2> QED
    BY <1>1, <2>1, <2>2, <2>3, SumSwap
<1>6. SumFunctionOnSet(whole, D) = ItemsTotal(in) * C
  <2> DEFINE a == [i \in D |-> in.items[i].amount]
             zero == [i \in D |-> 0]
  <2>1. ItemsTotal(in) = SumFunctionOnSet(a, D)
    BY DEF ItemsTotal, Total, SumFunction
  <2>2. \A i \in D : zero[i] = 0 /\ a[i] \in Int /\ whole[i] = a[i] * C
    BY DEF Divisible
  <2> HIDE DEF a, zero, whole, C, D
  <2>3. \A i \in D : zero[i] \in Int /\ a[i] \in Int /\ whole[i] = zero[i] + C * a[i]
    BY <1>1, <2>2
  <2>4. SumFunctionOnSet(whole, D) = SumFunctionOnSet(zero, D) + C * SumFunctionOnSet(a, D)
    BY <1>1, <2>3, SumLinear
  <2>5. SumFunctionOnSet(zero, D) = 0
    BY <1>1, <2>2, SumZero
  <2>6. ItemsTotal(in) \in Nat
    BY ItemsTotalIs
  <2> QED
    BY <1>1, <2>1, <2>4, <2>5, <2>6
<1> QED
  BY <1>5, <1>6

-----------------------------------------------------------------------------
(* The exact shares. *)

\* The denominator of the exact shares is positive.
LEMMA ScaleIs ==
  ASSUME NEW in, Divisible(in)
  PROVE  /\ Scale(in) \in Nat \ {0}
         /\ ItemsTotal(in) > 0 => /\ Scale(in) = ItemsTotal(in) * Common(in)
                                 /\ Scale(in) \div Common(in) = ItemsTotal(in)
<1> DEFINE t == ItemsTotal(in)
           c == Common(in)
<1>1. t \in Nat /\ c \in Nat \ {0}
  BY ItemsTotalIs, CommonDivides
<1>2. Scale(in) = c * (IF t = 0 THEN 1 ELSE t)
  BY DEF Scale
<1> HIDE DEF t, c
<1>3. CASE t = 0
  BY <1>1, <1>2, <1>3 DEF t
<1>4. CASE t > 0
  <2>1. c * t \in Nat \ {0} /\ c * t = t * c
    BY <1>1, <1>4, MulPositive
  <2>2. (t * c) \div c = t
    BY <1>1, DivMul
  <2>3. Scale(in) = t * c
    BY <1>1, <1>2, <1>4, <2>1
  <2> QED
    BY <2>1, <2>2, <2>3 DEF t, c
<1> QED
  BY <1>1, <1>3, <1>4

\* What a member bears of an amount that is divided like the items.
Bears(in, m, c) ==
  IF ItemsTotal(in) > 0 THEN c * Items(in, m)
  ELSE IF m = in.creditor THEN c * Scale(in) ELSE 0

\* What a member bears is linear in the amount, and nothing to who has no part of it.
LEMMA BearsIs ==
  ASSUME NEW in, Divisible(in), NEW m
  PROVE  /\ \A c \in Nat : Bears(in, m, c) \in Nat
         /\ \A a, b \in Nat : Bears(in, m, a + b) = Bears(in, m, a) + Bears(in, m, b)
         /\ \A c \in Nat : Bears(in, m, c) > 0 =>
              \/ m = in.creditor
              \/ \E i \in DOMAIN in.items :
                   m \in DOMAIN in.items[i].weights /\ in.items[i].amount > 0
<1> DEFINE k == IF ItemsTotal(in) > 0 THEN Items(in, m)
                ELSE IF m = in.creditor THEN Scale(in) ELSE 0
<1>1. k \in Nat
  BY ItemsAre, ScaleIs
<1>2. \A c \in Nat : Bears(in, m, c) = c * k
  BY DEF Bears
<1>3. k # 0 => \/ m = in.creditor
               \/ \E i \in DOMAIN in.items :
                    m \in DOMAIN in.items[i].weights /\ in.items[i].amount > 0
  BY ItemsAre
<1> HIDE DEF k
<1>4. \A c \in Nat : c * k \in Nat /\ (k = 0 => c * k = 0)
  BY <1>1
<1>5. \A a, b \in Nat : (a + b) * k = a * k + b * k /\ a + b \in Nat
  BY <1>1
<1>6. \A c \in Nat : Bears(in, m, c) > 0 => k # 0
  BY <1>2, <1>4
<1> QED
  BY <1>2, <1>3, <1>4, <1>5, <1>6

\* All members together bear it.
LEMMA BearsAddUp ==
  ASSUME NEW in, Divisible(in), NEW c \in Nat
  PROVE  SumFunctionOnSet([m \in Sharers(in) |-> Bears(in, m, c)], Sharers(in))
         = c * Scale(in)
<1> DEFINE S == Sharers(in)
           f == [m \in S |-> Bears(in, m, c)]
           g == [m \in S |-> Items(in, m)]
           zero == [m \in S |-> 0]
<1>1. IsFiniteSet(S) /\ in.creditor \in S
  BY SharersAre
<1>2. ItemsTotal(in) \in Nat /\ Scale(in) \in Nat
  BY ItemsTotalIs, ScaleIs
<1>3. CASE ItemsTotal(in) > 0
  <2>1. \A m \in S : zero[m] = 0 /\ zero[m] \in Int /\ g[m] \in Int /\ f[m] = zero[m] + c * g[m]
    <3> SUFFICES ASSUME NEW m \in S PROVE g[m] \in Int /\ f[m] = zero[m] + c * g[m]
      OBVIOUS
    <3>1. f[m] = c * g[m] /\ zero[m] = 0
      BY <1>3 DEF Bears
    <3>2. g[m] \in Nat
      BY ItemsAre
    <3> HIDE DEF f, g, zero
    <3> QED
      BY <3>1, <3>2
  <2>2. SumFunctionOnSet(g, S) = ItemsTotal(in) * Common(in)
    BY ItemsAddUp
  <2> HIDE DEF S, f, g, zero
  <2>3. SumFunctionOnSet(f, S) = SumFunctionOnSet(zero, S) + c * SumFunctionOnSet(g, S)
    BY <1>1, <2>1, SumLinear
  <2>4. SumFunctionOnSet(zero, S) = 0
    BY <1>1, <2>1, SumZero
  <2>5. SumFunctionOnSet(g, S) = Scale(in)
    BY <1>3, <2>2, ScaleIs
  <2>6. SumFunctionOnSet(f, S) = c * Scale(in)
    BY <1>2, <2>3, <2>4, <2>5
  <2> QED
    BY <2>6 DEF f, S
<1>4. CASE ItemsTotal(in) = 0
  <2> DEFINE o == in.creditor
  <2>1. f[o] = c * Scale(in) /\ f[o] \in Int /\ \A m \in S \ {o} : f[m] = 0
    BY <1>1, <1>2, <1>4 DEF Bears
  <2> HIDE DEF S, f, o
  <2>2. SumFunctionOnSet(f, S) = SumFunctionOnSet(f, {o})
    <3>1. {o} \in SUBSET S /\ \A m \in {o} : f[m] \in Int
      BY <1>1, <2>1 DEF o
    <3> QED
      BY <1>1, <2>1, <3>1, SumOutside
  <2>3. SumFunctionOnSet(f, {o}) = f[o]
    BY <2>1, SumSingle
  <2>4. SumFunctionOnSet(f, S) = c * Scale(in)
    BY <2>1, <2>2, <2>3
  <2> QED
    BY <2>4 DEF f, S
<1> QED
  BY <1>2, <1>3, <1>4

\* The discount a member is spared.
Cut(in, m) ==
  IF m = in.creditor THEN 0
  ELSE AtLeast0(Bears(in, m, in.discount)
                - Bears(in, m, ItemsTotal(in) + in.service + in.vat))

\* Nobody is spared anything of a discount within the bill.
LEMMA CutIs ==
  ASSUME NEW in, Divisible(in), NEW m
  PROVE  /\ Cut(in, m) \in Nat
         /\ in.discount <= ItemsTotal(in) + in.service + in.vat => Cut(in, m) = 0
<1> DEFINE g == ItemsTotal(in) + in.service + in.vat
           d == in.discount
<1>1. g \in Nat /\ d \in Nat
  BY ItemsTotalIs DEF Divisible
<1>2. Cut(in, m) = IF m = in.creditor THEN 0
                   ELSE AtLeast0(Bears(in, m, d) - Bears(in, m, g))
  BY DEF Cut
<1> HIDE DEF g, d
<1>3. Bears(in, m, d) \in Nat /\ Bears(in, m, g) \in Nat
  BY <1>1, BearsIs
<1>4. d <= g => Bears(in, m, d) <= Bears(in, m, g)
  <2> SUFFICES ASSUME d <= g PROVE Bears(in, m, d) <= Bears(in, m, g)
    OBVIOUS
  <2>1. g - d \in Nat /\ g = d + (g - d)
    BY <1>1
  <2>2. Bears(in, m, g - d) \in Nat
    BY <2>1, BearsIs
  <2>3. Bears(in, m, d + (g - d)) = Bears(in, m, d) + Bears(in, m, g - d)
    BY <1>1, <2>1, BearsIs
  <2>4. Bears(in, m, g) = Bears(in, m, d + (g - d))
    BY <2>1
  <2> QED
    BY <1>3, <2>2, <2>3, <2>4
<1>5. Cut(in, m) \in Nat /\ (d <= g => Cut(in, m) = 0)
  BY <1>2, <1>3, <1>4 DEF AtLeast0
<1> QED
  BY <1>5 DEF d, g

\* The exact share, written with what a member bears.
LEMMA ExactIs ==
  ASSUME NEW in, Divisible(in)
  PROVE  /\ DOMAIN Exact(in) = Sharers(in)
         /\ \A m \in Sharers(in) : Exact(in)[m] =
              Bears(in, m, ItemsTotal(in) + in.service + in.vat)
              - Bears(in, m, in.discount) + Cut(in, m)
              - (IF m = in.creditor
                 THEN SumFunctionOnSet([n \in Sharers(in) |-> Cut(in, n)], Sharers(in))
                 ELSE 0)
<1> DEFINE S == Sharers(in)
           g == ItemsTotal(in) + in.service + in.vat
           part == [m \in S |-> Items(in, m)]
           Charge(m, c) == IF ItemsTotal(in) > 0 THEN c * part[m]
                           ELSE IF m = in.creditor THEN c * Scale(in) ELSE 0
           owed == [m \in S |-> part[m] * (Scale(in) \div Common(in))
                                 + Charge(m, in.service) + Charge(m, in.vat)]
           cut == [m \in S |-> IF m = in.creditor THEN 0
                                ELSE AtLeast0(Charge(m, in.discount) - owed[m])]
<1>1. Exact(in) = [m \in S |-> owed[m] - Charge(m, in.discount) + cut[m]
                             - (IF m = in.creditor THEN Total(cut) ELSE 0)]
  BY DEF Exact
<1>2. \A m \in S : \A c : Charge(m, c) = Bears(in, m, c)
  BY DEF Bears
<1>3. ASSUME NEW m \in S PROVE owed[m] = Bears(in, m, g)
  <2>1. ItemsTotal(in) \in Nat /\ in.service \in Nat /\ in.vat \in Nat
    BY ItemsTotalIs DEF Divisible
  <2>2. Items(in, m) * (Scale(in) \div Common(in)) = Bears(in, m, ItemsTotal(in))
    <3> DEFINE i == Items(in, m)
               t == ItemsTotal(in)
    <3>1. i \in Nat /\ (t = 0 => i = 0)
      BY ItemsAre
    <3>2. CASE t > 0
      <4>1. Scale(in) \div Common(in) = t
        BY <3>2, ScaleIs
      <4>2. Bears(in, m, t) = t * i
        BY <3>2 DEF Bears
      <4> HIDE DEF i, t
      <4> QED
        BY <2>1, <3>1, <4>1, <4>2 DEF i, t
    <3>3. CASE t = 0
      <4>1. Bears(in, m, t) = 0
        <5>1. Scale(in) \in Nat
          BY ScaleIs
        <5> QED
          BY <3>3, <5>1 DEF Bears
      <4>2. i * (Scale(in) \div Common(in)) = 0
        <5>1. Scale(in) \div Common(in) \in Int /\ i = 0
          BY <3>1, <3>3, ScaleIs, CommonDivides
        <5> QED
          BY <5>1
      <4> QED
        BY <4>1, <4>2
    <3> QED
      BY <2>1, <3>2, <3>3
  <2>3. owed[m] = Bears(in, m, ItemsTotal(in)) + Bears(in, m, in.service)
                  + Bears(in, m, in.vat)
    BY <1>2, <2>2
  <2>4. Bears(in, m, ItemsTotal(in) + in.service)
        = Bears(in, m, ItemsTotal(in)) + Bears(in, m, in.service)
    BY <2>1, BearsIs
  <2>5. Bears(in, m, g) = Bears(in, m, ItemsTotal(in) + in.service) + Bears(in, m, in.vat)
    BY <2>1, BearsIs
  <2> QED
    BY <2>3, <2>4, <2>5
<1> HIDE DEF owed, Charge
<1>4. \A m \in S : cut[m] = Cut(in, m)
  BY <1>2, <1>3 DEF Cut
<1>5. cut = [m \in S |-> Cut(in, m)]
  BY <1>4
<1> HIDE DEF cut
<1>6. Total(cut) = SumFunctionOnSet([m \in S |-> Cut(in, m)], S)
  BY <1>5 DEF Total, SumFunction
<1> QED
  BY <1>1, <1>2, <1>3, <1>4, <1>6

\* The exact shares make the total, and only the creditor's can be negative.
LEMMA ExactAddUp ==
  ASSUME NEW in, Divisible(in)
  PROVE  /\ \A m \in Sharers(in) : Exact(in)[m] \in Int
         /\ \A m \in Sharers(in) \ {in.creditor} : Exact(in)[m] >= 0
         /\ SumFunctionOnSet(Exact(in), Sharers(in)) = AllocTotal(in) * Scale(in)
<1> DEFINE S == Sharers(in)
           o == in.creditor
           g == ItemsTotal(in) + in.service + in.vat
           d == in.discount
           e == Exact(in)
           gross == [m \in S |-> Bears(in, m, g)]
           less == [m \in S |-> Bears(in, m, d)]
           cut == [m \in S |-> Cut(in, m)]
           s == SumFunctionOnSet(cut, S)
           back == [m \in S |-> IF m = o THEN -s ELSE 0]
           net == [m \in S |-> gross[m] + (-1) * less[m]]
           spared == [m \in S |-> net[m] + 1 * cut[m]]
           c == Scale(in)
<1>1. IsFiniteSet(S) /\ o \in S
  BY SharersAre
<1>2. g \in Nat /\ d \in Nat /\ c \in Nat /\ AllocTotal(in) = g - d
  <2>1. ItemsTotal(in) \in Nat /\ in.service \in Nat /\ in.vat \in Nat /\ d \in Nat
    BY ItemsTotalIs DEF Divisible
  <2>2. c \in Nat
    BY ScaleIs
  <2> QED
    BY <2>1, <2>2 DEF AllocTotal
<1>3. \A m \in S : e[m] = gross[m] - less[m] + cut[m] - (IF m = o THEN s ELSE 0)
  BY ExactIs
<1>4. SumFunctionOnSet(gross, S) = g * c /\ SumFunctionOnSet(less, S) = d * c
  <2> HIDE DEF g, d
  <2> QED
    BY <1>2, BearsAddUp
<1>5. \A m \in S : gross[m] \in Nat /\ less[m] \in Nat /\ cut[m] \in Nat
  <2> HIDE DEF g, d
  <2> QED
    BY <1>2, BearsIs, CutIs
<1>6. \A m \in S \ {o} : cut[m] = AtLeast0(less[m] - gross[m])
  BY DEF Cut
<1> HIDE DEF S, g, d, e, gross, less, cut, c
<1>7. s \in Int
  BY <1>1, <1>5, SumRemove
<1>8. \A m \in S : e[m] \in Int
  BY <1>3, <1>5, <1>7
<1>9. \A m \in S \ {o} : e[m] >= 0
  BY <1>3, <1>5, <1>6 DEF AtLeast0
<1>10. SumFunctionOnSet(net, S) = g * c + (-1) * (d * c)
  <2>1. \A m \in S : gross[m] \in Int /\ less[m] \in Int /\ net[m] = gross[m] + (-1) * less[m]
    BY <1>5
  <2> HIDE DEF net
  <2>2. SumFunctionOnSet(net, S) = SumFunctionOnSet(gross, S) + (-1) * SumFunctionOnSet(less, S)
    BY <1>1, <2>1, SumLinear
  <2> QED
    BY <1>4, <2>2
<1>11. SumFunctionOnSet(spared, S) = SumFunctionOnSet(net, S) + 1 * s
  <2>1. \A m \in S : net[m] \in Int /\ cut[m] \in Int /\ spared[m] = net[m] + 1 * cut[m]
    BY <1>5
  <2> HIDE DEF spared, net
  <2> QED
    BY <1>1, <2>1, SumLinear
<1>12. SumFunctionOnSet(back, S) = -s
  <2>1. back[o] = -s /\ back[o] \in Int /\ \A m \in S \ {o} : back[m] = 0
    BY <1>1, <1>7
  <2>2. {o} \in SUBSET S /\ \A m \in {o} : back[m] \in Int
    BY <1>1, <2>1
  <2> HIDE DEF back, o, s
  <2>3. SumFunctionOnSet(back, S) = SumFunctionOnSet(back, {o})
    BY <1>1, <2>1, <2>2, SumOutside
  <2> QED
    BY <2>1, <2>3, SumSingle
<1>13. SumFunctionOnSet(e, S) = SumFunctionOnSet(spared, S) + 1 * SumFunctionOnSet(back, S)
  <2>1. \A m \in S : spared[m] \in Int /\ back[m] \in Int /\ e[m] = spared[m] + 1 * back[m]
    BY <1>3, <1>5, <1>7
  <2> HIDE DEF spared, back
  <2> QED
    BY <1>1, <2>1, SumLinear
<1>14. g * c \in Int /\ d * c \in Int /\ (g - d) * c = g * c - d * c
  BY <1>2
<1>15. SumFunctionOnSet(e, S) = (g - d) * c
  <2> HIDE DEF s
  <2> QED
    BY <1>7, <1>10, <1>11, <1>12, <1>13, <1>14
<1> QED
  BY <1>2, <1>8, <1>9, <1>15 DEF S, e, c

\* A discount within the bill is borne like the bill.
LEMMA ExactOfTotal ==
  ASSUME NEW in, Divisible(in), in.discount <= ItemsTotal(in) + in.service + in.vat
  PROVE  /\ AllocTotal(in) \in Nat
         /\ \A m \in Sharers(in) : Exact(in)[m] = Bears(in, m, AllocTotal(in))
<1> DEFINE S == Sharers(in)
           g == ItemsTotal(in) + in.service + in.vat
           d == in.discount
           cut == [m \in S |-> Cut(in, m)]
           a == AllocTotal(in)
<1>1. g \in Nat /\ d \in Nat /\ a \in Nat /\ g = a + d
  <2>1. ItemsTotal(in) \in Nat /\ in.service \in Nat /\ in.vat \in Nat /\ d \in Nat
    BY ItemsTotalIs DEF Divisible
  <2> QED
    BY <2>1 DEF AllocTotal
<1>2. \A m \in S : Cut(in, m) = 0 /\ cut[m] = 0
  BY CutIs
<1>3. SumFunctionOnSet(cut, S) = 0
  <2>1. IsFiniteSet(S)
    BY SharersAre
  <2> HIDE DEF S, cut
  <2> QED
    BY <1>2, <2>1, SumZero
<1>4. \A m \in S : Exact(in)[m] = Bears(in, m, g) - Bears(in, m, d) + Cut(in, m)
                               - (IF m = in.creditor THEN SumFunctionOnSet(cut, S) ELSE 0)
  BY ExactIs
<1> HIDE DEF g, d, a, cut
<1>5. ASSUME NEW m \in S PROVE Exact(in)[m] = Bears(in, m, a)
  <2>1. Bears(in, m, a + d) = Bears(in, m, a) + Bears(in, m, d)
    BY <1>1, BearsIs
  <2>2. Bears(in, m, g) = Bears(in, m, a + d)
    BY <1>1
  <2>3. Bears(in, m, a) \in Nat /\ Bears(in, m, d) \in Nat
    BY <1>1, BearsIs
  <2> HIDE DEF S
  <2> QED
    BY <1>2, <1>3, <1>4, <2>1, <2>2, <2>3
<1> QED
  BY <1>1, <1>5 DEF a

-----------------------------------------------------------------------------
(* The rounding. *)

Fraction(in) == [m \in Sharers(in) |-> Exact(in)[m] % Scale(in)]
Base(in) == [m \in Sharers(in) |-> Exact(in)[m] \div Scale(in)]
Remaining(in) == AllocTotal(in) - SumFunctionOnSet(Base(in), Sharers(in))
Order(in) == {q \in Sharers(in) \X Sharers(in) : Precedes(in, Fraction(in), q[1], q[2])}
RoundedUp(in) == FirstOf(Order(in), Sharers(in), Remaining(in))

\* CalculateAllocation, written with the first ranks of an order.
LEMMA RoundingIs ==
  ASSUME NEW in, Divisible(in)
  PROVE  CalculateAllocation(in) =
           [m \in Sharers(in) |-> IF m \in RoundedUp(in) THEN Base(in)[m] + 1 ELSE Base(in)[m]]
<1> DEFINE e == Exact(in)
           S == Sharers(in)
<1>1. DOMAIN e = S
  BY ExactIs
<1>2. CalculateAllocation(in) = Rounded(in, e)
  <2> DEFINE x == Rounded(in, e)
  <2>1. {Rounded(in, exact) : exact \in {Exact(in)}} = {x}
    OBVIOUS
  <2> HIDE DEF x
  <2>2. CalculateAllocation(in) = CHOOSE shares \in {x} : TRUE
    BY <2>1 DEF CalculateAllocation
  <2>3. CalculateAllocation(in) = x
    BY <2>2
  <2> QED
    BY <2>3 DEF x
<1>3. \A m \in S : {n \in S : Precedes(in, Fraction(in), n, m)} = Before(Order(in), S, m)
  BY DEF Before, Order
<1>4. Total(Base(in)) = SumFunctionOnSet(Base(in), S)
  BY DEF Total, SumFunction, Base
<1>5. [m \in DOMAIN e |-> e[m] % Scale(in)] = Fraction(in) /\ [m \in DOMAIN e |-> e[m] \div Scale(in)] = Base(in)
  BY <1>1 DEF Fraction, Base
<1>6. Rounded(in, e) = [m \in DOMAIN e |->
        IF Cardinality({n \in DOMAIN e : Precedes(in, Fraction(in), n, m)})
           < AllocTotal(in) - Total(Base(in))
        THEN Base(in)[m] + 1 ELSE Base(in)[m]]
  BY <1>5 DEF Rounded
<1> HIDE DEF e, S
<1>7. \A m \in S : m \in RoundedUp(in) <=>
        Cardinality({n \in S : Precedes(in, Fraction(in), n, m)}) < AllocTotal(in) - Total(Base(in))
  BY <1>3, <1>4 DEF RoundedUp, FirstOf, Remaining, S
<1>8. Rounded(in, e) =
        [m \in S |-> IF m \in RoundedUp(in) THEN Base(in)[m] + 1 ELSE Base(in)[m]]
  BY <1>1, <1>6, <1>7
<1> QED
  BY <1>2, <1>8 DEF S, e

\* An exact share is its base and a fraction.
LEMMA FractionsAre ==
  ASSUME NEW in, Divisible(in)
  PROVE  \A m \in Sharers(in) :
           /\ Base(in)[m] \in Int
           /\ Fraction(in)[m] \in 0..(Scale(in) - 1)
           /\ Exact(in)[m] = Base(in)[m] * Scale(in) + Fraction(in)[m]
<1> SUFFICES ASSUME NEW m \in Sharers(in)
             PROVE  /\ Base(in)[m] \in Int
                    /\ Fraction(in)[m] \in 0..(Scale(in) - 1)
                    /\ Exact(in)[m] = Base(in)[m] * Scale(in) + Fraction(in)[m]
  OBVIOUS
<1> DEFINE e == Exact(in)[m]
           c == Scale(in)
<1>1. e \in Int /\ c \in Nat /\ c > 0
  BY ExactAddUp, ScaleIs
<1>2. Base(in)[m] = e \div c /\ Fraction(in)[m] = e % c
  BY DEF Base, Fraction
<1> HIDE DEF e, c
<1>3. e \div c \in Int /\ e % c \in 0..(c - 1) /\ e = (e \div c) * c + (e % c)
  BY <1>1, DivMod
<1> QED
  BY <1>2, <1>3 DEF e, c

\* Larger fractions first, then smaller ids: a strict total order.
LEMMA OrderIsOrder ==
  ASSUME NEW in, Divisible(in)
  PROVE  /\ IsOrder(Order(in), Sharers(in))
         /\ \A m, n \in Sharers(in) :
              Fraction(in)[m] > Fraction(in)[n] => <<m, n>> \in Order(in)
         /\ \A m, n \in Sharers(in) :
              Fraction(in)[m] = Fraction(in)[n] /\ m < n => <<m, n>> \in Order(in)
<1> DEFINE S == Sharers(in)
           f == Fraction(in)
           R == Order(in)
<1>1. \A m \in S : m \in Nat /\ f[m] \in Int
  <2>1. Scale(in) \in Nat
    BY ScaleIs
  <2> QED
    BY <2>1, SharersAre, FractionsAre
<1>2. \A m, n \in S : <<m, n>> \in R <=> f[m] > f[n] \/ (f[m] = f[n] /\ m < n)
  BY DEF Order, Precedes
<1> HIDE DEF S, f, R
<1> QED
  BY <1>1, <1>2 DEF IsOrder, S, f, R

\* As many members are rounded up as the sum of the bases misses the total by:
\* no less than none, fewer than all, and only members with a fraction.
LEMMA RoundedUpAre ==
  ASSUME NEW in, Divisible(in)
  PROVE  /\ Remaining(in) \in Nat
         /\ Remaining(in) < Cardinality(Sharers(in))
         /\ RoundedUp(in) \in SUBSET Sharers(in)
         /\ \A m \in RoundedUp(in) : Fraction(in)[m] > 0
         /\ \A m \in RoundedUp(in), n \in Sharers(in) :
              <<n, m>> \in Order(in) => n \in RoundedUp(in)
         /\ SumFunctionOnSet(CalculateAllocation(in), Sharers(in)) = AllocTotal(in)
<1> DEFINE S == Sharers(in)
           c == Scale(in)
           e == Exact(in)
           b == Base(in)
           f == Fraction(in)
           n == Remaining(in)
           R == Order(in)
           shares == CalculateAllocation(in)
           a == AllocTotal(in)
<1>1. IsFiniteSet(S) /\ c \in Nat /\ c > 0 /\ S # {}
  BY SharersAre, ScaleIs
<1>2. \A m \in S : /\ b[m] \in Int /\ f[m] \in Int /\ e[m] \in Int
                    /\ f[m] \in 0..(c - 1) /\ e[m] = f[m] + c * b[m]
  <2> SUFFICES ASSUME NEW m \in S
               PROVE  /\ b[m] \in Int /\ f[m] \in Int /\ e[m] \in Int
                      /\ f[m] \in 0..(c - 1) /\ e[m] = f[m] + c * b[m]
    OBVIOUS
  <2>1. b[m] \in Int /\ f[m] \in 0..(c - 1) /\ e[m] = b[m] * c + f[m] /\ e[m] \in Int
    BY FractionsAre, ExactAddUp
  <2> HIDE DEF b, f, e, c
  <2> QED
    BY <1>1, <2>1
<1>3. SumFunctionOnSet(e, S) = a * c
  BY ExactAddUp
<1>4. IsOrder(R, S) /\ \A x, y \in S : f[y] > f[x] => <<y, x>> \in R
  BY OrderIsOrder
<1>5. n = a - SumFunctionOnSet(b, S) /\ RoundedUp(in) = FirstOf(R, S, n)
  BY DEF Remaining, RoundedUp
<1>6. shares = [m \in S |-> IF m \in FirstOf(R, S, n) THEN b[m] + 1 ELSE b[m]]
  BY RoundingIs DEF RoundedUp
<1>7. a \in Int
  BY ItemsTotalIs DEF AllocTotal, Divisible
<1> HIDE DEF S, c, e, b, f, n, R, shares, a
<1>8. SumFunctionOnSet(e, S) = SumFunctionOnSet(f, S) + c * SumFunctionOnSet(b, S)
  BY <1>1, <1>2, SumLinear
<1>9. SumFunctionOnSet(b, S) \in Int /\ SumFunctionOnSet(f, S) \in Int
  BY <1>1, <1>2, SumRemove
<1>10. n \in Int /\ n * c = SumFunctionOnSet(f, S) /\ (n + 1) * c = SumFunctionOnSet(f, S) + c
  <2> DEFINE sb == SumFunctionOnSet(b, S)
             sf == SumFunctionOnSet(f, S)
  <2>1. sb \in Int /\ sf \in Int /\ n = a - sb /\ a * c = sf + c * sb
    BY <1>3, <1>5, <1>8, <1>9
  <2> HIDE DEF sb, sf
  <2>2. n \in Int /\ (a - sb) * c = a * c - c * sb /\ (n + 1) * c = n * c + c
    BY <1>1, <1>7, <2>1
  <2>3. a * c \in Int /\ c * sb \in Int
    BY <1>1, <1>7, <2>1
  <2>4. n * c = sf
    BY <2>1, <2>2, <2>3
  <2> QED
    BY <2>2, <2>4 DEF sf
<1>11. n \in Nat /\ n <= Cardinality(S) /\ \A m \in FirstOf(R, S, n) : f[m] > 0
  <2>1. n * c <= SumFunctionOnSet(f, S) /\ SumFunctionOnSet(f, S) < (n + 1) * c
    BY <1>1, <1>9, <1>10
  <2>2. \A m \in S : f[m] \in 0..(c - 1)
    BY <1>2
  <2> QED
    BY <1>1, <1>4, <1>10, <2>1, <2>2, LargestRemainder
<1>12. n < Cardinality(S)
  <2> DEFINE k == Cardinality(S)
             most == [m \in S |-> c - 1]
  <2>1. k \in Nat /\ k > 0
    BY <1>1, FS_CardinalityType, FS_EmptySet
  <2>2. \A m \in S : most[m] = c - 1 /\ most[m] \in Int /\ f[m] \in Int /\ f[m] <= most[m]
    BY <1>1, <1>2
  <2>3. c - 1 \in Int
    BY <1>1
  <2> HIDE DEF most
  <2>4. SumFunctionOnSet(f, S) <= SumFunctionOnSet(most, S)
    BY <1>1, <2>2, SumMonotone
  <2>5. SumFunctionOnSet(most, S) = (c - 1) * k
    BY <1>1, <2>2, <2>3, SumConstant
  <2> HIDE DEF k
  <2>6. (c - 1) * k = k * c - k /\ k * c \in Int
    BY <1>1, <2>1
  <2>7. n * c < k * c
    BY <1>9, <1>10, <2>1, <2>4, <2>5, <2>6
  <2> QED
    BY <1>1, <1>10, <2>1, <2>7, MulCancel DEF k
<1>13. \A m \in FirstOf(R, S, n), k \in S : <<k, m>> \in R => k \in FirstOf(R, S, n)
  BY <1>1, <1>4, <1>10, FirstsAreFirst
<1>14. SumFunctionOnSet(shares, S) = SumFunctionOnSet(b, S) + n
  <2>1. \A m \in S : shares[m] = IF m \in FirstOf(R, S, n) THEN b[m] + 1 ELSE b[m]
    BY <1>6
  <2>2. \A m \in S : b[m] \in Int
    BY <1>2
  <2> QED
    BY <1>1, <1>4, <1>11, <2>1, <2>2, HandedOut
<1>15. SumFunctionOnSet(shares, S) = a
  BY <1>5, <1>7, <1>9, <1>14
<1>16. FirstOf(R, S, n) \in SUBSET S
  BY DEF FirstOf
<1> QED
  BY <1>5, <1>11, <1>12, <1>13, <1>15, <1>16 DEF S, f, n, R, shares, a

\* No exact share that is not negative is rounded to one that is, and who has
\* none pays nothing.
LEMMA SharesAre ==
  ASSUME NEW in, Divisible(in)
  PROVE  \A m \in Sharers(in) :
           /\ CalculateAllocation(in)[m] \in Int
           /\ Exact(in)[m] >= 0 => CalculateAllocation(in)[m] >= 0
           /\ Exact(in)[m] = 0 => CalculateAllocation(in)[m] = 0
<1> SUFFICES ASSUME NEW m \in Sharers(in)
             PROVE  /\ CalculateAllocation(in)[m] \in Int
                    /\ Exact(in)[m] >= 0 => CalculateAllocation(in)[m] >= 0
                    /\ Exact(in)[m] = 0 => CalculateAllocation(in)[m] = 0
  OBVIOUS
<1> DEFINE e == Exact(in)[m]
           b == Base(in)[m]
           f == Fraction(in)[m]
           c == Scale(in)
           share == CalculateAllocation(in)[m]
<1>1. c \in Nat /\ c > 0 /\ b \in Int /\ f \in 0..(c - 1) /\ e = b * c + f
  BY ScaleIs, FractionsAre
<1>2. share = IF m \in RoundedUp(in) THEN b + 1 ELSE b
  BY RoundingIs
<1>3. m \in RoundedUp(in) => f > 0
  BY RoundedUpAre
<1> HIDE DEF e, b, f, c, share
<1>4. e >= 0 => b >= 0
  <2> SUFFICES ASSUME e >= 0, b < 0 PROVE FALSE
    BY <1>1
  <2>1. b + 1 <= 0 /\ b + 1 \in Int /\ (b + 1) * c = b * c + c /\ b * c \in Int
    BY <1>1
  <2>2. (b + 1) * c <= 0 * c
    BY <1>1, <2>1, MulMonotone
  <2> QED
    BY <1>1, <2>1, <2>2
<1>5. e = 0 => b = 0 /\ f = 0
  <2> SUFFICES ASSUME e = 0 PROVE b = 0 /\ f = 0
    OBVIOUS
  <2>1. b >= 0
    BY <1>4
  <2>2. b <= 0
    <3> SUFFICES ASSUME b > 0 PROVE FALSE
      BY <1>1
    <3>1. 1 <= b /\ 1 * c <= b * c /\ b * c \in Int
      BY <1>1, MulMonotone
    <3> QED
      BY <1>1, <3>1
  <2>3. b = 0
    BY <1>1, <2>1, <2>2
  <2> QED
    BY <1>1, <2>3
<1>6. share \in Int /\ (e >= 0 => share >= 0) /\ (e = 0 => share = 0)
  BY <1>1, <1>2, <1>3, <1>4, <1>5
<1> QED
  BY <1>6 DEF e, share

-----------------------------------------------------------------------------
(* The fairness of the rounding. *)

\* A fraction that nobody rounded up is below, and nobody else above.
LEMMA ThresholdExists ==
  ASSUME NEW in, Divisible(in)
  PROVE  \E t \in 0..Scale(in) :
           /\ \A m \in RoundedUp(in) : Fraction(in)[m] >= t
           /\ \A m \in Sharers(in) \ RoundedUp(in) : Fraction(in)[m] <= t
<1> DEFINE S == Sharers(in)
           A == RoundedUp(in)
           f == Fraction(in)
           c == Scale(in)
<1>1. c \in Nat /\ \A m \in S : f[m] \in 0..(c - 1)
  BY ScaleIs, FractionsAre
<1>2. A \in SUBSET S /\ \A m \in A, n \in S : f[n] > f[m] => n \in A
  BY RoundedUpAre, OrderIsOrder
<1> HIDE DEF S, A, f, c
<1>3. CASE A = {}
  <2>1. c \in 0..c /\ \A m \in S \ A : f[m] <= c
    BY <1>1
  <2> QED
    BY <1>3, <2>1 DEF S, A, f, c
<1>4. CASE A # {}
  <2> DEFINE N == {f[m] : m \in A}
  <2>1. N \in SUBSET Nat /\ N # {}
    BY <1>1, <1>2, <1>4
  <2> HIDE DEF N
  <2>2. PICK t \in N : \A u \in N : t <= u
    BY <2>1, LeastExists
  <2>3. PICK k \in A : t = f[k]
    BY DEF N
  <2>4. t \in 0..c /\ \A m \in A : f[m] >= t
    BY <1>1, <1>2, <2>1, <2>2, <2>3 DEF N
  <2>5. ASSUME NEW m \in S \ A PROVE f[m] <= t
    BY <1>1, <1>2, <2>3
  <2> QED
    BY <2>4, <2>5 DEF S, A, f, c
<1> QED
  BY <1>3, <1>4

\* What an exchange costs a member: off is how far the share is from the exact
\* one, before it.
LEMMA ExchangeCosts ==
  ASSUME NEW c \in Nat, NEW f \in 0..(c - 1), NEW t \in 0..c, NEW d \in -1..1,
         NEW up \in BOOLEAN, up => f >= t, ~up => f <= t,
         NEW off \in Int, off = IF up THEN c - f ELSE -f
  PROVE  (IF off < 0 THEN -off ELSE off) + (c - 2 * t) * d
         <= IF off + d * c < 0 THEN -(off + d * c) ELSE off + d * c
<1>1. d = -1 \/ d = 0 \/ d = 1
  OBVIOUS
<1>2. CASE d = -1
  BY <1>2
<1>3. CASE d = 0
  BY <1>3
<1>4. CASE d = 1
  BY <1>4
<1> QED
  BY <1>1, <1>2, <1>3, <1>4

\* An exchange costs all members together no less than it gains.
LEMMA ExchangesGainNothing ==
  ASSUME NEW in, Divisible(in), NEW d \in [Sharers(in) -> -1..1],
         SumFunctionOnSet(d, Sharers(in)) = 0,
         NEW a, a.scale = Scale(in), a.exact = Exact(in),
         NEW after, after = [m \in Sharers(in) |-> CalculateAllocation(in)[m] + d[m]]
  PROVE  Distance(a, after) >= Distance(a, CalculateAllocation(in))
<1> DEFINE S == Sharers(in)
           c == Scale(in)
           e == Exact(in)
           b == Base(in)
           f == Fraction(in)
           A == RoundedUp(in)
           shares == CalculateAllocation(in)
           off == [m \in S |-> shares[m] * c - e[m]]
           old == [m \in S |-> IF off[m] < 0 THEN -off[m] ELSE off[m]]
           new == [m \in S |-> IF off[m] + d[m] * c < 0 THEN -(off[m] + d[m] * c)
                               ELSE off[m] + d[m] * c]
<1>1. IsFiniteSet(S) /\ c \in Nat
  BY SharersAre, ScaleIs
<1>2. PICK t \in 0..c : (\A m \in A : f[m] >= t) /\ \A m \in S \ A : f[m] <= t
  BY ThresholdExists
<1>3. \A m \in S : /\ b[m] \in Int /\ f[m] \in 0..(c - 1) /\ e[m] = b[m] * c + f[m]
                    /\ e[m] \in Int /\ shares[m] \in Int
                    /\ shares[m] = IF m \in A THEN b[m] + 1 ELSE b[m]
  BY FractionsAre, ExactAddUp, SharesAre, RoundingIs
<1>4. Distance(a, shares) = SumFunctionOnSet(old, S)
  <2>1. DOMAIN shares = S
    BY RoundingIs
  <2> DEFINE r == [m \in DOMAIN shares |->
                    LET o == shares[m] * a.scale - a.exact[m] IN IF o < 0 THEN -o ELSE o]
  <2>2. r = old /\ DOMAIN r = S
    BY <2>1
  <2>3. Distance(a, shares) = SumFunctionOnSet(r, DOMAIN r)
    BY DEF Distance, Total, SumFunction
  <2> QED
    BY <2>2, <2>3
<1>5. Distance(a, after) = SumFunctionOnSet(new, S)
  <2> DEFINE r == [m \in DOMAIN after |->
                    LET o == after[m] * a.scale - a.exact[m] IN IF o < 0 THEN -o ELSE o]
  <2>1. DOMAIN r = S
    OBVIOUS
  <2>2. ASSUME NEW m \in S PROVE r[m] = new[m]
    <3>1. after[m] = shares[m] + d[m] /\ off[m] = shares[m] * c - e[m]
      OBVIOUS
    <3>2. shares[m] \in Int /\ d[m] \in Int /\ e[m] \in Int
      BY <1>3
    <3> HIDE DEF shares, c, e
    <3>3. after[m] * c - e[m] = off[m] + d[m] * c
      <4>1. (shares[m] + d[m]) * c = shares[m] * c + d[m] * c
        BY <1>1, <3>2
      <4>2. shares[m] * c \in Int /\ d[m] * c \in Int
        BY <1>1, <3>2
      <4> QED
        BY <3>1, <3>2, <4>1, <4>2
    <3>4. r[m] = IF after[m] * c - e[m] < 0 THEN -(after[m] * c - e[m])
                 ELSE after[m] * c - e[m]
      BY DEF c, e
    <3>5. new[m] = IF off[m] + d[m] * c < 0 THEN -(off[m] + d[m] * c)
                   ELSE off[m] + d[m] * c
      OBVIOUS
    <3> HIDE DEF r, new, off
    <3> QED
      BY <3>3, <3>4, <3>5
  <2>3. r = new
    BY <2>2
  <2>4. Distance(a, after) = SumFunctionOnSet(r, DOMAIN r)
    BY DEF Distance, Total, SumFunction
  <2> QED
    BY <2>1, <2>3, <2>4
<1>6. ASSUME NEW m \in S
      PROVE  /\ off[m] \in Int
             /\ off[m] = IF m \in A THEN c - f[m] ELSE -f[m]
  <2>1. off[m] = shares[m] * c - e[m]
    OBVIOUS
  <2> DEFINE x == b[m]
             y == f[m]
  <2>2. x \in Int /\ y \in 0..(c - 1) /\ e[m] = x * c + y
        /\ shares[m] = IF m \in A THEN x + 1 ELSE x
    BY <1>3
  <2> HIDE DEF shares, e, off, c, x, y
  <2>3. x * c \in Int /\ (x + 1) * c = x * c + c /\ y \in Int
    BY <1>1, <2>2
  <2>4. off[m] \in Int /\ off[m] = IF m \in A THEN c - y ELSE -y
    BY <1>1, <2>1, <2>2, <2>3
  <2> QED
    BY <2>4 DEF y
<1> DEFINE k == c - 2 * t
           low == [m \in S |-> old[m] + k * d[m]]
<1>7. k \in Int
  BY <1>1
<1>8. ASSUME NEW m \in S
      PROVE  /\ old[m] \in Int /\ new[m] \in Int /\ d[m] \in Int
             /\ low[m] = old[m] + k * d[m] /\ low[m] \in Int /\ low[m] <= new[m]
  <2>1. d[m] \in -1..1 /\ f[m] \in 0..(c - 1) /\ (m \in A) \in BOOLEAN
    BY <1>3
  <2>2. (m \in A => f[m] >= t) /\ (~(m \in A) => f[m] <= t)
    BY <1>2
  <2>3. /\ old[m] = IF off[m] < 0 THEN -off[m] ELSE off[m]
        /\ new[m] = IF off[m] + d[m] * c < 0 THEN -(off[m] + d[m] * c)
                    ELSE off[m] + d[m] * c
        /\ low[m] = old[m] + k * d[m]
    OBVIOUS
  <2> DEFINE o == off[m]
             z == d[m]
             y == f[m]
             up == m \in A
  <2>4. /\ o \in Int /\ z \in -1..1 /\ y \in 0..(c - 1) /\ up \in BOOLEAN
        /\ o = (IF up THEN c - y ELSE -y) /\ (up => y >= t) /\ (~up => y <= t)
    BY <1>6, <2>1, <2>2
  <2>5. /\ old[m] = IF o < 0 THEN -o ELSE o
        /\ new[m] = IF o + z * c < 0 THEN -(o + z * c) ELSE o + z * c
        /\ low[m] = old[m] + k * z
    BY <2>3
  <2> HIDE DEF o, y, z, up, c, old, new, low, off, k
  <2>6. (IF o < 0 THEN -o ELSE o) + (c - 2 * t) * z
        <= IF o + z * c < 0 THEN -(o + z * c) ELSE o + z * c
    BY <1>1, <2>4, ExchangeCosts
  <2>7. z * c \in Int /\ k * z \in Int /\ z \in Int
    BY <1>1, <1>7, <2>4
  <2>8. low[m] <= new[m]
    BY <2>5, <2>6 DEF k
  <2>9. old[m] \in Int /\ new[m] \in Int /\ low[m] \in Int
    BY <2>4, <2>5, <2>7
  <2> QED
    BY <2>5, <2>7, <2>8, <2>9 DEF z
<1> HIDE DEF S, old, new, low, k
<1>9. SumFunctionOnSet(low, S) = SumFunctionOnSet(old, S) + k * SumFunctionOnSet(d, S)
  BY <1>1, <1>7, <1>8, SumLinear
<1>10. SumFunctionOnSet(low, S) <= SumFunctionOnSet(new, S)
  BY <1>1, <1>8, SumMonotone
<1>11. SumFunctionOnSet(d, S) = 0
  BY DEF S
<1>12. SumFunctionOnSet(old, S) \in Int /\ SumFunctionOnSet(new, S) \in Int
  BY <1>1, <1>8, SumRemove
<1>13. SumFunctionOnSet(low, S) = SumFunctionOnSet(old, S)
  BY <1>7, <1>9, <1>11, <1>12
<1> QED
  BY <1>4, <1>5, <1>10, <1>12, <1>13

\* The inputs TLC is given are inputs that CalculateAllocation does not refuse.
LEMMA SplitsAreDivisible ==
  ASSUME NEW in \in Splits
  PROVE  Divisible(in)
<1>1. in.creditor \in Members /\ {in.service, in.vat, in.discount} \subseteq Nat
  BY AllocationAssumption
<1>2. Len(in.items) \in Nat /\ DOMAIN in.items = 1..Len(in.items)
  BY AllocationAssumption DEF IsList
<1>3. ASSUME NEW i \in DOMAIN in.items
      PROVE  /\ in.items[i].amount \in Nat
             /\ \A m \in DOMAIN in.items[i].weights : in.items[i].weights[m] \in Nat \ {0}
             /\ DOMAIN in.items[i].weights \in (SUBSET Members) \ {{}}
  <2> DEFINE w == in.items[i].weights
  <2>1. /\ in.items[i].amount \in Nat /\ IsWeighting(w)
        /\ DOMAIN w \in (SUBSET Members) \ {{}}
    BY AllocationAssumption
  <2> HIDE DEF w
  <2>2. \A m \in DOMAIN w : w[m] \in Nat \ {0}
    BY <2>1 DEF IsWeighting
  <2> QED
    BY <2>1, <2>2 DEF w
<1> QED
  BY <1>1, <1>2, <1>3 DEF Divisible

\* Who is before another with the same exact share pays no less.
LEMMA EqualsAreOrdered ==
  ASSUME NEW in, Divisible(in), NEW m \in Sharers(in), NEW n \in Sharers(in),
         Exact(in)[m] = Exact(in)[n], m < n
  PROVE  CalculateAllocation(in)[m] >= CalculateAllocation(in)[n]
<1>1. Fraction(in)[m] = Fraction(in)[n] /\ Base(in)[m] = Base(in)[n] /\ Base(in)[m] \in Int
  BY FractionsAre DEF Fraction, Base
<1>2. <<m, n>> \in Order(in)
  BY <1>1, OrderIsOrder
<1>3. n \in RoundedUp(in) => m \in RoundedUp(in)
  BY <1>2, RoundedUpAre
<1> QED
  BY <1>1, <1>3, RoundingIs

\* The internal checks of CalculateAllocation never fail: nobody but the creditor has a
\* negative exact share, the exact shares make the total, and fewer VND remain than
\* there are members ("allocation invariant broken", three times).
THEOREM InternalChecksHold ==
  \A in \in Splits :
    /\ \A m \in Sharers(in) \ {in.creditor} : Exact(in)[m] >= 0
    /\ Total(Exact(in)) = AllocTotal(in) * Scale(in)
    /\ AllocTotal(in) - Total([m \in Sharers(in) |-> Exact(in)[m] \div Scale(in)])
         \in 0..(Cardinality(Sharers(in)) - 1)
<1> SUFFICES ASSUME NEW in \in Splits
             PROVE  /\ \A m \in Sharers(in) \ {in.creditor} : Exact(in)[m] >= 0
                    /\ Total(Exact(in)) = AllocTotal(in) * Scale(in)
                    /\ AllocTotal(in) - Total(Base(in)) \in 0..(Cardinality(Sharers(in)) - 1)
  BY DEF Base
<1>1. Divisible(in)
  BY SplitsAreDivisible
<1>2. DOMAIN Exact(in) = Sharers(in) /\ DOMAIN Base(in) = Sharers(in)
  BY <1>1, ExactIs DEF Base
<1>3. Total(Exact(in)) = AllocTotal(in) * Scale(in)
  BY <1>1, <1>2, ExactAddUp DEF Total, SumFunction
<1>4. AllocTotal(in) - Total(Base(in)) = Remaining(in)
  BY <1>2 DEF Remaining, Total, SumFunction
<1>5. Remaining(in) \in 0..(Cardinality(Sharers(in)) - 1)
  <2>1. Cardinality(Sharers(in)) \in Nat
    BY <1>1, SharersAre, FS_CardinalityType
  <2> QED
    BY <1>1, <2>1, RoundedUpAre
<1> QED
  BY <1>1, <1>3, <1>4, <1>5, ExactAddUp

\* The shares make the total, no exchange of VND between members comes closer to the
\* exact shares, and of members with equal exact shares none pays more than one whose
\* id comes before: CalculateAllocation.
THEOREM RoundsFairly == RoundingIsFair
<1> SUFFICES ASSUME NEW a \in Divided
             PROVE  /\ Total(a.shares) = a.total
                    /\ \A d \in {d \in [DOMAIN a.shares -> -1..1] : Total(d) = 0} :
                         Distance(a, [m \in DOMAIN a.shares |-> a.shares[m] + d[m]])
                         >= Distance(a, a.shares)
                    /\ \A m, n \in DOMAIN a.shares :
                         a.exact[m] = a.exact[n] /\ m < n => a.shares[m] >= a.shares[n]
  BY DEF RoundingIsFair
<1>1. PICK in \in Splits : a = [total |-> AllocTotal(in), scale |-> Scale(in),
                                exact |-> Exact(in), shares |-> CalculateAllocation(in)]
  BY DEF Divided
<1>2. /\ a.total = AllocTotal(in) /\ a.scale = Scale(in) /\ a.exact = Exact(in)
      /\ a.shares = CalculateAllocation(in)
  BY <1>1
<1>3. Divisible(in)
  BY SplitsAreDivisible
<1>4. DOMAIN a.shares = Sharers(in)
  BY <1>2, <1>3, RoundingIs
<1>5. Total(a.shares) = a.total
  BY <1>2, <1>3, <1>4, RoundedUpAre DEF Total, SumFunction
<1>6. ASSUME NEW d \in [DOMAIN a.shares -> -1..1], Total(d) = 0
      PROVE  Distance(a, [m \in DOMAIN a.shares |-> a.shares[m] + d[m]])
             >= Distance(a, a.shares)
  <2> DEFINE after == [m \in DOMAIN a.shares |-> a.shares[m] + d[m]]
  <2>1. after = [m \in Sharers(in) |-> CalculateAllocation(in)[m] + d[m]]
    BY <1>2, <1>4
  <2>2. d \in [Sharers(in) -> -1..1] /\ SumFunctionOnSet(d, Sharers(in)) = 0
    BY <1>4, <1>6 DEF Total, SumFunction
  <2> HIDE DEF after
  <2>3. Distance(a, after) >= Distance(a, CalculateAllocation(in))
    BY <1>2, <1>3, <2>1, <2>2, ExchangesGainNothing
  <2> QED
    BY <1>2, <2>3 DEF after
<1>7. ASSUME NEW m \in DOMAIN a.shares, NEW n \in DOMAIN a.shares,
             a.exact[m] = a.exact[n], m < n
      PROVE  a.shares[m] >= a.shares[n]
  BY <1>2, <1>3, <1>4, <1>7, EqualsAreOrdered
<1> QED
  BY <1>5, <1>6, <1>7

-----------------------------------------------------------------------------
(* The page of expenses. *)

\* The part of an item that m has is a quotient of these, rounded down to
\* ItemBase; what is left over is a fraction with the common denominator.
PartOf(in, i, m) == in.items[i].amount * in.items[i].weights[m]
ItemBase(in, m) == [i \in SharedItems(in, m) |-> PartOf(in, i, m) \div Weight(in.items[i])]
LeftOver(in, m) ==
  [i \in SharedItems(in, m) |-> (PartOf(in, i, m) % Weight(in.items[i]))
                               * (Common(in) \div Weight(in.items[i]))]
Residual(in, m) ==
  ItemSubtotal(in, m) - SumFunctionOnSet(ItemBase(in, m), SharedItems(in, m))
ItemOrder(in, m) ==
  {q \in SharedItems(in, m) \X SharedItems(in, m) :
     LET left == (PartOf(in, q[1], m) % Weight(in.items[q[1]])) * Weight(in.items[q[2]])
         right == (PartOf(in, q[2], m) % Weight(in.items[q[2]])) * Weight(in.items[q[1]])
     IN  left > right \/ (left = right /\ q[1] < q[2])}

\* Two fractions compare as their numerators over a common denominator do.
LEMMA CrossMultiplied ==
  ASSUME NEW r \in Nat, NEW s \in Nat, NEW w \in Nat \ {0}, NEW v \in Nat \ {0},
         NEW k \in Nat \ {0}, NEW l \in Nat \ {0}, k * w = l * v
  PROVE  /\ r * v > s * w <=> r * k > s * l
         /\ r * v = s * w <=> r * k = s * l
<1> DEFINE c == k * w
           p == k * l
           a == r * v
           b == s * w
           f == r * k
           g == s * l
<1>1. c \in Nat \ {0} /\ p \in Nat \ {0}
  BY MulPositive
<1>2. a \in Nat /\ b \in Nat /\ f \in Nat /\ g \in Nat
  OBVIOUS
<1>3. a * p = f * c
  <2>1. (r * v) * (k * l) = (r * k) * (l * v)
    OBVIOUS
  <2> QED
    BY <2>1
<1>4. b * p = g * c
  <2>1. (s * w) * (k * l) = (s * l) * (k * w)
    OBVIOUS
  <2> QED
    BY <2>1
<1> HIDE DEF c, p, a, b, f, g
<1>5. ASSUME a > b PROVE f > g
  <2>1. b + 1 <= a /\ (b + 1) * p <= a * p /\ (b + 1) * p = b * p + p
    BY <1>1, <1>2, <1>5, MulMonotone
  <2>2. b * p \in Int /\ b * p < a * p /\ a * p \in Int
    BY <1>1, <1>2, <2>1
  <2>3. g * c < f * c
    BY <1>3, <1>4, <2>2
  <2> QED
    BY <1>1, <1>2, <2>3, MulCancel
<1>6. ASSUME b > a PROVE g > f
  <2>1. a + 1 <= b /\ (a + 1) * p <= b * p /\ (a + 1) * p = a * p + p
    BY <1>1, <1>2, <1>6, MulMonotone
  <2>2. a * p \in Int /\ a * p < b * p /\ b * p \in Int
    BY <1>1, <1>2, <2>1
  <2>3. f * c < g * c
    BY <1>3, <1>4, <2>2
  <2> QED
    BY <1>1, <1>2, <2>3, MulCancel
<1>7. ASSUME a = b PROVE f = g
  <2>1. f * c = g * c
    BY <1>3, <1>4, <1>7
  <2>2. f * c \in Int /\ g * c \in Int
    BY <1>1, <1>2
  <2>3. ~ (f < g) /\ ~ (g < f)
    <3>1. ASSUME NEW x \in Nat, NEW y \in Nat, x < y, x * c = y * c PROVE FALSE
      <4>1. x + 1 <= y /\ (x + 1) * c <= y * c /\ (x + 1) * c = x * c + c
        BY <1>1, <3>1, MulMonotone
      <4>2. x * c \in Int /\ c > 0
        BY <1>1
      <4> QED
        BY <1>1, <3>1, <4>1, <4>2
    <3> QED
      BY <1>2, <2>1, <3>1
  <2> QED
    BY <1>2, <2>3
<1>8. (a > b <=> f > g) /\ (a = b <=> f = g)
  BY <1>2, <1>5, <1>6, <1>7
<1> QED
  BY <1>8 DEF a, b, f, g

\* The part of an item is a base and a rest, over the weight of the item.
LEMMA SharedAre ==
  ASSUME NEW in, Divisible(in), NEW m
  PROVE  /\ IsFiniteSet(SharedItems(in, m))
         /\ SharedItems(in, m) \in SUBSET (DOMAIN in.items)
         /\ SharedItems(in, m) \subseteq Nat
         /\ \A i \in SharedItems(in, m) :
              /\ PartOf(in, i, m) \in Nat /\ Weight(in.items[i]) \in Nat \ {0}
              /\ ItemBase(in, m)[i] \in Nat
              /\ PartOf(in, i, m) % Weight(in.items[i]) \in 0..(Weight(in.items[i]) - 1)
              /\ PartOf(in, i, m) = ItemBase(in, m)[i] * Weight(in.items[i])
                                    + (PartOf(in, i, m) % Weight(in.items[i]))
<1>1. SharedItems(in, m) \in SUBSET (DOMAIN in.items)
  BY DEF SharedItems
<1>2. DOMAIN in.items \subseteq Nat
  BY DEF Divisible
<1>3. ASSUME NEW i \in SharedItems(in, m)
      PROVE  /\ PartOf(in, i, m) \in Nat /\ Weight(in.items[i]) \in Nat \ {0}
             /\ ItemBase(in, m)[i] \in Nat
             /\ PartOf(in, i, m) % Weight(in.items[i]) \in 0..(Weight(in.items[i]) - 1)
             /\ PartOf(in, i, m) = ItemBase(in, m)[i] * Weight(in.items[i])
                                   + (PartOf(in, i, m) % Weight(in.items[i]))
  <2> DEFINE x == PartOf(in, i, m)
             w == Weight(in.items[i])
  <2>1. in.items[i].amount \in Nat /\ in.items[i].weights[m] \in Nat
    BY DEF SharedItems, Divisible
  <2>2. x \in Nat
    BY <2>1 DEF PartOf
  <2>3. w \in Nat \ {0}
    BY <1>1, WeightIsPositive
  <2>4. ItemBase(in, m)[i] = x \div w
    BY DEF ItemBase
  <2> HIDE DEF x, w
  <2>5. x \div w \in Nat /\ x % w \in 0..(w - 1) /\ x = (x \div w) * w + (x % w)
    BY <2>2, <2>3, DivMod, DivNat
  <2> QED
    BY <2>2, <2>3, <2>4, <2>5 DEF x, w
<1> QED
  BY <1>1, <1>2, <1>3, SharersAre, FS_Subset

\* What is left over of the items of a member is as many VND, and less than one
\* more, as the bases miss its item_subtotal by.
LEMMA LeftOversAre ==
  ASSUME NEW in, Divisible(in), NEW m
  PROVE  /\ \A i \in SharedItems(in, m) :
              /\ LeftOver(in, m)[i] \in 0..(Common(in) - 1)
              /\ LeftOver(in, m)[i] > 0 => PartOf(in, i, m) % Weight(in.items[i]) > 0
         /\ Residual(in, m) \in Int
         /\ SumFunctionOnSet(LeftOver(in, m), SharedItems(in, m)) \in Int
         /\ Residual(in, m) * Common(in) <= SumFunctionOnSet(LeftOver(in, m), SharedItems(in, m))
         /\ SumFunctionOnSet(LeftOver(in, m), SharedItems(in, m)) < (Residual(in, m) + 1) * Common(in)
<1> DEFINE S == SharedItems(in, m)
           c == Common(in)
           f == LeftOver(in, m)
           b == ItemBase(in, m)
           D == DOMAIN in.items
           e == [i \in D |-> Piece(in, i, m)]
<1>1. c \in Nat /\ c > 0 /\ IsFiniteSet(S) /\ IsFiniteSet(D) /\ S \in SUBSET D
  BY CommonDivides, SharedAre, SharersAre
<1>2. ASSUME NEW i \in S
      PROVE  /\ f[i] \in 0..(c - 1) /\ b[i] \in Nat /\ e[i] \in Int /\ e[i] = f[i] + c * b[i]
             /\ f[i] > 0 => PartOf(in, i, m) % Weight(in.items[i]) > 0
  <2> DEFINE w == Weight(in.items[i])
             k == c \div w
             x == PartOf(in, i, m)
             r == x % w
             y == b[i]
  <2>1. /\ w \in Nat \ {0} /\ x \in Nat /\ y \in Nat /\ r \in 0..(w - 1) /\ x = y * w + r
    BY SharedAre
  <2>2. k \in Nat \ {0} /\ k * w = c
    BY <1>1, CommonDivides
  <2>3. f[i] = r * k
    BY DEF LeftOver
  <2>4. e[i] = x * k
    BY <1>1 DEF Piece, PartOf, SharedItems
  <2> HIDE DEF w, k, x, r, y, e, f, c
  <2>5. x * k = r * k + c * y
    <3>1. (y * w + r) * k = (y * w) * k + r * k /\ (y * w) * k = (k * w) * y
      BY <2>1, <2>2
    <3>2. (k * w) * y = c * y /\ c * y \in Int /\ r * k \in Int
      BY <1>1, <2>1, <2>2
    <3> QED
      BY <2>1, <3>1, <3>2
  <2>6. r * k \in Nat /\ r * k <= c - 1
    <3>1. r + 1 \in Int /\ r + 1 <= w /\ (r + 1) * k <= w * k /\ (r + 1) * k = r * k + k
      BY <2>1, <2>2, MulMonotone
    <3>2. w * k = c /\ r * k \in Nat
      BY <2>1, <2>2
    <3> QED
      BY <1>1, <2>2, <3>1, <3>2
  <2>7. r * k > 0 => r > 0
    <3>1. r = 0 => r * k = 0
      BY <2>2
    <3> QED
      BY <2>1, <3>1
  <2>8. x * k \in Int
    BY <2>1, <2>2
  <2> QED
    BY <1>1, <2>1, <2>3, <2>4, <2>5, <2>6, <2>7, <2>8 DEF r, x, w, y
<1>3. Items(in, m) = SumFunctionOnSet(e, S)
  <2>1. Items(in, m) = SumFunctionOnSet(e, D)
    BY ItemsAre
  <2>2. (\A i \in S : e[i] \in Int) /\ \A i \in D \ S : e[i] = 0
    BY <1>2 DEF Piece, SharedItems
  <2> HIDE DEF S, D, e
  <2>3. SumFunctionOnSet(e, D) = SumFunctionOnSet(e, S)
    BY <1>1, <2>2, SumOutside
  <2> QED
    BY <2>1, <2>3
<1>4. Residual(in, m) = Items(in, m) \div c - SumFunctionOnSet(b, S)
  BY DEF Residual, ItemSubtotal
<1> HIDE DEF S, c, f, b, e
<1>5. SumFunctionOnSet(e, S) = SumFunctionOnSet(f, S) + c * SumFunctionOnSet(b, S)
  <2>1. \A i \in S : f[i] \in Int /\ b[i] \in Int /\ e[i] = f[i] + c * b[i]
    BY <1>1, <1>2
  <2> QED
    BY <1>1, <2>1, SumLinear
<1>6. SumFunctionOnSet(f, S) \in Int /\ SumFunctionOnSet(b, S) \in Int
  <2>1. \A i \in S : f[i] \in Int /\ b[i] \in Int
    BY <1>1, <1>2
  <2> QED
    BY <1>1, <2>1, SumRemove
<1> DEFINE sf == SumFunctionOnSet(f, S)
           sb == SumFunctionOnSet(b, S)
           n == Residual(in, m)
           x == Items(in, m)
<1>7. sf \in Int /\ sb \in Int /\ x \in Nat /\ x = sf + c * sb /\ n = x \div c - sb
  BY <1>3, <1>4, <1>5, <1>6, ItemsAre
<1> HIDE DEF sf, sb, n, x
<1>8. n \in Int /\ n * c <= sf /\ sf < (n + 1) * c
  <2> DEFINE q == x \div c
             r == x % c
  <2>1. q \in Int /\ r \in 0..(c - 1) /\ x = q * c + r /\ n = q - sb
    BY <1>1, <1>7, DivMod
  <2> HIDE DEF q, r
  <2>2. n \in Int /\ (q - sb) * c = q * c - c * sb /\ (n + 1) * c = n * c + c
    BY <1>1, <1>7, <2>1
  <2>3. q * c \in Int /\ c * sb \in Int /\ n * c \in Int
    BY <1>1, <1>7, <2>1, <2>2
  <2>4. sf = n * c + r
    BY <1>7, <2>1, <2>2, <2>3
  <2> QED
    BY <1>1, <2>1, <2>2, <2>3, <2>4
<1> QED
  BY <1>2, <1>7, <1>8 DEF S, c, f, sf, n

\* Items are ranked by their fractions, then by position: a strict total order.
LEMMA ItemOrderIsOrder ==
  ASSUME NEW in, Divisible(in), NEW m
  PROVE  /\ IsOrder(ItemOrder(in, m), SharedItems(in, m))
         /\ \A i, j \in SharedItems(in, m) :
              LeftOver(in, m)[i] > LeftOver(in, m)[j] => <<i, j>> \in ItemOrder(in, m)
<1> DEFINE S == SharedItems(in, m)
           f == LeftOver(in, m)
           R == ItemOrder(in, m)
<1>1. \A i \in S : i \in Nat /\ f[i] \in Nat
  <2>1. Common(in) \in Nat
    BY CommonDivides
  <2> QED
    BY <2>1, SharedAre, LeftOversAre
<1>2. ASSUME NEW i \in S, NEW j \in S
      PROVE  <<i, j>> \in R <=> f[i] > f[j] \/ (f[i] = f[j] /\ i < j)
  <2> DEFINE w == Weight(in.items[i])
             v == Weight(in.items[j])
             k == Common(in) \div w
             l == Common(in) \div v
             r == PartOf(in, i, m) % w
             s == PartOf(in, j, m) % v
  <2>1. w \in Nat \ {0} /\ v \in Nat \ {0} /\ r \in Nat /\ s \in Nat
    BY SharedAre
  <2>2. k \in Nat \ {0} /\ l \in Nat \ {0} /\ k * w = Common(in) /\ l * v = Common(in)
    BY SharedAre, CommonDivides
  <2>3. f[i] = r * k /\ f[j] = s * l
    BY DEF LeftOver
  <2>4. <<i, j>> \in R <=> r * v > s * w \/ (r * v = s * w /\ i < j)
    BY DEF ItemOrder
  <2> HIDE DEF w, v, k, l, r, s, f, R
  <2>5. (r * v > s * w <=> r * k > s * l) /\ (r * v = s * w <=> r * k = s * l)
    <3>1. k * w = l * v
      BY <2>2
    <3> QED
      BY <2>1, <2>2, <3>1, CrossMultiplied
  <2> QED
    BY <2>3, <2>4, <2>5
<1> HIDE DEF S, f, R
<1> QED
  BY <1>1, <1>2 DEF IsOrder, S, f, R

\* ItemShares, written with the first ranks of an order.
LEMMA ItemSharesAre ==
  ASSUME NEW in, Divisible(in), NEW m
  PROVE  ItemShares(in, m) =
           [i \in SharedItems(in, m) |->
              IF i \in FirstOf(ItemOrder(in, m), SharedItems(in, m), Residual(in, m))
              THEN ItemBase(in, m)[i] + 1 ELSE ItemBase(in, m)[i]]
<1> DEFINE S == SharedItems(in, m)
           part == [i \in S |-> in.items[i].amount * in.items[i].weights[m]]
           whole == [i \in S |-> Weight(in.items[i])]
           base == [i \in S |-> part[i] \div whole[i]]
           residual == ItemSubtotal(in, m) - Total(base)
           Ahead(i, j) ==
             LET left == (part[i] % whole[i]) * whole[j]
                 right == (part[j] % whole[j]) * whole[i]
             IN  left > right \/ (left = right /\ i < j)
           Rank(i) == 1 + Cardinality({j \in S : Ahead(j, i)})
           shown == [i \in S |-> IF Rank(i) <= residual THEN base[i] + 1 ELSE base[i]]
           R == ItemOrder(in, m)
           n == Residual(in, m)
<1>1. ItemShares(in, m) = shown
  BY DEF ItemShares
<1>2. base = ItemBase(in, m)
  BY DEF ItemBase, PartOf
<1>3. residual = n
  <2>1. DOMAIN base = S
    OBVIOUS
  <2>2. Total(base) = SumFunctionOnSet(base, S)
    <3> HIDE DEF base
    <3> QED
      BY <2>1 DEF Total, SumFunction
  <2> HIDE DEF base
  <2> QED
    BY <1>2, <2>2 DEF Residual
<1>4. ASSUME NEW i \in S PROVE {j \in S : Ahead(j, i)} = Before(R, S, i)
  <2>1. ASSUME NEW j \in S PROVE Ahead(j, i) <=> <<j, i>> \in R
    BY DEF ItemOrder, PartOf
  <2> HIDE DEF R, S
  <2> QED
    BY <2>1 DEF Before
<1>5. n \in Int /\ IsFiniteSet(S)
  BY LeftOversAre, SharedAre
<1>6. ASSUME NEW i \in S PROVE Rank(i) <= residual <=> i \in FirstOf(R, S, n)
  <2> DEFINE B == Before(R, S, i)
  <2>1. B \in SUBSET S
    BY DEF Before
  <2>2. Cardinality(B) \in Nat
    <3> HIDE DEF B, S
    <3> QED
      BY <1>5, <2>1, FS_Subset, FS_CardinalityType
  <2>3. Rank(i) = 1 + Cardinality(B)
    BY <1>4
  <2>4. i \in FirstOf(R, S, n) <=> Cardinality(B) < n
    BY DEF FirstOf
  <2> HIDE DEF Rank, residual, B, n, R, S
  <2> QED
    BY <1>3, <1>5, <2>2, <2>3, <2>4
<1>7. shown = [i \in S |-> IF i \in FirstOf(R, S, n) THEN base[i] + 1 ELSE base[i]]
  <2> HIDE DEF Rank, residual, base, n, R, S
  <2> QED
    BY <1>6
<1> HIDE DEF shown, base
<1> QED
  BY <1>1, <1>2, <1>7

\* The items a member is shown add up to its item_subtotal, which the allocation
\* rounded over all of them, and none is off by a VND: ListExpenseRows.
THEOREM ExpensesMatch == ExpensesAddUp
<1> SUFFICES ASSUME NEW in \in Splits, NEW m
             PROVE  /\ Total(ItemShares(in, m)) = ItemSubtotal(in, m)
                    /\ \A i \in DOMAIN ItemShares(in, m) :
                         LET off == ItemShares(in, m)[i] * Weight(in.items[i])
                                    - in.items[i].amount * in.items[i].weights[m]
                         IN  off < Weight(in.items[i]) /\ -off < Weight(in.items[i])
  BY DEF ExpensesAddUp
<1> DEFINE S == SharedItems(in, m)
           c == Common(in)
           f == LeftOver(in, m)
           b == ItemBase(in, m)
           n == Residual(in, m)
           R == ItemOrder(in, m)
           shown == ItemShares(in, m)
<1>1. Divisible(in)
  BY SplitsAreDivisible
<1>2. c \in Nat /\ c > 0 /\ IsFiniteSet(S)
  BY <1>1, CommonDivides, SharedAre
<1>3. IsOrder(R, S) /\ \A i, j \in S : f[j] > f[i] => <<j, i>> \in R
  BY <1>1, ItemOrderIsOrder
<1>4. /\ \A i \in S : f[i] \in 0..(c - 1)
      /\ n \in Int /\ n * c <= SumFunctionOnSet(f, S) /\ SumFunctionOnSet(f, S) < (n + 1) * c
  BY <1>1, LeftOversAre
<1>5. shown = [i \in S |-> IF i \in FirstOf(R, S, n) THEN b[i] + 1 ELSE b[i]]
  BY <1>1, ItemSharesAre
<1>6. \A i \in S : b[i] \in Nat
  BY <1>1, SharedAre
<1>7. n = ItemSubtotal(in, m) - SumFunctionOnSet(b, S)
  BY DEF Residual
<1>8. Total(shown) = SumFunctionOnSet(shown, DOMAIN shown)
  BY DEF Total, SumFunction
<1>9. ItemSubtotal(in, m) \in Int
  <2>1. Items(in, m) \in Nat
    BY <1>1, ItemsAre
  <2> QED
    BY <1>2, <2>1, DivNat DEF ItemSubtotal
<1>10. \A i \in S : f[i] > 0 => PartOf(in, i, m) % Weight(in.items[i]) > 0
  BY <1>1, LeftOversAre
<1> HIDE DEF S, c, f, b, n, R, shown
<1>11. n \in Nat /\ n <= Cardinality(S) /\ \A i \in FirstOf(R, S, n) : f[i] > 0
  BY <1>2, <1>3, <1>4, LargestRemainder
<1>12. Total(shown) = ItemSubtotal(in, m)
  <2>1. DOMAIN shown = S /\ \A i \in S : b[i] \in Int
    BY <1>5, <1>6
  <2>2. \A i \in S : shown[i] = IF i \in FirstOf(R, S, n) THEN b[i] + 1 ELSE b[i]
    BY <1>5
  <2>3. SumFunctionOnSet(shown, S) = SumFunctionOnSet(b, S) + n
    BY <1>2, <1>3, <1>11, <2>1, <2>2, HandedOut
  <2>4. SumFunctionOnSet(b, S) \in Int
    BY <1>2, <2>1, SumRemove
  <2> QED
    BY <1>7, <1>8, <1>9, <2>1, <2>3, <2>4
<1>13. ASSUME NEW i \in S
       PROVE  LET off == shown[i] * Weight(in.items[i]) - PartOf(in, i, m)
              IN  off < Weight(in.items[i]) /\ -off < Weight(in.items[i])
  <2> DEFINE w == Weight(in.items[i])
             x == PartOf(in, i, m)
             r == x % w
             y == b[i]
  <2>1. w \in Nat \ {0} /\ x \in Nat /\ y \in Nat /\ r \in 0..(w - 1) /\ x = y * w + r
    BY <1>1, SharedAre DEF S, b
  <2>2. i \in FirstOf(R, S, n) => r > 0
    BY <1>10, <1>11
  <2>3. shown[i] = IF i \in FirstOf(R, S, n) THEN y + 1 ELSE y
    BY <1>5
  <2> HIDE DEF w, x, r, y
  <2>4. y * w \in Int /\ (y + 1) * w = y * w + w
    BY <2>1
  <2>5. CASE i \in FirstOf(R, S, n)
    <3>1. shown[i] * w - x = w - r
      BY <2>1, <2>3, <2>4, <2>5
    <3> QED
      BY <2>1, <2>2, <2>5, <3>1 DEF w, x
  <2>6. CASE i \notin FirstOf(R, S, n)
    <3>1. shown[i] * w - x = -r
      BY <2>1, <2>3, <2>4, <2>6
    <3> QED
      BY <2>1, <3>1 DEF w, x
  <2> QED
    BY <2>5, <2>6
<1> QED
  BY <1>5, <1>12, <1>13 DEF PartOf, shown

-----------------------------------------------------------------------------
(* The contents of a bill, and what is divided of them. *)

\* What a request and the normalizer both see to.
Kept(b) ==
  /\ b.service \in Nat /\ b.vat \in Nat /\ b.generalDiscount \in Nat
  /\ IsList(b.items)
  /\ \A i \in DOMAIN b.items :
       /\ b.items[i].line \in Nat /\ b.items[i].discount \in Nat /\ b.items[i].final \in Nat
       /\ b.items[i].line = b.items[i].final + b.items[i].discount
       /\ IsWeighting(b.items[i].weights)
  /\ b.discount = ItemDiscount(b.items) + b.generalDiscount

\* What a bill without a blocker satisfies.
LEMMA NothingBlocks ==
  ASSUME NEW b, Blockers(b) = {}
  PROVE  /\ \A i \in DOMAIN b.items : /\ b.items[i].weights # [m \in {} |-> 0]
                                      /\ DOMAIN b.items[i].weights \subseteq Active
         /\ b.creditor \in Active
         /\ ~ (b.discount > b.subtotal + b.service + b.vat)
         /\ b.subtotal = LinesOf(b.items)
         /\ b.total = b.subtotal + b.service + b.vat - b.discount
<1>1. ~ \E i \in DOMAIN b.items : b.items[i].weights = [m \in {} |-> 0]
  <2> SUFFICES ASSUME \E i \in DOMAIN b.items : b.items[i].weights = [m \in {} |-> 0]
               PROVE  "ITEM_UNASSIGNED" \in Blockers(b)
    OBVIOUS
  <2> QED
    BY DEF Blockers
<1>2. ~ \E i \in DOMAIN b.items : ~(DOMAIN b.items[i].weights \subseteq Active)
  <2> SUFFICES ASSUME \E i \in DOMAIN b.items : ~(DOMAIN b.items[i].weights \subseteq Active)
               PROVE  "INACTIVE_MEMBER_ASSIGNED" \in Blockers(b)
    OBVIOUS
  <2> QED
    BY DEF Blockers
<1>3. ~ (b.creditor \notin Active)
  <2> SUFFICES ASSUME b.creditor \notin Active PROVE "CREDITOR_REQUIRED" \in Blockers(b)
    OBVIOUS
  <2> QED
    BY DEF Blockers
<1>4. ~ (b.discount > b.subtotal + b.service + b.vat)
  <2> SUFFICES ASSUME b.discount > b.subtotal + b.service + b.vat
               PROVE  "DISCOUNT_EXCEEDS_BILL" \in Blockers(b)
    OBVIOUS
  <2> QED
    BY DEF Blockers
<1>5. ~ (b.subtotal # LinesOf(b.items))
  <2> SUFFICES ASSUME b.subtotal # LinesOf(b.items) PROVE "SUBTOTAL_MISMATCH" \in Blockers(b)
    OBVIOUS
  <2> QED
    BY DEF Blockers
<1>6. ~ (b.total # b.subtotal + b.service + b.vat - b.discount)
  <2> SUFFICES ASSUME b.total # b.subtotal + b.service + b.vat - b.discount
               PROVE  "TOTAL_MISMATCH" \in Blockers(b)
    OBVIOUS
  <2> QED
    BY DEF Blockers
<1> QED
  BY <1>1, <1>2, <1>3, <1>4, <1>5, <1>6

\* The items, of which the lines, the discounts and the final prices are three
\* columns, add up in each.
LEMMA ColumnsAddUp ==
  ASSUME NEW b, Kept(b)
  PROVE  /\ ItemDiscount(b.items) \in Nat
         /\ LinesOf(b.items) = ItemsTotal(ToAllocationInput(b)) + ItemDiscount(b.items)
<1> DEFINE D == DOMAIN b.items
           in == ToAllocationInput(b)
           line == [i \in D |-> b.items[i].line]
           discount == [i \in D |-> b.items[i].discount]
           final == [i \in D |-> in.items[i].amount]
<1>1. DOMAIN in.items = D /\ \A i \in D : in.items[i].amount = b.items[i].final
  BY DEF ToAllocationInput
<1>2. /\ LinesOf(b.items) = SumFunctionOnSet(line, D)
      /\ ItemDiscount(b.items) = SumFunctionOnSet(discount, D)
  BY DEF LinesOf, ItemDiscount, Total, SumFunction
<1>3. ItemsTotal(in) = SumFunctionOnSet(final, D)
  <2> HIDE DEF in
  <2> QED
    BY <1>1 DEF ItemsTotal, Total, SumFunction
<1>4. IsFiniteSet(D)
  BY FS_Interval DEF Kept, IsList
<1>5. \A i \in D : /\ line[i] \in Int /\ discount[i] \in Nat /\ final[i] \in Int
                    /\ line[i] = final[i] + 1 * discount[i]
  BY <1>1 DEF Kept
<1> HIDE DEF D, in, line, discount, final
<1>6. SumFunctionOnSet(discount, D) \in Nat
  BY <1>4, <1>5, SumNat
<1>7. SumFunctionOnSet(line, D) = SumFunctionOnSet(final, D) + 1 * SumFunctionOnSet(discount, D)
  BY <1>4, <1>5, SumLinear
<1>8. SumFunctionOnSet(final, D) \in Int
  BY <1>4, <1>5, SumRemove
<1> QED
  BY <1>2, <1>3, <1>6, <1>7, <1>8 DEF in

\* What is kept, and nothing blocks, can be divided: the general discount is
\* within the items and charges, and what is divided is the total.
LEMMA ReconciledIsDivisible ==
  ASSUME NEW b, Kept(b), Blockers(b) = {}
  PROVE  LET in == ToAllocationInput(b) IN
           /\ Divisible(in)
           /\ in.discount <= ItemsTotal(in) + in.service + in.vat
           /\ AllocTotal(in) = b.total
<1> DEFINE in == ToAllocationInput(b)
           D == DOMAIN b.items
<1>1. /\ in.creditor = b.creditor /\ in.service = b.service /\ in.vat = b.vat
      /\ in.discount = b.generalDiscount /\ DOMAIN in.items = D
      /\ \A i \in D : /\ in.items[i].amount = b.items[i].final
                      /\ in.items[i].weights = b.items[i].weights
  BY DEF ToAllocationInput
<1>2. in.creditor \in Members
  BY <1>1, NothingBlocks, AllocationAssumption
<1>3. \E n \in Nat : D = 1..n
  BY DEF Kept, IsList
<1>4. ASSUME NEW i \in D
      PROVE  /\ in.items[i].amount \in Nat
             /\ \A m \in DOMAIN in.items[i].weights : in.items[i].weights[m] \in Nat \ {0}
             /\ DOMAIN in.items[i].weights \in (SUBSET Members) \ {{}}
  <2> DEFINE w == in.items[i].weights
  <2>1. w # [m \in {} |-> 0] /\ DOMAIN w \subseteq Members
    BY <1>1, NothingBlocks, AllocationAssumption
  <2>2. w \in [DOMAIN w -> Nat \ {0}]
    BY <1>1 DEF Kept, IsWeighting
  <2>3. in.items[i].amount \in Nat
    BY <1>1 DEF Kept
  <2> HIDE DEF w
  <2>4. DOMAIN w # {}
    <3> SUFFICES ASSUME DOMAIN w = {} PROVE FALSE
      OBVIOUS
    <3>1. w = [m \in {} |-> 0]
      BY <2>2
    <3> QED
      BY <2>1, <3>1
  <2> QED
    BY <2>1, <2>2, <2>3, <2>4 DEF w
<1>5. Divisible(in)
  <2>1. in.service \in Nat /\ in.vat \in Nat /\ in.discount \in Nat
    BY <1>1 DEF Kept
  <2> HIDE DEF in
  <2> QED
    BY <1>1, <1>2, <1>3, <1>4, <2>1 DEF Divisible
<1> DEFINE t == ItemsTotal(in)
           d == ItemDiscount(b.items)
           l == LinesOf(b.items)
<1>6. d \in Nat /\ l = t + d /\ t \in Nat
  BY <1>5, ColumnsAddUp, ItemsTotalIs
<1>7. /\ b.service \in Nat /\ b.vat \in Nat /\ b.generalDiscount \in Nat
      /\ b.discount = d + b.generalDiscount
  BY DEF Kept
<1>8. /\ ~ (b.discount > l + b.service + b.vat)
      /\ b.total = l + b.service + b.vat - b.discount
  BY NothingBlocks
<1>9. AllocTotal(in) = t + in.service + in.vat - in.discount
  BY DEF AllocTotal
<1> HIDE DEF t, d, l, in
<1>10. in.discount <= t + in.service + in.vat
  BY <1>1, <1>6, <1>7, <1>8
<1>11. AllocTotal(in) = b.total
  BY <1>1, <1>6, <1>7, <1>8, <1>9
<1> QED
  BY <1>5, <1>10, <1>11 DEF t, in

\* Contents that came with a request.
LEMMA RequestsAreKept ==
  ASSUME NEW q \in Requests, Acceptable(q)
  PROVE  Kept(DraftOfRequest(q))
<1> DEFINE b == DraftOfRequest(q)
           D == DOMAIN q.items
<1>1. /\ b.service = q.service /\ b.vat = q.vat /\ b.discount = q.discount
      /\ b.generalDiscount = q.discount - ItemDiscount(q.items)
      /\ b.items = [i \in D |->
           [line |-> q.items[i].line, discount |-> q.items[i].discount,
            final |-> q.items[i].line - q.items[i].discount,
            weights |-> q.items[i].weights]]
  BY DEF DraftOfRequest
<1>2. /\ {q.service, q.vat, q.discount} \subseteq Nat /\ IsList(q.items)
      /\ \A i \in D : /\ {q.items[i].line, q.items[i].discount} \subseteq Nat
                      /\ IsWeighting(q.items[i].weights)
  BY AllocationAssumption
<1>3. /\ \A i \in D : q.items[i].discount <= q.items[i].line
      /\ q.discount >= ItemDiscount(q.items)
  BY DEF Acceptable
<1>4. /\ DOMAIN b.items = D
      /\ \A i \in D : /\ b.items[i].line = q.items[i].line
                      /\ b.items[i].discount = q.items[i].discount
                      /\ b.items[i].final = q.items[i].line - q.items[i].discount
                      /\ b.items[i].weights = q.items[i].weights
  BY <1>1
<1>5. ItemDiscount(b.items) = ItemDiscount(q.items)
  BY <1>4 DEF ItemDiscount
<1>6. ItemDiscount(q.items) \in Nat
  <2> DEFINE f == [i \in D |-> q.items[i].discount]
  <2>1. IsFiniteSet(D)
    <3>1. D = 1..Len(q.items) /\ Len(q.items) \in Nat
      BY <1>2 DEF IsList
    <3> HIDE DEF D
    <3> QED
      BY <3>1, FS_Interval
  <2>3. \A i \in D : f[i] \in Nat
    BY <1>2
  <2>2. ItemDiscount(q.items) = SumFunctionOnSet(f, D)
    BY DEF ItemDiscount, Total, SumFunction
  <2> HIDE DEF f, D
  <2> QED
    BY <2>1, <2>2, <2>3, SumNat
<1>7. IsList(b.items)
  <2>1. Len(q.items) \in Nat /\ D = 1..Len(q.items)
    BY <1>2 DEF IsList
  <2>2. b.items \in Seq(Range(b.items))
    <3> HIDE DEF b
    <3>1. b.items = [i \in 1..Len(q.items) |-> b.items[i]]
      BY <1>1, <1>4, <2>1
    <3>2. \A i \in 1..Len(q.items) : b.items[i] \in Range(b.items)
      BY <1>4, <2>1 DEF Range
    <3> QED
      BY <2>1, <3>1, <3>2
  <2> HIDE DEF b
  <2> QED
    BY <2>2 DEF IsList
<1> HIDE DEF b, D
<1>8. ASSUME NEW i \in DOMAIN b.items
      PROVE  /\ b.items[i].line \in Nat /\ b.items[i].discount \in Nat /\ b.items[i].final \in Nat
             /\ b.items[i].line = b.items[i].final + b.items[i].discount
             /\ IsWeighting(b.items[i].weights)
  BY <1>2, <1>3, <1>4
<1>9. b.generalDiscount \in Nat /\ b.discount = ItemDiscount(b.items) + b.generalDiscount
  BY <1>1, <1>2, <1>3, <1>5, <1>6
<1> QED
  BY <1>1, <1>2, <1>7, <1>8, <1>9 DEF Kept, b

\* What the normalizer has read of the lines before one.
Reading ==
  {r \in [items : Seq([line : Nat, discount : Nat, final : Nat]), orphan : Nat, excess : Nat] :
     \A i \in DOMAIN r.items : r.items[i].line = r.items[i].final + r.items[i].discount}

\* One line of a receipt: an item, a promotion before any item, or one on the last item.
LEMMA LineIsRead ==
  ASSUME NEW r \in Reading, NEW l, l.promotion \in BOOLEAN, l.amount \in Nat
  PROVE  FoldLine(r, l) \in Reading
<1> DEFINE Item == [line : Nat, discount : Nat, final : Nat]
           s == r.items
           a == l.amount
<1>1. /\ s \in Seq(Item) /\ r.orphan \in Nat /\ r.excess \in Nat
      /\ r = [items |-> s, orphan |-> r.orphan, excess |-> r.excess]
      /\ \A i \in DOMAIN s : s[i].line = s[i].final + s[i].discount
  BY DEF Reading
<1>2. CASE ~l.promotion
  <2> DEFINE x == [line |-> a, discount |-> 0, final |-> a]
             t == Append(s, x)
  <2>1. FoldLine(r, l) = [items |-> t, orphan |-> r.orphan, excess |-> r.excess]
    BY <1>1, <1>2 DEF FoldLine
  <2>2. x \in Item /\ x.line = x.final + x.discount
    OBVIOUS
  <2> HIDE DEF s, x, Item
  <2>3. t \in Seq(Item) /\ \A i \in DOMAIN t : t[i] = x \/ (i \in DOMAIN s /\ t[i] = s[i])
    BY <1>1, <2>2
  <2>4. \A i \in DOMAIN t : t[i].line = t[i].final + t[i].discount
    BY <1>1, <2>2, <2>3
  <2> HIDE DEF t
  <2> QED
    BY <1>1, <2>1, <2>3, <2>4 DEF Reading, Item
<1>3. CASE l.promotion /\ s = <<>>
  <2>1. FoldLine(r, l) = [items |-> s, orphan |-> r.orphan + a, excess |-> r.excess]
    BY <1>1, <1>3 DEF FoldLine
  <2>2. r.orphan + a \in Nat
    BY <1>1
  <2> HIDE DEF s, a
  <2> QED
    BY <1>1, <2>1, <2>2 DEF Reading
<1>4. CASE l.promotion /\ s # <<>>
  <2> DEFINE last == Last(s)
             promoted == last.discount + a
             x == IF promoted > last.line
                  THEN [last EXCEPT !.discount = last.line, !.final = 0]
                  ELSE [last EXCEPT !.discount = promoted, !.final = last.line - promoted]
             t == ReplaceAt(s, Len(s), x)
             e == r.excess + AtLeast0(promoted - last.line)
  <2>1. FoldLine(r, l) = [items |-> t, orphan |-> r.orphan, excess |-> e]
    BY <1>1, <1>4 DEF FoldLine
  <2>2. last \in Item /\ Len(s) \in DOMAIN s
    <3> HIDE DEF s, Item
    <3>1. Len(s) \in DOMAIN s /\ s[Len(s)] \in Item
      BY <1>1, <1>4
    <3> QED
      BY <3>1 DEF Last
  <2>3. x \in Item /\ x.line = x.final + x.discount
    <3> DEFINE u == last.line
               v == last.discount
    <3>1. /\ u \in Nat /\ v \in Nat /\ promoted = v + a /\ promoted \in Nat
          /\ last = [line |-> u, discount |-> v, final |-> last.final]
      <4> HIDE DEF last
      <4> QED
        BY <2>2
    <3>2. x = IF promoted > u THEN [line |-> u, discount |-> u, final |-> 0]
              ELSE [line |-> u, discount |-> promoted, final |-> u - promoted]
      <4> HIDE DEF last, promoted
      <4>1. ASSUME NEW p, NEW z
            PROVE  [last EXCEPT !.discount = p, !.final = z]
                   = [line |-> u, discount |-> p, final |-> z]
        <5> DEFINE w == last.final
        <5>1. last = [line |-> u, discount |-> v, final |-> w]
          BY <3>1
        <5> DEFINE q == [last EXCEPT !.discount = p]
        <5> HIDE DEF last, u, v, w
        <5>2. q = [line |-> u, discount |-> p, final |-> w]
          BY <5>1
        <5>3. [last EXCEPT !.discount = p, !.final = z] = [q EXCEPT !.final = z]
          BY <5>1
        <5> HIDE DEF q
        <5>4. [q EXCEPT !.final = z] = [line |-> u, discount |-> p, final |-> z]
          BY <5>2
        <5> QED
          BY <5>3, <5>4
      <4>2. u = last.line
        OBVIOUS
      <4> HIDE DEF u, v
      <4> QED
        BY <4>1, <4>2
    <3> HIDE DEF u, v, promoted, x, last
    <3>3. CASE promoted > u
      BY <3>1, <3>2, <3>3
    <3>4. CASE ~ (promoted > u)
      <4>1. x = [line |-> u, discount |-> promoted, final |-> u - promoted]
        BY <3>2, <3>4
      <4>2. u - promoted \in Nat /\ u = (u - promoted) + promoted
        BY <3>1, <3>4
      <4> QED
        BY <3>1, <4>1, <4>2
    <3> QED
      BY <3>3, <3>4
  <2>4. e \in Nat
    <3> HIDE DEF last, a
    <3>1. promoted - last.line \in Int
      BY <2>2 DEF a
    <3> QED
      BY <1>1, <3>1 DEF AtLeast0
  <2> HIDE DEF x, last, e, Item, s
  <2>5. t \in Seq(Item) /\ \A i \in DOMAIN t : t[i] = x \/ (i \in DOMAIN s /\ t[i] = s[i])
    <3>1. t = [s EXCEPT ![Len(s)] = x]
      BY DEF ReplaceAt
    <3> HIDE DEF t
    <3> QED
      BY <1>1, <2>2, <2>3, <3>1
  <2>6. \A i \in DOMAIN t : t[i].line = t[i].final + t[i].discount
    BY <1>1, <2>3, <2>5
  <2> HIDE DEF t
  <2> QED
    BY <1>1, <2>1, <2>4, <2>5, <2>6 DEF Reading, Item
<1> QED
  BY <1>2, <1>3, <1>4

\* The fold of the lines of a receipt.
LEMMA ReceiptIsRead ==
  ASSUME NEW r \in Receipts
  PROVE  FoldLeft(FoldLine, [items |-> <<>>, orphan |-> 0, excess |-> 0], r.lines) \in Reading
<1> DEFINE b == [items |-> <<>>, orphan |-> 0, excess |-> 0]
           n == Len(r.lines)
           step == [x \in Reading |-> [i \in 1..n |-> FoldLine(x, r.lines[i])]]
           Rec(h) == h = [T \in SUBSET (1..n) |-> IF T = {} THEN b
                            ELSE FoldLine(h[T \ {LargestOf(T)}], r.lines[LargestOf(T)])]
           iter == CHOOSE h : Rec(h)
           out == FoldLeft(FoldLine, b, r.lines)
<1>1. n \in Nat /\ DOMAIN r.lines = 1..n
      /\ \A i \in 1..n : r.lines[i].promotion \in BOOLEAN /\ r.lines[i].amount \in Nat
  BY AllocationAssumption DEF IsList
<1>2. out = iter[1..n]
  <2> HIDE DEF n
  <2> QED
    BY <1>1 DEF FoldLeft, MapThenFoldSet, LargestOf, Max
<1>3. b \in Reading
  BY DEF Reading
<1> HIDE DEF b, n
<1>4. \A x \in Reading : \A i \in 1..n :
        step[x][i] = FoldLine(x, r.lines[i]) /\ step[x][i] \in Reading
  <2> SUFFICES ASSUME NEW x \in Reading, NEW i \in 1..n
               PROVE  FoldLine(x, r.lines[i]) \in Reading
    OBVIOUS
  <2> QED
    BY <1>1, LineIsRead
<1>5. \A T \in SUBSET (1..n) : T # {} =>
        LargestOf(T) \in 1..n /\ T \ {LargestOf(T)} \in SUBSET (1..n)
  BY <1>1, LargestIsIn
<1> HIDE DEF step
<1>6. Rec(iter)
  <2>1. \A x \in Reading : \A i \in 1..n : step[x][i] \in Reading
    BY <1>4
  <2>2. PICK h \in [SUBSET (1..n) -> Reading] : IsRecursion(h, b, step, n)
    BY <1>1, <1>3, <2>1, RecursionExists
  <2>3. ASSUME NEW T \in SUBSET (1..n)
        PROVE  h[T] = IF T = {} THEN b
                      ELSE FoldLine(h[T \ {LargestOf(T)}], r.lines[LargestOf(T)])
    <3>1. T # {} => h[T \ {LargestOf(T)}] \in Reading
      BY <1>5
    <3> QED
      BY <1>4, <1>5, <2>2, <3>1 DEF IsRecursion
  <2>4. Rec(h)
    BY <2>3
  <2> HIDE DEF Rec
  <2> QED
    BY <2>4
<1> HIDE DEF iter
<1>7. RecursIn(iter, b, step, Reading, n)
  BY <1>4, <1>5, <1>6 DEF RecursIn
<1>8. StepsIn(step, Reading, n)
  BY <1>4 DEF StepsIn
<1>9. \A k \in 0..n : iter[1..k] \in Reading
  BY <1>1, <1>3, <1>7, <1>8, RecursionFollows
<1> QED
  BY <1>1, <1>2, <1>9 DEF b

LEMMA CandidatesAreKept ==
  ASSUME NEW r \in Receipts, NEW m \in Members
  PROVE  Kept(DraftOfCandidate(Normalize(r), m))
<1> DEFINE read == FoldLeft(FoldLine, [items |-> <<>>, orphan |-> 0, excess |-> 0], r.lines)
           c == Normalize(r)
           b == DraftOfCandidate(c, m)
           D == DOMAIN read.items
           ofItems == ItemDiscount(read.items)
           general == AtLeast0(r.discount + read.orphan - ofItems) + read.excess
           w == [k \in Active |-> 1]
<1>1. read \in Reading
  BY ReceiptIsRead
<1>2. /\ c.service = r.service /\ c.vat = r.vat /\ c.items = read.items
      /\ c.discount = ofItems + general /\ c.generalDiscount = general
  BY DEF Normalize, Summed
<1> HIDE DEF read, c
<1>3. /\ b.service = r.service /\ b.vat = r.vat /\ b.discount = ofItems + general
      /\ b.generalDiscount = general
      /\ b.items = [i \in D |->
           [line |-> read.items[i].line, discount |-> read.items[i].discount,
            final |-> read.items[i].final, weights |-> w]]
  BY <1>2 DEF DraftOfCandidate
<1>4. /\ read.items \in Seq([line : Nat, discount : Nat, final : Nat])
      /\ read.orphan \in Nat /\ read.excess \in Nat
      /\ \A i \in D : read.items[i].line = read.items[i].final + read.items[i].discount
  BY <1>1 DEF Reading
<1>5. /\ DOMAIN b.items = D
      /\ \A i \in D : /\ b.items[i].line = read.items[i].line
                      /\ b.items[i].discount = read.items[i].discount
                      /\ b.items[i].final = read.items[i].final
                      /\ b.items[i].weights = w
  BY <1>3
<1>6. ItemDiscount(b.items) = ofItems
  BY <1>5 DEF ItemDiscount
<1>7. Len(read.items) \in Nat /\ D = 1..Len(read.items)
  BY <1>4
<1>8. \A i \in D : /\ read.items[i].line \in Nat /\ read.items[i].discount \in Nat
                   /\ read.items[i].final \in Nat
  <2> DEFINE s == read.items
             Item == [line : Nat, discount : Nat, final : Nat]
  <2>1. s \in Seq(Item)
    BY <1>4
  <2> HIDE DEF s, Item
  <2>2. \A i \in DOMAIN s : s[i] \in Item
    BY <2>1
  <2> QED
    BY <2>2 DEF s, Item
<1>9. ofItems \in Nat
  <2> DEFINE f == [i \in D |-> read.items[i].discount]
  <2>1. \A i \in D : f[i] \in Nat
    BY <1>8
  <2>2. ofItems = SumFunctionOnSet(f, D)
    BY DEF ItemDiscount, Total, SumFunction
  <2> HIDE DEF f, D
  <2>3. IsFiniteSet(D)
    BY <1>7, FS_Interval
  <2> QED
    BY <2>1, <2>2, <2>3, SumNat
<1>10. general \in Nat
  <2> HIDE DEF ofItems
  <2>1. r.discount \in Nat
    BY AllocationAssumption
  <2>2. r.discount + read.orphan - ofItems \in Int
    BY <1>4, <1>9, <2>1
  <2> QED
    BY <1>4, <2>2 DEF AtLeast0
<1>11. IsWeighting(w)
  BY DEF IsWeighting
<1>12. IsList(b.items)
  <2> HIDE DEF b, D
  <2>1. b.items = [i \in 1..Len(read.items) |-> b.items[i]]
    BY <1>3, <1>5, <1>7
  <2>2. \A i \in 1..Len(read.items) : b.items[i] \in Range(b.items)
    BY <1>5, <1>7 DEF Range
  <2>3. b.items \in Seq(Range(b.items))
    BY <1>7, <2>1, <2>2
  <2> QED
    BY <2>3 DEF IsList
<1>13. r.service \in Nat /\ r.vat \in Nat
  BY AllocationAssumption
<1> HIDE DEF b, D, ofItems, general, w
<1>14. ASSUME NEW i \in DOMAIN b.items
       PROVE  /\ b.items[i].line \in Nat /\ b.items[i].discount \in Nat
              /\ b.items[i].final \in Nat
              /\ b.items[i].line = b.items[i].final + b.items[i].discount
              /\ IsWeighting(b.items[i].weights)
  BY <1>4, <1>5, <1>8, <1>11
<1>15. b.service \in Nat /\ b.vat \in Nat /\ b.generalDiscount \in Nat
       /\ b.discount = ItemDiscount(b.items) + b.generalDiscount
  BY <1>3, <1>6, <1>10, <1>13
<1> QED
  BY <1>12, <1>14, <1>15 DEF Kept, b, c

\* Whatever a request or a receipt brings, contents without a blocker can be divided,
\* into shares that are not negative, make the total the bill states and fall to its
\* assignees and its creditor alone: evaluateAllocation, toAllocationInput, Normalize.
THEOREM ReconciledIsDivided == SharesMakeTheBill
<1> SUFFICES ASSUME NEW b \in Drafts, Blockers(b) = {}
             PROVE  LET shares == CalculateAllocation(ToAllocationInput(b)) IN
                      /\ Allocatable(ToAllocationInput(b))
                      /\ Total(shares) = b.total
                      /\ \A m \in DOMAIN shares : shares[m] >= 0
                      /\ \A m \in DOMAIN shares : shares[m] > 0 =>
                           \/ m = b.creditor
                           \/ \E i \in DOMAIN b.items :
                                m \in DOMAIN b.items[i].weights /\ b.items[i].final > 0
  BY DEF SharesMakeTheBill
<1> DEFINE in == ToAllocationInput(b)
           shares == CalculateAllocation(in)
           t == AllocTotal(in)
<1>1. Kept(b)
  <2>1. CASE \E q \in Requests : Acceptable(q) /\ b = DraftOfRequest(q)
    BY <2>1, RequestsAreKept
  <2>2. CASE \E r \in Receipts, m \in Members : b = DraftOfCandidate(Normalize(r), m)
    BY <2>2, CandidatesAreKept
  <2> QED
    BY <2>1, <2>2 DEF Drafts
<1>2. /\ Divisible(in) /\ in.discount <= ItemsTotal(in) + in.service + in.vat
      /\ t = b.total
  BY <1>1, ReconciledIsDivisible
<1>3. /\ in.creditor = b.creditor /\ DOMAIN in.items = DOMAIN b.items
      /\ \A i \in DOMAIN b.items : /\ in.items[i].amount = b.items[i].final
                                   /\ in.items[i].weights = b.items[i].weights
  BY DEF ToAllocationInput
<1> HIDE DEF in
<1>4. t \in Nat /\ \A m \in Sharers(in) : Exact(in)[m] = Bears(in, m, t)
  BY <1>2, ExactOfTotal
<1>5. DOMAIN shares = Sharers(in)
  BY <1>2, RoundingIs
<1> HIDE DEF t
<1>6. \A m : Bears(in, m, t) \in Nat
  BY <1>2, <1>4, BearsIs
<1>7. Allocatable(in)
  <2>1. in.creditor \in Sharers(in)
    BY DEF Sharers
  <2> QED
    BY <1>4, <1>6, <2>1 DEF Allocatable, t
<1>8. Total(shares) = b.total
  BY <1>2, <1>5, RoundedUpAre DEF Total, SumFunction, t
<1>9. ASSUME NEW m \in Sharers(in)
      PROVE  /\ shares[m] >= 0
             /\ shares[m] > 0 =>
                  \/ m = b.creditor
                  \/ \E i \in DOMAIN b.items :
                       m \in DOMAIN b.items[i].weights /\ b.items[i].final > 0
  <2>1. Exact(in)[m] \in Nat /\ Exact(in)[m] = Bears(in, m, t)
    BY <1>4, <1>6
  <2>2. /\ shares[m] \in Int
        /\ Exact(in)[m] >= 0 => shares[m] >= 0
        /\ Exact(in)[m] = 0 => shares[m] = 0
    BY <1>2, SharesAre
  <2>3. shares[m] >= 0 /\ (shares[m] > 0 => Bears(in, m, t) > 0)
    BY <2>1, <2>2
  <2>4. Bears(in, m, t) > 0 =>
          \/ m = in.creditor
          \/ \E i \in DOMAIN in.items : m \in DOMAIN in.items[i].weights /\ in.items[i].amount > 0
    BY <1>2, <1>4, BearsIs
  <2> HIDE DEF shares
  <2> QED
    BY <1>3, <2>3, <2>4
<1> QED
  BY <1>5, <1>7, <1>8, <1>9 DEF in

\* A bill that was reviewed can be divided (ReviewBill).
THEOREM ReviewedIsDivided == Spec => []ReviewedCanBeDivided
<1>1. ReviewedCanBeDivided
  BY ReconciledIsDivided DEF ReviewedCanBeDivided
<1> QED
  BY <1>1, PTL

\* A bill that was finalized was divided fairly, and its expenses page adds up
\* (FinalizeBill, ListExpenseRows).
THEOREM FinalizedIsDividedFairly == Spec => []FinalizedIsFair
<1>1. FinalizedIsFair
  BY RoundsFairly, ExpensesMatch DEF FinalizedIsFair
<1> QED
  BY <1>1, PTL
=============================================================================
