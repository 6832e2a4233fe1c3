# PaySplit backend: TLA+ models, checks and proofs

PaySplit is a Go service (PostgreSQL, River job queue, Cloudinary, FCM) with
which a group of people records bills, splits them, and pays each other back by
bank transfer. This directory models the parts of it whose correctness depends
on the order in which requests, workers, timeouts and failures happen. Paths in
this text are relative to `src/`.

## 1. The system

### Components, their state and their operations

| component | state | operations that change it | module |
|---|---|---|---|
| Groups and members (`internal/modules/group`) | `groups.status`, `group_members.(status, role)`, `group_invites` | create, rename, invite, revoke, redeem, leave/remove, transfer captain, disband | `GroupRoster`, `Settlement`, `BillClose` |
| Group sync (`group_events`, SSE hub, LISTEN/NOTIFY) | roster version, event log with retention, open streams | emit an event, read the cursor, list since, snapshot, stream, prune | `GroupSync` |
| Bills (`internal/modules/bill`) | `bills.(status, version)`, items, assignments, shares, images, `ocr_jobs` | update, review, finalize, void, delete draft, OCR result, retry, apply a candidate | `BillDraft`, `BillAllocation`, `Settlement` |
| Creation of a bill | `bill_idempotency_keys`, uploaded images | reserve, upload, insert, complete or release | `BillCreation`, `BillClose` |
| Bill close (`bill_close.go`) | `groups.bill_submission_locked_at`, `group_bill_finalize_batches`, `group_bill_finalize_items`, one River job per item | lock and unlock submissions, start a bulk finalize, worker per item | `BillClose` |
| Settlement (`internal/modules/settlement`) | `debts`, `payments`, `payment_debts` | create a QR payment, submit a proof, confirm, reject; totals, matrix and summary are read | `Settlement`, `LedgerViews`, `DebtBook` |
| Proofs of payments | `payment_idempotency_keys`, uploaded proofs | prepare, upload, submit, compensate, purge | `ProofUpload` |
| Reminders and alerts | `debts.(reminder_count, last_reminded_at)`, `payments.stalled_alerted_at` | remind by hand, hourly scans | `Reminders` |
| Media cleanup | `media_cleanup_jobs`, the objects in Cloudinary | queue a job, claim, delete, complete; two workers in two modules | `MediaCleanup` |
| Auth (`internal/modules/auth`), Admin (`internal/modules/admin`) | users, sessions, refresh tokens, one-time codes | register, verify, sign in, refresh, sign out, change and reset the password; suspend, lock, reactivate | `AuthSession` |
| Event streams of a user (`/me/events`) | hub of every process, position of its listener | connect, admit, replace, end, deliver, lose the listener | `UserStreams` |
| Notifications (`internal/modules/notification`) | notifications, `sessions.fcm_token`, River jobs | create with the business transaction, push, clear a dead token | `PushDelivery` |

They meet in the database. A finalized bill becomes debts (`Settlement`), debts
become payments, payments need a proof (`ProofUpload`), images that are no longer
needed become jobs (`MediaCleanup`). A change of a session ends its streams
(`AuthSession` commits what `UserStreams` receives), and a sign-in moves the token
`PushDelivery` sends to. `ProofUpload` extends `MediaCleanup`, `LedgerViews`
extends `Settlement`, `GroupSync` extends `GroupRoster`; `BillContents`
joins `BillDraft` to the contents of a bill, `BillAllocation`.

Every group-scoped mutation begins with `database.LockActiveGroup`
(`SELECT ... WHERE status='active' FOR UPDATE`), so the transactions of one
group are serial and nothing changes in an archived group. That makes one
transaction one action. The interesting behaviour is what lies *outside* one
transaction: reads before it, uploads before and compensations after it, work
split over several transactions by a worker, retries, and two workers over one
table.

### What is hard here

`PROJECT.json` ("hazards") lists these line by line. In short:

* checks made before the transaction that relies on them (single finalize, void,
  the lock check of CreateBill);
* sagas: an upload, a transaction and a compensation that share one request
  context with a 15 second timeout;
* a bulk finalize that is one transaction to start, one per item, and one to
  notice the end, run by a queue with bounded attempts;
* idempotency keys that are taken, resumed, replaced and purged by different calls;
* two cleanup workers with different limits and different storage adapters over
  one job table;
* notifications that a listener misses while it has no database session, next to
  streams that are admitted, replaced and ended by the same notifications;
* a cursor, a page of events and a retention job that are not one snapshot;
* row locks that two kinds of transactions take in opposite order;
* long sequences: reject, new QR code, void, rejoin, disband.

## 2. Settlement (`Settlement.tla`)

One group with its members, bills, debts and payments. Each action is one
transaction, or one read of a call that reads before its transaction.

| action | code |
|---|---|
| `RedeemInvite`, `LeaveOrRemoveMember`, `TransferCaptain`, `DisbandGroup` | functions of the same name in `group/repository/postgres/repository.go` |
| `UpdateBankProfile` | `UpdateProfile` in `auth/repository/postgres/repository.go`; no group lock. `validBankGroup` makes a profile all-or-nothing and supported, so a profile is one bit |
| `FinalizeReadCaller`, `FinalizeReadMembers`, `FinalizeReadBank`, `FinalizeCommit` | `finalizeBillImpl` (three reads outside any transaction), then `FinalizeBill`/`finalizeCore` |
| `FinalizeCaptured` | `finalizeCapturedBill`, the bulk worker, which reads inside its transaction |
| `VoidReadCaller`, `VoidCommit` | `VoidBill` in the use case and in the repository |
| `RequestEnds` | a call in flight fails a check, times out or dies |
| `CreatePayment`, `SubmitProof`, `ConfirmPayment`, `RejectPayment` | the settlement repository |

A bill's content is fixed (`Creditor`, `Owes`, `Amount`): the ledger only sees
the shares of a finalized bill, and the version check of finalize means a
changed bill is another bill. Debts are `<<bill, debtor>>` pairs. The guard of
`DisbandGroup` on an active bulk batch belongs to `BillClose`; leaving it out
here only adds behaviours.

**Properties.** `DebtsFollowPayments` (a claimed or settled debt belongs to
exactly one payment, which holds all its debts), `LiveCodesArePayable` (no stale
QR code), `PaymentPartiesActive`, `BillsAndDebtsAgree`, `ArchivedIsSettled`.
`BookSpec` says the ledger implements `DebtBook.tla`, in which debts are issued
per bill, claimed as one set of one pair, released or paid as that set, and
cancelled per bill. `CaptainActive` and the action property `ConfirmedIsFinal` are
only proved.

`LedgerViews.tla` adds what members are shown of the ledger: the totals of the
caller, the net matrix and the summary (`GetCallerDebtTotals`, `GetDebtMatrix`,
`GetExpenseSummary`, the view `v_member_balances`), each as its query computes it.
`MoneyConserved` compares all of them with the finalized bills less the confirmed
payments: an amount is fixed with its code, while bills are voided and codes
replaced by other calls. The pages of rows with their cursors are left out, and so
is that the three or four statements of one page run outside a transaction: the
numbers of one page may come from different moments.

**Runs.**

* `settlement` - three members, two payments, one call in flight, and three bills:
  dinner (paid by ann, owed by bob and cat), taxi (paid by ann, owed by bob) and
  lunch (paid by bob, owed by ann). Two bills of one pair so that one payment spans
  two and a void hits half of it; the third one the other way round, so that the
  matrix nets. Two payments meet "rejected, superseded by a new code, paid".
  Only ann edits her bank profile (`ProfileEditors`); the others always have one.
  A second finalize of the same bill is the bulk worker's (`FinalizeCaptured`) next
  to the one call in flight; more calls at once are covered by the proof. The run
  takes about two minutes.
* `stale_finalize` - expected violation. `OpenDebtPartiesActive` is what specs
  0002 (AC-6) and 0003 (AC-9) say together; the single finalize breaks it,
  because its reads happen before the group is locked.

**Proved** (`SettlementProofs.tla`): for every value of the constants allowed by
`SettlementAssumption`, the type invariant, every invariant of the run except
`MoneyConserved`, `CaptainActive`, `ConfirmedIsFinal`, and `Spec => BookSpec`. The
inductive invariant `Inv` is the conjunction of `TypeOK`, the named invariants and
`PaymentsWellFormed` (a created payment has debts, all of its own pair): without it
a rejected payment could hold nothing and a confirmation could settle nothing or
another pair's debts. One lemma per action shows that it keeps `Inv`; the
refinement has one lemma per action that is not a stutter of the book.
`MoneyConserved` needs one fact more, `AmountsFixed` (the amount of a payment is the sum of the
debts it was made over), and the lemmas of
`FiniteSums` on sums over sets: section 15.

## 3. Stored images and their cleanup (`MediaCleanup.tla`)

The table `media_cleanup_jobs`, the objects in Cloudinary and the two workers
over the table. A claim is a lease: it only moves `next_attempt_at`, so that a
second worker may hold the same job.

| action | code |
|---|---|
| `QueueCleanup` (an operator) | `EnqueueMediaCleanup`, `QueueMediaCleanup`, `InsertMediaCleanupJob`: `ON CONFLICT DO NOTHING` over open jobs |
| `ClaimJob` | `ClaimMediaCleanup` (auth ticker, below 10 attempts only), the first statement of `ProcessMediaCleanup` (settlement, no limit, `LEAST(attempt_count+1,10)`) |
| `DeleteClaimed`, `DeleteFails` | `Destroy` answers "ok" or anything else; a failure may have deleted the object all the same |
| `CompleteJob`, `AbandonClaim` | the write of `completed_at` happens, or the worker dies before it |
| `BecomesDue`, `PurgeJob` | time passes; `CleanupExpiredAuth` |
| `Upload`, `Discard`, `CompensatingDelete` | the rest of the program, in this module's own specification only |

The jobs of a batch are claimed together in the code and one by one here, which
only adds orders. `next_attempt_at` is the set `due`; how far it is moved is left
out.

**Properties.** `CompletedIsGone`: a job is completed only when its object is
really gone, although one of the workers deletes through the wrong adapter
(`bootstrap/app.go` hands the avatar adapter to the auth worker and the private
one to the settlement worker) and two workers may hold a job at once.
`PrivateImagesGo`: a queued private image is removed in the end, under the
fairness that time passes, that the worker which can reach the object claims it
again and again (River's periodic jobs, the ticker), and that a delete which is
tried for ever succeeds sometimes. Nothing is assumed of the other worker: it may
use up all attempts, and does; the settlement worker has no limit, which is why
the property holds, and the mutant with a limit refutes it.

**Run.** `cleanup`: one avatar, one private image, two auth workers, the daily
cleanup, a limit of 2 attempts (the number matters only for being reached).

Divergences without a run: a job whose object is already gone never completes,
because the answer "not found" is a failure, where spec 0004 (`index.md:59`) has a
missing object complete it; `CleanupStorage`, the router
between the adapters that its comment says is used by the shared worker, is built
in tests only; and "It stops automatic retry after 10 attempts" (spec 0001) holds
for the auth worker only.

**Proved** (`ProofUploadProofs.tla`): the type invariant and `CompletedIsGone`, for
any number of objects, workers and attempts. The strengthening is `ClaimsAreTrue`:
the object of a claim has a job, so that it is not uploaded anew, and the object
of a claim that got its "ok" is gone.

## 4. Submitting a proof (`ProofUpload.tla`)

One payment, its idempotency records and the calls that want to prove it; extends
`MediaCleanup`, whose workers run in between. `Settlement` has the transaction of
`SubmitProof` with all debts; here its guard on the payment and its record are
what matters, and the steps around it.

| action | code |
|---|---|
| `PrepareNew`, `PrepareRetry`, `PrepareEnds` | `PrepareProof`: a new record, one that may be retried (same operation, payment not checked again), or an answer without an upload |
| `UploadOk`, `UploadFails` | `storage.Upload` to the key of the operation |
| `SubmitOk`, `SubmitAnswerLost`, `SubmitFails` | `SubmitProof` with `resumeProofIdempotency`; the COMMIT takes effect or not, the caller learns of it or not |
| `DeleteOwn`, `QueueOwn`, and their failures | `storage.Delete`, then `QueueMediaCleanup` when that fails |
| `ResetSame`, `ResetNew`, `ResetFails` | `ResetProofAttempt` with the old or a new operation |
| `Cancel` | the request context ends (timeout middleware, client); every later step of the call fails. A crash of the process is the same from outside |
| `Supersede`, `PurgeRecord` | `VoidBill` or a newer QR code; `DeleteExpiredIdempotency` |

The branch of `resumeProofIdempotency` for a completed record of the same
operation is left out: `CallsIsolated` (proved) shows that no second call can get
there.
`Faults` switches the kinds of failure, so that a run can say which one a
counterexample needs.

**Properties.** `ProofKept` (the proof of the payment exists; a call that never learned of its own
success is the one exception), `ReplayTellsTruth` (a completed record answers
with the proof the payment has), `FirstProofStays` (action property).

**Run.** `proof_upload`: two calls, two keys (so the same key or different ones),
three operations, all faults, one cleanup worker. Three operations are what two
calls with a replaced record need.

Divergences without a run: a COMMIT whose answer is lost makes the compensation
delete the proof that has won (spec 0004, `index.md:32`); a compensation that runs
in the cancelled context of its request leaves an object nothing refers to.

**Proved** (`ProofUploadProofs.tla`): every property of the run and
`CallsIsolated` (two running calls never share an object), for any number of calls, keys, operations and workers and every subset of the faults. The
properties are not inductive: that two calls do not share an operation rests on
where operations wait between calls. `RowsIsolated` and `RetriesAreFree` say that
an operation belongs to one record, and that a record which may be retried is held
by no call; `WinnerIsKnown` that the operation of the proof is held only by a call
that does not know that it has won; `DoomedAreOver` that a cleanup job never has
the object of a call that still needs it. Every step of a call that takes no record
is an instance of one lemma, `CallMovesOn`.

## 5. Closing the bills of a group (`BillClose.tla`)

| action | code |
|---|---|
| `CreateCheck`, `CreateCommit`, `CreateFails` | `CreateBill`: the check of the lock before the upload, the transaction with its second check |
| `UpdateDraftBill`, `ReviewBill`, `FinalizeBill`, `VoidBill`, `DeleteDraftBill` | functions of the same name; the version check makes a call whose read is stale fail, so that the read and the write are one step |
| `LockSubmissions`, `UnlockSubmissions`, `StartBulkFinalize` | `bill_close.go` in use case and repository |
| `ItemSkipped`, `ItemProcessedBefore`, `ItemWasFinalized`, `ItemFinalizes`, `ItemFails` | the branches of `ProcessBulkFinalizeItem`, one transaction |
| `CompleteBatchIfDone` | `TryCompleteBatch`, a transaction of its own after the item's |
| `JobFails` | the worker returns an error or dies, before or after the transaction of the item; River delivers again until `MaxAttempts` |
| `DisbandGroup` | its guards on batches and bills |

Whether a bill is ready (reconciliation, bank profile, active members) is left
open: `ItemFails` is possible for every bill. `RecordBatchItemFailure` with
`stableItemErrorCode` handles errors that no path returns to it; a voided bill
can only be met after it was finalized from a later version, which is the
"changed" case. Roles are in `Settlement`.

**Properties.** `CountsAgree` (results are counted once), `FinalizedAsCaptured`
(spec 0008 AC-5), `CloseIsComplete` (as long as the lock holds nothing open escapes
the batch), `BatchEnds` (liveness). `ArchivedIsClosed` is only proved.

**Run.** `bill_close`: two bills, one batch, two attempts per job, versions up to 3
by hand. Two bills are needed so that one is captured and another one created or
edited; two attempts so that redelivery happens both before and after the result.
Several batches in a row are covered by the proofs. Fairness: River runs every
available job (`WF` of the steps of a job); a job may fail until it is discarded,
and then the batch may stay: that escape is part of `BatchEnds`, and is what the
code does.

**Proved** (`BillSubmissionProofs.tla`): every property of the run but `BatchEnds`,
for every finite set of bills and any number of batches, versions and attempts;
`MaxVersion` is in no proof. `FinalizedAsCaptured` needs `CapturesAreOld`: what a
batch captured of a bill is no newer than the bill, and true as long as the
version is the same. `CloseIsComplete` needs `LockCovers`, which has the lock
itself, and `CountsAgree` is carried as cardinalities of the sets of results.

A divergence without a run: spec 0008 says the lock is one way ("V1 has no unlock
action"), and the code has `UnlockSubmissions`; the model has it too.

## 6. Drafts and OCR (`BillDraft.tla`)

One bill with images from its creation to its finalization: what its creditor and
captain write, and what the OCR jobs propose.

| action | code |
|---|---|
| `CreateBill`, `InsertJob` | `CreateBill`, `CreateOCRJob`: the row of `ocr_jobs` and the River job in one transaction |
| `Fetch`, `Rescue`, `Report`, `AfterFailure` | River: starts an attempt, gives up on one that does not report, takes the answer of the one it knows of, discards a job after its last attempt |
| `Begin`, `Extract`, `Store`, `Fail` | `OCRWorker.Work` between its statements: mark processing; bill, images and provider; `UpdateOCRJobSuccess`; `failJob` |
| `DatabaseFails`, `Crash` | a statement of `Work` fails, or its process dies; an attempt that was rescued may also just go on |
| `RetryOCRRead`, `RetryOCRCommit` | `RetryOCR`: its checks, then the transaction; the partial unique index on active jobs is the guard |
| `ReviewReadRow`, `ReviewReadItems`, `ReviewCommit` | `ReviewBill`: the row is read first, its items afterwards, without a transaction; the write compares the version. An error of `ListBillItems` is dropped (`PassesWithout`): the bill is then evaluated as one without items |
| `ApplyCandidateRead`, `ApplyCandidateCommit` | `ApplyCandidate`: status and versions are checked, and the contents written later at that version |
| `UpdateDraftBill`, `FinalizeBill`, `DeleteDraftBill` | functions of the same name; one step each, since what they write depends on what they have read by the version alone |
| `Abandon` | a request is refused, fails or dies |

Of the contents of a bill only what `evaluateAllocation` makes of them is kept: they
are `balanced` (no blocker), `bare` (there are items, and no blocker is found only when
they are not read: the subtotal is 0 and the charges make the total), or `off`. Each
write of contents chooses freely; what `balanced` stands for is `BillAllocation`, and
`BillContents` puts the two together. The group stays active while
a bill is open, which is `ArchivedIsClosed` of `BillClose`.

**Properties.** `ReviewedAddsUp`: a reviewed bill is balanced although a review
may mix an older row with newer items, or it is bare and its review has read none
(`unread`, a history). `CandidateIsFresh`: a candidate never
overwrites an edit made after its job was created. `ResultIsFinal`: a late attempt
changes no result. `ReviewedCanBeDivided` and `FinalizedIsFair` belong to the next
section. `CompletedHasResult` is only proved: when River takes a job for done its
row has a result; the one exception is an update of `failJob` that fails, because
its error is dropped.

**Run.** `bill_draft`: two jobs (the one made with the bill and one by a retry) of
two attempts (so that a rescued attempt runs beside its successor), one request
between its reads and its write, versions up to 3 by edits. Edits are single
steps, so that one pending request already meets every interleaving with them.

**Proved** (`BillDraftProofs.tla`): every property of the run (those about the contents:
section 7), for any number of jobs, requests, attempts and versions. The version is the clock of the argument:
what a request has read, and what a job was made for, is no newer than the bill
(`ReadsAreOld`, `JobsAreOld`), so that one change of the bill makes all of it stale.
While the version is unchanged a pending review has seen what it will stamp
(`ReviewsAreTrue`), and a candidate still belongs to the contents
(`CandidatesAreTrue`, `AppliesAreTrue`). `BegunRows` says that an attempt that has
begun found its row startable.

Three divergences without a run. `loadBillByID` (`bill/repository/postgres/repository.go:301`)
drops an error of `ListBillItems`, and `evaluateAllocation` has no blocker for a bill
without items. So a bill with items, a stored subtotal of 0 and a total made of its
charges alone is reviewed when its items cannot be read, and finalized when they
cannot be read again; its creditor then gets the whole total, and its items are on the
page of expenses without being in it. Spec 0003 (`index.md:36`, AC-5) says "review
and finalize require `subtotal = sum(line_total)`". In bulk finalize the reads are in the
transaction of the item, which an error aborts. (An error of
`ListBillItemAssignmentsByBill`, dropped as well, leaves items unassigned, which is a
blocker.) A job can stay `processing` for ever: when the
update of `failJob` is lost, or when its last attempt ends in an error (marking
the row, reading the bill, storing the result), River has no attempt left, the row
stays active, and every `RetryOCR` is answered that a job is running;
`docs/specs/0007-debtor-bill-consent/end-to-end-flow.md:216` promises that a job
which has used up its attempts can be retried by hand. And the limit of manual
retries is not modelled because it promises nothing: when the count fails,
`RetryOCR` lets the retry pass.

## 7. Dividing a bill (`BillAllocation.tla`)

Pure functions over the contents of a bill, without state; they are checked in the
run of `BillDraft`, whose `balanced` they stand for (`BillContents`).

| definition | code |
|---|---|
| `Acceptable`, `DraftOfRequest` | the validation and the derived columns of `CreateBill` and `UpdateDraftBill` |
| `FoldLine`, `Summed`, `Normalize` | the normalizer of the OCR provider: promotions are folded into the item before them, totals that were not read are computed |
| `DraftOfCandidate` | `ApplyCandidate`: every item among all active members |
| `Blockers` | `evaluateAllocation` in `reconciliation.go` |
| `ToAllocationInput`, `CalculateAllocation` | the largest remainder method of `allocation.go`, with exact rational shares as numerators over one denominator |
| `ItemShares` | the parts of items on the page of expenses, `ListExpenseRows` |

**Properties.** `SharesMakeTheBill` (in the run: `ReviewedCanBeDivided`): contents
that pass the reconciliation can be divided, no share is negative, and the shares
make the total that the bill states, although the reconciliation looks at
`line_total` and `discount` and the allocation at `final_price` and
`general_discount`. `RoundingIsFair` and `ExpensesAddUp` (in the run:
`FinalizedIsFair`): no exchange of single VND between members comes closer to the
exact shares, equal members are ordered by id, and the items that a member is shown
add up to the `item_subtotal` that the allocation rounded once. The reference is the
distance from the exact shares over all exchanges, and not another algorithm.

**Bounds.** Three members, one of them inactive; requests of two items with
discounts up to and beyond the lines, amounts reported right or off by one;
receipts of up to three lines, promotions included; splits of three items with
weights 1 and 2. Zero items, free items, a discount larger than what a member owes,
and remainders of every size occur.

**Proved** (`BillDraftProofs.tla`, second half), for every finite set of members and
every request, receipt and input that `AllocationAssumption` admits: amounts that are
not negative and lists of items, which the validations of
`CreateBill` and `UpdateDraftBill`, the parsing of the normalizer, the checks of
`CalculateAllocation` and the `CHECK` constraints of `000001_init_schema.up.sql` see
to; positive weights; and, for the inputs of `CalculateAllocation` alone, that an item
has somebody to pay for it (`item %d must have at least one assignment`).

* `InternalChecksHold`: the three errors "allocation invariant broken" cannot happen.
  All members bear an item with the same denominator (`CommonDivides`), so that the
  parts of an item add up to it and, the two sums exchanged (`SumSwap`), the parts
  of the members to the items (`ItemsAddUp`); charges follow the items
  (`BearsAddUp`), and what a discount cuts from one member it adds to the creditor
  (`ExactAddUp`).
* `RoundsFairly`: the fractions add up to the whole remainder, so that fewer VND are
  left than members and each goes to one with a fraction (`LargestRemainder`,
  `RoundedUpAre`). For the distance, `ThresholdExists` names a fraction between those
  that are rounded up and the others; with it an exchange costs each member at least
  an amount linear in what it takes (`ExchangeCosts`), and these add up to nothing.
* `ExpensesMatch`: the same lemma, applied to the items of one member. The query
  compares fractions crosswise; `CrossMultiplied` says that this is the order of
  the numerators over the common denominator.
* `ReconciledIsDivided`: both ways contents come to be keep final prices that are
  the lines less their discounts (`RequestsAreKept`; `CandidatesAreKept` by following
  the fold over the lines of a receipt), so that the two computations of the total
  agree (`ColumnsAddUp`) and the general discount is within the bill
  (`ReconciledIsDivisible`); then everybody bears a part of one total, which is not
  negative (`ExactOfTotal`).

`ReviewedCanBeDivided` and `FinalizedIsFair` follow, for bills that are `balanced`. Amounts are unbounded in the
proofs; overflow is left out of the model.

**Left out.** `int64` overflow, which the code rejects; the float quantities of
`computeLineTotal`; the limit of 100 items; `SplitMethod`, which the allocation
does not read. Weights are `NUMERIC(10,4)` in the query of the page and an exact
quotient here. A bill of which a member bears charges only has no row on the page.

**Divergences without a run.** `POST /bills/calculate` (`CalculateBreakdown`)
divides `line_total` and the whole discount, review and finalize divide
`final_price` and `general_discount`: with promotions the preview differs from the
result, while `docs/specs/0003-bill-ocr-v1/0002-allocation-review.md:5` has one
calculation. The normalizer counts the excess of an oversized promotion twice when
the printed discount includes it already; `TOTAL_MISMATCH` blocks such a bill later.
`DISCOUNT_NOT_ALLOCATABLE` cannot be reached by a reconciled bill.

## 8. Creating a bill once (`BillCreation.tla`)

One body with images that a client sends again and again under one
`Idempotency-Key`. Every attempt is a request with steps of its own.

| action | code |
|---|---|
| `CheckOrReserveIdempotency`, `CompleteIdempotency`, `ReleaseIdempotency` | functions of the same name, called by the handler before and after `CreateBill`, each a transaction of its own |
| `Expire` | `expires_at` passes, `PurgeExpiredIdempotencyKeys`; not while a request is under way, which takes seconds and not 24 hours |
| `Check`, `Upload`, `CreateBill` | `CreateBill` of the use case: its checks, its uploads one by one, the transaction with the second check of the lock |
| `Reject` | the branch for `ErrSubmissionLocked`: the uploads are queued in `media_cleanup_jobs` |
| `Undo` | the deferred function: deletes what was uploaded, errors ignored, in a context of its own |
| `ContextEnds` | client gone, timeout middleware; all later statements in the request's context fail |
| `Crash`, `ToggleLock`, `CleanUp` | the process, the captain, the cleanup workers |

The hash of the body is left out (there is one body), and so are the roles.

**Properties.** `OneBillPerKey`: while a key lives it makes a second bill only
after a commit whose answer was lost. `ReplayIsTrue`: what a completed key answers
exists with all its images. `BillImagesKept`: neither the compensation nor the
cleanup touches the images of a bill whose commit was acknowledged.
`RejectedIsClean` is only proved: a creation that lost the race against the lock
leaves no image that the durable cleanup does not know of, even if every direct
deletion fails.

**Run.** `bill_creation`: three requests (one whose answer is lost, one that makes
the second bill, one that replays), two images (so that the upload may fail in the
middle).

**Proved** (`BillSubmissionProofs.tla`): the type invariant, every property of the run
and `RejectedIsClean`, for any number of requests and images. All of it rests on `HolderIsAlone`: a request under
way holds the reservation. `SinceHoldsKey` follows: a bill whose commit was
acknowledged keeps the key, because only its own request could have released it,
and that one is past its release (`BillStages`). What is stored and queued for a
request is a function of its stage (`UploadsStored`, `CommitsHaveAll`,
`QueuedAfterRejection`), so that a compensation can only remove images of its own
request.

Divergences without a run:
`docs/specs/0003-bill-ocr-v1/0001-bill-draft-ocr.md:21` names the images after the
reserved operation, so that a retry addresses the assets of the attempt before;
`CreateBill` draws a new operation ID each time. Line 24 there has every failure
before the commit schedule a durable cleanup; the code does so only when the lock
rejects the bill, and otherwise deletes once and ignores the errors, so that a
crash leaves objects nothing refers to. A request that
fails *because* its context ended releases its key in that context, the `DELETE`
fails as well, and the key is "in progress" until it expires; the comment of
`ReleaseIdempotency` (`bill/usecase/service.go:1373`) says that it is there to
prevent just that.

## 9. The event streams of a user (`UserStreams.tla`)

`GET /api/v1/me/events` over all API processes. PostgreSQL orders what transactions
NOTIFY; each process has one listener, which feeds one hub.

| action | code |
|---|---|
| `Validate`, `CheckListener`, `RegisterPaused`, `PublishReplace`, `PublishFails`, `Admit`, `NotAdmitted` | the middleware, then `StreamUserEvents` up to the admission: the stream is in the hub, paused, before it commits its `stream.replace` control, and waits for that control to come back |
| `WriteFrame`, `ChannelClosed`, `EndResponse` | the loop of `StreamUserEvents`; `EndResponse` is `maxConnectionAge` or a client that has gone |
| `Receive` with `ApplyReplace`, `ApplySessionEnded`, `Dispatch` | `HandleUserNotification` and the hub |
| `LoseSession`, `NoticeLoss`, `Disconnect`, `Listen` | `Run` and `runSession` of the listener: a lost session is noticed later, `onDisconnect` closes every stream before the listener tries again |
| `EndSession`, `Invalidate` | transactions of other parts, with their NOTIFY |

**Properties.** `OneStream`: processes that are up to date admit one stream of a
session over all of them, the one whose control was committed last.
`LatestNotReplaced`: two connections never close each
other. `NoSilentLoss`: an open stream has, or holds, every event since its own
control; whoever missed one is closed. `EndedStreamsClose`: a session that has ended
keeps no stream but one that committed its control afterwards.

**Run.** `user_streams`: two processes, two streams of one session, a buffer of one
frame, two events, one lost listener. Two streams are what a replacement needs; a
buffer of one is full after one event.

**Proved** (`SessionProofs.tla`): the type invariant and all four properties, for any
numbers of processes, sessions, streams and events and any buffer. The properties speak
of processes that are up to date; the invariant `StreamInv` says the same of every
process at the position its listener has reached: the control of an admitted stream is
the last one of its session so far (`LastCommitted`), what was published since is
written or in the buffer (`HoldsEvents`), an end of the session came before it
(`CommittedLater`). It rests on a process without a listener having no streams
(`OffHasNone`) and on a stream committing one control (`OneControl`).

Divergences without a run: spec 0009 (`index.md:44`, AC-14) says that a publish
error keeps the old stream, but a NOTIFY that commits without an answer, or an
admission that takes too long, closes the old one and refuses the new one; its
"State transitions" apply the control locally, the code waits for the listener.
A session that is looked up before its end and registered after the hub has applied
the end keeps its stream until `maxConnectionAge`, which is why `EndedStreamsClose`
has its exception.

## 10. Accounts and sessions (`AuthSession.tla`)

One user: password, sessions with their refresh tokens, one-time codes, and what an
admin does to the account. Every transaction locks the row of the user first, so it
is one step; what a request reads before it (the hash it compares, the session it is
authenticated with) is a step of its own.

| action | code |
|---|---|
| `SignInCompare`, `CreateSession`, `SignInWrong`, `FailuresForgotten`, `SignInRefused` | `SignIn` of the use case, `CreateSession` with `ExpectedPasswordHash`, `RecordLoginFailure` |
| `RotateRefresh`, `RefreshReuse`, `RevokeSession` | functions of the same name; a token used before revokes its session |
| `ChangeCompare`, `ChangePassword`, `ChangeFails` | `ChangePassword`: the comparison, then the transaction |
| `SendCode`, `WrongCode`, `VerifyEmail`, `ResetPassword`, `ExpireCode` | `CreateUserToken`, `VerifyEmail`, `ResetPassword` |
| `UpdateStatus` | `UpdateAccountStatusWithRevocation` of the admin module |
| `ExpireSession`, `CleanupExpiredAuth` | time; `CleanupExpiredAuth` |

A client that lost the answer to a refresh presents the old token again: any token
that was ever issued may be presented at any time.

**Properties.** `OneLiveSession` (one live session with exactly one usable refresh
token, none for the others), `SessionsKnowPassword` (whoever holds a live session has
signed in with the present password or has set it), `InactiveIsSignedOut`,
`RevokedIsAnnounced` (a revocation is announced to the streams exactly once).

**Run.** `auth_session`: two sessions, three refresh tokens, two codes, two requests
in flight, two changes of the password; one wrong attempt spends a code and one
failure blocks the sign-in (five in the code), so that both limits are reached.
`CHECK_DEADLOCK FALSE`: sessions and tokens run out.

**Proved** (`SessionProofs.tla`): the type invariant and all four properties, for
any numbers. `AttemptsLeft` is the only addition: an account that is not blocked has
a failure left, an open code an attempt.

`ChangePassword` rechecks neither the hash it compared nor that its own session is
still live. `SessionsKnowPassword` holds all the same, because the session of the
call is the one that is spared only if it is live, and it is the one that has set the
password. Left out: the windows of `CheckAndRecordRateLimit`.

## 11. Groups, their rosters and their followers (`GroupRoster.tla`, `GroupSync.tla`)

`GroupRoster` has the mutations of one group, each with the numbered event it ends
in (`emitGroupEvent`), and its invites. The guards on debts, bills and batches are in
`Settlement` and `BillClose`; without them more behaviours remain. "Left" and
"removed", "joined" and "rejoined" are one event each.

`GroupSync` extends it with one member's client, which has a stream and catches up
by `GET /sync`.

| action | code |
|---|---|
| `CheckMembership`, `GetSyncCursor`, `Sync` | the three reads of `Service.Sync`, each on a snapshot of its own; a snapshot page is one REPEATABLE READ transaction |
| `StreamGroupEvents`, `WriteEvent`, `ChannelClosed`, `MaxConnectionAge`, `ConnectionBreaks` | the handler: subscribes first, reads its first page, then writes what is newer |
| `HandlePostgresNotification`, `LoseSession`, `CloseSubscribers`, `Listen` | hub and listener; an event that finds the channel full is dropped |
| `RunEventRetention` | `DeleteEventsBefore`: by `created_at`, the start of a transaction, which the lock of the group may overtake; any set of events may be the one before the cutoff |
| `ApplyFrames`, `ApplyResponse`, `ApplySnapshot`, `ApplyNothing`, `SyncGroup` | the client, external: frames of the stream are fenced by version and a jump asks for `GET /sync` (spec 0009, AC-10); an answer of `GET /sync` is applied as a whole and its version noted (`docs/openapi.yaml:2485`) |

**Properties.** `OneInvite` (one usable invite, none of a disbanded group, none over
its `max_uses`), `ClientTruth` (a client holds the roster of its version, as long
as the log was neither cut between two reads of a call nor lost an event before an
older one), `NothingBetween` (an open stream leaves nothing out in silence, as long as
the log never lost an event before an older one), `CatchesUp`
(liveness: once the roster rests, a member's client reaches its version, and the
stream of a former member closes).

**Run.** `group_sync`: two users with places for two, two invites, three events of
which any two may be deleted (`MaxDeleted`; the whole log, while it has two), a channel for one event and pages of one event, so that both are exceeded by two
events. Fairness: the reads of a call and the timer of a connection go on, and the
client reconnects; nothing is assumed of the listener, which may never come back.

**Proved** (`GroupSyncProofs.tla`): the type invariant, `OneInvite`, `ClientTruth` and
`NothingBetween`, for any numbers of users, invites and events and any sizes of channel
and page, under the same exceptions. `SyncInv` adds that each event leads from one roster to the next
(`RostersFollow`), so that folding a page over the roster of its first version gives
that of its last, by induction on the length of the page; that nobody is ahead of the
group and calls ask from where the client is (`Behind`); that the events of a delta are
still there (`LogIsThere`, but for a race) and that only a beginning of the log is gone
(`LogIsEven`, but for deletions out of order), from which a page that was not too long
reaches the version of the cursor (`PageFacts`); and that what is published while the first page of a stream
is read waits in the channel (`CoveredEarly`).

Divergences without a run. When the retention job deletes events between
`GetSyncCursor` and `ListEventsSince`, the delta has a hole, or is empty and carries
the version of the cursor all the same: `ClientTruth` excepts it (`damage = "raced"`).
It needs no race. `created_at` is `now()`, the start of the transaction
(`db/migrations/000014_group_sync_v1.sql:18`), and the version is given under the lock
of the group, so that of two concurrent mutations the later version may have the
earlier time. The job (`queries/groups.sql:230`) can then delete version 6 and keep 5:
a client at 5 passes `CanServeDelta`, whose `Oldest` is 5, and gets an empty delta with
version 6; a client at 4 gets 5 and is then at 5. Neither ever hears of 6 by events, and
a snapshot comes only when it falls behind once more (`damage = "holed"`). The comment
of `CanServeDelta` ("nhật ký phải giữ được từ since+1 trở đi", `group/domain/sync.go:70`),
the comment of `RunEventRetention` ("vẫn đồng bộ đúng"), `docs/openapi.yaml:2488`
("liền mạch từ since+1") and spec 0009 AC-12 say otherwise. A removal
that commits between the check of the membership and the page leaves the stream of
the removed user open until `maxConnectionAge`, and so does the event of a removal
that finds the channel full; the comment of `sse_handler.go` has it closed at once.
The stream of a group does not ask whether the listener is connected.

## 12. Reminders and alerts (`Reminders.tla`)

Statement by statement, with the row locks each one takes: requests lock the group,
then the debt, then its payment (`LockActiveGroup`, `InsertKey`, `LockRow`); the scan
locks the debts that are due and skips those that are locked (`ClaimReminders`), and
needs the rows of their groups when it inserts an activity (`InsertActivity`, by the
foreign key of `group_activities`). What a transaction writes shows at its commit
(`RemindDebt`, `SubmitProof`, `FinishPayment`, `CommitReminders`, `CommitStalled`).

**Properties.** `CountedOnce`: every reminder is one of the scan or of one request
with its key, none is lost or counted again, and a payment is alerted once.
`RemindersSpaced` (action property): what a transaction has checked of a debt still
holds at its commit.

**Run.** `reminders`: two debts of one group, one request and two overlapping scans,
two keys, two reminders of a debt. Deadlock is checked: `DeadlockVictim` is the
database ending one, so that the model always goes on.

**Proved** (`NotificationProofs.tla`): the type invariant, `CountedOnce` and
`RemindersSpaced`, for any numbers of debts, keys, requests and scans. Rows are locked
by one transaction at a time (`RowLocksExclude`), so what a request or a scan has
checked of a row it holds is still true (`RequestHolds`, `ScanHolds`), and a key that a
request has inserted is in nobody else's hands (`KeysAreNew`); `Counted` then follows
commit by commit.

**A divergence without a run.** The two orders of locks do deadlock: a scan that
holds a debt waits for KEY SHARE on the group (`settlement/repository/postgres/
repository.go:1346` and `:1375`, `000001_init_schema.up.sql:283`), a request that
holds the group waits for the debt. `settlement/README.md:5` promises one order.
PostgreSQL ends one of them, and the properties hold over the rollback; a request
that is the victim answers with an error. The purge of keys is left out, and so are
archived groups, in which nothing is open.

## 13. Pushes (`PushDelivery.tla`)

| action | code |
|---|---|
| `SignIn`, `UpdateFCMToken`, `EndSession`, `TokenDies` | `CreateSession`, `UpdateSessionFCMToken`, any revocation or expiry, and FCM |
| `Dispatch` | `NotifyTx`: notification and River job in the transaction of what they tell of; `SendToUser`: in one transaction of their own. A change whose `SendToUser` fails has no notification; one that is made behaves alike |
| `Load`, `Send`, `Clear` | `Work`: notification and token, the call to FCM with each of its answers, `ClearFCMToken` with its `WHERE fcm_token` |
| `Fetch`, `Return`, `Crash`, `Rescue` | River: an attempt that was given up on may go on beside its successor |

**Properties.** `PushedWhereSignedIn`: a push goes only to a device where the user
was signed in at some time since it was made. A device that the user signs out of
between the dispatch and the read of the token is allowed by the formula, though the
read finds no token of a session that is over; so is one the user leaves between the
read and the call to FCM, which the code cannot prevent. `PushArrives`: a job that is done has
reached the device on which the user has stayed.

**Run.** `push_delivery`: two notifications (one that FCM refuses whatever the token),
two tokens, two attempts (25 in River's default). Two notifications because the job of
one clears the token of the other.

**Proved** (`NotificationProofs.tla`): the type invariant and both properties, for any
number of notifications, tokens and attempts. `ExecutionsHold` says what the token in
the hands of an attempt is, `AwaitedIsHome` and `HomeIsKnown` relate the history to
the session.

Divergences without a run: spec 0006 (`index.md`, AC-1) has the token cleared when a
session is revoked or expires; the code keeps it in the row and filters revoked
sessions. A push whose token was read before a sign-in elsewhere goes to the device
before, and when that token turns out dead the job is done without trying the new one.
No code deletes a notification, so the branch for a missing one cannot be reached.

## 14. Bounds

Every bound is a constant of an instance, named in the module that declares it:
members, bills, payments, calls, keys, operations, streams and tokens are finite sets
of one to three values; `MaxVersion`, `MaxInFlight`, `MaxPasswords`, `MaxInvalidate`,
`MaxResets` and `MaxCount` cap counters in guards; `AttemptLimit`, `MaxAttempts`,
`MaxWrong`, `MaxFailures`, `Buffer`, `SubscriberBuffer` and `PageLimit` are small so
that they are reached. Symmetry is used for sets whose members no definition tells
apart, and not in runs with liveness. `CHECK_DEADLOCK FALSE` stands where the system
may really come to rest: every call answered, every bill done.

## 15. What is proved and what is only checked

Proved by TLAPS: the theorems listed in `PROJECT.json`, for every value of the
constants that the named assumptions allow, and the refinement of `DebtBook`. Each
inductive invariant was first checked by TLC on the instance of its run. The type
invariants of the modules are theorems and not repeated in the runs.

| module | theorems about |
|---|---|
| `SettlementProofs` | `Settlement`, its refinement of `DebtBook`, `LedgerViews` |
| `ProofUploadProofs` | `ProofUpload`, `MediaCleanup` |
| `BillSubmissionProofs` | `BillClose`, `BillCreation` |
| `BillDraftProofs` | `BillDraft`, `BillAllocation`, `BillContents` |
| `SessionProofs` | `AuthSession`, `UserStreams` |
| `GroupSyncProofs` | `GroupRoster`, `GroupSync` |
| `NotificationProofs` | `PushDelivery`, `Reminders` |
| `FiniteSums` | sums over finite sets, whole divisions, the largest remainders, recursion over a list |

`FiniteSums` holds what the other modules need of data. An induction is taken as a set
of numbers (or of subsets of a finite set) that holds the first and with each the next:
its least missing member is named by the well-foundedness of the naturals, since the
library's induction rules take an operator and cannot be used here. On it rest the sums
that the community module `Functions` defines by a fold: `TotalExists` shows that a
function as the fold describes it exists, so that the one `CHOOSE` takes is it, and the
other lemmas (removing a term, sums of sums, linearity, exchanging two sums) follow.

Recursion over a list, which `FoldLeft` hides, is treated alike: `RecursionExists` gives a
solution, the one `CHOOSE` takes is a solution too, and `RecursionFollows` reads off
what it is after each element.

Only model-checked: liveness (`PrivateImagesGo`, `BatchEnds`, `CatchesUp`), which needs
ENABLED and fairness and is out of the prover's reach.

## 16. Plan

Every module of the plan is written, and every invariant and action property of the
runs is a theorem. What a later change of the code needs is a change of the module,
a run, and the proofs that then fail.

## 17. Not modelled

* Stateless conversions and clients: images, VietQR, the bank list, e-mail, JWT,
  password hashing, the HTTP side of the OCR provider and of FCM. Nothing in them
  depends on an order of steps.
* Metrics, configuration, commands, migrations as such: no behaviour of their own.
  The constraints and indexes of the migrations are guards of the models.
* Reads that only list: pages with their cursors, the inbox of notifications, the
  overviews of the admin, the detail of a bill.
* `CheckAndRecordRateLimit` and the limit of manual OCR retries: windows over time that
  promise nothing to the other parts.
* `POST /bills/calculate`, `int64` overflow and float quantities, see section 7.
* The SSE stream of a bill (`bill/delivery/http/sse_handler.go`): a hub like that of
  `GroupSync` without versions, whose frames only tell a client to read again.
* The idempotency keys of `CreatePayment` and of confirming and rejecting, which are
  claimed and completed in the transaction they protect, so that nothing can come between. The other mutations of
  bills (update, review, finalize, void, delete, lock, retry and apply) reserve, complete
  and release their keys in statements of their own, as `BillCreation` shows for
  `create_bill`; bulk finalize reserves its key so and completes it in its transaction;
  unlock has none.

`PROJECT.json` lists every component with its status and reason.
