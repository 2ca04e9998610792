# lotus-report: specification of durable report work

lotus-report accepts report requests, captures the source data of each report as an
immutable snapshot, has lotus-render produce the document, and records whether the archive
holds it. This directory specifies the parts of it that have to be right under concurrency,
failure and change: the durable ledgers, the processes that work on them, the commands given
while they do, and what a document may claim about the evidence it was made from.

    tlc -workers 2 -config MCReportJobPipeline.cfg MCReportJobPipeline
    tlapm ReportJobProofs.tla

`PROJECT.json` lists every run, mutant, mapped definition, finding, hazard and theorem.
Paths below are relative to `src/app/` of the repository.

## Inventory

| Component | State | Operations | What is hard | What makes it correct |
|---|---|---|---|---|
| Report-job ledger (`reporting_jobs/postgres_ledger.py`, `work_queue.py`, `lifecycle_policy.py`) | one `report_job` row and at most one `report_job_work_item` per job | create / resubmit, claim, complete, defer, fail, expiry sweep, `mark_*`, cancel | stale workers, retry budget with refunds, exhaustion closing the job in the same transaction | lease fence, budget, terminal states stay terminal, work settles once |
| SQLite job ledger (`reporting_jobs/ledger.py`) | the same tables, events, rerender attempts, relationships, one process lock | the same operations, `append_job_event`, rebuild of an old database | statements outside a transaction, a killed rebuild | one live replacement, events stored once, retained requests survive |
| Report-job worker (`reporting_jobs/worker.py`, `execution.py`, `process.py`) | nothing durable; the claimed item, the record it read | claim, execute by stage, settle | crash or deadline between steps, records that are stale after an await | an item is completed only under a finished job; every job ends |
| Snapshot capture (`reporting_lineage/capture_service.py`, `postgres_store.py`) | one snapshot per job | resume, collect, store, fail | two executors capturing at once | one immutable, intact snapshot under every document |
| Render orchestration (`reporting_render/service.py`) | render and archive identities on the job | build, submit, look up, diagnose, adopt, record custody | lost answers, renders that finish late, deliveries of unknown outcome | archived means committed; replayable archive failures can be resolved |
| Custody recovery (`reporting_jobs/custody_recovery.py`, `reporting_render/retained_offer.py`) | custody columns, the retained render offer | reserve, dispatch, poll, park, resume, confirm | epoch and lease fences, a lease lost between reserving and sending | sends within what was approved, job and work parked together, every attempt ends |
| Failed-work replay (`reporting_render/replay_service.py`, `create_replay_derived_job`) | `report_job_relationship` rows | resolve, adopt, derive, clone, run inline | concurrent replays, replay against a late commit | one replacement under way; no second document after a resolution the archive had decided |
| Rerender / regenerate / archive lineage (`reporting_render/rerender_service.py`, `regenerate_service.py`, `archive_lineage.py`) | rerender attempts, derived jobs, lineage events | start, resolve ambiguity, adopt, archive, link, settle, reconcile | lost archive answers, late commits, linkage after the fact | one document per key; a reported replacement is linked |
| Batch orchestration (`report_batch_orchestrator/`) | batch row, item rows with leases | recover, dispatch, link, execute, reconcile; pause, resume, cancel, retry, replay; bounded scan | overlapping passes, job creation and linking in two transactions, commands in between, a backlog in the window | a success rests on a job of the item that rendered, verdicts leave no open work, budgets, leases end, no tenant starves |
| Batch scheduling (`scheduler.py`, `schedule_definitions.py`, `schedule.py`, `selector.py`) | definitions with revisions, audit rows, batches per cycle | create / update a schedule, run due, resolve, recognise, materialize | racing editors and passes, partial upstream answers, missed periods | audit explains the definition, one batch per stored cycle, every pack was owed, exact backfill |
| Idea evidence intake (`idea_evidence_intake/`, `routers/idea_evidence_intake.py`) | intake records in a file or a table | accept, materialize, recover, upgrade, transfer, change backend | a ledger lost or replaced between two calls | accepted intakes survive; a receipt names its evidence |
| Reporting reads (`services/`) | the answers of one request | composed calls, paging, readiness | a source restated between pages, calls that degrade | a ready window of well-formed pages is one revision; client readiness rests on answered calls |
| Render package (`reporting_render/package_builder.py` and the presenters) | the accepted contract, the snapshot | compose, refuse, replay, rerender | a release that never accepted the job, evidence older than the page | the accepted contract is kept; readiness rests on publishable evidence |
| Composite reporting (`composite_reporting/`) | admission, order, captured dataset | admit, authorise, read, verify, refuse | authority and sources that change between reads | one principal, one generation, complete correction history |
| Catalogue validation, identity derivation, metrics, pooling, migrations | none, or projections | validate, derive, count | detail of one call | not a matter of interleaving |

The components meet in the job row. Clients create jobs with a work item (`submit_*`), which
only queue workers execute. Batch dispatch, replay and regenerate create jobs without one
(`create_*`), which only the batch pass or the request that made them executes. Every executor
runs the same stages (`ReportJobExecutionService`) and every write goes through
`_transition_job`, which checks the current row, not the record the caller holds.

## Modules

* **ReportJobLedger**: the ledger under arbitrary callers. `job`, `work` are the two tables,
  `holding` what each worker process believes it claimed. One action per transaction. This is
  also the *abstract* specification of the pipeline: a caller may request any transition at
  any time. Time is relative: leases and backoffs count ticks from now.
* **ReportJobPipeline** extends it with the executors. `run[e]` is the stage an executor is at
  and the record it carries; `snapshot` the snapshot store; `render` and `custody` what
  lotus-render and the archive hold (external, modelled from how the code reads their
  answers). One step is one transaction or one remote call. `Embedded` are the proof-pack,
  outcome-review and wave orders, which carry their input and ask no source. That its steps
  are steps of `LedgerSpec` is checked and proved.
* **ReportJobReplay** extends the pipeline with `replay_job` and the relationship rows. A
  job has at most one source, so what the walk of the SQL (recursive CTEs up to the root and
  down to every descendant) reaches is the least set around the job that is closed under the
  relation; `lineage` says exactly that.
* **CustodyRecovery**: one job under the retained-offer policy. `run[w]` carries the fence a
  pass took when it read the job; each ledger transaction checks it again. Time is what it
  decides: a lease has run out, an attempt is due, the window has closed. **RetainedDelivery**
  states what this promises without workers, leases or tables; `DeliverySpec` of
  CustodyRecovery maps the custody columns to it; the refinement is checked and proved.
* **ReportBatch**: one batch, its items, overlapping passes and item replays. A report job is
  kept by the outcome a pass can tell; how it gets there is the pipeline's business.
* **SqliteBatchLedger**: several one-item batches of several tenants under the bounded scan
  `list_runnable_batch_ids`, with every operation of that ledger.
* **BatchScheduling**: definitions, audit, configured schedules, editors that read and write
  in two steps, passes that resolve portfolios upstream one definition at a time and hold that
  definition until its batch is stored, whatever is edited meanwhile. Dates are day numbers,
  so that the calendar arithmetic (month and quarter ends, the cursor `walk_back` moves from
  one period end to the one before) is arithmetic and is compared with a direct definition of
  what is owed.
* **DocumentCorrection**: rerender and regenerate commands on one archived document, the
  archive that may commit late, lineage events and both ways they are settled.
* **IdeaEvidenceIntake**: the file, its tenant upgrade, the transfer, the table, and calls that
  span accept, job creation, capture and receipt.
* **SqliteReportJobLedger**: threads of one process and the one `threading.Lock`. A `SELECT`
  outside a transaction holds nothing, so such a call is two steps. `replay_lineage` is again
  a least closed set.
* **PortfolioReview**: the calls of a review in order, each with every answer the source may
  give, and from them section statuses, readiness, trust and audience claims.
* **RenderPackage**: acceptance under a release, later packages under any release, and the
  posture of every panel as a function of the immutable snapshot. Contributors are ranked by
  counting the rows that come before each one, which settles ties by position as Python's
  stable sort does.
* **CompositeReview**: admission, authority per send, pinned reads, corrections and their
  lineage; the worker may die between reads.
* **ReportJobProofs** (about ledger, pipeline and replay), **ReportBatchProofs**,
  **BatchSchedulingProofs**, **CustodyRecoveryProofs**, **IdeaEvidenceIntakeProofs**,
  **DocumentCorrectionProofs**, **SqliteReportJobLedgerProofs**, **ReportContentProofs** (about
  the three content modules): the theorems about the modules each extends.
* **NoValue** declares `None`, which the modules share for Python's `None` and SQL's `NULL`.
* **MC...**: instances for TLC. `MCReportContent` checks three independent models in one run,
  `MCRequests` (intake, correction) and `MCBatchScheduling` (scheduling, SQLite ledger) two
  each: the initial state chooses one of them, only that one moves, and each property speaks of
  its own model.

Operators named `..._late`, `..._unchecked`, `..._missed` and the like, commented "Mutant",
are wrong versions of the definition that follows them; they show that the properties notice.

What the modules abstract: identifiers, payload contents, messages and telemetry. A fingerprint
or hash is the tuple of what it covers, no more, since what it leaves out is often the point (a
report request hash covers the content and not the candidate; a stored cycle key covers the
schedule and the as-of date and not the cadence). A snapshot in the pipeline is intact (one of
`Contents`), `inconsistent`, or a stored failure. The two pre-cutover archive categories
(`archive_storage_failed`, `archive_execution_failed`) are not produced by this code.

## Runs

| Run | Shows | Bounds |
|---|---|---|
| `pipeline_workers` | the budget holds under claims and refunds, exhausted work closes its job, a lost lease stays lost, settled work is not opened again, items are completed only under finished jobs, every advanced job rests on an intact snapshot, archived means committed, the pipeline implements the ledger | one job, queued, direct, or direct with the input in its order (followed until its render is submitted: from there on it takes the steps of any direct job); 2 workers, 2 callers, 3 tokens, 2 attempts, 2 contents |
| `pipeline_liveness` | every queued job finishes and every work item settles | one job with or without a document, or an outcome-review or wave order whose input is absent or undigested; 1 worker that may crash at every step, every custody answer, a Render that forgets |
| `replay` | a replay let through by an archive that had decided never makes a second document; two requests never have two replacements under way | 1 original, 2 derived jobs, 1 worker, 2 requests (`RaceIsPlain`) |
| `batch` | a success rests on a job of the item that rendered, verdicts leave nothing to dispatch, restarts stay within budget, leases end | 1 item, 2 passes, 1 operator, 1 replay key, 2 attempts, 3 tokens |
| `batch_scan` | no tenant starves behind another's backlog | 3 batches of 2 tenants, a window of 1, one failure beyond the attempt limit |
| `scheduling` | the audit explains the definition, a stored cycle has one batch, every pack was owed, backfill is exact; the SQLite job ledger keeps one live replacement and retained requests | 1 schedule, 2 editors, 2 passes, 2 under way at a time, 3 days, limit 2, 2 revisions; 2 threads, 3 job keys, 2 contents, 2 attempts |
| `custody` | sends stay within the approved budget, job and work park together, the ledger implements `RetainedDelivery`, every attempt ends | 2 workers, 1 repeat, 2 polls, 1 attempt, 1 approval, 2 archive requests |
| `requests` | accepted intakes survive upgrade, transfer and change of backend; receipts name their evidence; one document per correction key; reported replacements are linked | 2 calls; 2 tenants, 3 packs of which 2 in use; 3 correction keys |
| `content` | a ready window of well-formed pages is one revision; client readiness rests on answered calls; the accepted contract is kept; readiness is publishable; rankings show both sides; one principal, one generation, complete correction history | pages of the smallest size that needs two, 1 restatement, one call whose text alone decides its posture (`ReviewBound`), 2 releases, 2 initiators |
| `replay_duplicate`, `batch_cancel`, `batch_pause` | three statements of the documentation that the code does not keep (below) | as above |

Why the bounds are enough: every fence compares one row with one process, so a conflict needs
a row, its owner and one other process; a third token lets a stale token differ from two live
ones; two attempts make first, retried and exhausted attempts distinct. Jobs share nothing but
workers, so one job of each kind stands for many (`OneJob`). Two distinct snapshot contents are
needed for a lineage conflict, two packs of one content for a hash that leaves something out,
two pages for a restatement in between. Ledgers, pages and restatements are varied only under
orders that read a window. In `batch` one item keeps the run small; what depends
on several items, the verdict over their statuses, is proved for any number. In `scheduling`
a month has one day: a period end every day and a quarter end on the last make both cadences
and the limit meet within three days. `LeaseTicks` and the delays are one tick: only their
order matters. `OneOvertakenPass` (custody) lets one pass at a time go on without its lease; an
overtaken pass ends by its own fair steps, so the bound delays the next expiry and does not
forbid it.

Symmetry is used where no liveness is checked. Deadlock is checked except in `content`, whose
behaviours end with the document.

**Fairness.** The worker daemon loops for ever (`process.py`), so a stage that can move does
(WF), and claims take the oldest due row (`ORDER BY available_at`), so a due item is not
passed over for ever (SF). Sweeps open every claim (WF). Render finishes what it admitted (WF)
and answers a lookup that is repeated for ever (SF). For batches: the daemon starts passes
again and again, a pass moves on, not every pass dies before its first transaction (SF), time
passes. For custody: workers poll and sweep, a worker in a pass does not stall, time passes; a
crash is never forced and never forbidden. For the scan: the window is filled in random order
within a rank, so a batch that could be in it is not left out for ever (SF). No fairness is
assumed of crashes, clients, operators, authority providers or the archive.

## Findings

1. *Replay may duplicate a document* (`replay_duplicate`). The archive is asked only when the
   failure category is an archive one. A submission whose answer was lost, or a worker that
   ran out of attempts in `rendering`, leaves a retryable failure of another category while
   the render lives on, is delivered, and the replay delivers a second document.
2. *`:cancel` may cancel an item that has a job* (`batch_cancel`). Creation and linking are
   two transactions; the job stays accepted and nobody executes it.
3. *A paused batch stops its jobs* (`batch_pause`). Batch jobs have no work item, and no pass
   runs over a paused batch.

Observed while modelling, without a run of their own:

* Two overlapping scheduler passes may mint two batches for one *configured* cycle: the
  recognition and the creation are two transactions and the key covers the resolved portfolios
  (`scheduler.py`, "One cycle, one batch: mint nothing"). Stored cycles are safe.
* A configured schedule with an inactive portfolio raises in every pass; stored schedules come
  after it and are not reached.
* A rerender that dies between `mark_rerender_archived` and its first lineage event is never
  linked; one that dies in `rendering` or `archiving` is not counted as ambiguous, so a fresh
  key may make a second correction.
* Two concurrent regenerates of one key may leave the relationship with the older status.
* After a lost intake ledger, an intake-only call stores the record that later excuses an
  unverifiable replay.
* A replay decided while the archive still works on the source's delivery gets the archive's
  404 (`replay_policy.py:10`) and proceeds; the delivery may commit afterwards. The model keeps
  such sources in `raced`, and `ResolvedReplayIsUnique` speaks of the others.
* A batch item whose job is rendered and waits on its delivery succeeds: `execute_job` returns
  it `completed` and waiting on the owner, so that "a completed job with an unresolved custody
  outcome must keep polling" (`reporting_jobs/execution.py:60-65`), and the batch does not read
  the second answer. `SucceededItemWasRendered` therefore promises a render, no delivery.
* A transaction page without a total reads as a total of 0 and ends the paging, and an element
  that is no row is dropped without being counted; the short or repeating window is reported
  ready, where `wiki/Portfolio-Review-Report.md:212-214` says that partial, unknown or paged
  windows "are marked partial instead of appearing complete".
* In a capture no attribution is ever read: the recording client of lotus-performance
  (`capture_service.py:551-612`) has neither the call nor the address it would need, and
  `attribution_capture.py:181` swallows the fault. The section of a captured review is always
  unavailable and the call is not recorded. On a synchronous read a pending attribution (202)
  does not reach `_review_readiness`.
* The text of an answer that says "redacted", "not_supported" or "partial" decides the recorded
  posture of the call whatever the section makes of it, so a client-ready review may rest on
  calls so recorded (`capture_service.py:235`).
* A snapshot without a readiness is "unknown" in the governance section and reads as ready in
  the summary sentence (`package_builder.py:899`, `:1646`).
* A window of exactly `max_rows` rows is called truncated.
* The capacity of a dispatch is read before the lease is taken, so two dispatches may together
  exceed `max_active_items`; a pass that fails late overwrites an item another pass completed.
* The SQLite ledger's settlements take no lock, so a transition may be written over the failure
  of an exhausted job; the oldest stuck batch of a tenant blocks its younger ones in a small
  window.
* An authority that rotates between admission and attempt fails the composite job for good.

## Proofs

Every proof has the same shape: an inductive invariant that contains the property, one lemma
per action that the action preserves it, and under it one step per conjunct the action
disturbs. No theorem depends on a bound of a run: the constraints and the finite sets of the
MC modules are not hypotheses.

**ReportJobProofs, the ledger**: for every set of jobs, workers and tokens and every retry policy
with positive parameters and `BaseDelay <= MaxDelay` (`LedgerAssumption`): type correctness,
`AttemptBudget`, `ExhaustedWorkIsTerminal`, `LeaseFence`, that exactly archived jobs name a
document, that terminal jobs stay terminal, that work settles once and that a lost lease stays
lost. The induction is over types, budget, exhaustion, the document equivalence and the lease
fence together. `TypeOK` alone is not inductive, because `attempt_count <= MaxAttempts` after
a claim needs that a claimable item has attempts left; `LostLeaseStaysLost` needs that a token
in a row or a process belongs to at most one lease. Exponentiation is out of the solvers'
reach; the proof uses only that the delay lies in `0..MaxDelay`, which the definition's last
line gives.

**ReportJobProofs, the pipeline**: the executors implement `LedgerSpec`, so the ledger's theorems are
facts about the program that runs on it; and `CompletedWorkIsFinished`,
`RenderedFromIntactSnapshot`, `ArchivedIsCommitted` and `ReplayableArchiveFailureHasRequest`
hold for any number of jobs, workers and callers. The difficulty is that an executor acts on a
record it read several steps earlier. `PipelineInv` therefore says, for every stage, which
facts its executor may still rely on (`RunOK`), and each of them is one that no step takes
back (`Kept`): a job stays in its table, an intact snapshot and a committed delivery stay, a
finished job stays finished, an archive request id is never removed. `JobOK` relates the two
rows of a job, `HoldingOK` a lease to the stage that works under it. The refinement is proved
step by step: every stage is a ledger transaction or changes neither table
(`MarkCallIsLedgerStep` for the transitions). `PipelineAssumption` says that the sets of jobs
are sets of jobs, that executors are workers or callers and not both, and that a stage reports
only failure categories a caller of the ledger may report.

**ReportJobProofs, replay**: replay keeps to the ledger; `ResolvedReplayIsUnique` and
`OneReplacementUnderWay`. `ReplayInv` needs two ideas. A request that got past the archive
lookup holds an *absence*: either the delivery had ended without a document, which never
changes again, or it was still undecided and the source is recorded in `raced` (`ResolvedOK`,
`RelationOK`). And two derived jobs under way are
kept apart by a set closed under the relation that contains one and not the other (`ApartOK`);
a new job joins the lineage of its source, where the transaction has just found nothing under
way. Least closed sets make this an argument about sets, without induction along the lineage.
The run restricts racing requests to plain originals (`RaceIsPlain`); the theorem does not.

**ReportBatchProofs**: `SucceededItemWasRendered`, `ClosedBatchHoldsNoDispatch` and
`RestartWithinBudget` for every number of items, passes, replays and policies. `BInv` adds what
is missing for induction: an undispatched item has no job; a waiting, retryable or succeeded
one has one (so `:retry-failed` never reopens an item under a verdict); what a pass carries
over an await is an item with a job, and a success it saw was rendered, whatever became of
the job since. `rendered` remembers which jobs of an item rendered; the code keeps no such list.

**BatchSchedulingProofs**: `AuditExplainsDefinition`, `OneBatchPerStoredCycle`,
`EveryPackWasOwed` and `BackfillIsExact` for any schedules, editors, passes, portfolios and days. A pass may store a
batch for a definition that was edited or disabled since it was read, so the invariant cannot
speak of the current definition: `DefinitionOK` says that some audited revision owed the
period, which stays true because the audit only grows. `EditsOK` keeps what an editor read,
`BatchesOK` that keys are unique and that the key of a stored cycle is its schedule and as-of
date. `BackfillIsExact` compares a recursive walk with a set: `due_as_of_dates` goes from
one period end to the one before, and must name the latest `BackfillLimit` ends the definition
owes, none skipped. The walk has a closed form (the k-th date is the end of the k-th last whole
period), it is the only function that satisfies its recursion (a least index where two differ
cannot exist), and the owed ends from a date on correspond one to one to the periods from it to
the last, which gives their number.
`SchedulingAssumption`: positive month length, limits and revisions, finite packs, and `None`
no date or row.

**CustodyRecoveryProofs**: `SendsWithinBudget`, `ParkedTogether`, and that the ledger, its
workers and leases implement `RetainedDelivery`. The reservation and the send are two steps,
and the lease may be lost in between, so counting sends is not inductive: `RepeatsOK` counts
the sends made *and about to be made* against what was reserved under each approval, and
`FirstSendOK` leaves one pass to make the first send. `LeaseOK` gives each token to one pass;
`PassOK` says what any pass may rely on and what only the owner of the lease knows. The offer
divides the life of a job in two (`JobOK`). `CustodyAssumption`: budgets are naturals, workers
finitely many (their sends are counted), `None` none of the values it stands in for.

**IdeaEvidenceIntakeProofs**: `AcknowledgedIntakeSurvives` and `ReceiptNamesItsEvidence` for
any tenants, keys, packs and calls. The property speaks of the ledger the running service
reads; between stop and start there is none, so `AcknowledgedOK` says that the configured
ledger holds what was acknowledged, open or not. `TransferOK` carries it over the change of
backend: a transfer works on the file as it is because the service is down, and a complete one
has carried every row. `LegacyOK` is what the receipt of a job without a stored identity rests
on.

**DocumentCorrectionProofs**: `OneDocumentPerKey` and `ReportedReplacementIsLinked` for any
keys and calls, with an archive that may commit late. `CallOK` says by stage what a command
knows; `AttemptOK` that the answers given for a key are the key's own document, or the one
document the key was bound to when it adopted another attempt's outcome, and that in the
latter case no call is left that could still give the key a document of its own
(`BoundElsewhere`); `ReplacementOK` ties a replacement's status, its relationship and its
lineage event. `CorrectionAssumption`: a key belongs to one command.

**SqliteReportJobLedgerProofs**: `OneLiveReplacement`, `RetainedRequestsSurvive` and
`EventStoredOnce` (a retried event is one row; proved only, no run checks it) for any keys, threads and retained requests; and that a replayed job stays at
rest and that a derived job has one source. `SqliteInv` says that what a thread selected and
has not yet written it selected under the lock it still holds (`LockOK`), and that it is still
true when the thread writes (`SelectedOK`). The exception is a job that the queue, which takes
no lock, has settled meanwhile; such a job was submitted, is not itself derived (`QueueOK`), was
not at rest and so takes part in no replay. `SourcesOK` keeps replayed jobs at rest. `FilesOK` follows the rebuild of `report_request`
statement by statement: whatever the transaction has done, the file on disk holds every
retained row. `OneLiveReplacement` counts only members of a lineage that were not replayed
themselves. A late archive commit may still turn a replayed failure into an archived job, and
with four keys (a replay of a replay that failed for good, then a second replay of the root)
that job and a replacement are live together; the code lets this happen, because the archive
answer that settles it had not arrived.

**ReportContentProofs**: every invariant of the `content` run, for any orders, snapshots,
ledgers, releases and histories.
*Composite*: `CompositeInv` ties a send to the admission recorded with the job (`SendsOK`,
`AcceptedOK`) and every part read so far to the pin it was read under (`CaptureOK`); a stored
snapshot then is one generation and never replaced. `HistoryOK` says that the receipts of a
captured correction are the walk along the recorded predecessors; that this recursive walk is
well defined for histories of any length rests on `HistoriesAssumption` (a predecessor has a
smaller sequence number, and root versions have none).
*Package*: `PackageInv` says what acceptance writes and no later release reads again
(`JobsOK`), and what each composed package carries of it (`PackagesOK`). The ranking is proved
for any number of rows and ties: the rank of a row is the number of rows before it, ranks are a
permutation, so the sequence of the rows by rank exists and is sorted.
*Review*: `ReviewInv` says which calls are behind (`PathOK`), that every page taken continues
one revision of the ledger or marks the window (`LedgerOK`, `WindowOK`; `wellformed` remembers
that every page stated its total and held only rows), and that a failed call or an incomplete
risk result leaves the section that reads it short of ready (`AnswersOK`, `RiskOK`, `PerformanceOK`,
`CallsOK`); client readiness is then refuted from any
such call that a section shows.
Assumptions (`ReviewAssumption`, `PackageAssumption`, `RefusalAssumption`,
`CompositeOrdersAssumption`, `CompositeAssumption`) are the request models' own validation:
limits are positive, the presented limit is at least two, sections are known ones, `None` is
none of the values it stands in for, and an allocation always carries a qualification.

Where a proof needs induction (the walk back, the history of a correction), it takes the least
counterexample of a set of naturals (`WFMin`), which is a fact about sets and needs no operator
as a parameter. Alternatives that can hold together are written as IF chains in the source's
order, since TLA+ leaves the choice of a CASE open there and nothing could be proved of it.

Model-checked only: liveness, because temporal reasoning under fairness is out of the prover's
reach. These are `EveryQueuedJobFinishes`, `EveryWorkItemSettles`, `LeasedItemMovesOn`,
`CustodySettles` and `NoTenantStarves`. Every invariant, action property and refinement that a
passing run checks is also proved, the two action properties of the ledger for `LedgerSpec`,
which the pipeline implements.

## What the models leave out

Where a model does less than the code, on purpose:

* *Pipeline, replay.* `_map_job_failure`'s categories of a failed capture that may not be
  retried are one. A replay of a composite checks its retained snapshot before it derives a
  job, a replay of a review after; the model has the later check, which allows more.
* *Batch.* Back-pressure counts the items of the batch alone, not of other batches; the
  quarantine of an item whose linked job is of another identity
  (`_quarantine_unusable_linked_job`) is left out, since identities are. The attempt and retry
  fields of `SqliteBatchLedger` have no `next_retry_at`: no caller passes one. Its scan is that
  of a caller who may see every tenant.
* *Scheduling.* All months have `DaysPerMonth` days; which days end a month is the calendar's.
* *Custody.* Capture is one step from accepted to data ready.
* *Correction.* A regenerate repeated while its job is at `data_ready` is answered and not
  rendered on; a render answered as not rendered commits nothing; the re-read of the attempt
  when a key is created is in the step that creates it.
* *Intake.* Recovery compares whole packs where the code compares six identity fields; conflicts
  among several candidates end like a single one. The operator selects the table only
  after a complete transfer, and the file again only while the table is empty.
* *Review, package.* An allocation that is present, empty and not ordered is none (the code
  calls it missing); the identity checks of a composite package are one refusal, and its
  preflight and the notice custody of v9, which only refuse more, are left out; a snapshot
  always has its identity, so its absence is not refused.
* *Composite.* Books are fixed: a correction is on record before the capture or not at all. Of
  the checks of a lineage the model has those on ancestry, month, population, order and pins.
  The refusals for definition, parent publication, reason, policy, clock and reused revisions,
  of an invalid stored request and of a foreign job are left out, and the predecessor of a
  pooled read is compared by version: the model admits more than the code, so what holds of
  every dataset it stores holds of the code's. The event that notes a send authorization is
  read by nobody.

## Not modelled

Not modelled, because they change no state that another step reads or hold only the detail of
one call: static catalogue validation, derivation of identities and retention dates, wording,
layout and number formatting, money arithmetic inside one answer, the aggregation endpoint,
URL and header mapping of clients, operator views, metrics, pooling and migrations. Liveness
of scheduling is not stated: a configured schedule may stop every pass (above), so the
statement would hold only without configured schedules. Hazards that no property covers are
listed with their reason in `PROJECT.json`.
