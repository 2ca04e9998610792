--------------------------- MODULE ReportJobLedger ---------------------------
(***************************************************************************)
(* The durable report-job ledger of lotus-report: one row per report job   *)
(* (report_job) and at most one work item per job (report_job_work_item).  *)
(* Every action is one database transaction of                             *)
(* app/reporting_jobs/postgres_ledger.py; the SQLite ledger repeats the    *)
(* same statements.  The module leaves the callers free: any caller may    *)
(* request any transition at any time, and a worker may settle, keep or    *)
(* lose the lease it holds.  ReportJobPipeline restricts the callers to    *)
(* what the services really do.                                            *)
(*                                                                         *)
(* Timestamps are kept relative to the current time: lease_expires_at is   *)
(* the number of ticks left (negative once overdue, saturating at          *)
(* -MaxDelay, below which no comparison changes), available_at the number  *)
(* of ticks until the row may be claimed (0 once due).                     *)
(*                                                                         *)
(* The custody-protected rows (custody_policy not NULL) are not this       *)
(* module's: they follow reporting_jobs/custody_recovery.py.               *)
(***************************************************************************)
EXTENDS Integers, FiniteSets

CONSTANTS
    Jobs,          \* report jobs that callers may ask for
    Workers,       \* report-job worker processes
    Tokens,        \* lease tokens (rlease_ + uuid4)
    NoToken,       \* SQL NULL in lease_token
    NoLease,       \* a worker that holds no claimed work item
    MaxAttempts,   \* ReportJobWorkRetryPolicy.max_attempts
    BaseDelay,     \* ReportJobWorkRetryPolicy.base_delay_seconds, in ticks
    MaxDelay,      \* ReportJobWorkRetryPolicy.max_delay_seconds, in ticks
    LeaseTicks,    \* REPORT_JOB_WORKER_LEASE_SECONDS, in ticks
    CallerCategories \* the failure categories callers pass to mark_failed

ASSUME LedgerAssumption ==
    /\ MaxAttempts \in Nat \ {0}
    /\ BaseDelay \in Nat \ {0}
    /\ MaxDelay \in Nat \ {0}
    /\ BaseDelay <= MaxDelay
    /\ LeaseTicks \in Nat \ {0}
    /\ NoToken \notin Tokens
    /\ NoLease \notin [job : Jobs, token : Tokens]
    /\ CallerCategories \subseteq
         {"upstream_data_failed", "data_incomplete", "validation_failed",
          "render_validation_failed", "render_execution_failed", "render_conflict",
          "render_artifact_unrecoverable", "archive_outcome_unknown",
          "archive_handoff_failed", "archive_handoff_not_configured"}

VARIABLES
    job,      \* [Jobs -> row of report_job]
    work,     \* [Jobs -> row of report_job_work_item]
    holding   \* [Workers -> the work item a worker process claimed, with its token]

ledgerVars == <<job, work, holding>>

-----------------------------------------------------------------------------
(* Vocabulary *)

JobStatuses == {"absent", "accepted", "collecting_data", "data_ready", "rendering",
                "completed", "archiving", "archived", "failed", "cancelled"}

\* A job in one of these states is never advanced by work again.
TerminalStatuses == {"archived", "failed", "cancelled"}

\* The identities a job row accumulates; NULL arguments never erase one.
Identities == {"render_job_id", "archive_request_id", "archive_document_id"}

FailureCategories ==
    {"none", "upstream_data_failed", "data_incomplete", "validation_failed",
     "render_validation_failed", "render_execution_failed", "render_conflict",
     "render_artifact_unrecoverable", "archive_outcome_unknown",
     "archive_handoff_failed", "archive_handoff_not_configured",
     "operator_intervention_required", "timeout", "cancelled"}

WorkStatuses == {"absent", "pending", "leased", "retry_pending", "completed", "failed"}

ClaimableStatuses == {"pending", "retry_pending"}

\* REPORT_JOB_TRANSITION_ALLOWED_FROM: the states each target may be entered from.
AllowedFrom ==
    [collecting_data |-> {"accepted"},
     data_ready      |-> {"accepted", "collecting_data"},
     rendering       |-> {"data_ready"},
     completed       |-> {"data_ready", "rendering"},
     archiving       |-> {"completed"},
     archived        |-> {"completed", "archiving", "failed"},
     failed          |-> {"accepted", "collecting_data", "data_ready",
                          "rendering", "completed", "archiving"}]

TransitionTargets == DOMAIN AllowedFrom

CancelBlockedStatuses == {"rendering", "completed", "archiving", "archived", "cancelled"}

AbsentJob == [status |-> "absent", failure_category |-> "none",
              retry_eligible |-> FALSE, ids |-> {}]

AbsentWork == [status |-> "absent", attempt_count |-> 0, lease_token |-> NoToken,
               lease_expires_at |-> 0, available_at |-> 0]

PendingWork == [status |-> "pending", attempt_count |-> 0, lease_token |-> NoToken,
                lease_expires_at |-> 0, available_at |-> 0]

AcceptedJob == [status |-> "accepted", failure_category |-> "none",
                retry_eligible |-> FALSE, ids |-> {}]

-----------------------------------------------------------------------------
(* Job rows *)

\* is_report_job_transition_allowed, or the idempotent repeat of the current state.
transition_accepted(j, to) ==
    /\ job[j].status # "absent"
    /\ job[j].status = to \/ job[j].status \in AllowedFrom[to]

\* The row _transition_job leaves: a repeat changes nothing, a transition overwrites
\* the failure posture and keeps every identity already recorded (COALESCE).
transitioned(j, to, category, retry, ids) ==
    IF job[j].status = to
    THEN job[j]
    ELSE [status |-> to, failure_category |-> category, retry_eligible |-> retry,
          ids |-> job[j].ids \cup ids]

\* _transition_job: one fenced update of the job row; a refused transition raises
\* before any write, so the action is simply not enabled.
transition_job(j, to, category, retry, ids) ==
    /\ transition_accepted(j, to)
    /\ job' = [job EXCEPT ![j] = transitioned(j, to, category, retry, ids)]

is_report_job_cancellable(status) == status \notin CancelBlockedStatuses \cup {"absent"}

\* cancel_job.
cancel_job(j) ==
    /\ is_report_job_cancellable(job[j].status)
    /\ job' = [job EXCEPT ![j] = [status |-> "cancelled", failure_category |-> "cancelled",
                                  retry_eligible |-> FALSE, ids |-> job[j].ids]]
    /\ UNCHANGED <<work, holding>>

\* Mutant: a repeated request queues the job again.
ensured_work_item_again(j, status) ==
    IF work[j].status \in ClaimableStatuses \cup {"leased"} THEN work[j] ELSE PendingWork

\* _ensure_work_item: a job whose work can still matter gets exactly one work item.
ensured_work_item(j, status) ==
    IF status \in TerminalStatuses \/ work[j].status # "absent"
    THEN work[j]
    ELSE PendingWork

\* _create_report_job for a new idempotency key.  submit_* enqueues; create_* (batch
\* dispatch, replay, regenerate) does not.
create_report_job(j, enqueue) ==
    /\ job[j].status = "absent"
    /\ job' = [job EXCEPT ![j] = AcceptedJob]
    /\ work' = IF enqueue THEN [work EXCEPT ![j] = ensured_work_item(j, "accepted")]
                          ELSE work
    /\ UNCHANGED holding

\* _create_report_job for a known key with the same request: submit_* repairs a missing
\* work item and returns the stored job.
resubmit_report_job(j) ==
    /\ job[j].status # "absent"
    /\ work' = [work EXCEPT ![j] = ensured_work_item(j, job[j].status)]
    /\ UNCHANGED <<job, holding>>

-----------------------------------------------------------------------------
(* Work items *)

\* retry_delay_seconds: doubling backoff with a ceiling.
retry_delay_seconds(attempts) ==
    LET exponent == IF attempts >= 1 THEN attempts - 1 ELSE 0
        delay    == BaseDelay * (2 ^ exponent)
    IN  IF delay \in 0..MaxDelay THEN delay ELSE MaxDelay

\* The relative form of a timestamp that lies at + seconds ticks from now.
due_in(at) == IF at > 0 THEN at ELSE 0

\* Mutant: the budget comparison is off by one.
failure_decision_late(item, failed_at) ==
    [status |-> IF item.attempt_count > MaxAttempts THEN "failed" ELSE "retry_pending",
     attempt_count |-> item.attempt_count,
     lease_token |-> NoToken,
     lease_expires_at |-> 0,
     available_at |-> due_in(failed_at + retry_delay_seconds(item.attempt_count))]

\* decide_report_job_work_failure: budget spent means failed, otherwise back off.
\* failed_at is relative: 0 for now, lease_expires_at for an expired lease.
failure_decision(item, failed_at) ==
    [status |-> IF item.attempt_count >= MaxAttempts THEN "failed" ELSE "retry_pending",
     attempt_count |-> item.attempt_count,
     lease_token |-> NoToken,
     lease_expires_at |-> 0,
     available_at |-> due_in(failed_at + retry_delay_seconds(item.attempt_count))]

\* Mutant: a job in the archive handoff is left to the archive.
terminalized_before_archive(j, category) ==
    IF job[j].status \in TerminalStatuses \cup {"archiving"}
    THEN job[j]
    ELSE transitioned(j, "failed", category, TRUE, {})

\* _terminalize_report_job_from_work: the job row when the work budget is spent.
terminalized(j, category) ==
    IF job[j].status \in TerminalStatuses
    THEN job[j]
    ELSE transitioned(j, "failed", category, TRUE, {})

\* The common effect of fail_work_item and of expiry recovery, in one transaction.
settle_failed_work(j, failed_at, category) ==
    LET item == failure_decision(work[j], failed_at)
    IN  /\ work' = [work EXCEPT ![j] = item]
        /\ job' = IF item.status = "failed"
                  THEN [job EXCEPT ![j] = terminalized(j, category)]
                  ELSE job

\* uuid4: the token of a new lease differs from every token anyone still has.
fresh_token(t) ==
    /\ \A j \in Jobs : work[j].lease_token # t
    /\ \A w \in Workers : holding[w] # NoLease => holding[w].token # t

\* The row a claim leaves: the attempt is spent when the work starts, not when it fails.
leased_row(item, t) ==
    [status |-> "leased", attempt_count |-> item.attempt_count + 1, lease_token |-> t,
     lease_expires_at |-> LeaseTicks, available_at |-> item.available_at]

\* _claim_available_work_item with limit 1.
claim_work_item(w, j, t) ==
    /\ holding[w] = NoLease
    /\ work[j].status \in ClaimableStatuses
    /\ work[j].available_at <= 0
    /\ fresh_token(t)
    /\ work' = [work EXCEPT ![j] = leased_row(work[j], t)]
    /\ holding' = [holding EXCEPT ![w] = [job |-> j, token |-> t]]
    /\ UNCHANGED job

\* Mutant: whoever claimed the item last may settle it.
lease_owned_by_status(w) ==
    holding[w] # NoLease /\ work[holding[w].job].status = "leased"

\* The fence of every settlement: WHERE status = 'leased' AND lease_token = %s.
lease_owned(w) ==
    /\ holding[w] # NoLease
    /\ work[holding[w].job].status = "leased"
    /\ work[holding[w].job].lease_token = holding[w].token

completed_row(item) ==
    [status |-> "completed", attempt_count |-> item.attempt_count, lease_token |-> NoToken,
     lease_expires_at |-> 0, available_at |-> item.available_at]

\* complete_work_item.
complete_work_item(w) ==
    /\ lease_owned(w)
    /\ work' = [work EXCEPT ![holding[w].job] = completed_row(work[holding[w].job])]
    /\ UNCHANGED job

\* A deferral refunds the attempt and waits at least one tick.
deferred_row(item, delay) ==
    [status |-> "retry_pending",
     attempt_count |-> IF item.attempt_count > 1 THEN item.attempt_count - 1 ELSE 0,
     lease_token |-> NoToken,
     lease_expires_at |-> 0,
     available_at |-> IF delay > 1 THEN delay ELSE 1]

\* defer_work_item.
defer_work_item(w, delay) ==
    /\ lease_owned(w)
    /\ work' = [work EXCEPT ![holding[w].job] = deferred_row(work[holding[w].job], delay)]
    /\ UNCHANGED job

\* fail_work_item.
fail_work_item(w) ==
    /\ lease_owned(w)
    /\ settle_failed_work(holding[w].job, 0, "operator_intervention_required")

\* Mutant: the sweep looks for expired leases among the rows waiting for a retry.
recover_expired_work_item_missed(j) ==
    /\ work[j].status = "retry_pending"
    /\ work[j].lease_expires_at < 0
    /\ settle_failed_work(j, work[j].lease_expires_at, "timeout")
    /\ UNCHANGED holding

\* recover_expired_work_items, one expired row of the sweep that opens every claim.
recover_expired_work_item(j) ==
    /\ work[j].status = "leased"
    /\ work[j].lease_expires_at <= 0
    /\ settle_failed_work(j, work[j].lease_expires_at, "timeout")
    /\ UNCHANGED holding

\* A worker that settled, crashed, or ran into its deadline forgets the lease; only
\* the row remembers it.
release(w) == holding' = [holding EXCEPT ![w] = NoLease]

aged_row(item) ==
    [status |-> item.status, attempt_count |-> item.attempt_count,
     lease_token |-> item.lease_token,
     lease_expires_at |-> IF item.status = "leased" /\ item.lease_expires_at > -MaxDelay
                          THEN item.lease_expires_at - 1 ELSE item.lease_expires_at,
     available_at |-> due_in(item.available_at - 1)]

\* One tick of the clock every timestamp is compared with.
tick ==
    /\ work' = [j \in Jobs |-> aged_row(work[j])]
    /\ UNCHANGED <<job, holding>>

-----------------------------------------------------------------------------
(* The ledger under arbitrary callers *)

LedgerInit ==
    /\ job = [j \in Jobs |-> AbsentJob]
    /\ work = [j \in Jobs |-> AbsentWork]
    /\ holding = [w \in Workers |-> NoLease]

\* mark_collecting_data, mark_data_ready, mark_rendering, mark_completed and
\* mark_archiving: progress, with the identity the step introduces.
MarkProgress(j) ==
    /\ \/ transition_job(j, "collecting_data", "none", FALSE, {})
       \/ transition_job(j, "data_ready", "none", FALSE, {})
       \/ transition_job(j, "rendering", "none", FALSE, {"render_job_id"})
       \/ transition_job(j, "completed", "none", FALSE, {"render_job_id"})
       \/ transition_job(j, "archiving", "none", FALSE, {"archive_request_id"})
    /\ UNCHANGED <<work, holding>>

\* mark_archived: the only writer of archive_document_id.
mark_archived(j) ==
    /\ transition_job(j, "archived", "none", FALSE,
                      {"archive_request_id", "archive_document_id"})
    /\ UNCHANGED <<work, holding>>

\* mark_failed.
mark_failed(j, category, retry) ==
    /\ transition_job(j, "failed", category, retry, {})
    /\ UNCHANGED <<work, holding>>

\* A worker ends its item: it settles the lease it owns, or gives up holding it.
Settle(w) ==
    /\ \/ complete_work_item(w)
       \/ \E delay \in {BaseDelay} : defer_work_item(w, delay)
       \/ fail_work_item(w)
    /\ release(w)

Abandon(w) ==
    /\ holding[w] # NoLease
    /\ release(w)
    /\ UNCHANGED <<job, work>>

LedgerNext ==
    \/ \E j \in Jobs :
        \/ create_report_job(j, TRUE)
        \/ create_report_job(j, FALSE)
        \/ resubmit_report_job(j)
        \/ MarkProgress(j)
        \/ mark_archived(j)
        \/ \E c \in CallerCategories, r \in BOOLEAN : mark_failed(j, c, r)
        \/ cancel_job(j)
        \/ recover_expired_work_item(j)
        \/ \E w \in Workers, t \in Tokens : claim_work_item(w, j, t)
    \/ \E w \in Workers : Settle(w) \/ Abandon(w)
    \/ tick

\* What the report-job ledger allows, whoever calls it: the specification the executors of
\* ReportJobPipeline are shown to implement.
LedgerSpec == LedgerInit /\ [][LedgerNext]_ledgerVars

-----------------------------------------------------------------------------
(* Properties *)

JobRow == [status : JobStatuses, failure_category : FailureCategories,
           retry_eligible : BOOLEAN, ids : SUBSET Identities]

WorkRow == [status : WorkStatuses, attempt_count : 0..MaxAttempts,
            lease_token : Tokens \cup {NoToken},
            lease_expires_at : (-MaxDelay)..LeaseTicks, available_at : 0..MaxDelay]

Lease == [job : Jobs, token : Tokens]

\* Every row and every held lease has its declared shape, with the attempt counter
\* inside the retry budget and the timestamps inside the lease and backoff windows.
TypeOK ==
    /\ job \in [Jobs -> JobRow]
    /\ work \in [Jobs -> WorkRow]
    /\ holding \in [Workers -> Lease \cup {NoLease}]

\* decide_report_job_work_failure and the refund of defer_work_item keep the budget:
\* work that can still be claimed has an attempt left, and a leased item has spent at
\* least one of them and never more than max_attempts.
AttemptBudget ==
    \A j \in Jobs :
        /\ work[j].status \in ClaimableStatuses => work[j].attempt_count < MaxAttempts
        /\ work[j].status = "leased" => work[j].attempt_count \in 1..MaxAttempts

\* _terminalize_report_job_from_work runs in the transaction that spends the last
\* attempt: there is never a dead work item behind a job that still looks alive.
ExhaustedWorkIsTerminal ==
    \A j \in Jobs : work[j].status = "failed" => job[j].status \in TerminalStatuses

\* The settlement fence: a row carries a token exactly while it is leased, and no two
\* workers hold the same token, so at most one of them can settle an item.
LeaseFence ==
    /\ \A j \in Jobs : work[j].status = "leased" <=> work[j].lease_token # NoToken
    /\ \A w1, w2 \in Workers :
            holding[w1] # NoLease /\ holding[w2] # NoLease
                /\ holding[w1].token = holding[w2].token => w1 = w2
    /\ \A j1, j2 \in Jobs :
            work[j1].status = "leased" /\ work[j1].lease_token = work[j2].lease_token
                => j1 = j2

\* A worker whose lease was recovered never owns the item again, however often the
\* item is reclaimed: lease_owned can only come back through a new claim.
LostLeaseStaysLost ==
    [][\A w \in Workers :
          holding[w] # NoLease /\ ~lease_owned(w) /\ holding'[w] = holding[w]
              => ~(lease_owned(w)')]_ledgerVars

\* Only mark_archived records a document, and nothing leaves "archived": a job row names
\* an archive document exactly when it is archived.
DocumentIffArchived ==
    \A j \in Jobs : "archive_document_id" \in job[j].ids <=> job[j].status = "archived"

\* Terminal states absorb: a failed job may only be resolved to archived or cancelled,
\* an archived or cancelled job never changes again, whatever stale caller writes.
TerminalJobsStayTerminal ==
    [][\A j \in Jobs :
          /\ job[j].status \in {"archived", "cancelled"} => job'[j] = job[j]
          /\ job[j].status = "failed" =>
                job'[j] = job[j] \/ job'[j].status \in {"archived", "cancelled"}]_ledgerVars

\* A settled work item is never reopened, so a job is never executed for work that
\* already ended (resubmission with the same idempotency key included).
WorkSettledOnce ==
    [][\A j \in Jobs :
          work[j].status \in {"completed", "failed"} => work'[j].status = work[j].status]_ledgerVars
=============================================================================
