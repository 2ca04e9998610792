-------------------------- MODULE ReportJobPipeline --------------------------
(***************************************************************************)
(* The execution of report jobs over the ledger: queue workers, which      *)
(* claim a work item and settle it, and direct callers (batch execution,   *)
(* replay), which advance a job that has no work item.  Both run the same  *)
(* stages: capture the input snapshot, submit the render package, adopt    *)
(* the outcome, record archive custody.  A step is one ledger or store     *)
(* transaction or one remote call; between two steps anything else in the  *)
(* system may move, the process may die and the lease may expire, and an   *)
(* executor goes on with the job record it read before.                    *)
(*                                                                         *)
(* lotus-render and the archive are external: the model keeps of them what *)
(* the answers mean (a submission under one render id is created once, a   *)
(* delivery may commit although Render reports it pending or failed).      *)
(***************************************************************************)
EXTENDS ReportJobLedger

CONSTANTS
    Callers,          \* executors without a lease
    Direct,           \* the jobs created without a work item (create_*)
    DataOnly,         \* the jobs that ask for no document format
    ReplayFamilies,   \* the jobs resolution_replay_supported accepts
    Embedded,         \* [jobs whose order carries their input -> [family, input]]
    Contents,         \* the intact snapshot payloads
    CaptureAnswers,   \* what a collection may end with: a bound on the payloads met
    CustodyAnswers,   \* what Render may say of the delivery: a bound on the states met
    NoJob,            \* an idle executor
    RenderMayForget   \* the jobs whose finished render Render may lose: a bound

\* What the capture and render services pass to mark_failed.
StageCategories ==
    {"upstream_data_failed", "data_incomplete", "validation_failed",
     "render_validation_failed", "render_execution_failed", "render_conflict",
     "render_artifact_unrecoverable", "archive_outcome_unknown",
     "archive_handoff_failed", "archive_handoff_not_configured"}

ASSUME PipelineAssumption ==
    /\ StageCategories \subseteq CallerCategories
    /\ Direct \subseteq Jobs /\ DataOnly \subseteq Jobs /\ ReplayFamilies \subseteq Jobs
    /\ Callers \cap Workers = {}
    /\ NoJob \notin Jobs
    /\ Contents \cap {"none", "failed_retryable", "failed_final", "inconsistent"} = {}
    /\ CaptureAnswers \subseteq
         Contents \cup {"failed_retryable", "failed_final", "inconsistent"}
    /\ CustodyAnswers \subseteq
         {"archived_verified", "archive_pending", "archive_failed", "archive_refused", "unstated"}
    /\ RenderMayForget \subseteq Jobs
    /\ DOMAIN Embedded \subseteq Direct
    /\ \A j \in DOMAIN Embedded :
         /\ Embedded[j].family \in {"proof_pack", "outcome_review", "rebalance_wave"}
         /\ Embedded[j].input \in Contents \cup {"missing", "undigested"}

VARIABLES
    snapshot,   \* [Jobs -> the stored input snapshot of the job]
    run,        \* [Executors -> the stage an executor is at and what it carries]
    render,     \* external: [Jobs -> the render Render holds under the job's render id]
    custody     \* external: [Jobs -> what the archive did with that render]

pipelineVars == <<job, work, holding, snapshot, run, render, custody>>

Executors == Workers \cup Callers

IdleRun == [pc |-> "idle", job |-> NoJob, seen |-> "absent", payload |-> "none",
            category |-> "none", retry |-> FALSE, request |-> FALSE]

\* TERMINAL_JOB_STATUSES of the worker, and _is_terminal_job.
is_terminal_job(j, status) ==
    \/ status \in TerminalStatuses \cup {"completed"}
    \/ status = "data_ready" /\ j \in DataOnly

-----------------------------------------------------------------------------
(* Steps of an executor *)

at(e, pc) == run[e].pc = pc

goto(e, pc) == run' = [run EXCEPT ![e].pc = pc]

\* The executor decided to fail the job with this category; mark_failed comes next.
fail_with(e, category, retry) ==
    run' = [run EXCEPT ![e].pc = "mark_failed", ![e].category = category,
                       ![e].retry = retry, ![e].payload = "none", ![e].request = FALSE]

\* Mutant: the row is written from the record the executor carries, unchecked.
mark_unchecked(e, to, category, retry, ids, seen, next) ==
    LET j == run[e].job
    IN  /\ job' = [job EXCEPT ![j] = transitioned(j, to, category, retry, ids)]
        /\ run' = [run EXCEPT ![e].pc = next, ![e].seen = seen]
        /\ UNCHANGED <<work, holding, snapshot, render, custody>>

\* One mark_* call: the transition commits and the executor goes on with the returned
\* record, or the ledger refuses it and the executor is left with an exception.
mark(e, to, category, retry, ids, seen, next) ==
    LET j == run[e].job
    IN  /\ \/ /\ transition_job(j, to, category, retry, ids)
              /\ run' = [run EXCEPT ![e].pc = next, ![e].seen = seen]
           \/ /\ ~transition_accepted(j, to)
              /\ goto(e, "raised")
              /\ UNCHANGED job
        /\ UNCHANGED <<work, holding, snapshot, render, custody>>

local(e) == UNCHANGED <<job, work, holding, snapshot, render, custody>>

\* execute_job reads the job and _execute_admitted_job picks the stage.
execute_job(e) ==
    LET j == run[e].job
        status == job[j].status
        stage == IF status \in {"accepted", "collecting_data"} THEN "resume"
                 ELSE IF j \in DataOnly THEN "done"
                 ELSE IF status = "data_ready" THEN "build"
                 ELSE IF status \in {"rendering", "completed", "archiving"} THEN "lookup"
                 ELSE "done"
    IN  /\ at(e, "load")
        /\ run' = [run EXCEPT ![e].pc = stage, ![e].seen = status]
        /\ local(e)

\* Mutant: an inconsistent capture is not told apart from a complete one.
after_capture_unverified(e, payload) ==
    \/ payload \in Contents \cup {"inconsistent"}
         /\ run' = [run EXCEPT ![e].pc = "mark_data_ready", ![e].payload = "none"]
    \/ payload = "failed_retryable" /\ fail_with(e, "upstream_data_failed", TRUE)
    \/ payload = "failed_final" /\ fail_with(e, "upstream_data_failed", FALSE)

\* What follows once the stored payload is known, in _resume_existing_capture and at the
\* end of _complete_capture.
after_capture(e, payload) ==
    \/ payload \in Contents /\ run' = [run EXCEPT ![e].pc = "mark_data_ready",
                                                  ![e].payload = "none"]
    \/ payload = "failed_retryable" /\ fail_with(e, "upstream_data_failed", TRUE)
    \/ payload = "failed_final" /\ fail_with(e, "upstream_data_failed", FALSE)
    \/ payload = "inconsistent" /\ fail_with(e, "data_incomplete", FALSE)

\* _resume_existing_capture: a stored snapshot is not collected again, unless it is
\* inconsistent because it has no calls at all.
resume_existing_capture(e) ==
    LET j == run[e].job
    IN  /\ at(e, "resume")
        /\ \/ snapshot[j] # "none" /\ after_capture(e, snapshot[j])
           \/ /\ snapshot[j] \in {"none", "inconsistent"}
              /\ goto(e, IF run[e].seen = "accepted" THEN "mark_collecting" ELSE "collect")
        /\ local(e)

mark_collecting_data(e) ==
    /\ at(e, "mark_collecting")
    /\ mark(e, "collecting_data", "none", FALSE, {}, run[e].seen, "collect")

\* The await of collect_for_job: sources answer, fail, or yield to the retry policy
\* (TwrCaptureRetryable).
collect_for_job(e) ==
    /\ at(e, "collect")
    /\ run[e].job \notin DOMAIN Embedded
    /\ \/ \E p \in CaptureAnswers : run' = [run EXCEPT ![e].pc = "store", ![e].payload = p]
       \/ goto(e, "raised")
    /\ local(e)

\* An order that carries its input asks no source: whoever captures the job stores the same
\* payload.  The row is read back without the order's validation, so the capture checks
\* again: an absent input fails the job, one without its sha256 lineage raises.
capture_embedded_input(e, family) ==
    LET j == run[e].job
    IN  /\ at(e, "collect")
        /\ j \in DOMAIN Embedded
        /\ Embedded[j].family = family
        /\ \/ /\ Embedded[j].input \in Contents
              /\ run' = [run EXCEPT ![e].pc = "store", ![e].payload = Embedded[j].input]
           \/ Embedded[j].input = "missing" /\ fail_with(e, "validation_failed", FALSE)
           \/ Embedded[j].input = "undigested" /\ goto(e, "raised")
        /\ local(e)

capture_proof_pack_snapshot(e) == capture_embedded_input(e, "proof_pack")
capture_outcome_review_snapshot(e) == capture_embedded_input(e, "outcome_review")
capture_wave_snapshot(e) == capture_embedded_input(e, "rebalance_wave")

\* The snapshot store keeps the first payload of a job; the same one converges on it and
\* another one is a conflict.
capture_conflicts(j, p) == snapshot[j] \notin {"none", p}

create_capture(j, p) == ~capture_conflicts(j, p) /\ snapshot' = [snapshot EXCEPT ![j] = p]

\* _complete_capture: a conflict means two collections disagreed, and fails the job.
complete_capture(e) ==
    LET j == run[e].job
        p == run[e].payload
    IN  /\ at(e, "store")
        /\ \/ create_capture(j, p) /\ after_capture(e, p)
           \/ /\ capture_conflicts(j, p)
              /\ fail_with(e, "data_incomplete", FALSE)
              /\ UNCHANGED snapshot
        /\ UNCHANGED <<job, work, holding, render, custody>>

mark_data_ready(e) ==
    /\ at(e, "mark_data_ready")
    /\ mark(e, "data_ready", "none", FALSE, {}, "data_ready",
            IF run[e].job \in DataOnly THEN "done" ELSE "build")

\* _build_package_or_fail; a fresh job is marked rendering before it is submitted, a
\* recovered one already is.
build_package_or_fail(e) ==
    /\ at(e, "build")
    /\ \/ goto(e, IF run[e].seen = "data_ready" THEN "mark_rendering" ELSE "submit")
       \/ fail_with(e, "render_validation_failed", FALSE)
    /\ local(e)

mark_rendering(e) ==
    /\ at(e, "mark_rendering")
    /\ mark(e, "rendering", "none", FALSE, {"render_job_id"}, run[e].seen, "submit")

\* submit_render_package leaves this process: the package is admitted (create-or-get under
\* the render id), refused, or lost on the way.
submit_render_package(e) ==
    LET j == run[e].job
    IN  /\ at(e, "submit")
        /\ \/ /\ render' = [render EXCEPT ![j] = IF @ = "absent" THEN "in_progress" ELSE @]
              /\ goto(e, "await")
           \/ /\ render[j] # "absent"
              /\ fail_with(e, "render_conflict", FALSE)
              /\ UNCHANGED render
           \/ /\ fail_with(e, "render_validation_failed", FALSE)
              /\ UNCHANGED render
           \/ /\ \E retry \in BOOLEAN : fail_with(e, "render_execution_failed", retry)
              /\ UNCHANGED render
        /\ UNCHANGED <<job, work, holding, snapshot, custody>>

\* The custody posture Render may report, given what the archive really did.
reportable(j, state) ==
    \/ state = "archived_verified" /\ custody[j] = "committed"
    \/ state \in {"archive_pending", "archive_failed"} /\ custody[j] # "refused"
    \/ state = "archive_refused" /\ custody[j] = "refused"
    \/ state = "unstated"

\* Mutant: a pending delivery is taken for a verified one.
archive_category_optimistic(state, request) ==
    IF state \in {"archived_verified", "archive_pending"} /\ request THEN "none"
    ELSE IF state \in {"archive_failed", "archive_refused"} THEN "archive_handoff_failed"
    ELSE "archive_handoff_not_configured"

\* The failure posture _record_archive_outcome chooses; "none" is a verified delivery.
archive_category(state, request) ==
    IF state = "archived_verified" /\ request THEN "none"
    ELSE IF state = "archive_pending" /\ request THEN "archive_outcome_unknown"
    ELSE IF state \in {"archive_failed", "archive_refused"} THEN "archive_handoff_failed"
    ELSE "archive_handoff_not_configured"

archive_retry(j, state, request) ==
    state # "archive_refused" /\ request /\ j \in ReplayFamilies

\* Mutant: a failed handoff is recorded before its request id.
archive_stage_fails_first(seen, category, request) ==
    IF seen = "completed" /\ request /\ category = "none" THEN "mark_archiving"
    ELSE IF category = "none" THEN "mark_archived" ELSE "mark_failed"

\* Where _record_archive_outcome goes for a job record with this status.
archive_stage(seen, category, request) ==
    IF seen = "completed" /\ request THEN "mark_archiving"
    ELSE IF category = "none" THEN "mark_archived" ELSE "mark_failed"

\* A rendered outcome arrives, from the submission or from a later lookup: a template
\* mismatch fails closed, otherwise completion and custody are recorded.
adopt_rendered(e) ==
    LET j == run[e].job
        seen == run[e].seen
    IN  \/ fail_with(e, "render_validation_failed", FALSE)
        \/ \E state \in CustodyAnswers, request \in BOOLEAN :
              LET category == archive_category(state, request)
                  next == IF seen \in {"data_ready", "rendering"} THEN "mark_completed"
                          ELSE archive_stage(seen, category, request)
              IN  /\ reportable(j, state)
                  /\ run' = [run EXCEPT ![e].pc = next, ![e].category = category,
                                        ![e].request = request,
                                        ![e].retry = archive_retry(j, state, request)]

\* The await of submit_render_package ends: rendered, failed, or no answer in time.
submit_answered(e) ==
    LET j == run[e].job
    IN  /\ at(e, "await")
        /\ \/ render[j] = "rendered" /\ adopt_rendered(e)
           \/ render[j] = "failed" /\ \E r \in BOOLEAN : fail_with(e, "render_execution_failed", r)
           \/ fail_with(e, "render_execution_failed", TRUE)
        /\ local(e)

\* _fail_completed_render_lost, for a record that says the render completed; a record that
\* says rendering authorizes a submission instead.
resubmit_or_lost(e) ==
    \/ run[e].seen = "rendering" /\ goto(e, "build")
    \/ run[e].seen = "completed" /\ fail_with(e, "render_artifact_unrecoverable", TRUE)
    \/ run[e].seen = "archiving" /\ fail_with(e, "archive_outcome_unknown", TRUE)

\* _adopt_persisted_render_failure: the failure keeps the words of Render, of which the
\* validation family is final.
adopt_persisted_render_failure(e) ==
    \/ fail_with(e, "render_validation_failed", FALSE)
    \/ \E r \in BOOLEAN : fail_with(e, "render_execution_failed", r)

\* _resolve_persisted_render: the status lookup is answered.
lookup_answered(e) ==
    LET j == run[e].job
    IN  /\ at(e, "lookup")
        /\ \/ render[j] = "rendered" /\ adopt_rendered(e)
           \/ render[j] = "failed" /\ adopt_persisted_render_failure(e)
           \/ render[j] = "in_progress" /\ goto(e, "diagnose")
           \/ render[j] = "absent" /\ resubmit_or_lost(e)
        /\ local(e)

\* The lookup, or the diagnostics after it, is unanswerable: wait.
leave_resolution_pending(e) ==
    /\ at(e, "lookup") \/ at(e, "diagnose")
    /\ goto(e, "waiting")
    /\ local(e)

\* _escalate_or_wait: the owner says wait, resubmit a stale render, or names a failure.
escalate_or_wait(e) ==
    /\ at(e, "diagnose")
    /\ \/ goto(e, "waiting")
       \/ resubmit_or_lost(e)
       \/ \E c \in {"render_validation_failed", "render_execution_failed"} :
              fail_with(e, c, FALSE)
    /\ local(e)

mark_completed(e) ==
    /\ at(e, "mark_completed")
    /\ mark(e, "completed", "none", FALSE, {"render_job_id"}, "completed",
            archive_stage("completed", run[e].category, run[e].request))

\* The request id is recorded before any failure posture.
mark_archiving(e) ==
    /\ at(e, "mark_archiving")
    /\ mark(e, "archiving", "none", FALSE, {"archive_request_id"}, run[e].seen,
            archive_stage("archiving", run[e].category, run[e].request))

record_archived(e) ==
    /\ at(e, "mark_archived")
    /\ mark(e, "archived", "none", FALSE, {"archive_request_id", "archive_document_id"},
            "archived", "done")

record_failed(e) ==
    /\ at(e, "mark_failed")
    /\ mark(e, "failed", run[e].category, run[e].retry, {}, "failed", "done")

\* A database or source error anywhere in the stages; the worker catches it.
stage_raises(e) ==
    /\ run[e].pc \notin {"idle", "done", "waiting", "raised"}
    /\ goto(e, "raised")
    /\ local(e)

Stage(e) ==
    \/ execute_job(e) \/ resume_existing_capture(e) \/ mark_collecting_data(e)
    \/ collect_for_job(e) \/ capture_proof_pack_snapshot(e)
    \/ capture_outcome_review_snapshot(e) \/ capture_wave_snapshot(e)
    \/ complete_capture(e) \/ mark_data_ready(e)
    \/ build_package_or_fail(e) \/ mark_rendering(e) \/ submit_render_package(e)
    \/ submit_answered(e) \/ lookup_answered(e) \/ escalate_or_wait(e)
    \/ mark_completed(e) \/ mark_archiving(e) \/ record_archived(e) \/ record_failed(e)

-----------------------------------------------------------------------------
(* Queue workers and direct callers *)

start(e, j) == run' = [run EXCEPT ![e] = [IdleRun EXCEPT !.pc = "load", !.job = j]]

stop(e) == run' = [run EXCEPT ![e] = IdleRun]

\* _run_item claims one item.
worker_claims(w, j) ==
    \E t \in Tokens :
        /\ claim_work_item(w, j, t)
        /\ start(w, j)
        /\ UNCHANGED <<snapshot, render, custody>>

\* Mutant: the exception path falls through to completion.
settle_work_item_unchecked(w) ==
    /\ \/ at(w, "waiting") /\ defer_work_item(w, BaseDelay)
       \/ run[w].pc \in {"done", "raised"} /\ complete_work_item(w)
    /\ release(w)
    /\ stop(w)
    /\ UNCHANGED <<snapshot, render, custody>>

\* _execute_work_item settles: defer while Render owns the outcome, complete a terminal
\* job, fail the attempt otherwise.
settle_work_item(w) ==
    LET j == run[w].job
        ended == at(w, "done") /\ is_terminal_job(j, run[w].seen)
    IN  /\ \/ at(w, "waiting") /\ defer_work_item(w, BaseDelay)
           \/ ended /\ complete_work_item(w)
           \/ ~ended /\ run[w].pc \in {"done", "raised"} /\ fail_work_item(w)
        /\ release(w)
        /\ stop(w)
        /\ UNCHANGED <<snapshot, render, custody>>

\* A settlement that no longer owns the lease raises out of the worker process.
settlement_refused(w) ==
    /\ run[w].pc \in {"done", "waiting", "raised"}
    /\ ~lease_owned(w)
    /\ release(w)
    /\ stop(w)
    /\ UNCHANGED <<job, work, snapshot, render, custody>>

\* A crash, or the item deadline at an await, drops the item; only lease expiry finds it.
worker_abandons(w) ==
    /\ run[w].pc # "idle"
    /\ release(w)
    /\ stop(w)
    /\ UNCHANGED <<job, work, snapshot, render, custody>>

caller_starts(c) ==
    \E j \in Direct :
        /\ at(c, "idle")
        /\ job[j].status # "absent"
        /\ start(c, j)
        /\ local(c)

\* A direct caller reports its result, raises or dies; nothing durable changes.
caller_ends(c) ==
    /\ ~at(c, "idle")
    /\ stop(c)
    /\ local(c)

-----------------------------------------------------------------------------
(* The outside: clients, the clock, Render and the archive *)

client_submits(j) ==
    /\ create_report_job(j, j \notin Direct)
    /\ UNCHANGED <<snapshot, run, render, custody>>

client_resubmits(j) ==
    /\ j \notin Direct
    /\ resubmit_report_job(j)
    /\ UNCHANGED <<snapshot, run, render, custody>>

client_cancels(j) == cancel_job(j) /\ UNCHANGED <<snapshot, run, render, custody>>

expiry_swept(j) == recover_expired_work_item(j) /\ UNCHANGED <<snapshot, run, render, custody>>

clock == tick /\ UNCHANGED <<snapshot, run, render, custody>>

\* External.
render_finishes(j) ==
    /\ render[j] = "in_progress"
    /\ \E r \in {"rendered", "failed"} : render' = [render EXCEPT ![j] = r]
    /\ UNCHANGED <<job, work, holding, snapshot, run, custody>>

\* External: a finished render disappears; the contract of lotus-render rules it out.
render_forgets(j) ==
    /\ j \in RenderMayForget
    /\ render[j] = "rendered"
    /\ render' = [render EXCEPT ![j] = "absent"]
    /\ UNCHANGED <<job, work, holding, snapshot, run, custody>>

\* External: Render delivers each render once; the archive takes it or refuses it, or the
\* delivery never arrives.
archive_decides(j) ==
    /\ render[j] = "rendered"
    /\ custody[j] = "none"
    /\ \E c \in {"committed", "refused", "dropped"} : custody' = [custody EXCEPT ![j] = c]
    /\ UNCHANGED <<job, work, holding, snapshot, run, render>>

PipelineInit ==
    /\ LedgerInit
    /\ snapshot = [j \in Jobs |-> "none"]
    /\ run = [e \in Executors |-> IdleRun]
    /\ render = [j \in Jobs |-> "absent"]
    /\ custody = [j \in Jobs |-> "none"]

PipelineNext ==
    \/ \E j \in Jobs :
        \/ client_submits(j) \/ client_resubmits(j) \/ client_cancels(j)
        \/ expiry_swept(j)
        \/ render_finishes(j) \/ render_forgets(j) \/ archive_decides(j)
    \/ \E e \in Executors : Stage(e) \/ leave_resolution_pending(e)
    \/ \E w \in Workers :
        \/ \E j \in Jobs : worker_claims(w, j)
        \/ stage_raises(w)
        \/ settle_work_item(w) \/ settlement_refused(w) \/ worker_abandons(w)
    \/ \E c \in Callers : caller_starts(c) \/ caller_ends(c)
    \/ clock

PipelineSpec == PipelineInit /\ [][PipelineNext]_pipelineVars

\* A live worker process takes its next step, the oldest due item is claimed first (so no
\* due item is passed over forever), time passes, Render finishes what it admitted and
\* answers a status lookup that is asked again and again.
PipelineFairness ==
    /\ \A w \in Workers :
        /\ WF_pipelineVars(Stage(w))
        /\ SF_pipelineVars(lookup_answered(w))
        /\ WF_pipelineVars(settle_work_item(w) \/ settlement_refused(w))
    /\ \A j \in Jobs :
        /\ SF_pipelineVars(\E w \in Workers : worker_claims(w, j))
        /\ WF_pipelineVars(expiry_swept(j))
        /\ WF_pipelineVars(render_finishes(j))
    /\ WF_pipelineVars(clock)

FairPipelineSpec == PipelineSpec /\ PipelineFairness

-----------------------------------------------------------------------------
(* Properties *)

\* A job is finished when no further work can be owed to it.
finished(j) ==
    \/ job[j].status \in TerminalStatuses
    \/ job[j].status = "data_ready" /\ j \in DataOnly

\* The worker completes a work item from the job record it carries, which may be stale:
\* still, no item is completed under a job that is owed more work.
CompletedWorkIsFinished ==
    \A j \in Jobs : work[j].status = "completed" => finished(j)

\* Whatever executors raced over the capture, a job that moved past it rests on one stored,
\* intact snapshot (_resume_existing_capture, create_capture, _complete_capture).
RenderedFromIntactSnapshot ==
    \A j \in Jobs :
        job[j].status \in {"data_ready", "rendering", "completed", "archiving", "archived"}
            => snapshot[j] \in Contents

\* A job is archived only on a delivery the archive really committed, even when the record
\* is written by an executor that lost its lease.
ArchivedIsCommitted ==
    \A j \in Jobs : job[j].status = "archived" => custody[j] = "committed"

\* The archive failure postures that invite a replay come with the request id the replay
\* has to resolve first: it is recorded before the failure, crash or not.
ReplayableArchiveFailureHasRequest ==
    \A j \in Jobs :
        job[j].status = "failed" /\ job[j].retry_eligible
          /\ job[j].failure_category \in {"archive_outcome_unknown", "archive_handoff_failed",
                                          "archive_handoff_not_configured"}
              => "archive_request_id" \in job[j].ids

\* Every accepted queued job ends, through crashes, lost leases, lost answers and refused
\* transitions: the retry budget or the outcome of the render decides it.
EveryQueuedJobFinishes ==
    \A j \in Jobs \ Direct : job[j].status = "accepted" ~> finished(j)

\* A work item does not stay behind: it is completed or failed in the end, also when the
\* job was cancelled or failed under it.
EveryWorkItemSettles ==
    \A j \in Jobs : work[j].status = "pending" ~> work[j].status \in {"completed", "failed"}
=============================================================================
