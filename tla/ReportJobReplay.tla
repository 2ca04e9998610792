--------------------------- MODULE ReportJobReplay ---------------------------
(***************************************************************************)
(* Failed-work replay over the pipeline: an operator asks for a failed job *)
(* to be replaced; replay_job resolves an ambiguous archive outcome first, *)
(* creates one derived job under the lineage lock and runs it inline.      *)
(* Original jobs are executed by queue workers, derived jobs only by the   *)
(* replay request that created them or by a retry with the same key.       *)
(***************************************************************************)
EXTENDS ReportJobPipeline

VARIABLES
    relation,   \* [Jobs -> the failed_work_replay row of a derived job]
    raced       \* history: the sources the archive reported absent while their delivery ran

replayVars == <<pipelineVars, relation, raced>>

NoRelation == [source |-> NoJob, category |-> "none"]

\* The failure categories after which a delivery may have been committed.
ArchiveCategories == {"archive_outcome_unknown", "archive_handoff_failed",
                      "archive_handoff_not_configured"}

\* The categories whose replay clones the retained snapshot of the source.
RetainedCategories == ArchiveCategories \cup {"render_artifact_unrecoverable"}

derivedFrom(j) == {d \in Jobs : relation[d].source = j}

\* A set of jobs that holds a derived job exactly when it holds the job's source.
closed_under_replay(S) ==
    \A d \in Jobs : relation[d].source # NoJob => (d \in S <=> relation[d].source \in S)

\* The recursive walks over report_job_relationship, up from a job to its root and down to
\* every job derived from there.  A job has at most one source, so the two walks together
\* meet the members of the least closed set around the job.
lineage(j) ==
    {d \in Jobs : /\ job[d].status # "absent"
                  /\ \A S \in SUBSET Jobs : j \in S /\ closed_under_replay(S) => d \in S}

\* Mutant: only a finished replacement blocks another one.
live_archived(d) == job[d].status = "archived"

\* A member of the lineage that may still become, or already is, the replacement.
live(d) ==
    ~ \/ job[d].status = "cancelled"
      \/ /\ job[d].status = "failed"
         /\ \/ job[d].failure_category \notin ArchiveCategories
            \/ derivedFrom(d) # {}

\* assert_replay_eligible.
replay_eligible(j) ==
    /\ j \in ReplayFamilies
    /\ job[j].status = "failed"
    /\ job[j].retry_eligible
    /\ "archive_document_id" \notin job[j].ids

-----------------------------------------------------------------------------
(* replay_job *)

\* The request reads the source and checks eligibility; the record it read is what every
\* later step works with.
replay_requested(c) ==
    \E s \in Jobs :
        /\ at(c, "idle")
        /\ replay_eligible(s)
        /\ run' = [run EXCEPT ![c] = [IdleRun EXCEPT !.pc = "resolve", !.job = s,
                                        !.seen = "failed", !.category = job[s].failure_category]]
        /\ UNCHANGED <<job, work, holding, snapshot, render, custody, relation, raced>>

\* Mutant: a 200 answer whose document is not read lets the replay proceed.
resolve_archive_ambiguity_unread(c) ==
    LET s == run[c].job
    IN  /\ at(c, "resolve")
        /\ \/ custody[s] = "committed" /\ goto(c, "create")
           \/ custody[s] # "committed" /\ goto(c, "create")
        /\ UNCHANGED <<job, work, holding, snapshot, render, custody, relation, raced>>

\* _resolve_archive_ambiguity: an archive-stage failure is looked up by its request id; a
\* committed document is adopted, the archive's own 404 lets the replay proceed, and any
\* other answer refuses it.  The archive knows no document for a delivery that ended
\* without one, and none either for a delivery that is still on its way.
resolve_archive_ambiguity(c) ==
    LET s == run[c].job
    IN  /\ at(c, "resolve")
        /\ \/ /\ run[c].category \notin ArchiveCategories
              /\ goto(c, "create")
              /\ UNCHANGED raced
           \/ /\ run[c].category \in ArchiveCategories
              /\ stop(c)
              /\ UNCHANGED raced
           \/ /\ run[c].category \in ArchiveCategories
              /\ "archive_request_id" \in job[s].ids
              /\ \/ custody[s] = "committed" /\ goto(c, "adopt") /\ UNCHANGED raced
                 \/ /\ custody[s] # "committed"
                    /\ goto(c, "create")
                    /\ raced' = IF custody[s] = "none" THEN raced \cup {s} ELSE raced
        /\ UNCHANGED <<job, work, holding, snapshot, render, custody, relation>>

\* The committed document becomes the outcome of the source; the replay refuses either way.
adopt_committed_document(c) ==
    LET s == run[c].job
    IN  /\ at(c, "adopt")
        /\ \/ transition_job(s, "archived", "none", FALSE,
                             {"archive_request_id", "archive_document_id"})
           \/ ~transition_accepted(s, "archived") /\ UNCHANGED job
        /\ stop(c)
        /\ UNCHANGED <<work, holding, snapshot, render, custody, relation, raced>>

\* The stage the request continues at with the derived job it got.
derived_stage(d, status, category) ==
    IF status \in {"accepted", "collecting_data"}
    THEN IF category \in RetainedCategories THEN "clone" ELSE "resume"
    ELSE IF status = "data_ready" THEN "build" ELSE "done"

with_derived(c, d, status) ==
    run' = [run EXCEPT ![c].pc = derived_stage(d, status, run[c].category),
                       ![c].job = d, ![c].seen = status,
                       ![c].category = IF derived_stage(d, status, run[c].category) = "clone"
                                       THEN @ ELSE "none"]

\* create_replay_derived_job for a new key, in one transaction under the lineage lock:
\* the source row is checked again and a live member of the lineage refuses the replay.
create_replay_derived_job(c) ==
    LET s == run[c].job
    IN  /\ at(c, "create")
        /\ job[s].status = "failed" /\ job[s].retry_eligible
        /\ "archive_document_id" \notin job[s].ids
        /\ \A m \in lineage(s) \ {s} : ~live(m)
        /\ \E d \in Direct :
            /\ job[d].status = "absent"
            /\ job' = [job EXCEPT ![d] = AcceptedJob]
            /\ relation' = [relation EXCEPT ![d] = [source |-> s, category |-> run[c].category]]
            /\ with_derived(c, d, "accepted")
        /\ UNCHANGED <<work, holding, snapshot, render, custody, raced>>

\* A request with a key that already created a derived job gets that job back.
reuse_replay_derived_job(c) ==
    /\ at(c, "create")
    /\ \E d \in derivedFrom(run[c].job) : with_derived(c, d, job[d].status)
    /\ UNCHANGED <<job, work, holding, snapshot, render, custody, relation, raced>>

\* The creation is refused, or a request ends or dies anywhere.
replay_ends(c) ==
    /\ ~at(c, "idle")
    /\ stop(c)
    /\ UNCHANGED <<job, work, holding, snapshot, render, custody, relation, raced>>

\* _require_retained_snapshot: recovery promised from the retained snapshot is refused
\* without one, whatever was derived before.
retained_snapshot_held(d) == snapshot[relation[d].source] # "none"

\* _clone_retained_snapshot: collecting is marked, the snapshot copied unless it exists.
clone_retained_snapshot(c) ==
    LET d == run[c].job
    IN  /\ at(c, "clone")
        /\ retained_snapshot_held(d)
        /\ \/ /\ run[c].seen = "accepted"
              /\ \/ /\ transition_job(d, "collecting_data", "none", FALSE, {})
                    /\ run' = [run EXCEPT ![c].seen = "collecting_data"]
                 \/ /\ ~transition_accepted(d, "collecting_data")
                    /\ stop(c)
                    /\ UNCHANGED job
              /\ UNCHANGED snapshot
           \/ /\ run[c].seen = "collecting_data"
              /\ snapshot' = [snapshot EXCEPT ![d] =
                                IF @ = "none" THEN snapshot[relation[d].source] ELSE @]
              /\ run' = [run EXCEPT ![c].pc = "mark_data_ready", ![c].category = "none"]
              /\ UNCHANGED job
        /\ UNCHANGED <<work, holding, render, custody, relation, raced>>

Replay(c) ==
    \/ resolve_archive_ambiguity(c) \/ adopt_committed_document(c)
    \/ create_replay_derived_job(c) \/ reuse_replay_derived_job(c)
    \/ clone_retained_snapshot(c)

-----------------------------------------------------------------------------

ReplayInit == PipelineInit /\ relation = [j \in Jobs |-> NoRelation] /\ raced = {}

\* The pipeline around replay: only original jobs are submitted, and no caller but a replay
\* request touches a derived job.
Surroundings ==
    \/ \E j \in Jobs :
        \/ j \notin Direct /\ client_submits(j)
        \/ client_cancels(j)
        \/ expiry_swept(j)
        \/ render_finishes(j) \/ render_forgets(j) \/ archive_decides(j)
    \/ \E e \in Executors : Stage(e) \/ leave_resolution_pending(e)
    \/ \E w \in Workers :
        \/ \E j \in Jobs : worker_claims(w, j)
        \/ stage_raises(w)
        \/ settle_work_item(w) \/ settlement_refused(w) \/ worker_abandons(w)
    \/ clock

ReplayNext ==
    \/ Surroundings /\ UNCHANGED <<relation, raced>>
    \/ \E c \in Callers : replay_requested(c) \/ Replay(c) \/ replay_ends(c)

ReplaySpec == ReplayInit /\ [][ReplayNext]_replayVars

-----------------------------------------------------------------------------
(* Properties *)

Documents(S) == {j \in S : custody[j] = "committed"}

\* What _resolve_archive_ambiguity guarantees of a replay it let through: source and
\* replacement end with one document between them, unless the archive answered the lookup
\* while it was still deciding on the source's delivery, which then committed late.
ResolvedReplayIsUnique ==
    \A d \in Jobs :
        /\ relation[d].category \in ArchiveCategories
        /\ relation[d].source \notin raced
        => Cardinality(Documents({d, relation[d].source})) <= 1

\* The one-replacement guard of create_replay_derived_job: however replays of the members
\* of a lineage interleave, two derived jobs of it are never both under way.
OneReplacementUnderWay ==
    \A j \in Jobs :
        Cardinality({d \in lineage(j) \cap Direct :
                        job[d].status \notin TerminalStatuses}) <= 1

\* "creates or reuses a replay-scoped report job without duplicating completed archived
\* documents": the whole lineage of a job holds at most one committed document.
OneDocumentPerLineage ==
    \A j \in Jobs : Cardinality(Documents(lineage(j))) <= 1
=============================================================================
