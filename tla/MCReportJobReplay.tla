-------------------------- MODULE MCReportJobReplay --------------------------
(***************************************************************************)
(* Instances of ReportJobReplay for TLC.                                   *)
(***************************************************************************)
EXTENDS ReportJobReplay, TLC

AllCategories == FailureCategories \ {"none", "operator_intervention_required",
                                      "timeout", "cancelled"}

Symmetry == Permutations(Callers) \cup Permutations(Direct)

NoEmbedded == [j \in {} |-> "none"]

FailedOriginal == [status |-> "failed", failure_category |-> "archive_outcome_unknown",
                   retry_eligible |-> TRUE, ids |-> {"render_job_id", "archive_request_id"}]

Originals == Jobs \ Direct

\* Bound: a second replay request, or a second derived job, joins only while the original
\* has failed after its render was handed to the archive, and the replays then meet
\* readable sources, a delivery Render confirms and a lookup that no delivery races. With
\* one request at a time everything the sources, Render and the archive can answer is met.
RaceIsPlain ==
    LET active == {c \in Callers : run[c] # IdleRun}
        derived == {d \in Direct : job[d] # AbsentJob}
    IN  Cardinality(active) > 1 \/ Cardinality(derived) > 1 =>
            /\ \A j \in Originals :
                  /\ render[j] = "rendered" /\ work[j].status = "completed"
                  /\ job[j].status = "archived" \/ job[j] = FailedOriginal
            /\ raced = {}
            /\ \A w \in Workers : run[w] = IdleRun /\ holding[w] = NoLease
            /\ \A d \in Direct : /\ snapshot[d] \in Contents \cup {"none"}
                                 /\ job[d].failure_category \notin ArchiveCategories
            /\ \A c \in Callers : /\ run[c].payload \in Contents \cup {"none"}
                                  /\ run[c].pc = "mark_failed" =>
                                        run[c].category \notin ArchiveCategories
=============================================================================
