------------------------- MODULE MCReportJobPipeline -------------------------
(***************************************************************************)
(* Instances of ReportJobPipeline for TLC.                                 *)
(***************************************************************************)
EXTENDS ReportJobPipeline, TLC

AllCategories == FailureCategories \ {"none", "operator_intervention_required",
                                      "timeout", "cancelled"}

Symmetry == Permutations(Workers) \cup Permutations(Tokens)

CONSTANTS ProofPackJob, OutcomeReviewJob, WaveJob

\* One order of each family that carries its input: intact, absent, and without its digest.
EmbeddedOrders ==
    (ProofPackJob :> [family |-> "proof_pack", input |-> "facts"])
    @@ (OutcomeReviewJob :> [family |-> "outcome_review", input |-> "missing"])
    @@ (WaveJob :> [family |-> "rebalance_wave", input |-> "undigested"])

\* The instance's jobs among them.
EmbeddedJobs == [j \in Jobs \cap DOMAIN EmbeddedOrders |-> EmbeddedOrders[j]]

\* Bound: one job at a time is submitted - a queued document job, a queued data-only job,
\* a job without a work item or one that carries its input; which one is the client's choice. The jobs share nothing
\* but the workers. No fair action submits a job, so the bound cuts off no fair behaviour of
\* the liveness run.
OneJob == \A j, k \in Jobs : j # k => AbsentJob \in {job[j], job[k]}

\* Bound: a job that carries its input is followed until its render is submitted; from
\* there on its steps are those of any other job without a work item.
EmbeddedUntilSubmitted ==
    \A j \in DOMAIN Embedded : job[j].status \notin {"rendering", "completed", "archiving"}
=============================================================================
