----------------------------- MODULE RenderPackage -----------------------------
(***************************************************************************)
(* From an accepted job and its captured snapshot to the package that      *)
(* lotus-render turns into a client document.                              *)
(*                                                                         *)
(* A job is accepted under the contract of the release that accepts it.    *)
(* Releases change while jobs wait, are replayed, regenerated or rendered  *)
(* again, so a package may be composed by a release that never accepted    *)
(* the job.  The content of the page is decided here too, from what the    *)
(* immutable snapshot holds: each panel is drawn, stated empty, refused or *)
(* left out.                                                               *)
(***************************************************************************)
EXTENDS Integers, FiniteSets, Sequences, FiniteSetsExt, SequencesExt, NoValue

CONSTANTS
    Releases,        \* deployments: [data, template, envelope, house]
    ReportOrders,    \* orders: [family, format, options, benchmark, allocation]
    Snapshots,       \* captured evidence of each family
    Legacy,          \* jobs accepted before the contract was recorded
    PRESENTED_CONTRIBUTOR_LIMIT,
    PRESENTED_HOLDING_LIMIT,
    MaxJobs          \* bound on jobs

VARIABLES
    release,         \* the release now deployed
    jobs,            \* accepted jobs, in order of acceptance
    packages         \* packages composed so far, or the refusals

package_vars == <<release, jobs, packages>>

Jobs == 1..Len(jobs)

---------------------------------------------------------------------------
(* The contract of a job *)

\* The composite profiles, in the precedence of _apply_composite_contract.
\* The eligibility selection has three versions of its own.
CompositeProfiles == <<{"v2"}, {"v3"}, {"v4", "v6", "v7"}, {"v5"}, {"v8"}, {"v9"}>>
CompositeVersions == UNION Range(CompositeProfiles)

DataVersions == CompositeVersions \cup (UNION {Range(r.data) : r \in Releases})
Templates == {None} \cup CompositeVersions \cup (UNION {Range(r.template) : r \in Releases})
                 \cup {job.template : job \in Legacy}
Contract == [data : DataVersions, envelope : {r.envelope : r \in Releases},
             house : {r.house : r \in Releases}, template : Templates]
Captured == (UNION Range(Snapshots))
                \cup {[s EXCEPT !.contract = v] : s \in Snapshots["composite_review"], v \in DataVersions}
ReportJob == [order : ReportOrders, contract : {None} \cup Contract, source : Nat,
              snapshot : {None} \cup Captured, template : Templates]

\* A release names every axis of the contract of every family, a job older than the
\* contract has none, the page has seats for more than one contributor, and a contributor
\* has a whole number of units of effect, or none.
ASSUME PackageAssumption ==
    /\ \A o \in ReportOrders :
          /\ o.family \in DOMAIN Snapshots
          /\ \A r \in Releases : o.family \in DOMAIN r.data \cap DOMAIN r.template
    /\ "composite_review" \in DOMAIN Snapshots
    /\ None \notin DataVersions \cup ReportJob
    /\ \A r \in Releases : None \notin {r.envelope, r.house}
    /\ \A job \in Legacy :
          job \in ReportJob /\ job.contract = None /\ job.source = 0 /\ job.snapshot = None
    /\ PRESENTED_CONTRIBUTOR_LIMIT \in Nat \ {0, 1}
    /\ None \notin Int
    /\ \A s \in Snapshots["portfolio_review"] :
          s.contribution # None => s.contribution.rows \in Seq(Int \cup {None})

accepted_template_identity(order) ==
    IF order.format = None THEN None ELSE release.template[order.family]

job_template_identity(order, inherited) ==
    IF inherited # None THEN inherited.template ELSE accepted_template_identity(order)

accepted_document_contract(order, inherited) ==
    [data |-> release.data[order.family], envelope |-> release.envelope,
     house |-> release.house, template |-> job_template_identity(order, inherited)]

\* The last profile the options name wins; its template travels with it.
_apply_composite_contract(contract, options) ==
    LET named == {i \in DOMAIN CompositeProfiles : CompositeProfiles[i] \cap options # {}}
        version == CHOOSE v \in options : v \in CompositeProfiles[Max(named)]
    IN  IF named = {} THEN contract
        ELSE [contract EXCEPT !.data = version,
                              !.template = IF @ = None THEN None ELSE version]

resolve_job_accepted_contract(order, inherited) ==
    IF inherited # None /\ inherited.contract # None THEN inherited.contract
    ELSE LET contract == accepted_document_contract(order, inherited)
         IN  IF order.family = "composite_review"
             THEN _apply_composite_contract(contract, order.options) ELSE contract

template_for_accepted_contract(contract, resolved) ==
    IF contract.data \in CompositeVersions THEN contract.template ELSE resolved

_create_report_job(order, inherited, source) ==
    LET contract == resolve_job_accepted_contract(order, inherited) IN
    [order |-> order, contract |-> contract, source |-> source, snapshot |-> None,
     template |-> template_for_accepted_contract(contract, job_template_identity(order, inherited))]

_accepted_axis(job, axis) == IF job.contract = None THEN None ELSE job.contract[axis]

\* Mutant: the payload is labelled with whatever this release composes.
_job_report_data_contract_current(job) == release.data[job.order.family]

\* resolve_report_data_contract is today's definition; a job that recorded another is refused.
_job_report_data_contract(job) ==
    LET accepted == _accepted_axis(job, "data")
        current == release.data[job.order.family]
    IN  IF accepted \in CompositeVersions THEN accepted
        ELSE IF accepted \notin {None, current} THEN "unsupported" ELSE current

_job_render_package_version(job) ==
    LET accepted == _accepted_axis(job, "envelope") IN
    IF accepted \notin {None, release.envelope} THEN "unsupported" ELSE release.envelope

\* Locale, brand and the standard disclosure come from the job, else from the release.
_job_disclosure_baseline(job) ==
    LET accepted == _accepted_axis(job, "house") IN
    IF accepted # None THEN accepted ELSE release.house

_job_template_identity(job) == job.template

\* The financial question, never the attempt: the job, its snapshot and the template.
mint_document_reference(j, job) == <<j, job.snapshot, _job_template_identity(job)>>

---------------------------------------------------------------------------
(* Qualifications of an immutable snapshot, judged again when it is presented *)

\* snapshot_history_qualification: a summary nothing attests is not publishable.
_snapshot_binding_matches(history) == history.bound /\ history.returns

snapshot_history_qualification(s) ==
    IF s.performance = None THEN "none"
    ELSE IF s.history.status = "complete" /\ s.history.fresh /\ s.history.allowed
            /\ _snapshot_binding_matches(s.history)
         THEN "allowed" ELSE "refused"

\* _captured_qualification: bound to the portfolio, date and currency it was captured for.
_captured_qualification(a) ==
    IF a.qualification \notin {"missing", "malformed"} /\ a.bound THEN a.qualification
    ELSE IF a.qualification = "missing" THEN "missing" ELSE "invalid"

\* Totals or weights that the stated coverage cannot have.
_contradictory_source_numbers(a) ==
    \/ a.coverage \in {"PARTIAL", "UNAVAILABLE"} /\ \E b \in Range(a.buckets) : b.weight # None
    \/ a.coverage = "LOADED_EMPTY" /\ a.buckets # <<>>
    \/ a.coverage \in {"COMPLETE", "MEASURED_ZERO", "CARRY_FORWARD"} /\ a.buckets = <<>>
    \/ a.coverage = "MEASURED_ZERO" /\ \E b \in Range(a.buckets) : b.value # 0
    \/ a.coverage \in {"COMPLETE", "CARRY_FORWARD"} /\ \E b \in Range(a.buckets) : b.value = None

\* _present_snapshot_buckets: evidence nothing attests keeps its names, not its numbers.
_present_snapshot_buckets(a, suppress) ==
    [i \in DOMAIN a.buckets |->
        IF suppress THEN [weight |-> None, value |-> None] ELSE a.buckets[i]]

snapshot_allocation(a, requested) ==
    IF a = None
    THEN [status |-> IF requested THEN "missing" ELSE "none", allowed |-> FALSE, buckets |-> <<>>]
    ELSE LET captured == _captured_qualification(a)
             suppress == captured \in {"missing", "invalid"}
             presented == _present_snapshot_buckets(a, suppress)
             contradictory == _contradictory_source_numbers([a EXCEPT !.buckets = presented])
             status == IF contradictory /\ ~suppress THEN "invalid" ELSE captured
             rows == IF status = "invalid"
                     THEN [i \in DOMAIN presented |-> [presented[i] EXCEPT !.weight = None]]
                     ELSE presented
             unknown == \E b \in Range(presented) : None \in {b.weight, b.value}
         IN  [status |-> IF unknown /\ status = "complete" THEN "partial" ELSE status,
              allowed |-> /\ a.allowed /\ status = "complete" /\ ~unknown
                          /\ a.coverage \in {"COMPLETE", "MEASURED_ZERO", "LOADED_EMPTY"},
              buckets |-> rows]

\* An unknown competitor prevents an honest claim of the largest bucket.
top_allocation_bucket(buckets) ==
    IF buckets = <<>> \/ \E b \in Range(buckets) : b.weight = None THEN None
    ELSE CHOOSE b \in Range(buckets) : \A c \in Range(buckets) : c.weight <= b.weight

allocation_posture(a, shown) ==
    CASE a = None -> "unavailable"
      [] a # None /\ shown.buckets # <<>> -> "ready"
      [] a # None /\ shown.buckets = <<>>
            /\ (a.coverage = "UNAVAILABLE" \/ shown.status \in {"missing", "invalid"}) ->
            "unavailable"
      [] OTHER -> "empty"

qualify_governance_summary(summary, qualification) ==
    IF qualification # "refused" THEN summary
    ELSE [readiness |-> IF summary.readiness = "ready" THEN "partial" ELSE summary.readiness,
          completeness |-> IF summary.completeness = "complete" THEN "partial"
                           ELSE summary.completeness,
          quality |-> IF summary.quality = "quality_passed" THEN "quality_warning"
                      ELSE summary.quality]

allocation_verdict(shown) ==
    IF shown.status = "none" THEN "none" ELSE IF shown.allowed THEN "allowed" ELSE "refused"

\* Mutant: only the performance history is judged again.
_governance_summary_history(s, shown) ==
    qualify_governance_summary(s.claim, snapshot_history_qualification(s))

_governance_summary_section(s, shown) ==
    qualify_governance_summary(
        qualify_governance_summary(s.claim, snapshot_history_qualification(s)),
        allocation_verdict(shown))

\* The executive summary of the snapshot, else a sentence that states the readiness; where the
\* governance section calls an unstated readiness unknown, the sentence takes it as ready.
_summary_paragraph(s, shown) ==
    LET status == IF s.claim.readiness = "unknown" THEN "ready" ELSE s.claim.readiness IN
    IF s.observations THEN "executive"
    ELSE IF "refused" \in {snapshot_history_qualification(s), allocation_verdict(shown)}
            /\ status = "ready"
         THEN "partial" ELSE status

\* Each qualification is also stated among the observations.
_page_observations(s, shown) ==
    {q \in {"history", "allocation"} :
        IF q = "history" THEN snapshot_history_qualification(s) # "none"
        ELSE allocation_verdict(shown) # "none"}

---------------------------------------------------------------------------
(* Panels: "none" when the section was not ordered *)

\* resolve_benchmark_presentation: without a recorded posture the order decides.
resolve_benchmark_presentation(order, s) ==
    CASE s.performance = None -> "none"
      [] s.performance # None /\ s.performance.comparison # None -> s.performance.comparison
      [] OTHER -> IF order.benchmark THEN "unavailable" ELSE "not_requested"

_benchmark_series_section(s) ==
    LET comparison == IF s.performance = None THEN None ELSE s.performance.comparison
        points == IF s.performance = None THEN 0 ELSE s.performance.points
    IN  CASE comparison = "available" /\ points > 0 -> "ready"
          [] comparison \in {"not_requested", None} /\ points = 0 -> "unbenchmarked"
          [] OTHER -> "unavailable"

build_attribution_bridge(a) ==
    CASE a = None -> "none"
      [] a = "pending" -> "pending"
      [] a = "present" -> "ready"
      [] OTHER -> "unavailable"       \* failed, the period or its first level is missing

build_risk_posture(s) ==
    CASE s.risk = None -> "none"
      [] s.risk \in {"ready", "partial", "unavailable"} ->
            IF s.risk = "ready" /\ s.trend # None /\ s.trend.notes THEN "partial" ELSE s.risk
      [] OTHER -> "unavailable"

\* The basis of the risk figures is published with them, never defaulted.
build_risk_methodology(s) == IF s.risk = None THEN "none" ELSE "stated"

_risk_summary_section(s) == IF s.risk = None THEN "none" ELSE "drawn"

_BENCHMARK_DEPENDENT_ROLLING_METRICS == {"ROLLING_BETA", "ROLLING_TRACKING_ERROR"}

_risk_trend_metric(t, metric) ==
    IF \/ metric \in _BENCHMARK_DEPENDENT_ROLLING_METRICS /\ ~t.applied
       \/ t.window = "missing" THEN "unavailable"
    ELSE IF t.window = "not_included" THEN "empty"
    ELSE IF Cardinality({i \in DOMAIN t.points : t.points[i] # None}) < 2
    THEN "unavailable" ELSE "ready"

_risk_trend_refusal == [ROLLING_VOLATILITY |-> "unavailable", ROLLING_BETA |-> "unavailable"]

_risk_trend_section(t) ==
    IF t = None THEN None
    ELSE IF t.refused \/ t.period # "answered" THEN _risk_trend_refusal
    ELSE [m \in DOMAIN _risk_trend_refusal |-> _risk_trend_metric(t, m)]

_attribution_contributors(rows) == "incomplete" \notin Range(rows)

_risk_attribution_refusal == "unavailable"

_risk_attribution_set(a, type) ==
    IF (type = "ACTIVE_RISK" /\ ~a.applied) \/ ~a.set \/ ~a.triple
    THEN _risk_attribution_refusal
    ELSE IF a.rows = <<>> THEN "empty"
    ELSE IF _attribution_contributors(a.rows) THEN "ready" ELSE _risk_attribution_refusal

_risk_attribution_section(a) ==
    IF a = None THEN None
    ELSE [type \in {"TOTAL_RISK", "ACTIVE_RISK"} |->
            IF a.refused \/ a.period # "answered" THEN _risk_attribution_refusal
            ELSE _risk_attribution_set(a, type)]

_drawdown_section(d) ==
    CASE d = None -> "none"
      [] d \in {"refused", "missing", "error"} -> "unavailable"
      [] d = "no_series" -> "empty"
      [] OTHER -> "ready"

\* _performance_basis_section: the fee drag needs both returns; a zero is kept.
_performance_basis_section(s) ==
    IF s.performance # None /\ s.performance.gross /\ s.performance.net
    THEN "fee_drag" ELSE "no_fee_drag"

\* The periods the source answered, always in this order.
PresentedPeriods == <<"1M", "3M", "YTD", "1Y", "5Y", "SI">>
_performance_periods(s) ==
    IF s.performance = None THEN <<>>
    ELSE SelectSeq(PresentedPeriods, LAMBDA code : code \in s.performance.periods)

\* Grouped by category, else by asset class; oldest first on the page.
_transactions(groups) ==
    SortSeq(IF groups.by_category # <<>> THEN groups.by_category ELSE groups.by_asset_class,
            LAMBDA x, y : x < y)

\* Largest value first; the stable sort keeps the order of the source among equals.
_ranked_holdings(h) ==
    IF h = None THEN <<>> ELSE SortSeq(h.rows, LAMBDA x, y : x > y)

_positions(h) == _ranked_holdings(h)

_top_holdings(h) == SubSeq(_positions(h), 1, Min({PRESENTED_HOLDING_LIMIT, Len(_positions(h))}))

build_holdings_presentation(h) ==
    LET ranked == _ranked_holdings(h) IN
    IF h = None THEN [posture |-> "none"]
    ELSE IF ~h.answered THEN [posture |-> "unavailable"]
    ELSE IF ranked = <<>> THEN [posture |-> "empty", presented |-> 0, available |-> 0]
    ELSE [posture |-> "ready", presented |-> Len(_top_holdings(h)), available |-> Len(ranked)]

abs(v) == IF v < 0 THEN -v ELSE v

usable_rows(rows) == {i \in DOMAIN rows : rows[i] # None}

\* The largest effect first, equal effects by name: a contribution lists its rows by name.
outranks(rows, i, j) ==
    \/ abs(rows[i]) > abs(rows[j])
    \/ abs(rows[i]) = abs(rows[j]) /\ i < j

rank_of(rows, i) == 1 + Cardinality({j \in usable_rows(rows) : outranks(rows, j, i)})

\* _ranked_contributors: rows without a value cannot be ranked.
_ranked_contributors(rows) ==
    [n \in 1..Cardinality(usable_rows(rows)) |->
        rows[CHOOSE i \in usable_rows(rows) : rank_of(rows, i) = n]]

sign_of(v) == IF v > 0 THEN 1 ELSE IF v < 0 THEN -1 ELSE 0

\* Mutant: the largest effects, whatever their sign.
_presented_largest(rows) ==
    SubSeq(rows, 1, Min({PRESENTED_CONTRIBUTOR_LIMIT, Len(rows)}))

_presented_with_both_signs(rows) ==
    LET presented == SubSeq(rows, 1, Min({PRESENTED_CONTRIBUTOR_LIMIT, Len(rows)}))
        signs == {sign_of(v) : v \in Range(presented)}
        missing == {i \in PRESENTED_CONTRIBUTOR_LIMIT + 1 .. Len(rows) : sign_of(rows[i]) \notin signs}
    IN  IF Cardinality(signs) > 1 \/ missing = {} THEN presented
        ELSE Append(Front(presented), rows[Min(missing)])

build_contribution_ranking(c) ==
    IF c = None \/ c.status # "present" THEN [posture |-> "unavailable"]
    ELSE LET rows == _ranked_contributors(c.rows) IN
         CASE rows = <<>> /\ c.rows # <<>> -> [posture |-> "unavailable", unusable |-> Len(c.rows)]
           [] rows = <<>> /\ c.rows = <<>> -> [posture |-> "empty"]
           [] OTHER -> [posture |-> "ready", shown |-> _presented_with_both_signs(rows),
                        available |-> Len(rows), unusable |-> Len(c.rows) - Len(rows)]

\* _completeness: the truncation note of the window makes the sums a floor.
build_earnings_statement(e) ==
    CASE e = None -> "none"
      [] e # None /\ (~e.income_stated \/ ~e.realized_stated) -> "unavailable"
      [] OTHER -> IF e.income = 0 /\ ~e.realized /\ ~e.truncated THEN "empty" ELSE "ready"

\* _allocation_presentation: the recorded dimensions, with the posture judged now.
_allocation_presentation(s, shown) == allocation_posture(s.allocation, shown)

\* Largest value first, rows without a value last.
_allocation_bucket_rows(buckets) ==
    SortSeq(buckets, LAMBDA x, y : x.value # None /\ (y.value = None \/ x.value > y.value))

\* The bounded advisory packages pass into the page whole.
_reviewed_advisory_narrative(s) == IF s.narrative THEN "included" ELSE "not_supplied"

_advisor_proposal_memo(s) == IF s.memo THEN "included" ELSE "not_supplied"

_advisor_commentary(s) == IF s.commentary = None THEN "not_supplied" ELSE s.commentary

advisory_refs(s) ==
    {d \in {"narrative", "memo", "commentary"} :
        CASE d = "narrative" -> _reviewed_advisory_narrative(s) = "included"
          [] d = "memo" -> _advisor_proposal_memo(s) = "included"
          [] OTHER -> _advisor_commentary(s) = "included"}

\* _archive_custody_block: the audit summaries kept with the archived document.
_archive_custody_block(s) ==
    (IF s.memo THEN {"memo"} ELSE {})
        \cup (IF s.commentary = "included" THEN {"commentary"} ELSE {})

---------------------------------------------------------------------------
(* Packages *)

\* report_data of a portfolio review.
_page(order, s, shown) ==
    [governance |-> _governance_summary_section(s, shown),
     paragraph |-> _summary_paragraph(s, shown),
     observations |-> _page_observations(s, shown),
     history |-> snapshot_history_qualification(s),
     allocation |-> allocation_verdict(shown),
     top_bucket |-> top_allocation_bucket(shown.buckets),
     breakdown |-> _allocation_bucket_rows(shown.buckets),
     allocation_posture |-> _allocation_presentation(s, shown),
     benchmark |-> resolve_benchmark_presentation(order, s),
     benchmark_series |-> _benchmark_series_section(s),
     basis |-> _performance_basis_section(s), periods |-> _performance_periods(s),
     transactions |-> _transactions(s.transactions),
     bridge |-> build_attribution_bridge(s.attribution),
     risk |-> build_risk_posture(s), risk_summary |-> _risk_summary_section(s),
     methodology |-> build_risk_methodology(s),
     trend |-> _risk_trend_section(s.trend),
     risk_attribution |-> _risk_attribution_section(s.risk_attribution),
     drawdown |-> _drawdown_section(s.drawdown),
     holdings |-> build_holdings_presentation(s.holdings), top |-> _top_holdings(s.holdings),
     contributors |-> build_contribution_ranking(s.contribution),
     earnings |-> build_earnings_statement(s.earnings),
     advisory |-> advisory_refs(s), custody |-> _archive_custody_block(s)]

\* The bounded inputs of the discretionary families: identity, hashes, policies, rows.
_validate_dpm_common_snapshot(s) ==
    s.identity /\ s.hashes = "sha256" /\ s.policies /\ s.evidence = "sha256"

\* _portfolio_memory_context: at most twelve event references travel with the page.
MAX_EVENT_REFS == 12
_portfolio_memory_context(memory) ==
    IF memory = None THEN [status |-> "not_supplied", refs |-> 0]
    ELSE [status |-> "supplied", refs |-> Min({memory, MAX_EVENT_REFS})]

_dpm_lineage_refs(s) ==
    {"job", "source", "content"} \cup (IF s.memory # None THEN {"memory"} ELSE {})

_dpm_page(s) == [rows |-> s.rows, memory |-> _portfolio_memory_context(s.memory),
                 lineage |-> _dpm_lineage_refs(s)]

\* composite_archive_custody: the persisted record is this job's, and its contract and its
\* revision agree. The preflight of the finished package only refuses more.
build_composite_render_package(job, s) ==
    /\ job.order.format = "xlsx"
    /\ s.persisted
    /\ s.contract = _job_report_data_contract(job)
    /\ s.revision = "derived"

Refusals == {"template identity required", "accepted contract unsupported",
             "bounded input invalid", "composite custody conflict"}

\* No reason is the absence of one, and a captured allocation has a verdict of its own.
ASSUME RefusalAssumption ==
    /\ None \notin Refusals
    /\ \A s \in Snapshots["portfolio_review"] :
          s.allocation # None => s.allocation.qualification # "none"

refusal(j, reason) == [job |-> j, refused |-> reason]

\* _render_package_envelope: the axes are resolved before anything is handed over, the data
\* contract by the caller. The snapshot id is that of the record just read, so never blank.
_render_package_envelope(j, page) ==
    LET job == jobs[j] IN
    IF _job_report_data_contract(job) = "unsupported"
    THEN refusal(j, "accepted contract unsupported")
    ELSE IF _job_template_identity(job) = None THEN refusal(j, "template identity required")
    ELSE IF _job_render_package_version(job) = "unsupported"
    THEN refusal(j, "accepted contract unsupported")
    ELSE [job |-> j, refused |-> None, reference |-> mint_document_reference(j, job),
          data |-> _job_report_data_contract(job),
          envelope |-> _job_render_package_version(job),
          house |-> _job_disclosure_baseline(job),
          template |-> _job_template_identity(job), page |-> page]

\* Every section of a proof pack carries its own hash; the other families only need rows.
dpm_package(j, admitted) ==
    IF _validate_dpm_common_snapshot(jobs[j].snapshot) /\ admitted
    THEN _render_package_envelope(j, _dpm_page(jobs[j].snapshot))
    ELSE refusal(j, "bounded input invalid")

_build_proof_pack_render_package(j) ==
    LET s == jobs[j].snapshot IN
    dpm_package(j, s.subject /\ s.rows # <<>> /\ \A r \in Range(s.rows) : r = "sha256")

_build_outcome_review_render_package(j) ==
    LET s == jobs[j].snapshot IN dpm_package(j, s.subject /\ s.rows # <<>> /\ s.sources)

_build_wave_render_package(j) ==
    LET s == jobs[j].snapshot IN dpm_package(j, s.subject /\ s.rows # <<>> /\ s.sources)

_build_existing_render_package(j) ==
    LET s == jobs[j].snapshot
        order == jobs[j].order
    IN  CASE order.family = "proof_pack" -> _build_proof_pack_render_package(j)
          [] order.family = "outcome_review" -> _build_outcome_review_render_package(j)
          [] order.family = "rebalance_wave" -> _build_wave_render_package(j)
          [] OTHER -> _render_package_envelope(j,
                        _page(order, s, snapshot_allocation(s.allocation, order.allocation)))

_build_render_package(j) ==
    LET job == jobs[j] IN
    IF job.order.family # "composite_review" THEN _build_existing_render_package(j)
    ELSE IF build_composite_render_package(job, job.snapshot)
         THEN _render_package_envelope(j, [contract |-> job.snapshot.contract])
         ELSE refusal(j, "composite custody conflict")

---------------------------------------------------------------------------
(* Actions *)

\* Another release goes live, or an earlier one returns.
Deploy(r) ==
    /\ r # release
    /\ release' = r
    /\ UNCHANGED <<jobs, packages>>

\* A new order; a regeneration is one too and resolves the contract of its day.
SubmitOrder(order) ==
    /\ Len(jobs) < MaxJobs
    /\ jobs' = Append(jobs, _create_report_job(order, None, 0))
    /\ UNCHANGED <<release, packages>>

\* _accepted_snapshot_contract_version: the contract the job was accepted under.
_accepted_snapshot_contract_version(job) ==
    IF _accepted_axis(job, "data") # None THEN job.contract.data ELSE release.data[job.order.family]

CaptureSnapshot(j, s) ==
    /\ jobs[j].snapshot = None
    /\ jobs' = [jobs EXCEPT ![j].snapshot =
                    IF jobs[j].order.family = "composite_review"
                    THEN [s EXCEPT !.contract = _accepted_snapshot_contract_version(jobs[j])] ELSE s]
    /\ UNCHANGED <<release, packages>>

resolution_replay_supported(job) ==
    \/ job.order.family = "portfolio_review"
    \/ /\ job.order.family = "composite_review" /\ job.order.format = "xlsx"
       /\ job.contract # None /\ job.contract.data \in {"v8", "v9"}
       /\ job.template = job.contract.data

\* A replay inherits template and contract; its snapshot is the retained one or captured anew.
ReplayJob(j, retained) ==
    /\ Len(jobs) < MaxJobs
    /\ resolution_replay_supported(jobs[j])
    /\ \A k \in Jobs : jobs[k].source # j
    /\ retained => jobs[j].snapshot # None
    /\ jobs' = Append(jobs,
            [_create_report_job(jobs[j].order, jobs[j], j) EXCEPT
                !.snapshot = IF retained THEN jobs[j].snapshot ELSE None])
    /\ UNCHANGED <<release, packages>>

\* A first render, a retry that has to submit again, or a rerender: the package is composed now.
ComposePackage(j) ==
    /\ jobs[j].snapshot # None
    /\ packages' = packages \cup {_build_render_package(j)}
    /\ UNCHANGED <<release, jobs>>

PackageInit ==
    /\ release \in Releases
    /\ jobs \in {<<>>} \cup {<<job>> : job \in Legacy}
    /\ packages = {}

PackageNext ==
    \/ \E r \in Releases : Deploy(r)
    \/ \E order \in ReportOrders : SubmitOrder(order)
    \/ \E j \in Jobs : \E s \in Snapshots[jobs[j].order.family] : CaptureSnapshot(j, s)
    \/ \E j \in Jobs, retained \in BOOLEAN : ReplayJob(j, retained)
    \/ \E j \in Jobs : ComposePackage(j)

PackageSpec == PackageInit /\ [][PackageNext]_package_vars

---------------------------------------------------------------------------
(* Properties *)

composed == {p \in packages : p.refused = None}
reviews == {p \in composed : jobs[p.job].order.family = "portfolio_review"}

\* A document keeps the contract its job was accepted under.  Whatever releases come and
\* go between acceptance, first render, replay and rerender, every package composed for
\* the job, or for the replay that recovers it, carries the same data contract, envelope,
\* locale, brand, disclosure and template, and the two packages of one job mint the same
\* reference (accepted_document_contract: "No lifecycle path may reinterpret an accepted
\* job against today's definitions").
AcceptedContractIsKept ==
    \A p, q \in composed :
        /\ jobs[p.job].contract # None
        /\ p.job = q.job \/ jobs[q.job].source = p.job
        => /\ <<p.data, p.envelope, p.house, p.template>> = <<q.data, q.envelope, q.house, q.template>>
           /\ p.data = jobs[p.job].contract.data
           /\ p.job = q.job => p.reference = q.reference

\* A page that claims readiness rests on evidence that may be published: the captured
\* performance history and the captured allocation each attest it, belong to this
\* portfolio and date, and no bucket of the allocation lacks its weight or its value.
\* The snapshot is older than the page and its own claim may say more.
ReadyPageIsPublishable ==
    \A p \in reviews :
        LET s == jobs[p.job].snapshot
            a == s.allocation
        IN  "ready" \in {p.page.governance.readiness, p.page.paragraph} =>
                /\ s.performance # None => s.history.allowed /\ s.history.bound
                /\ jobs[p.job].order.allocation => a # None
                /\ a # None => /\ a.allowed /\ a.bound
                               /\ \A b \in Range(a.buckets) : None \notin {b.weight, b.value}

\* What the presented contributors owe the rows they are taken from: every seat is used,
\* all but the last hold the largest effects, and each side that has an effect is shown.
both_sides_shown(shown, rows) ==
    LET ranked == _ranked_contributors(rows)
        seats == Min({PRESENTED_CONTRIBUTOR_LIMIT, Len(ranked)})
    IN  /\ Len(shown) = seats
        /\ \A i \in 1 .. seats - 1 : shown[i] = ranked[i]
        /\ {1, -1} \cap {sign_of(v) : v \in Range(shown)}
              = {1, -1} \cap {sign_of(v) : v \in Range(rows) \ {None}}

\* A ranking is never one-sided when the period was not, and gives up at most one seat for
\* that: all but the last of the presented contributors are the largest effects, and the
\* signs on the page are those of the rows the source supplied with a value.
RankingShowsBothSides ==
    \A p \in reviews : p.page.contributors.posture = "ready" =>
        both_sides_shown(p.page.contributors.shown, jobs[p.job].snapshot.contribution.rows)
================================================================================
