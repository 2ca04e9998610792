---------------------------- MODULE PortfolioReview ----------------------------
(***************************************************************************)
(* Composing one portfolio review (or the smaller portfolio summary) from  *)
(* lotus-core, lotus-performance, lotus-risk and lotus-ai.                 *)
(*                                                                         *)
(* The read service asks its sources one call after another; every answer  *)
(* is a choice of the source, and between two pages of the transaction     *)
(* window lotus-core may restate its ledger.  What the answers support is  *)
(* kept per section; the composition then derives the section statuses,    *)
(* the readiness, the trust metadata and the audience claim, and the       *)
(* recording clients keep the posture of each call for the snapshot.       *)
(***************************************************************************)
EXTENDS Naturals, FiniteSets, Sequences, NoValue

CONSTANTS
    Requests,        \* orders: [kind, sections, benchmark, brief, durable]
    Ledgers,         \* contents lotus-core's transaction window may have
    IncomeRows,      \* rows that are income
    ActivityRows,    \* rows that are inflows, outflows, fees or taxes
    RealizedRows,    \* rows that carry a realized gain or loss
    Limit,           \* page size
    MaxRows,         \* settings.report_transaction_max_rows
    MaxPages,        \* settings.report_transaction_max_pages
    MaxRetries,      \* settings.upstream_max_retries
    MaxRevisions,    \* bound on restatements of the source ledger
    RiskPeriods      \* periods of the risk calculation

VARIABLES
    request,
    pc,              \* the call the service makes next
    tries,           \* retries that call has used
    ledger,          \* revisions of the source's transaction window, newest last
    window,          \* what the paging has consumed
    response,        \* supportability of each section, None until sourced
    history,         \* the workspace summary the risk calculation may reuse
    risk,            \* [left, states, failed]: the calculation period by period
    calls,           \* recorded upstream calls: <<call, posture>>
    outcome,         \* "composing", "composed" or the error that ended it
    published        \* what the composed review claims

review_vars ==
    <<request, pc, tries, ledger, window, response, history, risk, calls, outcome, published>>

(* PORTFOLIO_REVIEW_SECTION_DEFINITIONS *)
Sections ==
    {"CLIENT_PROFILE", "OVERVIEW", "ALLOCATION", "PERFORMANCE", "PERFORMANCE_ATTRIBUTION",
     "RISK_ANALYTICS", "RISK_ATTRIBUTION", "INCOME_AND_ACTIVITY", "HOLDINGS", "TRANSACTIONS",
     "ADVISOR_COMMENTARY"}

\* Parts of the response that no section definition names.
Panels == {"CONTRIBUTION", "DRAWDOWN", "RISK_TREND", "COMMENTARY_PACKAGE", "WEALTH", "INCOME",
           "ACTIVITY", "PNL"}

\* _requested_sections: the client profile is part of every review.
_requested_sections ==
    request.sections \cup (IF request.kind = "review" THEN {"CLIENT_PROFILE"} ELSE {})

asked(s) == s \in _requested_sections

TransactionRows == UNION {{l[i] : i \in DOMAIN l} : l \in Ledgers}

\* The pages are of whole rows, an order for a review names sections of a review, and a
\* brief comes with the section that shows it (validated when the order is accepted).
\* "durable" is the capture of a report job; the others are synchronous reads.
ASSUME ReviewAssumption ==
    /\ Ledgers \subseteq Seq(TransactionRows)
    /\ {Limit, MaxRows, MaxPages} \subseteq Nat \ {0}
    /\ None \notin Nat \cup {"max_rows_reached", "max_pages_reached", "ready", "partial"}
    /\ \A r \in Requests : r.kind = "review" =>
          /\ r.sections \subseteq Sections
          /\ r.brief => "ADVISOR_COMMENTARY" \in r.sections /\ r.durable

---------------------------------------------------------------------------
(* Answers of the sources *)

\* 2xx answers a call can read, and the ones that end or degrade it.
Failures == {"not_found", "invalid", "unavailable", "broken"}

\* The postures an answer may be recorded with.  The text of the body decides before the
\* status does: any answer whose text has the word is "redacted" or "not_supported", and a
\* 2xx answer is "partial" when its text says so, whatever the section makes of it.
_classify_call(answer) ==
    {"redacted", "not_supported"} \cup
    CASE answer = "unavailable" -> {"unavailable"}
      [] answer \in {"not_found", "invalid"} -> {"error"}
      [] OTHER -> {"partial", "complete"}

\* An exception that reaches the recorder is a timeout or any other error.
append_failure == {"unavailable", "error"}

\* risk_call_posture of the state qualify_risk_response admits.
qualify_risk_response(answer) ==
    CASE answer \in {"ready", "unbenchmarked"} -> "ready"
      [] answer = "malformed" -> "unknown"
      [] OTHER -> answer

risk_call_posture(state) ==
    CASE state = "ready" -> "complete"
      [] state = "unsupported" -> "not_supported"
      [] state = "error" -> "error"
      [] state \in {"empty", "permission_blocked"} -> "unavailable"
      [] OTHER -> "partial"

RiskAnswers == {"ready", "unbenchmarked", "degraded", "empty", "malformed"}

\* A risk result is recorded by its typed state, and a refused one without its body; an
\* allocation or a history that may not be published is not complete.
append_success(call, answer) ==
    CASE call \in {"calculate_risk", "rolling_metrics"} /\ answer \notin Failures ->
            {risk_call_posture(qualify_risk_response(answer))}
      [] call \in {"calculate_risk", "rolling_metrics"} /\ answer \in Failures ->
            _classify_call(answer) \ {"redacted", "not_supported"}
      [] \/ call \in {"workspace_summary", "risk_history"} /\ answer \in {"partial", "foreign"}
         \/ call = "asset_allocation" /\ answer \in {"partial", "malformed"} ->
            _classify_call(answer) \ {"complete"}
      [] call = "asset_allocation" /\ answer = "foreign" -> {"redacted", "not_supported"}
      [] OTHER -> _classify_call(answer)

call_record(call, answer) ==
    {<<call, p>> : p \in IF answer = "broken" THEN append_failure ELSE append_success(call, answer)}

\* Only a capture records its calls.  An allocation of another scope raises inside the
\* recorder, before it is appended, unless its text decides; the recording client of
\* lotus-performance has no attribution call.
_record(call, answer) ==
    \/ /\ request.durable /\ call # "attribution"
       /\ \E c \in call_record(call, answer) : calls' = calls \cup {c}
    \/ /\ ~request.durable \/ call = "attribution" \/ (call = "asset_allocation" /\ answer = "foreign")
       /\ UNCHANGED calls

_overall_posture ==
    LET postures == {c[2] : c \in calls} IN
    IF calls = {} \/ "error" \in postures THEN "error"
    ELSE IF "unavailable" \in postures THEN "unavailable"
    ELSE IF "not_supported" \in postures THEN "not_supported"
    ELSE IF "redacted" \in postures THEN "redacted"
    ELSE IF "partial" \in postures THEN "partial" ELSE "complete"

---------------------------------------------------------------------------
(* The order of the calls *)

Order == <<"portfolio_summary", "portfolio_detail", "asset_allocation", "income_window",
           "positions", "transactions_window", "workspace_summary", "contribution", "drawdown",
           "attribution", "risk_history", "calculate_risk", "risk_by_period", "rolling_metrics",
           "risk_attribution", "commentary", "compose">>

sourced(s) == response[s] # None

\* Which calls this order needs, judged when the one before has been answered.
due(call, got, past, periods) ==
    CASE call = "portfolio_summary" -> TRUE
      [] call = "portfolio_detail" -> request.kind = "review"
      [] call = "asset_allocation" -> asked("ALLOCATION")
      [] call = "income_window" ->
            asked("INCOME_AND_ACTIVITY") \/ asked("INCOME") \/ asked("ACTIVITY")
      [] call = "positions" -> asked("HOLDINGS") \/ asked("PNL")
      [] call = "transactions_window" ->
            (asked("TRANSACTIONS") \/ asked("PNL")) /\ window.status = None
      [] call = "workspace_summary" -> asked("PERFORMANCE")
      [] call = "contribution" -> asked("PERFORMANCE") /\ got["PERFORMANCE"] # None
      [] call = "drawdown" -> asked("PERFORMANCE")
      [] call = "attribution" -> asked("PERFORMANCE_ATTRIBUTION")
      [] call = "risk_history" -> asked("RISK_ANALYTICS") /\ past = None
      [] call = "calculate_risk" -> asked("RISK_ANALYTICS") /\ past = "returns"
      [] call = "risk_by_period" -> asked("RISK_ANALYTICS") /\ periods.left # {}
      [] call = "rolling_metrics" -> asked("RISK_ANALYTICS")
      [] call = "risk_attribution" -> asked("RISK_ATTRIBUTION")
      [] call = "commentary" -> request.brief
      [] OTHER -> TRUE

after(call, got, past, periods) ==
    LET here == CHOOSE i \in 1..Len(Order) : Order[i] = call
        next == {i \in here + 1 .. Len(Order) : due(Order[i], got, past, periods)}
    IN  Order[CHOOSE i \in next : \A j \in next : i <= j]

\* The answer is kept and the service goes on to its next call.
proceed(call, got, past, periods) ==
    /\ response' = got
    /\ history' = past
    /\ risk' = periods
    /\ pc' = after(call, got, past, periods)
    /\ UNCHANGED outcome

put(s, status) == [response EXCEPT ![s] = status]

\* A mandatory source failed: the whole composition ends with its error.
fail(error) ==
    /\ outcome' = error
    /\ pc' = "ended"
    /\ UNCHANGED <<response, history, risk>>

reporting_error(answer) ==
    CASE answer = "not_found" -> "ReportingNotFoundError"
      [] answer = "invalid" -> "ReportingValidationError"
      [] answer = "broken" -> "TransportError"
      [] OTHER -> "ReportingUpstreamError"

\* _map_job_failure: category and whether a capture that ended so may be retried.
_map_job_failure(error) ==
    IF error \in {"ReportingNotFoundError", "ReportingValidationError"}
    THEN [category |-> "validation_failed", retryable |-> FALSE]
    ELSE [category |-> "upstream_data_failed", retryable |-> TRUE]

Fresh == [rows |-> <<>>, skip |-> 0, total |-> None, pages |-> 0, revision |-> None,
          conflict |-> FALSE, quality |-> TRUE, trusted |-> TRUE, wellformed |-> TRUE,
          stop |-> None, status |-> None]

ReviewInit ==
    /\ request \in Requests
    /\ pc = "portfolio_summary"
    /\ tries = 0
    /\ ledger \in {<<l>> : l \in Ledgers}
    /\ window = Fresh
    /\ response = [s \in Sections \cup Panels |-> None]
    /\ history = None
    /\ risk = [left |-> {}, states |-> {}, failed |-> FALSE]
    /\ calls = {}
    /\ outcome = "composing"
    /\ published = None

\* _request_with_retry: 429, 502-504, a timeout or a network fault uses a retry; the
\* service sees "unavailable" when none is left.
_request_with_retry ==
    /\ pc \notin {"compose", "ended"} /\ tries < MaxRetries
    /\ ~(pc = "attribution" /\ request.durable)
    /\ tries' = tries + 1
    /\ UNCHANGED <<request, pc, ledger, window, response, history, risk, calls, outcome, published>>

\* One answered call: recorded, and read by the service.
answered(call, answer) ==
    /\ pc = call
    /\ answer = "unavailable" => tries = MaxRetries
    /\ tries' = 0
    /\ _record(call, answer)
    /\ UNCHANGED <<request, ledger, published>>

---------------------------------------------------------------------------
(* lotus-core *)

get_portfolio_summary ==
    \E answer \in {"ok", "malformed"} \cup Failures :
        /\ answered("portfolio_summary", answer)
        /\ UNCHANGED window
        /\ IF answer = "ok"
           THEN proceed("portfolio_summary",
                        [response EXCEPT !["OVERVIEW"] = IF asked("OVERVIEW") THEN "ready" ELSE None,
                                         !["WEALTH"] = IF asked("WEALTH") THEN "ready" ELSE None],
                        history, risk)
           ELSE fail(reporting_error(IF answer = "invalid" THEN "unavailable" ELSE answer))

\* _portfolio_client_profile: a failed or incomplete profile never ends the review.
_portfolio_client_profile ==
    \E answer \in {"ok", "partial", "malformed"} \cup Failures :
        /\ answered("portfolio_detail", answer)
        /\ UNCHANGED window
        /\ IF answer = "broken" THEN fail(reporting_error(answer))
           ELSE proceed("portfolio_detail",
                        put("CLIENT_PROFILE", CASE answer = "ok" -> "present"
                                                [] answer = "partial" -> "partial"
                                                [] OTHER -> "unavailable"),
                        history, risk)

\* map_source_allocation: published as complete only when the valuation coverage is
\* complete and no number contradicts it ("malformed"); a scope fault ends the review.
map_source_allocation(answer) == IF answer = "ok" THEN "ready" ELSE "partial"

get_asset_allocation ==
    \E answer \in {"ok", "partial", "malformed", "foreign"} \cup Failures :
        /\ answered("asset_allocation", answer)
        /\ UNCHANGED window
        /\ IF answer \in {"ok", "partial", "malformed"}
           THEN proceed("asset_allocation", put("ALLOCATION", map_source_allocation(answer)),
                        history, risk)
           ELSE fail(reporting_error(answer))

\* The source product of the positions; "empty" is a complete answer without positions
\* and "uncosted" one where some position has no cost basis or unrealized P&L.
_holdings_supportability(answer) == IF answer = "partial" THEN "partial" ELSE "ready"

_coverage_status(answer) ==
    CASE answer = "empty" -> "not_sourced" [] answer = "uncosted" -> "partial" [] OTHER -> "present"

get_portfolio_positions ==
    \E answer \in {"ok", "empty", "partial", "uncosted", "malformed"} \cup Failures :
        /\ answered("positions", answer)
        /\ UNCHANGED window
        /\ IF answer \in {"ok", "empty", "partial", "uncosted"}
           THEN proceed("positions",
                        [response EXCEPT !["HOLDINGS"] = _holdings_supportability(answer),
                                         !["PNL"] = _coverage_status(answer)],
                        history, risk)
           ELSE fail(reporting_error(IF answer = "invalid" THEN "unavailable" ELSE answer))

---------------------------------------------------------------------------
(* The transaction window, page by page *)

least(a, b) == IF a < b THEN a ELSE b

\* The page lotus-core answers from the ledger as it stands now.
page_rows(skip, limit) ==
    LET now == ledger[Len(ledger)] IN SubSeq(now, skip + 1, least(skip + limit, Len(now)))

\* Mutant: the pages are joined without comparing the revisions they came from.
merge_transaction_source_product_joined(w, answer) ==
    [w EXCEPT !.revision = Len(ledger),
              !.quality = @ /\ answer # "partial",
              !.trusted = @ /\ answer # "untrusted"]

\* merge_transaction_source_product: the first page that states its identity fixes it.
merge_transaction_source_product(w, answer) ==
    LET states == answer # "untrusted" IN
    [w EXCEPT !.revision = IF @ = None /\ states THEN Len(ledger) ELSE @,
              !.conflict = @ \/ (states /\ w.revision # None /\ w.revision # Len(ledger)),
              !.quality = @ /\ answer # "partial",
              !.trusted = @ /\ states]

\* transaction_source_product_supportability_notes: is there any?
transaction_source_product_supportability_notes(w) ==
    \/ ~w.trusted \/ w.conflict \/ ~w.quality
    \/ Len(w.rows) < w.total

transaction_window_supportability(w) ==
    IF w.stop # None \/ transaction_source_product_supportability_notes(w)
    THEN "partial" ELSE "ready"

close(w, stop) ==
    LET stopped == [w EXCEPT !.stop = stop]
    IN  [stopped EXCEPT !.status = transaction_window_supportability(stopped)]

\* The sections that read the window take its supportability.
windowed(w) ==
    [s \in Sections \cup Panels |->
        IF w.status # None /\ asked(s)
           /\ (s \in {"INCOME_AND_ACTIVITY", "TRANSACTIONS"} \/ s \in {"INCOME", "ACTIVITY"})
        THEN w.status ELSE response[s]]

\* A page the service can read: "partial" by its data quality, "untrusted" without its
\* source identity, "untotalled" without a total, "ragged" with an element that is no row.
Pages == {"ok", "partial", "untrusted", "untotalled", "ragged"}

\* The elements of the page that are rows: a "ragged" page begins with one that is not.
rows_of(page, answer) == IF answer = "ragged" THEN SubSeq(page, 2, Len(page)) ELSE page

\* The page's total, 0 when it states none.  Each page replaces the total of the one before.
_to_int_total(answer) == IF answer = "untotalled" THEN 0 ELSE Len(ledger[Len(ledger)])

\* One turn of the loop of _list_transaction_rows_result.  "wellformed" remembers whether
\* every page stated its total and held only rows; the code does not keep it.
consume(call, answer) ==
    LET budget == MaxRows - Len(window.rows)
        page   == rows_of(page_rows(window.skip, least(Limit, budget)), answer)
        taken  == merge_transaction_source_product(
                      [window EXCEPT !.rows = @ \o page, !.skip = @ + Len(page),
                                     !.pages = @ + 1, !.total = _to_int_total(answer),
                                     !.wellformed = @ /\ answer \notin {"untotalled", "ragged"}],
                      answer)
        whole  == page = <<>> \/ taken.skip >= taken.total
        next   == IF Len(taken.rows) >= MaxRows THEN close(taken, "max_rows_reached")
                  ELSE IF whole THEN close(taken, None)
                  ELSE IF taken.pages >= MaxPages THEN close(taken, "max_pages_reached")
                  ELSE taken
    IN  /\ window' = next
        /\ IF next.status = None
           THEN UNCHANGED <<pc, response, history, risk, outcome>>
           ELSE /\ response' = windowed(next)
                /\ pc' = LET here == CHOOSE i \in 1..Len(Order) : Order[i] = call
                             rest == {i \in here + 1 .. Len(Order) :
                                         /\ Order[i] # "transactions_window"
                                         /\ due(Order[i], response, history, risk)}
                         IN  Order[CHOOSE i \in rest : \A j \in rest : i <= j]
                /\ UNCHANGED <<history, risk, outcome>>

_list_transaction_rows_result ==
    \E call \in {"income_window", "transactions_window"} :
    \E answer \in Pages \cup {"malformed"} \cup Failures :
        /\ answered(call, answer)
        /\ IF answer \in Pages THEN consume(call, answer)
           ELSE fail(reporting_error(answer)) /\ UNCHANGED window

\* lotus-core restates its ledger: other rows, another snapshot identity.  Only the
\* paging reads it, so a restatement before is another initial ledger.
Restate ==
    /\ pc \in {"income_window", "transactions_window"} /\ Len(ledger) < MaxRevisions
    /\ \E l \in Ledgers : ledger' = Append(ledger, l)
    /\ UNCHANGED <<request, pc, tries, window, response, history, risk, calls, outcome, published>>

---------------------------------------------------------------------------
(* lotus-performance *)

\* workspace_summary_ready, and what the answer supports: "partial" does not qualify
\* its history, "unbenchmarked" carries no benchmark series, "historyless" no daily
\* returns or no open date, "foreign" names another portfolio.
Workspace == {"ok", "partial", "unbenchmarked", "historyless", "foreign"}

workspace_summary_ready(answer) == answer \in Workspace \ {"foreign"}

performance_supportability(answer) ==
    IF answer = "partial" \/ (answer = "unbenchmarked" /\ request.benchmark)
    THEN "partial" ELSE "ready"

_extract_daily_returns_from_workspace_summary(answer) ==
    IF answer = "historyless" THEN "none" ELSE "returns"

get_workspace_summary ==
    \E answer \in Workspace \cup Failures :
        /\ answered("workspace_summary", answer)
        /\ UNCHANGED window
        /\ IF answer = "broken" THEN fail(reporting_error(answer))
           ELSE IF workspace_summary_ready(answer)
           THEN proceed("workspace_summary", put("PERFORMANCE", performance_supportability(answer)),
                        _extract_daily_returns_from_workspace_summary(answer), risk)
           ELSE proceed("workspace_summary", response, history, risk)

\* _map_performance_contribution, then _enrich_holdings_with_contribution.
_map_performance_contribution ==
    \E answer \in {"ok"} \cup Failures :
        /\ answered("contribution", answer)
        /\ UNCHANGED window
        /\ IF answer = "broken" THEN fail(reporting_error(answer))
           ELSE proceed("contribution",
                        put("CONTRIBUTION", IF answer = "ok" THEN "present" ELSE "unavailable"),
                        history, risk)

\* capture_attribution: 202 is accepted upstream and not part of this review.  A fault is
\* swallowed, and in a capture the call never leaves the recording client: it inherits the
\* method and not the address, so every captured attribution is unavailable.
capture_attribution ==
    \E answer \in IF request.durable THEN {"broken"} ELSE {"ok", "accepted"} \cup Failures :
        /\ answered("attribution", answer)
        /\ UNCHANGED window
        /\ proceed("attribution",
                   put("PERFORMANCE_ATTRIBUTION", CASE answer = "ok" -> "ready"
                                                    [] answer = "accepted" -> "pending"
                                                    [] OTHER -> "unavailable"),
                   history, risk)

---------------------------------------------------------------------------
(* lotus-risk *)

\* The workspace summary is asked again when the performance section has none.
risk_return_history ==
    \E answer \in Workspace \cup Failures :
        /\ answered("risk_history", answer)
        /\ UNCHANGED window
        /\ IF answer = "broken" THEN fail(reporting_error(answer))
           ELSE proceed("risk_history", response,
                        IF workspace_summary_ready(answer)
                        THEN _extract_daily_returns_from_workspace_summary(answer) ELSE "none", risk)

\* combine_risk_qualifications: the worst of the admitted states, unknown if none.
Precedence == <<"ready", "degraded", "unknown", "empty">>
rank(state) == CHOOSE i \in 1..Len(Precedence) : Precedence[i] = state

\* Mutant: a later ready period erases a fault.
combine_risk_qualifications_best(states) ==
    IF states = {} THEN "unknown"
    ELSE CHOOSE s \in states : \A o \in states : rank(s) <= rank(o)

combine_risk_qualifications(states) ==
    IF states = {} THEN "unknown"
    ELSE CHOOSE s \in states : \A o \in states : rank(o) <= rank(s)

risk_source_supportability(state) ==
    CASE state = "ready" -> "ready" [] state = "empty" -> "unavailable" [] OTHER -> "partial"

\* risk_supportability: the qualification, the failed periods and the benchmark.
risk_supportability(state, failed, unbenchmarked) ==
    IF risk_source_supportability(state) # "ready" THEN risk_source_supportability(state)
    ELSE IF failed \/ (unbenchmarked /\ request.benchmark) THEN "partial" ELSE "ready"

\* _build_risk_analytics: a refused calculation is asked again period by period.
calculate_risk ==
    \E answer \in RiskAnswers \cup Failures :
        /\ answered("calculate_risk", answer)
        /\ UNCHANGED window
        /\ CASE answer = "broken" -> fail(reporting_error(answer))
             [] answer \in Failures \ {"broken"} ->
                   proceed("calculate_risk", response, history, [risk EXCEPT !.left = RiskPeriods])
             [] OTHER ->
                   proceed("calculate_risk",
                           put("RISK_ANALYTICS", risk_supportability(qualify_risk_response(answer),
                                                                     FALSE, answer = "unbenchmarked")),
                           history, risk)

\* One period of _calculate_risk_by_period; the last one decides the section, which
\* has no result at all when every period was refused.
_calculate_risk_by_period ==
    \E answer \in {"ready", "degraded", "empty"} \cup Failures :
        LET ok    == answer \notin Failures
            done  == [risk EXCEPT !.left = @ \ {CHOOSE p \in @ : TRUE},
                                  !.states = IF ok THEN @ \cup {answer} ELSE @,
                                  !.failed = @ \/ ~ok]
            result == IF done.states = {} THEN "unavailable"
                      ELSE risk_supportability(combine_risk_qualifications(done.states),
                                               done.failed, FALSE)
        IN  /\ pc = "risk_by_period"
            /\ answer = "unavailable" => tries = MaxRetries
            /\ tries' = 0
            /\ _record("calculate_risk", answer)
            /\ UNCHANGED <<request, ledger, published, window>>
            /\ CASE answer = "broken" -> fail(reporting_error(answer))
                 [] done.left # {} /\ answer # "broken" ->
                       /\ risk' = done
                       /\ UNCHANGED <<pc, response, history, outcome>>
                 [] OTHER -> proceed("risk_by_period", put("RISK_ANALYTICS", result), history, done)

combine_risk_section_supportability(calculation, trend) ==
    IF trend # "ready" /\ calculation = "ready" THEN "partial" ELSE calculation

\* _build_risk_trend: the section takes both the calculation and the trend.
rolling_metrics ==
    \E answer \in {"ready", "degraded", "malformed"} \cup Failures :
        LET trend == IF answer \in Failures THEN "unavailable"
                     ELSE risk_source_supportability(qualify_risk_response(answer))
            calculation == IF sourced("RISK_ANALYTICS") THEN response["RISK_ANALYTICS"]
                           ELSE "unavailable"
        IN  /\ answered("rolling_metrics", answer)
            /\ UNCHANGED window
            /\ proceed("rolling_metrics",
                       [response EXCEPT
                           !["RISK_TREND"] = trend,
                           !["RISK_ANALYTICS"] =
                               combine_risk_section_supportability(calculation, trend)],
                       history, risk)

\* build_drawdown_capture and _build_risk_attribution: any fault is an unavailable part.
drawdown_analytics ==
    \E answer \in {"ok"} \cup Failures :
        /\ answered("drawdown", answer)
        /\ UNCHANGED window
        /\ proceed("drawdown", put("DRAWDOWN", IF answer = "ok" THEN "ready" ELSE "unavailable"),
                   history, risk)

_build_risk_attribution ==
    \E answer \in {"ok"} \cup Failures :
        /\ answered("risk_attribution", answer)
        /\ UNCHANGED window
        /\ proceed("risk_attribution",
                   put("RISK_ATTRIBUTION", IF answer = "ok" THEN "ready" ELSE "unavailable"),
                   history, risk)

---------------------------------------------------------------------------
(* lotus-ai: the accepted advisor brief of a captured review *)

\* resolve_advisor_commentary_package: identity, verdict, context and provenance must
\* all hold; anything else closes the section, and a transport fault fails the capture.
Briefs == {"accepted", "other_run", "not_validated", "other_context", "unreviewed"}

_included_package(answer) == IF answer = "accepted" THEN "included" ELSE "unavailable"

_resolve_advisor_commentary ==
    \E answer \in Briefs \cup Failures :
        /\ answered("commentary", answer)
        /\ UNCHANGED window
        /\ IF answer \in {"broken", "unavailable"} THEN fail(reporting_error("unavailable"))
           ELSE proceed("commentary", put("COMMENTARY_PACKAGE", _included_package(answer)),
                        history, risk)

---------------------------------------------------------------------------
(* The composition *)

_summarize_income_rows(rows) == SelectSeq(rows, LAMBDA r : r \in IncomeRows)
_summarize_activity_rows(rows) == SelectSeq(rows, LAMBDA r : r \in ActivityRows)
_summarize_realized_pnl_rows(rows) == SelectSeq(rows, LAMBDA r : r \in RealizedRows)

_section_not_applicable(s) ==
    CASE s = "HOLDINGS" -> response["PNL"] = "not_sourced"
      [] s = "TRANSACTIONS" -> window.rows = <<>>
      [] s = "INCOME_AND_ACTIVITY" ->
            _summarize_income_rows(window.rows) \o _summarize_activity_rows(window.rows) = <<>>
      [] OTHER -> FALSE

\* _build_review_section: the client profile and the overview carry no supportability.
_build_review_section(s) ==
    IF ~asked(s) THEN "omitted_by_request"
    ELSE IF ~sourced(s) THEN "unavailable"
    ELSE IF /\ s \notin {"CLIENT_PROFILE", "OVERVIEW"}
            /\ response[s] \in {"partial", "unavailable", "pending"} THEN response[s]
    ELSE IF _section_not_applicable(s) THEN "not_applicable" ELSE "ready"

_build_client_sections == [s \in Sections |-> _build_review_section(s)]

_review_readiness(statuses) ==
    IF \E s \in Sections : statuses[s] \in {"unavailable", "partial"} THEN "partial" ELSE "ready"

_review_audience(statuses) ==
    \A s \in Sections : statuses[s] \in {"ready", "not_applicable", "omitted_by_request"}

\* build_review_evidence: completeness_status and data_quality_status say the same.
build_review_evidence(readiness) == IF readiness = "partial" THEN "partial" ELSE "complete"

\* The key figures that carry a supportability of their own; the others (value,
\* allocation, performance, risk) state none.
_holdings_key_figures == response["HOLDINGS"]
_transaction_key_figures ==
    [supportability |-> response["TRANSACTIONS"],
     realized |-> _summarize_realized_pnl_rows(window.rows) # <<>>]
_income_activity_key_figures == response["INCOME_AND_ACTIVITY"]
_performance_key_figures ==
    [contribution |-> IF sourced("CONTRIBUTION") THEN response["CONTRIBUTION"] ELSE "not_requested"]

\* A group is present as soon as one figure is filled in, a zero or a status included.
_figure_group(supportability) ==
    IF supportability \in {"partial", "unavailable"} THEN supportability ELSE "present"

_review_report_coverage ==
    [client_profile |-> response["CLIENT_PROFILE"],
     performance |-> _figure_group(None),
     risk |-> _figure_group(None),
     income_and_activity |-> _figure_group(_income_activity_key_figures),
     holdings |-> _figure_group(_holdings_key_figures),
     transactions |-> _figure_group(_transaction_key_figures.supportability),
     contribution |-> IF response["CONTRIBUTION"] = "present" THEN "present"
                     ELSE IF ~sourced("PERFORMANCE") THEN "not_sourced" ELSE "unavailable",
     realized |-> IF _transaction_key_figures.supportability = "partial" THEN "partial"
                 ELSE IF _transaction_key_figures.realized THEN "present"
                 ELSE IF ~sourced("TRANSACTIONS") THEN "not_requested" ELSE "not_applicable"]

\* _upstream_capability_audit repeats the coverage; the profile is always present there.
_upstream_capability_audit(coverage) == [coverage EXCEPT !.client_profile = "present"]

_ai_readiness == IF response["CLIENT_PROFILE"] = "present" THEN "guarded_ready" ELSE "partial"

\* _review_observations: the gaps the review points out itself.
_review_observations ==
    {g \in {"CLIENT_PROFILE", "HOLDINGS", "TRANSACTIONS"} :
        response[g] \in {"partial", "unavailable"}}
    \cup (IF _performance_key_figures.contribution = "unavailable" THEN {"CONTRIBUTION"} ELSE {})
    \cup (IF response["PNL"] # "present" THEN {"UNREALIZED_PNL"} ELSE {})

_report_side_findings ==
    {g \in {"HOLDINGS", "TRANSACTIONS"} : response[g] = "partial"}
    \cup (IF response["PNL"] = "partial" THEN {"UNREALIZED_PNL"} ELSE {})

\* _advisor_briefing asks the advisor to confirm what the profile call said.
_advisor_briefing == [confirm_client_profile_current |-> response["CLIENT_PROFILE"]]

\* _section_items: the sections with a payload to list, whatever its supportability.
_section_items == {s \in Sections : asked(s) /\ sourced(s)}

\* _map_pnl_summary of the portfolio summary.
_summary_realized_pnl_status ==
    LET realized == _summarize_realized_pnl_rows(window.rows) # <<>> IN
    IF window.status = "partial" THEN IF realized THEN "partial" ELSE "not_sourced"
    ELSE IF realized THEN "present" ELSE "not_applicable"

_summary_pnl_supportability_status(unrealized, realized) ==
    IF window.status = "partial" THEN "partial"
    ELSE IF unrealized = "present" /\ realized \in {"present", "not_applicable"} THEN "ready"
    ELSE IF unrealized = "not_sourced" /\ realized = "not_applicable" THEN "not_sourced"
    ELSE "partial"

_map_pnl_summary ==
    [unrealized |-> response["PNL"], realized |-> _summary_realized_pnl_status,
     status |-> _summary_pnl_supportability_status(response["PNL"], _summary_realized_pnl_status)]

get_portfolio_review ==
    /\ request.kind = "review"
    /\ LET statuses  == _build_client_sections
           readiness == _review_readiness(statuses)
       IN  published' = [sections |-> statuses,
                         readiness |-> readiness,
                         trust |-> build_review_evidence(readiness),
                         client_ready |-> _review_audience(statuses),
                         coverage |-> _review_report_coverage,
                         capabilities |-> _upstream_capability_audit(_review_report_coverage),
                         briefing |-> _advisor_briefing,
                         items |-> _section_items,
                         observations |-> _review_observations,
                         findings |-> _report_side_findings,
                         ai |-> _ai_readiness,
                         posture |-> IF request.durable THEN _overall_posture ELSE None]

get_summary ==
    /\ request.kind = "summary"
    /\ published' = [window |-> window.status,
                     pnl |-> IF asked("PNL") THEN _map_pnl_summary ELSE None]

Compose ==
    /\ pc = "compose"
    /\ get_portfolio_review \/ get_summary
    /\ outcome' = "composed"
    /\ pc' = "ended"
    /\ UNCHANGED <<request, tries, ledger, window, response, history, risk, calls>>

\* _failed_capture_payload: a capture that ended keeps its verdict and its calls.
_failed_capture ==
    /\ pc = "ended" /\ outcome # "composed" /\ published = None /\ request.durable
    /\ published' = [verdict |-> _map_job_failure(outcome), posture |-> _overall_posture]
    /\ UNCHANGED <<request, pc, tries, ledger, window, response, history, risk, calls, outcome>>

ReviewNext ==
    \/ _request_with_retry \/ Restate
    \/ get_portfolio_summary \/ _portfolio_client_profile \/ get_asset_allocation
    \/ get_portfolio_positions \/ _list_transaction_rows_result
    \/ get_workspace_summary \/ _map_performance_contribution \/ capture_attribution
    \/ risk_return_history \/ calculate_risk \/ _calculate_risk_by_period \/ rolling_metrics
    \/ drawdown_analytics \/ _build_risk_attribution \/ _resolve_advisor_commentary
    \/ Compose \/ _failed_capture

ReviewSpec == ReviewInit /\ [][ReviewNext]_review_vars

---------------------------------------------------------------------------
(* Properties *)

review_composed == outcome = "composed" /\ request.kind = "review"

\* A transaction window reported as ready holds, row for row, one revision of the
\* source's ledger, however often lotus-core restated it between two pages, as long as
\* every page stated its total and held only rows.  (A page without a total ends the
\* paging, and an element that is no row is dropped and not counted: the window is then
\* short or repeats a row and is reported as ready all the same.)
ReadyWindowIsOneRevision ==
    window.status = "ready" /\ window.wellformed =>
        \E i \in DOMAIN ledger : window.rows = ledger[i]

\* Calls whose failure no section of the review shows.
Unshown == {"portfolio_detail", "contribution", "drawdown", "risk_history"}

\* A review that says it is ready for the client rests on answers: no call it recorded
\* failed, and no risk result it recorded is less than complete, but for the calls no
\* section shows and a risk calculation that was replaced, period by period, by results
\* that are all ready.  (A redacted, unsupported or partial text does not qualify a
\* section, so nothing is said of the other postures.)
ClientReadyRestsOnAnswers ==
    review_composed /\ published.client_ready =>
        /\ \A c \in calls :
              \/ c[2] \notin {"error", "unavailable"} /\ c[1] \notin {"calculate_risk", "rolling_metrics"}
              \/ c[2] = "complete" \/ c[1] \in Unshown
              \/ c[1] = "calculate_risk" /\ risk.states # {} /\ ~risk.failed
        /\ risk.states \subseteq {"ready"}
=============================================================================
