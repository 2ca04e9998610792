--------------------------- MODULE MCReportContent ---------------------------
(***************************************************************************)
(* Three independent models of what a report says, checked in one run: the *)
(* composition of a portfolio review from upstream calls, the render       *)
(* package built from a snapshot, and the capture of a composite review.   *)
(* The initial state chooses one of them, and only that one moves.         *)
(***************************************************************************)
EXTENDS PortfolioReview, RenderPackage, CompositeReview

VARIABLE subject   \* the model this behaviour is of

---------------------------------------------------------------------------
(* Portfolio review: every section is ordered at least once. *)

review(sections, benchmark, brief) ==
    [kind |-> "review", sections |-> sections, benchmark |-> benchmark, brief |-> brief, durable |-> TRUE]

read(order) == [order EXCEPT !.durable = FALSE]

MCRequests ==
    {review({"OVERVIEW", "ALLOCATION", "HOLDINGS"}, FALSE, FALSE),
     review({"INCOME_AND_ACTIVITY", "TRANSACTIONS"}, FALSE, FALSE),
     review({"PERFORMANCE", "RISK_ANALYTICS"}, TRUE, FALSE),
     review({"RISK_ANALYTICS", "RISK_ATTRIBUTION"}, FALSE, FALSE),
     review({"PERFORMANCE_ATTRIBUTION", "ALLOCATION"}, FALSE, FALSE),
     read(review({"PERFORMANCE_ATTRIBUTION", "TRANSACTIONS"}, FALSE, FALSE)),
     review({"OVERVIEW", "ADVISOR_COMMENTARY"}, FALSE, TRUE),
     [kind |-> "summary", sections |-> {"WEALTH", "ALLOCATION", "PNL", "INCOME"},
      benchmark |-> FALSE, brief |-> FALSE, durable |-> FALSE],
     [kind |-> "summary", sections |-> {"WEALTH", "PNL"}, benchmark |-> FALSE, brief |-> FALSE,
      durable |-> FALSE]}

MCLedgers == {<<>>, <<1, 2>>, <<1, 2, 3>>, <<2, 3>>, <<1, 3, 4>>, <<2, 3, 4, 5, 6>>}

---------------------------------------------------------------------------
(* Render package: a sound page and, one panel at a time, what it may lack. *)

Families == {"portfolio_review", "proof_pack", "outcome_review", "rebalance_wave", "composite_review"}

deployed(n) ==
    [data |-> [f \in Families |-> IF f = "composite_review" THEN "v1" ELSE n[1]],
     template |-> [f \in Families |-> n[2]], envelope |-> n[3], house |-> n[4]]

MCReleases == {deployed(<<"d1", "t1", "e1", "h1">>), deployed(<<"d2", "t1", "e1", "h2">>),
               deployed(<<"d2", "t2", "e2", "h2">>)}

order(family, format, options, benchmark) ==
    [family |-> family, format |-> format, options |-> options, benchmark |-> benchmark,
     allocation |-> TRUE]

MCOrders ==
    {order("portfolio_review", "pdf", {}, TRUE), order("proof_pack", "pdf", {}, FALSE),
     order("outcome_review", "pdf", {}, FALSE), order("rebalance_wave", "pdf", {}, FALSE),
     order("composite_review", "xlsx", {}, FALSE), order("composite_review", "xlsx", {"v2", "v8"}, FALSE),
     order("composite_review", "xlsx", {"v6"}, FALSE), order("portfolio_review", None, {}, FALSE)}

MCLegacy ==
    {[order |-> order("portfolio_review", "pdf", {}, TRUE), contract |-> None, source |-> 0,
      snapshot |-> None, template |-> t] : t \in {"t1", None}}

answered_holdings(rows) == [answered |-> TRUE, rows |-> rows]
bucket(w, v) == [weight |-> w, value |-> v]

sound ==
    [claim |-> [readiness |-> "ready", completeness |-> "complete", quality |-> "quality_passed"],
     observations |-> FALSE,
     performance |-> [comparison |-> "available", points |-> 2, gross |-> TRUE, net |-> TRUE,
                     periods |-> {"YTD", "1M"}],
     history |-> [status |-> "complete", fresh |-> TRUE, allowed |-> TRUE, bound |-> TRUE, returns |-> TRUE],
     allocation |-> [qualification |-> "complete", bound |-> TRUE, allowed |-> TRUE,
                     coverage |-> "COMPLETE", buckets |-> <<bucket(40, 4), bucket(60, 6)>>],
     attribution |-> "present", risk |-> "ready",
     trend |-> [refused |-> FALSE, period |-> "answered", notes |-> FALSE, applied |-> TRUE,
                window |-> "answered", points |-> <<1, 2>>],
     risk_attribution |-> [refused |-> FALSE, period |-> "answered", applied |-> TRUE, set |-> TRUE,
                           triple |-> TRUE, rows |-> <<"complete">>],
     drawdown |-> "series", holdings |-> answered_holdings(<<2, 5, 1>>),
     contribution |-> [status |-> "present", rows |-> <<1, -2, 3>>],
     earnings |-> [income_stated |-> TRUE, realized_stated |-> TRUE, income |-> 1, realized |-> FALSE,
                   truncated |-> FALSE],
     transactions |-> [by_category |-> <<2, 1>>, by_asset_class |-> <<>>],
     narrative |-> FALSE, memo |-> FALSE, commentary |-> None]

contributions == {-2, -1, 0, 1, 2, None}

variations ==
    {[sound EXCEPT !.history = h, !.observations = o, !.claim.readiness = c] :
        h \in {[sound.history EXCEPT !.status = "missing", !.allowed = FALSE, !.bound = FALSE],
               [sound.history EXCEPT !.status = "partial"], [sound.history EXCEPT !.fresh = FALSE],
               [sound.history EXCEPT !.allowed = FALSE], [sound.history EXCEPT !.bound = FALSE],
               [sound.history EXCEPT !.returns = FALSE]},
        o \in BOOLEAN, c \in {"ready", "unknown"}}
    \cup {[sound EXCEPT !.allocation = a] :
        a \in {None} \cup
            {[qualification |-> q, bound |-> b, allowed |-> ok, coverage |-> c, buckets |-> rows] :
                q \in {"complete", "partial", "missing"}, b \in BOOLEAN, ok \in BOOLEAN,
                c \in {"COMPLETE", "MEASURED_ZERO", "PARTIAL", "LOADED_EMPTY"},
                rows \in {<<>>, <<bucket(40, 4), bucket(60, 6)>>, <<bucket(None, 4), bucket(60, None)>>, <<bucket(0, 0)>>}}}
    \cup {[sound EXCEPT !.contribution = c] :
        c \in {None, [status |-> "absent", rows |-> <<>>]}
              \cup {[status |-> "present", rows |-> rows] :
                        rows \in {<<>>} \cup [1..3 -> contributions]}}
    \cup {[sound EXCEPT !.performance = p, !.history = [@ EXCEPT !.allowed = FALSE]] :
        p \in {None} \cup {[comparison |-> c, points |-> n, gross |-> TRUE, net |-> FALSE, periods |-> {"SI"}] :
                  c \in {"available", "unavailable", "not_requested", None}, n \in {0, 2}}}
    \cup {[sound EXCEPT !.trend = t, !.risk = r, !.attribution = "pending"] :
        t \in {None, [sound.trend EXCEPT !.refused = TRUE, !.notes = TRUE], [sound.trend EXCEPT !.period = "error"],
               [sound.trend EXCEPT !.applied = FALSE, !.points = <<1, None>>],
               [sound.trend EXCEPT !.window = "missing"], [sound.trend EXCEPT !.window = "not_included"]},
        r \in {None, "ready", "unstated"}}
    \cup {[sound EXCEPT !.risk_attribution = a, !.drawdown = d, !.attribution = None] :
        a \in {None, [sound.risk_attribution EXCEPT !.refused = TRUE],
               [sound.risk_attribution EXCEPT !.applied = FALSE], [sound.risk_attribution EXCEPT !.triple = FALSE],
               [sound.risk_attribution EXCEPT !.rows = <<>>],
               [sound.risk_attribution EXCEPT !.rows = <<"complete", "incomplete">>]},
        d \in {None, "refused", "no_series"}}
    \cup {[sound EXCEPT !.holdings = h, !.attribution = "failed"] : h \in {None, [answered |-> FALSE, rows |-> <<>>], answered_holdings(<<>>), answered_holdings(<<1, 1, 3, 2>>)}}
    \cup {[sound EXCEPT !.earnings = e] :
        e \in {None} \cup [income_stated : BOOLEAN, realized_stated : {TRUE}, income : 0..1,
                           realized : BOOLEAN, truncated : BOOLEAN]}
    \cup {[sound EXCEPT !.narrative = n, !.memo = m, !.commentary = c] :
        n \in BOOLEAN, m \in BOOLEAN, c \in {None, "included", "unavailable"}}

dpm(hashes, rows, memory) ==
    [identity |-> TRUE, hashes |-> hashes, policies |-> TRUE, evidence |-> "sha256", subject |-> TRUE,
     rows |-> rows, sources |-> TRUE, memory |-> memory]

bounded_inputs ==
    {dpm("sha256", <<"sha256">>, None), dpm("sha256", <<"sha256", "md5">>, None),
     dpm("sha256", <<>>, 13), dpm("md5", <<"sha256">>, 13),
     [dpm("sha256", <<"sha256">>, 13) EXCEPT !.sources = FALSE]}

composite(persisted, revision) == [persisted |-> persisted, revision |-> revision, contract |-> None]

MCSnapshots ==
    [portfolio_review |-> {sound} \cup variations,
     proof_pack |-> bounded_inputs, outcome_review |-> bounded_inputs, rebalance_wave |-> bounded_inputs,
     composite_review |-> {composite(TRUE, "derived"), composite(FALSE, "derived"), composite(TRUE, "stale")}]

---------------------------------------------------------------------------
(* Composite review: every kind of order once with exact pins, and those   *)
(* whose joins can fail also with pins that name the wrong generation.     *)

Pin(source) == [source |-> source, version |-> 1]

Window(month, definition, membership) ==
    [month |-> month, definition |-> definition, membership |-> membership]

March == Window(3, 1, "m_march")
April == Window(4, 1, "m_april")

Twr(source, windows) == [source |-> source, version |-> 1, windows |-> windows]

Calculation(status, complete, windows) ==
    [status |-> status, complete |-> complete, windows |-> windows]

\* A restatement keeps the shape of what it restates. "twr" is restated with a vector
\* that claims to be ready and is not; "product" retains unavailable months.
TheContents ==
    [s \in {"twr", "product", "linked", "pooled", "corrected",
            "definition", "m_march", "m_april"} |->
        CASE s = "twr" -> <<Calculation("READY", TRUE, <<March, April>>),
                            Calculation("READY", FALSE, <<March, April>>)>>
          [] s = "product" -> <<Calculation("PARTIAL", FALSE, <<April>>),
                                Calculation("READY", TRUE, <<April>>)>>
          [] s = "definition" -> <<[inception |-> 1], [inception |-> 2]>>
          [] s = "m_march" -> <<[parent |-> None]>>
          [] s = "m_april" -> <<[parent |-> "m_march"], [parent |-> None]>>
          [] OTHER -> <<[sound |-> TRUE], [sound |-> FALSE]>>]

OrderOf(op) == [op |-> op, twr |-> << >>, context |-> None, pin |-> None,
              predecessor |-> None, month |-> None]

Context(memberships) == [definition |-> Pin("definition"), memberships |-> memberships]

Selection(products, context) ==
    [OrderOf("selection") EXCEPT
        !.twr = <<Twr("twr", <<March, April>>)>> \o products, !.context = context]

Month(op, is_published, seq, version, parent, lineage) ==
    [OrderOf(op) EXCEPT !.month =
        [published |-> is_published, seq |-> seq, version |-> version, month |-> 3,
         parent |-> parent, lineage |-> lineage]]

Receipt(seq, version) == [seq |-> seq, version |-> version]

TheOrders == {
    Selection(<< >>, None),
    Selection(<<Twr("product", <<April>>)>>, Context(<<Pin("m_march"), Pin("m_april")>>)),
    \* April's membership is missing from the attachment.
    Selection(<< >>, Context(<<Pin("m_march")>>)),
    [OrderOf("linked") EXCEPT !.pin = Pin("linked")],
    [OrderOf("pooled") EXCEPT !.pin = Pin("pooled"), !.predecessor = Pin("corrected")],
    \* The pinned calculation is one whose bundle does not agree with itself.
    [OrderOf("pooled") EXCEPT !.pin = [source |-> "pooled", version |-> 2]],
    Month("eligibility", TRUE, 2, "v1", 1, << >>),
    Month("amendment", FALSE, 3, "v2", 2, <<Receipt(2, "v1")>>),
    Month("amendment", TRUE, 4, "v2", 3, <<Receipt(3, "v2"), Receipt(2, "v1")>>),
    \* The intermediate correction is left out of the lineage.
    Month("amendment", TRUE, 4, "v2", 3, <<Receipt(2, "v1")>>),
    Month("historical", TRUE, 3, "v4", 2, <<Receipt(2, "v3")>>) }

Root(seq, version, month) == BookEntry(version, month, 0, seq, seq - 1, seq, "f1", "all", {})

First == BookEntry("v2", 3, 2, 2, 2, 3, "f2", "all", {})
Second(predecessor, locator, flaws) ==
    BookEntry("v2", 3, predecessor, 2, 3, locator, "f3", "all", flaws)

\* Publication 1 is the month before; 2 is the root of March, 3 and 4 correct it. In turn:
\* the regular chain; 4 claims the root past the current correction; 4's universe locates
\* another approval; 3 is a receipt with a broken policy; 4 projects other decisions; a
\* historical month with its correction, and one whose root has a proof of another intent.
RegularHistory == <<Root(1, "v1", 2), Root(2, "v1", 3), First, Second(3, 4, {})>>

TheHistories == {
    RegularHistory,
    <<Root(1, "v1", 2), Root(2, "v1", 3), First, Second(2, 4, {})>>,
    <<Root(1, "v1", 2), Root(2, "v1", 3), First, Second(3, 3, {})>>,
    <<Root(1, "v1", 2), Root(2, "v1", 3), [First EXCEPT !.flaws = {"policy"}], Second(3, 4, {})>>,
    <<Root(1, "v1", 2), Root(2, "v1", 3), First, Second(3, 4, {"decisions"})>>,
    <<Root(1, "v3", 2), Root(2, "v3", 3), BookEntry("v4", 3, 2, 2, 2, 3, "f2", "all", {})>>,
    <<Root(1, "v3", 2), [Root(2, "v3", 3) EXCEPT !.flaws = {"proof"}],
      BookEntry("v4", 3, 2, 2, 2, 3, "f2", "all", {})>> }

---------------------------------------------------------------------------
(* The initial state chooses a model; what stands still is an order nobody *)
(* composes, a release without jobs and a composite nobody ordered.        *)

first_release == deployed(<<"d1", "t1", "e1", "h1">>)

\* The ledger is read by the orders with a transaction window, and by no other.
windowed_order == request.sections \cap {"INCOME_AND_ACTIVITY", "TRANSACTIONS", "INCOME", "PNL"} # {}

StillReview == ReviewInit /\ request = review({"OVERVIEW", "ADVISOR_COMMENTARY"}, FALSE, TRUE) /\ ledger = << <<>> >>
StillPackage == PackageInit /\ release = first_release /\ jobs = <<>>
StillComposite == CompositeInit /\ books = RegularHistory

ContentInit ==
    \/ subject = "review" /\ ReviewInit /\ (windowed_order \/ ledger = << <<>> >>) /\ StillPackage /\ StillComposite
    \/ subject = "package" /\ PackageInit /\ StillReview /\ StillComposite
    \/ subject = "composite" /\ CompositeInit /\ StillReview /\ StillPackage

ContentNext ==
    \/ subject = "review" /\ ReviewNext /\ UNCHANGED <<subject, package_vars, compositeVars>>
    \/ subject = "package" /\ PackageNext /\ UNCHANGED <<subject, review_vars, compositeVars>>
    \/ subject = "composite" /\ CompositeNext /\ UNCHANGED <<subject, review_vars, package_vars>>

ContentSpec == ContentInit /\ [][ContentNext]_<<subject, review_vars, package_vars, compositeVars>>

\* Only a sound page is followed through several releases and jobs.
PackageBound ==
    \/ Len(jobs) <= 1 /\ release = first_release
    \/ \A j \in 1..Len(jobs) : \/ jobs[j].snapshot \in {None, sound, dpm("sha256", <<"sha256">>, None)}
                               \/ jobs[j].order.family = "composite_review"

\* Only a source of the submitted order is restated, at most two of them, and histories
\* vary only under an order that reads them.
CompositeBound ==
    LET restated == {s \in DOMAIN TheContents : held[s] > 1} IN
    /\ Cardinality(restated) <= 2
    /\ (job # None /\ ~Monthly(job.order)) => books = RegularHistory
    /\ restated # {} =>
          /\ job # None
          /\ restated \subseteq {plan(job.order)[n].source :
                 n \in {k \in DOMAIN plan(job.order) :
                            plan(job.order)[k].kind # "book"}}

\* The text of at most one call decides its posture.
ReviewBound == Cardinality({c \in calls : c[2] \in {"redacted", "not_supported", "partial"}}) <= 1

Bounded ==
    /\ subject = "review" => ReviewBound
    /\ subject = "package" => PackageBound
    /\ subject = "composite" => CompositeBound
==============================================================================
