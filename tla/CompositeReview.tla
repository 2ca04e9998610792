--------------------------- MODULE CompositeReview ---------------------------
(***************************************************************************)
(* A composite review (app/composite_reporting): the order is admitted     *)
(* under one verified principal, then a worker reads the pinned sources    *)
(* one by one, under authority resolved anew for every TWR read, and       *)
(* stores either the one dataset the pins name or an immutable refusal.    *)
(* Between any two reads the provider may rotate or withdraw authority,    *)
(* a source may be restated, and the worker may die.                       *)
(***************************************************************************)
EXTENDS Naturals, Sequences, FiniteSets, SequencesExt, NoValue

CONSTANTS
    Initiators,     \* authenticated initiators of the trusted middleware
    MaxGrant,       \* bound: grants the provider ever resolves per initiator
    Orders,         \* order records a caller can submit, see MCReportContent
    Contents,       \* [Sources -> Seq(content)]: what a source holds, version by version
    Histories,      \* publication histories Manage can hold, see BookEntry
    MaxAttempts,    \* bound: attempts of the work item
    HistoricalPolicyEnabled     \* settings.composite_historical_policy_enabled

Sources == DOMAIN Contents

VARIABLES
    grant,      \* [Initiators -> 0..MaxGrant]: identity resolved now, 0 = unavailable
    held,       \* [Sources -> version held]
    books,      \* Manage's publications of the composite; the index is the sequence
    job,        \* the job of the idempotency key: None or a row
    run,        \* the capture in progress: None or [pos, calls, got]
    snapshot,   \* None, or the stored snapshot
    accepted,   \* history: the 202 answers given for the key
    sends       \* history: the TWR requests sent

compositeVars == <<grant, held, books, job, run, snapshot, accepted, sends>>

Identity(i, g) == [initiator |-> i, grant |-> g]

-----------------------------------------------------------------------------
(* The order.                                                              *)

\* What the request schema enforces: one operation, a selection names at least its
\* primary, the pins of an order come in a list, and a monthly selection has the versions
\* of its kind.
ASSUME CompositeOrdersAssumption ==
    \A o \in Orders :
        /\ o.op \in {"selection", "linked", "pooled", "eligibility", "amendment", "historical"}
        /\ o.op = "selection" =>
              /\ o.twr \in Seq(Range(o.twr)) /\ o.twr # << >>
              /\ o.context # None =>
                    o.context.memberships \in Seq(Range(o.context.memberships))
        /\ o.op \in {"eligibility", "amendment", "historical"} =>
              o.month.lineage \in Seq(Range(o.month.lineage))
        /\ o.op = "amendment" => o.month.version = "v2"
        /\ o.op = "historical" => o.month.version \in {"v3", "v4"}

\* What Manage publishes: a correction names an approval published before it, a root has
\* no predecessor, and only historical products carry a proof.
ASSUME HistoriesAssumption ==
    \A h \in Histories :
        /\ h \in Seq(Range(h))
        /\ \A s \in 1..Len(h) :
              /\ h[s].predecessor \in 0..s - 1
              /\ h[s].version \in {"v1", "v3"} => h[s].predecessor = 0
              /\ "proof" \in h[s].flaws => h[s].version \in {"v3", "v4"}

\* Canonical exact pins that need TWR authority; other operations need none.
selector_set_for(o) == IF o.op = "selection" THEN Range(o.twr) ELSE {}

\* What a correction of the given selection version must name, and its root.
CorrectionVersion(o) == IF o.op = "historical" THEN "v4" ELSE "v2"
RootVersion(o) == IF o.op = "historical" THEN "v3" ELSE "v1"

Monthly(o) == o.op \in {"eligibility", "amendment", "historical"}

\* A product's windows are the primary's windows of its horizon.
require_product_scope(o) ==
    \A p \in 2..Len(o.twr) :
        o.twr[p].windows = SelectSeq(o.twr[1].windows,
                                     LAMBDA w : w \in Range(o.twr[p].windows))

\* The windows of the primary name the definition of the context.
require_products(o) ==
    o.context # None =>
        /\ \A w \in Range(o.twr[1].windows) : w.definition = o.context.definition.version
        /\ IsInjective([m \in DOMAIN o.context.memberships |->
                            o.context.memberships[m].source])

valid_request(o) == o.op = "selection" => require_product_scope(o) /\ require_products(o)

\* _apply_composite_contract: later entries of the profile list win.
accepted_contract(o) ==
    CASE o.op = "linked" -> "v3"
      [] o.op = "pooled" -> "v5"
      [] o.op = "eligibility" -> "v4"
      [] o.op = "amendment" -> "v6"
      [] o.op = "historical" -> "v7"
      [] OTHER -> IF o.context # None THEN "v8" ELSE IF Len(o.twr) > 1 THEN "v2" ELSE "v1"

\* The contract_version each builder stamps on the dataset of the order.
BuiltContract ==
    [linked |-> "v3", eligibility |-> "v4", pooled |-> "v5", amendment |-> "v6", historical |-> "v7"]
dataset_contract(o) ==
    IF o.op # "selection" THEN BuiltContract[o.op]
    ELSE IF o.context # None THEN "v8"
    ELSE IF Len(o.twr) > 1 THEN "v2" ELSE "v1"

-----------------------------------------------------------------------------
(* Admission of the order.                                                 *)

\* provider.admit; None for an order without TWR selectors.
admit_request(o, i) ==
    IF selector_set_for(o) = {} THEN None
    ELSE [identity |-> Identity(i, grant[i]), selectors |-> selector_set_for(o)]

\* require_admission on the binding of the job.
require_admission(o, binding) ==
    IF selector_set_for(o) = {} THEN binding = None
    ELSE binding # None /\ binding.selectors = selector_set_for(o)

require_same_admission(binding, admission) == binding = admission

Binding == [identity : [initiator : Initiators, grant : 0..MaxGrant],
            selectors : {selector_set_for(o) : o \in Orders}]

CompositeJob == [order : Orders, binding : {None} \cup Binding,
                 status : {"accepted", "collecting_data", "data_ready", "failed"},
                 attempts : Nat]

ASSUME CompositeAssumption == MaxGrant \in Nat \ {0} /\ None \notin CompositeJob

NewJob(o, admission) ==
    [order |-> o, binding |-> admission, status |-> "accepted", attempts |-> 0]

\* submit_composite_review: 202 for a new key, or for the same order under the same
\* principal; every other outcome (400, 409, 503) changes nothing.
submit_composite_review(o, i) ==
    /\ valid_request(o)
    /\ selector_set_for(o) # {} => grant[i] > 0
    /\ LET admission == admit_request(o, i) IN
          /\ require_admission(o, admission)
          /\ \/ /\ job = None
                /\ job' = NewJob(o, admission)
             \/ /\ job # None
                /\ job.order = o
                /\ require_same_admission(job.binding, admission)
                /\ UNCHANGED job
          /\ accepted' = accepted \cup {[order |-> o, admission |-> admission]}
    /\ UNCHANGED <<grant, held, books, run, snapshot, sends>>

-----------------------------------------------------------------------------
(* The reads of a capture, in the order the code makes them.               *)

Read(kind, source, version) == [kind |-> kind, source |-> source, version |-> version]

ManageRead(pin) == Read("manage", pin.source, pin.version)
BookRead(role, seq) == [kind |-> "book", role |-> role, seq |-> seq]

\* _capture_eligibility: the reads of the selected month. Every month of a selection is
\* captured and admitted by itself; the model's selection has one.
month_reads(o) ==
    LET m == o.month IN
    (IF m.published
     THEN << BookRead("membership", m.seq), BookRead("universe", m.seq),
             BookRead("receipt", m.seq), BookRead("parent_membership", m.parent),
             BookRead("publication", m.seq) >>
     ELSE << BookRead("proposal", m.seq) >>)
    \o (IF m.lineage # << >> /\ m.published
        THEN << BookRead("parent_publication", m.parent) >> ELSE << >>)
    \o [n \in DOMAIN m.lineage |-> BookRead("lineage", m.lineage[n].seq)]

\* collect_for_job: primary, then products, then the source context.
plan(o) ==
    CASE o.op = "selection" ->
            [n \in DOMAIN o.twr |-> Read("twr", o.twr[n].source, o.twr[n].version)]
            \o (IF o.context = None THEN << >>
                ELSE <<ManageRead(o.context.definition)>>
                     \o [n \in DOMAIN o.context.memberships |->
                            ManageRead(o.context.memberships[n])])
      [] o.op = "linked" -> <<Read("analytics", o.pin.source, o.pin.version)>>
      [] o.op = "pooled" ->
            <<Read("pooled", o.pin.source, o.pin.version)>>
            \o (IF o.predecessor = None THEN << >>
                ELSE <<Read("pooled", o.predecessor.source, o.predecessor.version)>>)
      [] OTHER -> month_reads(o)

\* What one answered read returns: the version held now, and its content.
Response(r) ==
    IF r.kind = "book"
    THEN [version |-> 1, content |-> IF r.seq \in DOMAIN books THEN books[r.seq] ELSE None]
    ELSE [version |-> held[r.source], content |-> Contents[r.source][held[r.source]]]

-----------------------------------------------------------------------------
(* Admission of what was read.                                             *)

\* Mutant: the retained vector is taken as it comes.
admit_composite_response_current(pin, resp) == resp.content.windows = pin.windows

\* admit_composite_response: digest, series identity and period postures.
admit_composite_response(pin, resp) ==
    /\ resp.version = pin.version
    /\ resp.content.windows = pin.windows
    /\ resp.content.status = "READY" => resp.content.complete

\* The pinned digest, and a vector whose scope and member population are the selected
\* ones; `sound' stands for these rules on what the source retained.
admit_linked_response(pin, resp) == resp.version = pin.version /\ resp.content.sound

\* The pinned digest, and a bundle whose population, source pins, policy, money and
\* outcome agree with each other.
admit_pooled_response(pin, resp) == resp.version = pin.version /\ resp.content.sound

\* require_predecessor: the corrected calculation, under its own pinned digest.
require_predecessor(o, got) ==
    o.predecessor # None => got[2].version = o.predecessor.version

\* require_definition on the primary and on every product.
require_definition(o, definition) ==
    /\ definition.version = o.context.definition.version
    /\ \A p \in DOMAIN o.twr : \A w \in Range(o.twr[p].windows) :
          w.definition = definition.version
    /\ definition.content.inception <= o.twr[1].windows[1].month

\* _require_parent: at most one correction step, whose original is attached too.
require_parent(o, memberships, n) ==
    memberships[n].content.parent # None =>
        \E p \in DOMAIN o.context.memberships \ {n} :
            /\ o.context.memberships[p].source = memberships[n].content.parent
            /\ memberships[p].content.parent = None

\* require_membership_join: every window's membership is attached, and nothing else is,
\* except the parent of one that is referenced.
require_membership_join(o, memberships) ==
    LET pins == o.context.memberships
        attached == {pins[n].source : n \in DOMAIN pins}
        referenced == {w.membership : w \in UNION {Range(o.twr[p].windows) : p \in DOMAIN o.twr}}
        linked == referenced \cup
                     {memberships[n].content.parent :
                        n \in {k \in DOMAIN pins : /\ pins[k].source \in referenced
                                                   /\ memberships[k].content.parent # None}}
    IN pins # << >> =>
         /\ referenced \subseteq attached
         /\ \A n \in DOMAIN pins : /\ memberships[n].version = pins[n].version
                                   /\ require_parent(o, memberships, n)
         /\ attached = linked

project_source_context(o, got) ==
    LET first == Len(o.twr) + 1 IN
    /\ require_definition(o, got[first])
    /\ require_membership_join(o, SubSeq(got, first + 1, Len(got)))

-----------------------------------------------------------------------------
(* Monthly custody. A publication of Manage is the receipt of an approved  *)
(* evaluation: its version, month, the approval it corrects, the original  *)
(* of its lineage, the publication whose membership it was projected from, *)
(* the approval its universe locates, the facts and population it kept,    *)
(* and which of its own rules, if any, the retained product breaks.        *)

BookEntry(ver, month, pred, orig, parent, locator, facts, population, flaws) ==
    [version |-> ver, month |-> month, predecessor |-> pred, original |-> orig,
     parent |-> parent, locator |-> locator, facts |-> facts, population |-> population,
     flaws |-> flaws]

\* Evaluated, observed and expected portfolios are one population with right counts.
require_population(e) == "population" \notin e.flaws

\* The policy the evaluation resolved is the approved one of that month.
require_policy(e) == "policy" \notin e.flaws

\* Every operation of a historical month carries a proof bound to its actor, instant,
\* revision and intent.
require_proof(e) == "proof" \notin e.flaws

require_historical_policy(e) == "policy" \notin e.flaws /\ require_proof(e)

\* The universe read second names exactly the pinned approval.
require_approval_locator(o) == books[o.month.seq].locator = o.month.seq

\* Membership, universe, publication and approval of a published month name each other.
require_published_joins(e) == "joins" \notin e.flaws

\* The decisions of the corrected membership are the ones the evaluation states.
require_projected_decisions(e) == "decisions" \notin e.flaws

\* _require_proposal: the evaluation by itself.
require_proposal(o, e) ==
    /\ require_population(e)
    /\ IF o.op = "historical" THEN require_historical_policy(e) ELSE require_policy(e)

\* _require_publication, with the canonical products and their joins.
require_publication(o, e) == require_approval_locator(o) /\ require_published_joins(e)

\* The month is the pinned one, of the pinned kind, projected from the pinned parent.
require_source_months(o) ==
    LET m == o.month
        e == books[m.seq]
    IN /\ m.seq \in DOMAIN books
       /\ e.version = m.version /\ e.month = m.month /\ e.parent = m.parent
       /\ require_proposal(o, e)
       /\ m.published => require_publication(o, e)

PublishedInOrder(seq, correction) ==
    books[seq].version = correction => seq > books[seq].parent

\* A receipt stands by itself, and a correction was published after the publication it
\* was projected from.
require_amendment_receipt(o, seq) ==
    require_proposal(o, books[seq]) /\ PublishedInOrder(seq, "v2")

require_retained_receipt(o, seq) ==
    require_proposal(o, books[seq]) /\ PublishedInOrder(seq, "v4")

require_receipt(o, seq) ==
    IF o.op = "historical" THEN require_retained_receipt(o, seq)
    ELSE require_amendment_receipt(o, seq)

\* Mutant: the claim is compared with the original of the lineage only.
require_link_original(current, receipt, original) ==
    /\ current.original = original
    /\ current.month = books[receipt].month

\* require_link: `current' corrects exactly `receipt', of the lineage `original'.
require_link(current, receipt, original) ==
    /\ current.predecessor = receipt
    /\ current.original = original
    /\ current.parent = receipt
    /\ current.month = books[receipt].month
    /\ current.population = books[receipt].population
    /\ current.facts # books[receipt].facts

\* require_amendment_months and require_months: the pinned receipts are walked from the
\* month back to a root, each under its own pin.
require_lineage(o) ==
    LET m == o.month
        seqs == [n \in DOMAIN m.lineage |-> m.lineage[n].seq]
        entry(n) == books[seqs[n]]
    IN IF m.version = RootVersion(o) THEN m.lineage = << >>
       ELSE /\ m.lineage # << >>
            /\ \A n \in DOMAIN seqs : /\ seqs[n] \in DOMAIN books
                                      /\ entry(n).version = m.lineage[n].version
                                      /\ require_receipt(o, seqs[n])
            /\ IsInjective(seqs) /\ m.seq \notin Range(seqs)
            /\ Last(m.lineage).version = RootVersion(o)
            /\ \A n \in DOMAIN seqs :
                  /\ n > 1 => entry(n - 1).version = CorrectionVersion(o)
                  /\ require_link(IF n = 1 THEN books[m.seq] ELSE entry(n - 1),
                                  seqs[n], Last(seqs))
            /\ m.published => /\ require_receipt(o, m.seq)
                              /\ require_projected_decisions(books[m.seq])

monthly_dataset(o) ==
    /\ require_source_months(o)
    /\ IF o.op = "eligibility" THEN o.month.version = "v1" ELSE require_lineage(o)

\* validate_composite_dataset with _require_capture_contract, on the completed reads.
assembled(o, got) ==
    /\ CASE o.op = "selection" -> o.context # None => project_source_context(o, got)
         [] o.op = "linked" -> TRUE
         [] o.op = "pooled" -> require_predecessor(o, got)
         [] OTHER -> monthly_dataset(o)
    /\ accepted_contract(o) = dataset_contract(o)

-----------------------------------------------------------------------------
(* The capture.                                                            *)

Call(posture, answered) == [posture |-> posture, answered |-> answered]

\* The except branch of collect_for_job: the last answered call of a refused capture.
mark_refused(calls) ==
    IF calls = << >> \/ ~Last(calls).answered THEN calls
    ELSE [calls EXCEPT ![Len(calls)].posture = "error"]

overall_posture(calls) ==
    LET postures == {calls[n].posture : n \in DOMAIN calls} IN
    IF calls = << >> \/ "error" \in postures THEN "error"
    ELSE IF "unavailable" \in postures THEN "unavailable"
    ELSE IF "partial" \in postures THEN "partial" ELSE "complete"

\* The failed capture is stored as an immutable snapshot and the job fails.
store_failed(category, calls) ==
    /\ snapshot' = [kind |-> "failed", category |-> category, calls |-> calls, got |-> << >>,
                    posture |-> IF overall_posture(calls) = "complete"
                                THEN "error" ELSE overall_posture(calls)]
    /\ job' = [job EXCEPT !.status = "failed"]
    /\ run' = None

refuse(calls) == store_failed("upstream_data_failed", mark_refused(calls))
refuse_authority(calls) == store_failed("validation_failed", calls)

\* TwrCaptureRetryable, or a worker that died: no snapshot, the work item is retried
\* until its attempts are spent.
yield_to_retry ==
    /\ job' = [job EXCEPT !.status = IF job.attempts >= MaxAttempts THEN "failed" ELSE @]
    /\ run' = None
    /\ UNCHANGED snapshot

\* After an admitted read: the next one, or the assembled dataset.
advance(calls, got) ==
    IF run.pos < Len(plan(job.order))
    THEN /\ run' = [pos |-> run.pos + 1, calls |-> calls, got |-> got]
         /\ UNCHANGED <<job, snapshot>>
    ELSE IF assembled(job.order, got)
         THEN /\ snapshot' = [kind |-> "dataset", category |-> "none", calls |-> calls,
                              got |-> got, posture |-> overall_posture(calls)]
              /\ job' = [job EXCEPT !.status = "data_ready"]
              /\ run' = None
         ELSE refuse(calls)

\* A worker takes the job; binding and order of a selection are checked before any read.
collect_for_job ==
    /\ job # None /\ run = None /\ snapshot = None
    /\ job.status \in {"accepted", "collecting_data"}
    /\ job.attempts < MaxAttempts
    /\ IF job.order.op = "selection" /\ ~require_admission(job.order, job.binding)
       THEN refuse_authority(<< >>)
       ELSE IF job.order.op = "historical" /\ ~HistoricalPolicyEnabled
       THEN refuse(<< >>)
       ELSE /\ run' = [pos |-> 1, calls |-> << >>, got |-> << >>]
            /\ job' = [job EXCEPT !.status = "collecting_data", !.attempts = @ + 1]
            /\ UNCHANGED snapshot
    /\ UNCHANGED <<grant, held, books, accepted, sends>>

\* Mutant: any current grant of the initiator will do.
authorize_selection_current == grant[job.binding.identity.initiator] > 0

\* authorize_selection: the provider resolves the binding's principal anew, and the
\* credential it returns must carry the accepted identity.
authorize_selection ==
    LET i == job.binding.identity.initiator IN
    grant[i] > 0 /\ Identity(i, grant[i]) = job.binding.identity

NextRead(kind) == run # None /\ plan(job.order)[run.pos].kind = kind

\* _capture_selection when the provider refuses: nothing is sent.
refuse_twr_send ==
    /\ NextRead("twr")
    /\ ~authorize_selection
    /\ refuse_authority(run.calls)
    /\ UNCHANGED <<grant, held, books, accepted, sends>>

\* _capture_selection: authorize, send, and admit what the receiver answers.
capture_selection(answer) ==
    /\ NextRead("twr")
    /\ authorize_selection
    /\ LET pin == job.order.twr[run.pos]
           i == job.binding.identity.initiator
           resp == Response(plan(job.order)[run.pos])
           call(posture) == Append(run.calls, Call(posture, TRUE))
       IN /\ sends' = sends \cup {[identity |-> Identity(i, grant[i]), selector |-> pin]}
          /\ \/ answer = "transient" /\ yield_to_retry
             \/ /\ answer = "fault"
                /\ refuse(Append(run.calls, Call("error", FALSE)))
             \/ answer = "denied" /\ refuse_authority(call("error"))
             \/ answer = "unavailable" /\ refuse(call("complete"))
             \/ /\ answer = "ok"
                /\ IF admit_composite_response(pin, resp)
                   THEN advance(call(IF resp.content.status = "READY"
                                     THEN "complete" ELSE "partial"),
                                Append(run.got, resp))
                   ELSE refuse(call("complete"))
    /\ UNCHANGED <<grant, held, books, accepted>>

\* _capture_linked, _capture_pooled and _manage_read: a read under the service's own
\* credentials; every failure of it is final for the capture.
RecordedPosture(kind) == IF kind = "analytics" THEN "complete" ELSE "partial"

\* What the code checks as soon as the read has answered.
admitted_at_once(r, resp) ==
    CASE r.kind = "analytics" -> admit_linked_response(r, resp)
      [] r.kind = "pooled" -> run.pos = 1 => admit_pooled_response(r, resp)
      [] r.kind = "book" /\ r.role = "universe" ->
            resp.content # None /\ require_approval_locator(job.order)
      [] OTHER -> resp.content # None

ReadSource(kind, answer) ==
    /\ NextRead(kind)
    /\ LET r == plan(job.order)[run.pos]
           resp == Response(r)
           calls == Append(run.calls, Call(RecordedPosture(r.kind), TRUE))
       IN \/ /\ answer = "fault"
             /\ store_failed("upstream_data_failed",
                             Append(run.calls, Call("error", FALSE)))
          \/ /\ answer = "transient"
             /\ store_failed("timeout", Append(run.calls, Call("unavailable", FALSE)))
          \/ answer \in {"unavailable", "oversize"} /\ refuse(calls)
          \/ /\ answer = "ok"
             /\ IF admitted_at_once(r, resp)
                THEN advance(calls, Append(run.got, resp))
                ELSE refuse(calls)
    /\ UNCHANGED <<grant, held, books, accepted, sends>>

capture_linked(answer) == ReadSource("analytics", answer)

read_pooled(answer) == ReadSource("pooled", answer)

manage_read(answer) == ReadSource("manage", answer) \/ ReadSource("book", answer)

-----------------------------------------------------------------------------
(* The environment.                                                        *)

\* The provider rotates the principal's grant or stops resolving it.
ChangeAuthority(i, g) ==
    /\ g \in {0, grant[i] + 1} /\ g # grant[i] /\ g <= MaxGrant
    /\ grant[i] > 0
    /\ grant' = [grant EXCEPT ![i] = g]
    /\ UNCHANGED <<held, books, job, run, snapshot, accepted, sends>>

\* The owner of a source restates what it holds under the same identity.
RestateSource(s) ==
    /\ held[s] < Len(Contents[s])
    /\ held' = [held EXCEPT ![s] = @ + 1]
    /\ UNCHANGED <<grant, books, job, run, snapshot, accepted, sends>>

\* The worker dies between two reads.
Die ==
    /\ run # None
    /\ yield_to_retry
    /\ UNCHANGED <<grant, held, books, accepted, sends>>

Answers == {"ok", "transient", "denied", "unavailable", "fault", "oversize"}

CompositeInit ==
    /\ grant = [i \in Initiators |-> 1]
    /\ held = [s \in Sources |-> 1]
    /\ books \in Histories
    /\ job = None /\ run = None /\ snapshot = None
    /\ accepted = {} /\ sends = {}

CompositeNext ==
    \/ \E o \in Orders, i \in Initiators : submit_composite_review(o, i)
    \/ collect_for_job
    \/ refuse_twr_send
    \/ \E a \in Answers :
          capture_selection(a) \/ capture_linked(a) \/ read_pooled(a) \/ manage_read(a)
    \/ \E i \in Initiators, g \in 0..MaxGrant : ChangeAuthority(i, g)
    \/ \E s \in Sources : RestateSource(s)
    \/ Die

CompositeSpec == CompositeInit /\ [][CompositeNext]_compositeVars

-----------------------------------------------------------------------------
(* Properties.                                                             *)

\* Every TWR request is sent under the very identity the job was accepted with, for a
\* selector of the accepted order, and everyone who was ever told 202 for the key is that
\* principal with that order - whatever rotation, retry and redelivery happened between
\* (invocation_authority.py, require_same_admission and authorize_selection).
EverySendIsTheAcceptedPrincipal ==
    \A a \in accepted, s \in sends :
        /\ a.admission # None
        /\ s.identity = a.admission.identity
        /\ s.selector \in selector_set_for(a.order)

\* The stored dataset of a selection order is one generation of evidence: every part is the
\* pinned version, all vectors were calculated under the one captured definition, and the
\* attached membership history covers every window - although the parts were read one after
\* the other while the sources were restated (source_capture.py, collect_for_job).
DatasetIsOneGeneration ==
    (snapshot # None /\ snapshot.kind = "dataset" /\ job.order.op = "selection") =>
        LET o == job.order
            twr == SubSeq(snapshot.got, 1, Len(o.twr))
            context == SubSeq(snapshot.got, Len(o.twr) + 1, Len(snapshot.got))
            windows == UNION {Range(twr[n].content.windows) : n \in DOMAIN twr}
        IN /\ \A n \in DOMAIN plan(o) : snapshot.got[n].version = plan(o)[n].version
           /\ context # << >> => \A w \in windows : w.definition = context[1].version
           /\ (o.context # None /\ o.context.memberships # << >>) =>
                 {w.membership : w \in windows} \subseteq
                     {o.context.memberships[n].source : n \in DOMAIN o.context.memberships}

\* The corrections of a publication, walked back to its root along what Manage recorded.
Ancestors ==
    LET walk[s \in 0..Len(books)] ==
            IF s = 0 \/ books[s].predecessor = 0 THEN << >>
            ELSE <<books[s].predecessor>> \o walk[books[s].predecessor]
    IN walk

\* A captured correction carries the whole history of its month, receipt by receipt back
\* to the ordinary root, and the membership it shows was projected along that history
\* alone: no publication of another month or branch, and none that breaks its own rules,
\* was built on in between (amendment_admission.py, require_amendment_months and require_link).
CorrectionCarriesItsHistory ==
    (/\ snapshot # None /\ snapshot.kind = "dataset"
     /\ job.order.op \in {"amendment", "historical"}) =>
        LET m == job.order.month
            history == Ancestors[m.seq]
            line == <<m.seq>> \o history
        IN /\ [n \in DOMAIN m.lineage |-> m.lineage[n].seq] = history
           /\ \A n \in DOMAIN line :
                 /\ books[line[n]].month = m.month
                 /\ books[line[n]].flaws \cap {"population", "policy", "proof"} = {}
           /\ \A n \in DOMAIN history : books[line[n]].parent = history[n]
=============================================================================
