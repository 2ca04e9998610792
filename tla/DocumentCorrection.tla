--------------------------- MODULE DocumentCorrection ---------------------------
(***************************************************************************)
(* Correcting one archived report document: rerender commands (a new       *)
(* document from the stored snapshot), regenerate commands (a replacement  *)
(* job from upstream data) and the lineage between the documents that      *)
(* Archive keeps and the job's events mirror.                              *)
(*                                                                         *)
(* A rerender key names its attempt, its render job, its archive request   *)
(* and the document that request may commit; a regenerate key names its    *)
(* derived job and that job's document.  Every pair starts at the          *)
(* original document, so a pair is named by its target.                    *)
(***************************************************************************)
EXTENDS Naturals, FiniteSets

CONSTANTS
    RerenderKeys,
    RegenerateKeys,
    Sources,         \* jobs a caller may name: [report_type, format, archived]
    Calls,           \* commands and maintenance passes in flight
    Absent

VARIABLES
    source,          \* the job whose document is corrected
    attempt,         \* report_rerender_attempt of each rerender key
    derived,         \* status of the replacement job of each regenerate key
    relationship,    \* document the replacement relationship names
    events,          \* lineage events of the original job: <<kind, target>>
    call,            \* where each call stands
    committed,       \* documents Archive holds
    handoff,         \* archive requests Render may still deliver
    lineage,         \* pairs Archive's lifecycle records
    answer           \* documents the answers to each key have named

correction_vars ==
    <<source, attempt, derived, relationship, events, call, committed, handoff, lineage, answer>>

CorrectionKeys == RerenderKeys \cup RegenerateKeys
NoCall == [pc |-> "idle", kind |-> Absent, key |-> Absent, todo |-> {}, adopted |-> Absent,
           target |-> Absent, next |-> Absent, outcome |-> Absent]
archive_side == <<committed, handoff, lineage>>

\* report_rerender_attempt: a failure is ambiguous when Archive may still commit its document.
AttemptRow == [status : {"rendering", "archiving", "archived", "failed"}, ambiguous : BOOLEAN,
               document : CorrectionKeys \cup {Absent}]

\* A key belongs to one of the two commands, and Absent is no key, row or word of the model.
ASSUME CorrectionAssumption ==
    /\ RerenderKeys \cap RegenerateKeys = {}
    /\ Absent \notin CorrectionKeys \cup AttemptRow
    /\ Absent \notin {"rerender", "regenerate", "archived_verified", "accepted", "working", "archived",
                    "failed"}

CorrectionInit ==
    /\ source \in Sources
    /\ attempt = [k \in RerenderKeys |-> Absent]
    /\ derived = [g \in RegenerateKeys |-> Absent]
    /\ relationship = [g \in RegenerateKeys |-> Absent]
    /\ events = {}
    /\ call = [c \in Calls |-> NoCall]
    /\ committed = {} /\ handoff = {} /\ lineage = {}
    /\ answer = [k \in CorrectionKeys |-> {}]

---------------------------------------------------------------------------
(* The ledger *)

\* _update_rerender_attempt: the whole row of one attempt.
row(status, ambiguous, document) ==
    [status |-> status, ambiguous |-> ambiguous, document |-> document]

mark_rerender_archived(k, document) ==
    attempt' = [attempt EXCEPT ![k] = row("archived", FALSE, document)]

mark_rerender_failed(k, ambiguous) ==
    attempt' = [attempt EXCEPT ![k] = row("failed", ambiguous, Absent)]

\* Failed on the archive stage with an outcome that is not known.
list_unresolved_archive_ambiguous_attempts ==
    {k \in RerenderKeys : attempt[k] # Absent /\ attempt[k].status = "failed" /\ attempt[k].ambiguous}

\* Mutant: the outcome is recorded over the row the key already has.
record_adopted_rerender_outcome_anew(k, from) ==
    attempt' = [attempt EXCEPT ![k] = row("archived", FALSE, from)]

\* record_adopted_rerender_outcome: bound to the incoming key unless that key has a row.
record_adopted_rerender_outcome(k, from) ==
    attempt' = IF attempt[k] = Absent THEN [attempt EXCEPT ![k] = row("archived", FALSE, from)]
               ELSE attempt

append_job_event(kind, target) == events' = events \cup {<<kind, target>>}

settled(target) == events \cap {<<"recorded", target>>, <<"refused", target>>} # {}

list_pending_archive_lineage == {k \in CorrectionKeys : <<"pending", k>> \in events /\ ~settled(k)}

upsert_job_relationship(g, document) == relationship' = [relationship EXCEPT ![g] = document]

---------------------------------------------------------------------------
(* A call's own position *)

at(c, pc) == call[c].pc = pc
moved(c, pc) == [call EXCEPT ![c].pc = pc]
ended(c) == [call EXCEPT ![c] = NoCall]

\* Reports the attempt or job as it stands under the key.
respond(c, document) ==
    /\ answer' = [answer EXCEPT ![call[c].key] = @ \cup ({document} \ {Absent})]
    /\ call' = ended(c)

---------------------------------------------------------------------------
(* Lineage *)

\* Enter record_archive_lineage for one pair and go on at next.
linking(c, target, next) ==
    [call EXCEPT ![c].pc = "linking", ![c].target = target, ![c].next = next]

\* record_archive_lineage, the call: Archive replays a pair it knows; an answer without a
\* validated acknowledgement may have been applied or not.
record_lifecycle_transition(c) ==
    /\ at(c, "linking")
    /\ \E outcome \in {"recorded", "refused", "pending"}, applied \in BOOLEAN :
        /\ outcome = "recorded" => applied
        /\ outcome = "refused" => ~applied /\ call[c].target \notin lineage
        /\ lineage' = IF applied THEN lineage \cup {call[c].target} ELSE lineage
        /\ call' = [call EXCEPT ![c].pc = "noting", ![c].outcome = outcome]
    /\ UNCHANGED <<attempt, derived, relationship, events, committed, handoff, answer>>

\* Mutant: an unconfirmed call leaves no event.
record_archive_lineage_confirmed_only(c) ==
    /\ at(c, "noting")
    /\ events' = IF call[c].outcome = "pending" THEN events
                 ELSE events \cup {<<call[c].outcome, call[c].target>>}
    /\ call' = [call EXCEPT ![c].pc = call[c].next, ![c].outcome = Absent, ![c].target = Absent]
    /\ UNCHANGED <<attempt, derived, relationship, archive_side, answer>>

\* record_archive_lineage, the event.
record_archive_lineage(c) ==
    /\ at(c, "noting")
    /\ append_job_event(call[c].outcome, call[c].target)
    /\ call' = [call EXCEPT ![c].pc = call[c].next, ![c].outcome = Absent, ![c].target = Absent]
    /\ UNCHANGED <<attempt, derived, relationship, archive_side, answer>>

\* settle_pending_archive_lineage over the pairs read when the call began.
settle_pending_archive_lineage(c) ==
    /\ at(c, "settling")
    /\ \/ \E target \in call[c].todo :
            call' = [linking(c, target, "settling") EXCEPT ![c].todo = @ \ {target}]
       \/ call[c].todo = {} /\ call' = IF call[c].kind = "reconcile" THEN ended(c)
                                      ELSE moved(c, "listing")
    /\ UNCHANGED <<attempt, derived, relationship, events, archive_side, answer>>

\* reconcile_pending_archive_lineage: the worker's maintenance pass.
reconcile_pending_archive_lineage(c) ==
    /\ at(c, "idle") /\ list_pending_archive_lineage # {}
    /\ call' = [call EXCEPT ![c] = [NoCall EXCEPT !.pc = "settling", !.kind = "reconcile",
                                                !.todo = list_pending_archive_lineage]]
    /\ UNCHANGED <<attempt, derived, relationship, events, archive_side, answer>>

---------------------------------------------------------------------------
(* Rerender *)

\* rerender_eligible: an archived document of any family.
rerender_eligible(job) == job.archived /\ job.format # Absent

\* rerender_job up to the first settlement.
rerender_job(c, k) ==
    /\ at(c, "idle") /\ rerender_eligible(source)
    /\ call' = [call EXCEPT ![c] = [NoCall EXCEPT !.pc = "settling", !.kind = "rerender", !.key = k,
                                                !.todo = list_pending_archive_lineage]]
    /\ UNCHANGED <<attempt, derived, relationship, events, archive_side, answer>>

\* _resolve_ambiguous_attempts: the list, in any order.
_resolve_ambiguous_attempts(c) ==
    /\ at(c, "listing")
    /\ call' = [call EXCEPT ![c].pc = "resolving",
                            ![c].todo = list_unresolved_archive_ambiguous_attempts]
    /\ UNCHANGED <<attempt, derived, relationship, events, archive_side, answer>>

\* The lookup of one attempt's request: adopt it, pass over a 404, or refuse the command.
get_document_by_request_id(c) ==
    /\ at(c, "resolving")
    /\ \E k \in call[c].todo :
        \/ /\ k \in committed
           /\ mark_rerender_archived(k, k)
           /\ call' = [linking(c, k, IF call[c].adopted = Absent THEN "adopting" ELSE "resolving")
                        EXCEPT ![c].todo = @ \ {k},
                               ![c].adopted = IF call[c].adopted = Absent THEN k
                                              ELSE call[c].adopted]
        \/ /\ k \notin committed
           /\ call' = [call EXCEPT ![c].todo = @ \ {k}] /\ UNCHANGED attempt
        \/ call' = ended(c) /\ UNCHANGED attempt
    /\ UNCHANGED <<derived, relationship, events, archive_side, answer>>

adopt(c) ==
    /\ at(c, "adopting")
    /\ record_adopted_rerender_outcome(call[c].key, call[c].adopted)
    /\ call' = moved(c, "resolving")
    /\ UNCHANGED <<derived, relationship, events, archive_side, answer>>

\* create_rerender_attempt once every ambiguity is resolved; a known key reports its row.
create_rerender_attempt(c) ==
    LET k == call[c].key IN
    /\ at(c, "resolving") /\ call[c].todo = {}
    /\ IF attempt[k] # Absent THEN respond(c, attempt[k].document) /\ UNCHANGED attempt
       ELSE /\ attempt' = [attempt EXCEPT ![k] = row("rendering", FALSE, Absent)]
            /\ call' = moved(c, "submitting") /\ UNCHANGED answer
    /\ UNCHANGED <<derived, relationship, events, archive_side>>

\* submit_render_package: Render renders and delivers to Archive itself.  It answers with no
\* document (not rendered, wrong template), verified custody, custody that is unresolved (pending,
\* or failed but not refused), or none (refused, no handoff configured).
submit_render_package(c) ==
    LET k == call[c].key IN
    /\ at(c, "submitting")
    /\ \E outcome \in {"not_rendered", "archived_verified", "unresolved", "no_custody"} :
        /\ call' = [call EXCEPT ![c].pc = IF outcome = "not_rendered" THEN "recording"
                                          ELSE "rendered",
                                ![c].outcome = outcome]
        /\ committed' = IF outcome = "archived_verified" THEN committed \cup {k} ELSE committed
        /\ handoff' = IF outcome = "unresolved" THEN handoff \cup {k} ELSE handoff
    /\ UNCHANGED <<attempt, derived, relationship, events, lineage, answer>>

\* mark_rerender_rendered and mark_rerender_archiving: no reader tells their statuses apart.
mark_rerender_archiving(c) ==
    /\ at(c, "rendered")
    /\ attempt' = [attempt EXCEPT ![call[c].key] = row("archiving", FALSE, Absent)]
    /\ call' = moved(c, "recording")
    /\ UNCHANGED <<derived, relationship, events, archive_side, answer>>

\* _record_rerender_archive_outcome: custody, an ambiguous failure or a definite one.
_record_rerender_archive_outcome(c) ==
    LET k == call[c].key
        outcome == call[c].outcome IN
    /\ at(c, "recording")
    /\ IF outcome = "archived_verified"
       THEN mark_rerender_archived(k, k) /\ call' = linking(c, k, "finished") /\ UNCHANGED answer
       ELSE /\ mark_rerender_failed(k, outcome = "unresolved")
            /\ respond(c, Absent)
    /\ UNCHANGED <<derived, relationship, events, archive_side>>

rerender_answered(c) ==
    /\ at(c, "finished") /\ call[c].kind = "rerender"
    /\ respond(c, attempt[call[c].key].document)
    /\ UNCHANGED <<attempt, derived, relationship, events, archive_side>>

---------------------------------------------------------------------------
(* Regenerate *)

\* _assert_regenerate_eligible: an archived PDF portfolio review.
_assert_regenerate_eligible(job) ==
    job.report_type = "portfolio_review" /\ job.archived /\ job.format = "pdf"

\* regenerate_job: the replacement job of the key, created or found.
regenerate_job(c, g) ==
    /\ at(c, "idle") /\ _assert_regenerate_eligible(source)
    /\ derived' = IF derived[g] = Absent THEN [derived EXCEPT ![g] = "accepted"] ELSE derived
    /\ call' = [call EXCEPT ![c] = [NoCall EXCEPT !.pc = "relating", !.kind = "regenerate", !.key = g,
                                                !.outcome = IF derived[g] = Absent THEN "accepted"
                                                            ELSE derived[g]]]
    /\ UNCHANGED <<attempt, relationship, events, archive_side, answer>>

document_of(g, status) == IF status = "archived" THEN g ELSE Absent

\* An archived replacement supersedes the original document before the call finishes.
after_work(c, status) ==
    IF status = "archived" THEN linking(c, call[c].key, "finished")
    ELSE [call EXCEPT ![c].pc = "finished", ![c].outcome = status]

\* _upsert_regenerate_relationship, before and after the work, from the record in hand.
_upsert_regenerate_relationship(c) ==
    LET g == call[c].key
        status == IF call[c].outcome = Absent THEN "archived" ELSE call[c].outcome IN
    /\ call[c].pc \in {"relating", "finished"} /\ call[c].kind = "regenerate"
    /\ upsert_job_relationship(g, document_of(g, status))
    /\ IF at(c, "relating")
       THEN /\ call' = IF status = "accepted" THEN moved(c, "capturing") ELSE after_work(c, status)
            /\ UNCHANGED answer
       ELSE respond(c, document_of(g, status))
    /\ UNCHANGED <<attempt, derived, events, archive_side>>

\* capture_for_job starts the job, unless another call already did.
capture_for_job(c) ==
    LET g == call[c].key IN
    /\ at(c, "capturing")
    /\ \/ /\ derived[g] = "accepted"
          /\ derived' = [derived EXCEPT ![g] = "working"]
          /\ call' = moved(c, "rendering")
       \/ derived[g] # "accepted" /\ call' = ended(c) /\ UNCHANGED derived
    /\ UNCHANGED <<attempt, relationship, events, archive_side, answer>>

\* render_for_job: archived, failed, or an owner-side wait that leaves the job working.
render_for_job(c) ==
    LET g == call[c].key IN
    /\ at(c, "rendering")
    /\ \E status \in {"archived", "failed", "working"} :
        /\ derived' = [derived EXCEPT ![g] = status]
        /\ committed' = IF status = "archived" THEN committed \cup {g} ELSE committed
        /\ call' = after_work(c, status)
    /\ UNCHANGED <<attempt, relationship, events, handoff, lineage, answer>>

---------------------------------------------------------------------------
(* What happens around the calls *)

\* Render's handoff lands after its answer was given up on, or never.
late_commit(k) ==
    /\ k \in handoff
    /\ committed' = committed \cup {k}
    /\ handoff' = handoff \ {k}
    /\ UNCHANGED <<attempt, derived, relationship, events, call, lineage, answer>>

\* A job left waiting on the owner is finished by the work queue.
complete_waiting(g) ==
    /\ derived[g] = "working" /\ \A c \in Calls : call[c].key # g
    /\ derived' = [derived EXCEPT ![g] = "archived"]
    /\ committed' = committed \cup {g}
    /\ UNCHANGED <<attempt, relationship, events, call, handoff, lineage, answer>>

\* The process serving a call dies.
crash(c) ==
    /\ ~at(c, "idle")
    /\ call' = ended(c)
    /\ UNCHANGED <<attempt, derived, relationship, events, archive_side, answer>>

---------------------------------------------------------------------------
Progress(c) ==
    \/ record_lifecycle_transition(c) \/ record_archive_lineage(c)
    \/ settle_pending_archive_lineage(c)
    \/ _resolve_ambiguous_attempts(c) \/ get_document_by_request_id(c) \/ adopt(c)
    \/ create_rerender_attempt(c) \/ submit_render_package(c)
    \/ mark_rerender_archiving(c)
    \/ _record_rerender_archive_outcome(c) \/ rerender_answered(c)
    \/ _upsert_regenerate_relationship(c) \/ capture_for_job(c) \/ render_for_job(c)

CorrectionNext ==
    \/ \E c \in Calls :
        \/ \E k \in RerenderKeys : rerender_job(c, k)
        \/ \E g \in RegenerateKeys : regenerate_job(c, g)
        \/ reconcile_pending_archive_lineage(c)
        \/ Progress(c)
        \/ crash(c)
    \/ \E k \in RerenderKeys : late_commit(k)
    \/ \E g \in RegenerateKeys : complete_waiting(g)

CorrectionSpec == CorrectionInit /\ [][CorrectionNext /\ UNCHANGED source]_correction_vars

---------------------------------------------------------------------------
(* Properties *)

\* Every answer to one key names the same document, and Archive holds it: a retry of a key,
\* whatever was adopted, lost or delivered late meanwhile, never reports a second document.
OneDocumentPerKey ==
    \A k \in CorrectionKeys : Cardinality(answer[k]) <= 1 /\ answer[k] \subseteq committed

\* A regenerate call that reports its replacement leaves a lineage event for the pair: the
\* supersession reached Archive, or it is on record as owed or as refused (a refusal is final).
ReportedReplacementIsLinked ==
    \A g \in RegenerateKeys : \A document \in answer[g] : \E event \in events : event[2] = document
=============================================================================
