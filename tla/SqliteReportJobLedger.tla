------------------------- MODULE SqliteReportJobLedger -------------------------
(***************************************************************************)
(* The SQLite job ledger behind the proof applications and the tests:      *)
(* app/reporting_jobs/ledger.py.  Threads of one process share a ledger    *)
(* object and its one threading.Lock.  A SELECT outside a transaction sees *)
(* committed rows and holds nothing, so a call that selects and then       *)
(* writes is two steps; what starts with BEGIN IMMEDIATE is one.           *)
(*                                                                         *)
(* A job is named by the idempotency key of its request.  Back-off times   *)
(* are abstracted: a row waiting for a retry may be due at any claim.      *)
(***************************************************************************)
EXTENDS Naturals, FiniteSets, NoValue

CONSTANTS
    JobKeys,         \* idempotency keys of one tenant, and the jobs they name
    Submitted,       \* keys whose requests are enqueued (submit_*)
    RerenderKeys,    \* idempotency keys of the rerender commands
    Contents,        \* what a client can ask for
    Threads,
    Retained,        \* requests a database of the old shape holds
    MaxAttempts,     \* ReportJobWorkRetryPolicy.max_attempts
    MaxLeases,       \* bound: claims that hand out a lease
    Services         \* which groups of callers a behaviour has

ASSUME SqliteLedgerAssumption ==
    /\ Submitted \subseteq JobKeys
    /\ None \notin Contents /\ None \notin Threads
    /\ None \notin {Retained} \cup [shape : {"single", "tenant"}, rows : {{}, Retained}]

VARIABLES
    service,         \* the callers of this behaviour
    phase,           \* "closed", "migrating" or "open"
    disk,            \* the report_request tables as committed
    image,           \* the same tables inside the rebuild
    report_request,  \* the client identity stored for each key
    report_job,
    work,            \* report_job_work_item
    relationship,    \* report_job_relationship: <<source, derived, type>>
    noted,           \* events stored under one event idempotency key, per job
    attempt,         \* report_rerender_attempt
    lock,            \* holder of self._lock
    op,              \* what each thread selected and has not yet written
    holding,         \* the lease each thread works under
    leases           \* lease tokens handed out

tables == <<report_request, report_job, work, relationship, noted, attempt>>
files == <<service, phase, disk, image>>
threads == <<lock, op, holding, leases>>
sqlite_vars == <<files, tables, threads>>

TerminalStatuses == {"archived", "failed", "cancelled"}

AllowedFrom ==
    [collecting_data |-> {"accepted"},
     data_ready      |-> {"accepted", "collecting_data"},
     rendering       |-> {"data_ready"},
     completed       |-> {"data_ready", "rendering"},
     archiving       |-> {"completed"},
     archived        |-> {"completed", "archiving", "failed"},
     failed          |-> {"accepted", "collecting_data", "data_ready", "rendering",
                          "completed", "archiving"},
     cancelled       |-> {"accepted", "collecting_data", "data_ready", "failed"}]

Row(status, category, retry, document) ==
    [status |-> status, category |-> category, retry |-> retry, document |-> document]

Item(status, attempts, token, expired) ==
    [status |-> status, attempts |-> attempts, token |-> token, expired |-> expired]

SqliteInit ==
    /\ service \in Services
    /\ phase = "closed"
    /\ disk = [live |-> [shape |-> "single", rows |-> Retained], aside |-> None]
    /\ image = disk
    /\ report_request = [k \in JobKeys |-> None]
    /\ report_job = [k \in JobKeys |-> None]
    /\ work = [k \in JobKeys |-> None]
    /\ relationship = {}
    /\ noted = [k \in JobKeys |-> 0]
    /\ attempt = [a \in RerenderKeys |-> None]
    /\ lock = None
    /\ op = [t \in Threads |-> None]
    /\ holding = [t \in Threads |-> None]
    /\ leases = 0

---------------------------------------------------------------------------
(* Opening the database *)

\* ensure_schema: the tables are created where they are missing; a table whose
\* identity is the bare key is rebuilt.
ensure_schema ==
    /\ phase = "closed"
    /\ disk' = IF disk.live = None
               THEN [disk EXCEPT !.live = [shape |-> "tenant", rows |-> {}]]
               ELSE disk
    /\ image' = disk'
    /\ phase' = IF disk'.live.shape = "single" THEN "migrating" ELSE "open"
    /\ UNCHANGED <<service, tables, threads>>

rebuilt_next ==
    IF image.live # None /\ image.live.shape = "single"
    THEN [live |-> None, aside |-> image.live.rows]
    ELSE IF image.live = None
    THEN [image EXCEPT !.live = [shape |-> "tenant", rows |-> {}]]
    ELSE IF image.live.rows # image.aside
    THEN [image EXCEPT !.live.rows = image.aside]
    ELSE [image EXCEPT !.aside = None]

\* Mutant: the statements of the rebuild commit one at a time.
rebuild_step_autocommit ==
    /\ phase = "migrating"
    /\ image' = rebuilt_next
    /\ disk' = image'
    /\ phase' = IF image'.aside = None THEN "open" ELSE "migrating"
    /\ UNCHANGED <<service, tables, threads>>

\* _migrate_report_request_to_tenant_identity: rename, create, copy and drop inside
\* BEGIN IMMEDIATE ... commit.
rebuild_step ==
    /\ phase = "migrating"
    /\ image' = rebuilt_next
    /\ IF image'.aside = None
       THEN disk' = image' /\ phase' = "open"
       ELSE UNCHANGED <<disk, phase>>
    /\ UNCHANGED <<service, tables, threads>>

\* The process dies: what was not committed is gone, and so are its threads.
Crash ==
    /\ phase # "closed"
    /\ phase' = "closed"
    /\ image' = disk
    /\ lock' = None
    /\ op' = [t \in Threads |-> None]
    /\ holding' = [t \in Threads |-> None]
    /\ UNCHANGED <<service, disk, tables, leases>>

---------------------------------------------------------------------------
(* Calls under the lock *)

\* with self._lock, self._connect(): the reads of a call, kept until its writes.
select(t, found) ==
    /\ phase = "open"
    /\ op[t] = None
    /\ lock = None
    /\ lock' = t
    /\ op' = [op EXCEPT ![t] = found]
    /\ UNCHANGED <<files, tables, holding, leases>>

\* commit, and the lock is released.
written(t) ==
    /\ lock' = IF lock = t THEN None ELSE lock
    /\ op' = [op EXCEPT ![t] = None]
    /\ UNCHANGED <<files, holding, leases>>

called(t, name) == op[t] # None /\ op[t].call = name

\* A call's reads and writes have the same form; s is the group of callers it has.
serves(s) == s \in service

---------------------------------------------------------------------------
(* Job rows *)

\* _transition_job, the reads: a repeat or a refused transition writes nothing.
_transition_job(t, k, to, category, retry, document) ==
    /\ report_job[k] # None
    /\ report_job[k].status \in AllowedFrom[to]
    /\ select(t, [call |-> "transition", key |-> k, to |-> to, category |-> category,
                  retry |-> retry, document |-> document])

\* _transition_job, the UPDATE: by report_job_id alone, identities kept by COALESCE.
update_report_job(t) ==
    /\ called(t, "transition")
    /\ LET o == op[t] IN
       report_job' = [report_job EXCEPT ![o.key] = Row(o.to, o.category, o.retry, @.document \/ o.document)]
    /\ written(t)
    /\ UNCHANGED <<report_request, work, relationship, noted, attempt>>

mark_collecting_data(t, k) == _transition_job(t, k, "collecting_data", "none", FALSE, FALSE)
mark_data_ready(t, k)      == _transition_job(t, k, "data_ready", "none", FALSE, FALSE)
mark_rendering(t, k)       == _transition_job(t, k, "rendering", "none", FALSE, FALSE)
mark_completed(t, k)       == _transition_job(t, k, "completed", "none", FALSE, FALSE)
mark_archiving(t, k)       == _transition_job(t, k, "archiving", "none", FALSE, FALSE)
\* From failed only by a caller that resolved an unknown archive outcome.
mark_archived(t, k) ==
    /\ report_job[k] # None /\ report_job[k].status = "failed" => report_job[k].category = "archive_outcome_unknown"
    /\ _transition_job(t, k, "archived", "none", FALSE, TRUE)
mark_failed(t, k) ==
    \E category \in {"archive_outcome_unknown", "render_execution_failed"} :
        _transition_job(t, k, "failed", category, TRUE, FALSE)
cancel_job(t, k)           == _transition_job(t, k, "cancelled", "cancelled", FALSE, FALSE)

\* _ensure_work_item: INSERT OR IGNORE, unless the job was read as finished.
_ensure_work_item(k, status) ==
    work' = IF status \in TerminalStatuses \/ work[k] # None THEN work
            ELSE [work EXCEPT ![k] = Item("pending", 0, 0, FALSE)]

\* client_identity_hash_from_record: what the client asked, the server's own options
\* stripped from both sides.
same_client_identity(k, content) == report_request[k] = content

replays(s, d) == <<s, d, "failed_work_replay">> \in relationship

\* A set of jobs that holds a derived job exactly when it holds the job's source.
closed_under_replay(S) ==
    \A s, d \in JobKeys : replays(s, d) => (s \in S <=> d \in S)

\* The walk up from a job to its root and down to every job derived from there: a job has
\* at most one source, so they meet the members of the least closed set around the job.
replay_lineage(s) ==
    {m \in JobKeys : \A S \in SUBSET JobKeys : s \in S /\ closed_under_replay(S) => m \in S}

replayed(m) == \E d \in JobKeys : replays(m, d)

\* A member of the lineage that is, or may still become, a document.
live_member(m) ==
    /\ report_job[m] # None
    /\ report_job[m].status # "cancelled"
    /\ report_job[m].status = "failed" =>
         /\ report_job[m].category = "archive_outcome_unknown"
         /\ ~replayed(m)

\* Mutant: only the source's own row is examined.
replay_admitted_alone(s) ==
    report_job[s] # None /\ report_job[s].status = "failed" /\ report_job[s].retry /\ ~report_job[s].document

\* The guards of a replay: the source failed, may be retried, has no document, and no
\* other member of its lineage is live.
replay_admitted(s) ==
    /\ report_job[s] # None
    /\ report_job[s].status = "failed" /\ report_job[s].retry /\ ~report_job[s].document
    /\ \A m \in replay_lineage(s) \ {s} : ~live_member(m)

\* _create_report_job, the reads.
_create_report_job(t, k, content, enqueue, source) ==
    /\ report_request[k] # None => same_client_identity(k, content)
    /\ report_request[k] = None /\ source # None => replay_admitted(source)
    /\ select(t, [call |-> "create", key |-> k, content |-> content, enqueue |-> enqueue,
                  source |-> source, found |-> report_request[k] # None,
                  status |-> IF report_request[k] = None THEN "accepted" ELSE report_job[k].status])

\* _create_report_job, the writes: a known key only repairs its work item; two requests
\* under one key violate the unique index and the second is rolled back.
insert_report_job(t) ==
    /\ called(t, "create")
    /\ LET o == op[t] IN
       IF o.found
       THEN /\ IF o.enqueue THEN _ensure_work_item(o.key, o.status) ELSE UNCHANGED work
            /\ UNCHANGED <<report_request, report_job, relationship>>
       ELSE IF report_request[o.key] # None
       THEN UNCHANGED <<report_request, report_job, work, relationship>>
       ELSE /\ report_request' = [report_request EXCEPT ![o.key] = o.content]
            /\ report_job' = [report_job EXCEPT ![o.key] = Row("accepted", "none", FALSE, FALSE)]
            /\ relationship' = IF o.source = None THEN relationship
                               ELSE relationship \cup {<<o.source, o.key, "failed_work_replay">>}
            /\ IF o.enqueue THEN _ensure_work_item(o.key, "accepted") ELSE UNCHANGED work
    /\ written(t)
    /\ UNCHANGED <<noted, attempt>>

submit_portfolio_review_job(t, k, content) ==
    k \in Submitted /\ _create_report_job(t, k, content, TRUE, None)

create_replay_derived_job(t, s, k, content) ==
    k \notin Submitted /\ k # s /\ _create_report_job(t, k, content, FALSE, s)

\* upsert_job_relationship.
upsert_job_relationship(t, s, d) ==
    /\ report_job[s] # None /\ report_job[d] # None /\ s # d /\ s \in Submitted
    /\ select(t, [call |-> "relate", source |-> s, derived |-> d])

insert_relationship(t) ==
    /\ called(t, "relate")
    /\ relationship' = relationship \cup {<<op[t].source, op[t].derived, "regenerate">>}
    /\ written(t)
    /\ UNCHANGED <<report_request, report_job, work, noted, attempt>>

\* append_job_event with skip_if_idempotency_key_exists.
append_job_event(t, k) ==
    /\ report_job[k] # None
    /\ noted[k] = 0
    /\ select(t, [call |-> "note", key |-> k])

_append_status_event(t) ==
    /\ called(t, "note")
    /\ noted' = [noted EXCEPT ![op[t].key] = @ + 1]
    /\ written(t)
    /\ UNCHANGED <<report_request, report_job, work, relationship, attempt>>

---------------------------------------------------------------------------
(* Rerender attempts of one archived job *)

\* create_rerender_attempt: only the call that inserted the row drives it.
create_rerender_attempt(t, a) ==
    /\ attempt[a] = None
    /\ select(t, [call |-> "attempt", key |-> a, status |-> "rendering", origin |-> a])

\* record_adopted_rerender_outcome: archived from birth, with the adopted provenance.
record_adopted_rerender_outcome(t, a, from) ==
    /\ attempt[a] = None
    /\ attempt[from] # None /\ attempt[from].status \in {"failed", "archived"}
    /\ select(t, [call |-> "attempt", key |-> a, status |-> "archived",
                  origin |-> attempt[from].origin])

insert_rerender_attempt(t) ==
    /\ called(t, "attempt")
    /\ attempt' = IF attempt[op[t].key] # None THEN attempt
                  ELSE [attempt EXCEPT ![op[t].key] =
                           [status |-> op[t].status, origin |-> op[t].origin,
                            ambiguous |-> FALSE]]
    /\ written(t)
    /\ UNCHANGED <<report_request, report_job, work, relationship, noted>>

\* _update_rerender_attempt.  The caller runs its steps in order.
_update_rerender_attempt(t, a, from, to, ambiguous) ==
    /\ attempt[a] # None /\ attempt[a].status \in from
    /\ select(t, [call |-> "outcome", key |-> a, status |-> to, ambiguous |-> ambiguous])

mark_rerender_rendered(t, a)  == _update_rerender_attempt(t, a, {"rendering"}, "rendered", FALSE)
mark_rerender_archiving(t, a) == _update_rerender_attempt(t, a, {"rendered"}, "archiving", FALSE)
mark_rerender_archived(t, a) ==
    _update_rerender_attempt(t, a, {"archiving", "failed"}, "archived", FALSE)
mark_rerender_failed(t, a) ==
    \E ambiguous \in BOOLEAN :
        _update_rerender_attempt(t, a, {"rendering", "archiving"}, "failed", ambiguous)

update_rerender_attempt_row(t) ==
    /\ called(t, "outcome")
    /\ attempt' = [attempt EXCEPT ![op[t].key].status = op[t].status,
                                  ![op[t].key].ambiguous = op[t].ambiguous]
    /\ written(t)
    /\ UNCHANGED <<report_request, report_job, work, relationship, noted>>

---------------------------------------------------------------------------
(* Work items *)

\* decide_report_job_work_failure.
decided(item) ==
    Item(IF item.attempts >= MaxAttempts THEN "failed" ELSE "retry_pending", item.attempts, 0, FALSE)

\* _terminalize_report_job_from_work.
_terminalize_report_job_from_work(k, category) ==
    IF report_job[k].status \in TerminalStatuses THEN report_job[k]
    ELSE Row("failed", category, TRUE, report_job[k].document)

expired_work == {k \in JobKeys : work[k] # None /\ work[k].status = "leased" /\ work[k].expired}

\* _recover_expired_work_items: the work rows and the job rows it leaves.
recovered_work == [k \in JobKeys |-> IF k \in expired_work THEN decided(work[k]) ELSE work[k]]
_recover_expired_work_items ==
    [k \in JobKeys |-> IF k \in expired_work /\ recovered_work[k].status = "failed"
                    THEN _terminalize_report_job_from_work(k, "timeout") ELSE report_job[k]]

\* claim_work_items with limit 1: under the lock and BEGIN IMMEDIATE.
claim_work_items(t, k) ==
    /\ phase = "open" /\ lock = None /\ op[t] = None /\ holding[t] = None
    /\ leases < MaxLeases
    /\ recovered_work[k] # None /\ recovered_work[k].status \in {"pending", "retry_pending"}
    /\ work' = [recovered_work EXCEPT ![k] = Item("leased", @.attempts + 1, leases + 1, FALSE)]
    /\ report_job' = _recover_expired_work_items
    /\ leases' = leases + 1
    /\ holding' = [holding EXCEPT ![t] = [key |-> k, token |-> leases + 1]]
    /\ UNCHANGED <<files, report_request, relationship, noted, attempt, lock, op>>

\* A claim that finds nothing due still recovers what expired.
claim_recovers_only(t) ==
    /\ phase = "open" /\ lock = None /\ op[t] = None
    /\ expired_work # {}
    /\ work' = recovered_work
    /\ report_job' = _recover_expired_work_items
    /\ UNCHANGED <<files, report_request, relationship, noted, attempt, threads>>

\* The fence of a settlement; it takes no lock.
lease_owned(t) ==
    /\ phase = "open" /\ op[t] = None /\ holding[t] # None
    /\ LET item == work[holding[t].key]
       IN  item.status = "leased" /\ item.token = holding[t].token

settled(t) ==
    /\ holding' = [holding EXCEPT ![t] = None]
    /\ UNCHANGED <<files, report_request, relationship, noted, attempt, lock, op, leases>>

complete_work_item(t) ==
    /\ lease_owned(t)
    /\ work' = [work EXCEPT ![holding[t].key] = Item("completed", @.attempts, 0, FALSE)]
    /\ settled(t)
    /\ UNCHANGED report_job

\* defer_work_item: the claim's attempt is refunded.
defer_work_item(t) ==
    /\ lease_owned(t)
    /\ work' = [work EXCEPT ![holding[t].key] =
                    Item("retry_pending", IF @.attempts > 1 THEN @.attempts - 1 ELSE 0, 0, FALSE)]
    /\ settled(t)
    /\ UNCHANGED report_job

fail_work_item(t) ==
    /\ lease_owned(t)
    /\ LET k == holding[t].key
           item == decided(work[k])
       IN  /\ work' = [work EXCEPT ![k] = item]
           /\ report_job' = IF item.status # "failed" THEN report_job
                     ELSE [report_job EXCEPT ![k] = _terminalize_report_job_from_work(
                                                 k, "operator_intervention_required")]
    /\ settled(t)

\* A lease runs out; its holder may not know.
LeaseExpires(k) ==
    /\ work[k] # None /\ work[k].status = "leased" /\ ~work[k].expired
    /\ work' = [work EXCEPT ![k].expired = TRUE]
    /\ UNCHANGED <<files, report_request, report_job, relationship, noted, attempt, threads>>

\* The holder finds its lease gone and drops the work.
LeaseLost(t) ==
    /\ holding[t] # None /\ op[t] = None /\ ~lease_owned(t)
    /\ holding' = [holding EXCEPT ![t] = None]
    /\ UNCHANGED <<files, tables, lock, op, leases>>

---------------------------------------------------------------------------

JobCalls(t, k) ==
    \/ \E c \in Contents : submit_portfolio_review_job(t, k, c)
    \/ mark_collecting_data(t, k) \/ mark_data_ready(t, k) \/ mark_rendering(t, k)
    \/ mark_completed(t, k) \/ mark_archiving(t, k) \/ mark_archived(t, k)
    \/ mark_failed(t, k) \/ cancel_job(t, k)

ReplayCalls(t) ==
    \E s, k \in JobKeys :
        \/ \E c \in Contents : create_replay_derived_job(t, s, k, c)
        \/ upsert_job_relationship(t, s, k)

WorkCalls(t) ==
    \/ \E k \in JobKeys : claim_work_items(t, k)
    \/ claim_recovers_only(t) \/ complete_work_item(t) \/ defer_work_item(t)
    \/ fail_work_item(t) \/ LeaseLost(t)

RerenderCalls(t, a) ==
    \/ create_rerender_attempt(t, a)
    \/ \E from \in RerenderKeys : record_adopted_rerender_outcome(t, a, from)
    \/ mark_rerender_rendered(t, a) \/ mark_rerender_archiving(t, a)
    \/ mark_rerender_archived(t, a) \/ mark_rerender_failed(t, a)

Writes(t) ==
    \/ update_report_job(t) \/ insert_report_job(t) \/ insert_relationship(t)
    \/ _append_status_event(t) \/ insert_rerender_attempt(t) \/ update_rerender_attempt_row(t)

SqliteNext ==
    \/ ensure_schema \/ rebuild_step \/ Crash
    \/ \E k \in JobKeys : LeaseExpires(k)
    \/ \E t \in Threads :
        \/ serves("jobs") /\ \E k \in JobKeys : JobCalls(t, k)
        \/ serves("replay") /\ ReplayCalls(t)
        \/ serves("worker") /\ WorkCalls(t)
        \/ serves("events") /\ \E k \in JobKeys : append_job_event(t, k)
        \/ serves("rerender") /\ \E a \in RerenderKeys : RerenderCalls(t, a)
        \/ Writes(t)

SqliteSpec == SqliteInit /\ [][SqliteNext]_sqlite_vars

---------------------------------------------------------------------------
(* Properties *)

\* The replays of a lineage never compete: of the members that were not replayed
\* themselves, at most one is live.  The guard of create_replay_derived_job and the insert
\* it allows are two statements, and only the lock keeps another replay of the lineage from
\* passing its guard between them; a settlement of the queue takes no lock.
OneLiveReplacement ==
    \A s \in JobKeys : \A m, n \in replay_lineage(s) :
        live_member(m) /\ live_member(n) /\ ~replayed(m) /\ ~replayed(n) => m = n

\* An opened ledger answers with every request the old database retained, whatever
\* statement of the rebuild the process died at.
RetainedRequestsSurvive == phase = "open" => Retained \subseteq disk.live.rows

\* Concurrent retries of one event converge on one event row.
EventStoredOnce == \A k \in JobKeys : noted[k] <= 1
=============================================================================
