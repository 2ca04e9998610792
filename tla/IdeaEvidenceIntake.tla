--------------------------- MODULE IdeaEvidenceIntake ---------------------------
(***************************************************************************)
(* Intake of reviewed lotus-idea evidence packs and their materialization  *)
(* as report jobs: the intake ledger (a SQLite file, later a PostgreSQL    *)
(* table), the routes that use it, the upgrade of the file to a            *)
(* tenant-scoped key and the transfer that precedes the change of backend. *)
(*                                                                         *)
(* A pack is what its fingerprint covers; a job's request hash covers only *)
(* its content, not the candidate.  A slot is a tenant and a key.          *)
(***************************************************************************)
EXTENDS FiniteSets

CONSTANTS
    Tenants,
    Keys,
    Packs,               \* [content, candidate]: the report request hash covers the content only
    AuthorizedTenants,   \* tenants of the retention policy
    Requests,            \* concurrent calls
    None

VARIABLES
    schema,          \* of the SQLite file: "none", "key_only", "tenant"
    rows,            \* the file's rows
    table,           \* the PostgreSQL table
    backend,         \* the configured intake ledger
    api,             \* whether the service runs
    transfer,        \* the transfer process
    job,             \* the proof-pack job of each slot
    request,         \* where each call stands
    acknowledged,    \* the pack each slot's caller was told is accepted
    forgotten,       \* slots whose job predates stored identities and whose intake is gone
    receipt          \* the materialization receipt the last step handed out

intake_vars == <<schema, rows, table, backend, api, transfer, job, request, acknowledged,
                 forgotten, receipt>>

\* A proof-pack job: the pack it was made from, whether it stores that identity, its progress.
JobRow == [pack : Packs, named : BOOLEAN, status : {"accepted", "executed"}]

ASSUME IntakeAssumption ==
    /\ AuthorizedTenants \subseteq Tenants
    /\ \A p \in Packs : DOMAIN p = {"content", "candidate"}
    /\ None \notin Tenants /\ None \notin Packs /\ None \notin JobRow

Slots == Tenants \X Keys
Idle == [pc |-> "idle", route |-> None, slot |-> None, pack |-> None]

(* The rows of both ledgers under one reading *)

slot_of(row) == <<row.tenant, row.key>>

_get_record(slot) ==
    IF backend = "postgresql" THEN table[slot]
    ELSE IF \E row \in rows : slot_of(row) = slot
         THEN (CHOOSE row \in rows : slot_of(row) = slot).pack
         ELSE None

has_record(slot) == _get_record(slot) # None

insert(slot, pack) ==
    IF backend = "postgresql"
    THEN table' = [table EXCEPT ![slot] = pack] /\ UNCHANGED rows
    ELSE rows' = rows \cup {[tenant |-> slot[1], key |-> slot[2], pack |-> pack]} /\ UNCHANGED table

\* Mutant: any stored identity is taken for the expected one.
recover_idea_materialization_unmatched(slot, pack) ==
    CASE job[slot] = None -> "not_found"
      [] job[slot] # None /\ ~job[slot].named -> "missing"
      [] OTHER -> "same"

\* recover_idea_materialization: "missing" when the job stores no identity.
recover_idea_materialization(slot, pack) ==
    CASE job[slot] = None -> "not_found"
      [] job[slot] # None /\ ~job[slot].named -> "missing"
      [] OTHER -> IF job[slot].pack = pack THEN "same" ELSE "changed"

\* _resolve_retention_policy: the producer is lotus-idea by the request's type.
retention_policy_admits(tenant) == tenant \in AuthorizedTenants

---------------------------------------------------------------------------
(* The file a deployment starts from: none, or one written under the old key *)

IntakeInit ==
    /\ \E old \in [Keys -> [tenant : Tenants \cup {None}, pack : Packs] \cup {None}],
          made \in SUBSET Slots :
        /\ \A slot \in made : old[slot[2]] # None
        /\ rows = {[tenant |-> old[k].tenant, key |-> k, pack |-> old[k].pack] :
                        k \in {x \in Keys : old[x] # None}}
        /\ schema = IF \E k \in Keys : old[k] # None THEN "key_only" ELSE "none"
        /\ job = [slot \in Slots |->
                    IF slot \in made
                    THEN [pack |-> old[slot[2]].pack, named |-> FALSE, status |-> "accepted"]
                    ELSE None]
        /\ acknowledged = [slot \in Slots |->
                    IF old[slot[2]] # None /\ old[slot[2]].tenant = slot[1]
                    THEN old[slot[2]].pack ELSE None]
        /\ forgotten = {slot \in made : old[slot[2]].tenant # slot[1]}
    /\ table = [slot \in Slots |-> None]
    /\ backend = "sqlite"
    /\ api = TRUE
    /\ transfer = [phase |-> "idle", source |-> {}]
    /\ request = [r \in Requests |-> Idle]
    /\ receipt = None

---------------------------------------------------------------------------
(* Opening the ledger *)

_refuse_unattributable_rows == \E row \in rows : row.tenant = None

\* _ensure_schema and _migrate_to_tenant_identity: one transaction, or nothing.
_ensure_schema ==
    /\ api /\ backend = "sqlite"
    /\ schema # "tenant"
    /\ ~_refuse_unattributable_rows
    /\ schema' = "tenant"
    /\ receipt' = None
    /\ UNCHANGED <<rows, table, backend, api, transfer, job, request, acknowledged, forgotten>>

opened == backend = "postgresql" \/ schema = "tenant"

---------------------------------------------------------------------------
(* The routes *)

goto(r, pc) == request' = [request EXCEPT ![r] = IF pc = "idle" THEN Idle
                                                 ELSE [@ EXCEPT !.pc = pc]]

deployment == <<schema, backend, api, transfer>>

\* The checks that precede any read: caller, key, ordering, retention policy.
admit(r, route) ==
    /\ api /\ opened
    /\ request[r].pc = "idle"
    /\ \E slot \in Slots, pack \in Packs :
        /\ retention_policy_admits(slot[1])
        /\ request' = [request EXCEPT ![r] =
                [pc |-> IF route = "materialize" THEN "checking" ELSE "accepting",
                 route |-> route, slot |-> slot, pack |-> pack]]
    /\ receipt' = None /\ UNCHANGED <<deployment, rows, table, job, acknowledged, forgotten>>

accept_idea_evidence_pack(r) == admit(r, "accept")
materialize_idea_evidence_pack(r) == admit(r, "materialize")

\* _refuse_unverifiable_legacy_replay: two reads.
_refuse_unverifiable_legacy_replay(r) ==
    /\ request[r].pc \in {"checking", "recovering"}
    /\ goto(r, IF request[r].pc = "checking"
               THEN IF has_record(request[r].slot) THEN "accepting" ELSE "recovering"
               ELSE IF recover_idea_materialization(request[r].slot, request[r].pack)
                        \in {"not_found", "same"}
                    THEN "accepting" ELSE "idle")
    /\ receipt' = None /\ UNCHANGED <<deployment, rows, table, job, acknowledged, forgotten>>

\* What the caller is told once accept returns: the intake alone, or onward to the job.
answered(r, pack) ==
    /\ acknowledged' = [acknowledged EXCEPT ![request[r].slot] = pack]
    /\ goto(r, IF request[r].route = "accept" THEN "idle" ELSE "creating")

\* accept: the read that replays, conflicts or goes on to store.
accept(r) ==
    LET existing == _get_record(request[r].slot) IN
    /\ request[r].pc = "accepting"
    /\ \/ existing = None /\ goto(r, "storing") /\ UNCHANGED acknowledged
       \/ existing = request[r].pack /\ answered(r, existing)
       \/ existing \notin {None, request[r].pack} /\ goto(r, "idle") /\ UNCHANGED acknowledged
    /\ receipt' = None /\ UNCHANGED <<deployment, rows, table, job, forgotten>>

\* _store_record: the insert, or the row that won the race.
_store_record(r) ==
    LET existing == _get_record(request[r].slot) IN
    /\ request[r].pc = "storing"
    /\ \/ /\ existing = None
          /\ insert(request[r].slot, request[r].pack)
          /\ answered(r, request[r].pack)
       \/ existing = request[r].pack /\ answered(r, existing) /\ UNCHANGED <<rows, table>>
       \/ /\ existing \notin {None, request[r].pack}
          /\ goto(r, "idle") /\ UNCHANGED <<rows, table, acknowledged>>
    /\ receipt' = None /\ UNCHANGED <<deployment, job, forgotten>>

\* The job the evidence asks for, carrying the identity a later recovery compares.
build_proof_pack_report_job_request_from_idea_evidence(pack) ==
    [pack |-> pack, named |-> TRUE, status |-> "accepted"]

\* create_proof_pack_report_job under the tenant's key; the hash sees the content alone.
create_proof_pack_report_job(r) ==
    LET slot == request[r].slot
        pack == request[r].pack IN
    /\ request[r].pc = "creating"
    /\ \/ /\ job[slot] = None
          /\ job' = [job EXCEPT ![slot] =
                        build_proof_pack_report_job_request_from_idea_evidence(pack)]
          /\ goto(r, "executing")
       \/ /\ job[slot] # None /\ job[slot].pack.content = pack.content
          /\ goto(r, "executing") /\ UNCHANGED job
       \/ /\ job[slot] # None /\ job[slot].pack.content # pack.content
          /\ goto(r, "idle") /\ UNCHANGED job
    /\ receipt' = None /\ UNCHANGED <<deployment, rows, table, acknowledged, forgotten>>

\* Capture and render of an accepted job, whatever outcome they reach; any other is left alone.
execute(r) ==
    LET slot == request[r].slot IN
    /\ request[r].pc = "executing"
    /\ job' = [job EXCEPT ![slot].status = "executed"]
    /\ goto(r, "responding")
    /\ receipt' = None /\ UNCHANGED <<deployment, rows, table, acknowledged, forgotten>>

\* _materialization_response: the stored identity, or for a job without one the request's own.
_materialization_response(r) ==
    LET slot == request[r].slot IN
    /\ request[r].pc = "responding"
    /\ receipt' = IF recover_idea_materialization(slot, request[r].pack) \in {"same", "missing"}
                  THEN [slot |-> slot, pack |-> request[r].pack] ELSE None
    /\ goto(r, "idle")
    /\ UNCHANGED <<deployment, rows, table, job, acknowledged, forgotten>>

\* The recovery read: an exact match or nothing.
recover_idea_evidence_pack_materialization ==
    /\ api
    /\ \E slot \in Slots, pack \in Packs :
        /\ recover_idea_materialization(slot, pack) = "same"
        /\ receipt' = [slot |-> slot, pack |-> pack]
    /\ UNCHANGED <<deployment, rows, table, job, request, acknowledged, forgotten>>

---------------------------------------------------------------------------
(* Operating the service *)

\* A stop drops the calls in flight.
stop_api ==
    /\ api
    /\ api' = FALSE
    /\ request' = [r \in Requests |-> Idle]
    /\ receipt' = None
    /\ UNCHANGED <<schema, rows, table, backend, transfer, job, acknowledged, forgotten>>

start_api ==
    /\ ~api
    /\ api' = TRUE
    /\ transfer' = [phase |-> "idle", source |-> {}]
    /\ receipt' = None
    /\ UNCHANGED <<schema, rows, table, backend, job, request, acknowledged, forgotten>>

\* The ledger is emptied or restored from elsewhere while the service is down.
lose_ledger ==
    /\ ~api
    /\ IF backend = "postgresql"
       THEN table' = [slot \in Slots |-> None] /\ UNCHANGED <<schema, rows>>
       ELSE rows' = {} /\ schema' = "none" /\ UNCHANGED table
    /\ acknowledged' = [slot \in Slots |-> None]
    /\ forgotten' = forgotten \cup {slot \in Slots : job[slot] # None /\ ~job[slot].named}
    /\ transfer' = [phase |-> "idle", source |-> {}]
    /\ receipt' = None /\ UNCHANGED <<backend, api, job, request>>

---------------------------------------------------------------------------
(* The transfer, run with the service stopped *)

\* _read_source_rows and _with_tenant: one read, refused when a row names no tenant.
_read_source_rows ==
    /\ ~api /\ transfer.phase \in {"idle", "failed"} /\ backend = "sqlite"
    /\ transfer' = IF schema = "none" \/ _refuse_unattributable_rows
                   THEN [phase |-> "failed", source |-> {}]
                   ELSE [phase |-> "copying", source |-> rows]
    /\ receipt' = None
    /\ UNCHANGED <<schema, rows, table, backend, api, job, request, acknowledged, forgotten>>

\* allow_missing_source: the operator says there is no file.
allow_missing_source ==
    /\ ~api /\ transfer.phase \in {"idle", "failed"} /\ backend = "sqlite" /\ schema = "none"
    /\ transfer' = [phase |-> "complete", source |-> {}]
    /\ receipt' = None
    /\ UNCHANGED <<schema, rows, table, backend, api, job, request, acknowledged, forgotten>>

\* One source row in a transaction of its own, ON CONFLICT DO NOTHING.
transfer_row ==
    /\ transfer.phase = "copying"
    /\ \E row \in transfer.source :
        /\ table' = [table EXCEPT ![slot_of(row)] = IF @ = None THEN row.pack ELSE @]
        /\ table' # table
    /\ receipt' = None /\ UNCHANGED <<deployment, rows, job, request, acknowledged, forgotten>>

\* Mutant: a key that is present counts as carried.
_verify_row_present(row) == TRUE

\* _verify_row: the content of every source row.
_verify_row(row) == table[slot_of(row)] = row.pack

\* The second pass, once every insert was tried.
verify_transfer ==
    /\ transfer.phase = "copying"
    /\ \A row \in transfer.source : table[slot_of(row)] # None
    /\ transfer' = [transfer EXCEPT !.phase = IF \A row \in transfer.source : _verify_row(row)
                                              THEN "complete" ELSE "failed"]
    /\ receipt' = None
    /\ UNCHANGED <<schema, rows, table, backend, api, job, request, acknowledged, forgotten>>

\* The process dies; committed rows stay.
kill_transfer ==
    /\ transfer.phase = "copying"
    /\ transfer' = [phase |-> "idle", source |-> {}]
    /\ receipt' = None
    /\ UNCHANGED <<schema, rows, table, backend, api, job, request, acknowledged, forgotten>>

\* The operator selects PostgreSQL after a transfer that exited 0, or goes back to the file.
select_backend ==
    /\ ~api
    /\ \/ backend = "sqlite" /\ transfer.phase = "complete" /\ backend' = "postgresql"
       \/ /\ backend = "postgresql" /\ \A slot \in Slots : table[slot] = None
          /\ backend' = "sqlite"
    /\ receipt' = None
    /\ UNCHANGED <<schema, rows, table, api, transfer, job, request, acknowledged, forgotten>>

---------------------------------------------------------------------------
IntakeNext ==
    \/ _ensure_schema
    \/ \E r \in Requests :
        \/ accept_idea_evidence_pack(r)
        \/ materialize_idea_evidence_pack(r)
        \/ _refuse_unverifiable_legacy_replay(r)
        \/ accept(r)
        \/ _store_record(r)
        \/ create_proof_pack_report_job(r)
        \/ execute(r)
        \/ _materialization_response(r)
    \/ recover_idea_evidence_pack_materialization
    \/ stop_api
    \/ start_api
    \/ lose_ledger
    \/ _read_source_rows
    \/ allow_missing_source
    \/ transfer_row
    \/ verify_transfer
    \/ kill_transfer
    \/ select_backend

IntakeSpec == IntakeInit /\ [][IntakeNext]_intake_vars

---------------------------------------------------------------------------
(* Properties *)

\* An intake a caller was told is accepted is in the ledger the running service reads, with the
\* pack it was accepted with, through the tenant upgrade of the file, a killed and repeated
\* transfer and the change of backend.
AcknowledgedIntakeSurvives ==
    api /\ opened =>
        \A slot \in Slots : acknowledged[slot] # None => _get_record(slot) = acknowledged[slot]

\* A materialization receipt names the evidence its job was made from, whatever ledger was lost in
\* between; the exception is a job older than stored identities whose own intake is gone.
ReceiptNamesItsEvidence ==
    receipt # None =>
        job[receipt.slot].pack = receipt.pack \/ receipt.slot \in forgotten
=============================================================================
