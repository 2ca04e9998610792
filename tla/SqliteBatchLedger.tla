--------------------------- MODULE SqliteBatchLedger ---------------------------
(***************************************************************************)
(* The SQLite batch ledger (app/report_batch_orchestrator/ledger.py) under *)
(* the bounded scan of the batch runtime.  Every writing call runs under   *)
(* the ledger's lock from its first read to its commit, so it is one step. *)
(* A batch here has one item; batches are numbered by created_at.  A lease *)
(* token is the pass that took it: a pass forgets its token before it      *)
(* leases again.                                                           *)
(***************************************************************************)
EXTENDS Naturals, FiniteSets

CONSTANTS
    Batches,       \* 1..n in the order of created_at
    Tenant,        \* [Batches -> tenants], the authorised ones
    Handled,       \* batches that operators and passes act on; the rest is backlog
    Passes,        \* runtime passes that lease items
    Window,        \* max_batches of a pass
    MaxAttempts,   \* BatchRetryPolicy.max_attempts
    None

ASSUME BatchLedgerAssumption ==
    Handled \subseteq Batches /\ Batches \subseteq Nat /\ Window \in Nat \ {0} /\ MaxAttempts \in Nat \ {0}

VARIABLES
    batch,         \* status of each report_batch row
    item,          \* its report_batch_item row
    scanned        \* what the last pass read as runnable

batch_ledger_vars == <<batch, item, scanned>>

Tenants == {Tenant[b] : b \in Batches}

Item(status, attempts, retry, token, expired, job) ==
    [status |-> status, attempts |-> attempts, retry |-> retry, token |-> token,
     expired |-> expired, job |-> job]

BatchLedgerInit ==
    /\ batch = [b \in Batches |-> None]
    /\ item = [b \in Batches |-> None]
    /\ scanned = {}

\* _refresh_batch_status with reconciled_batch_status: the verdict of a single item; a
\* paused or cancelled batch keeps its status.
_refresh_batch_status(b, status) ==
    IF batch[b] \in {"paused", "cancelled"} THEN batch[b]
    ELSE CASE status = "succeeded" -> "completed"
           [] status = "cancelled" -> "cancelled"
           [] status = "failed_terminal" -> "completed_with_failures"
           [] status = "failed_retryable" -> "failed"
           [] OTHER -> batch[b]

store(b, row, status) ==
    /\ item' = [item EXCEPT ![b] = row]
    /\ batch' = [batch EXCEPT ![b] = status]
    /\ UNCHANGED scanned

refreshed(b, row) == store(b, row, _refresh_batch_status(b, row.status))

---------------------------------------------------------------------------

create_batch(b) ==
    /\ batch[b] = None
    /\ store(b, Item("materialized", 0, FALSE, None, FALSE, FALSE), "materialized")

dispatchable(row) ==
    \/ row.status \in {"materialized", "recovery_pending"}
    \/ row.status = "leased" /\ row.expired
    \/ row.status = "failed_retryable" /\ row.retry

\* WHERE lease_token = ? AND status = 'leased'.
owned(p, b) == item[b] # None /\ item[b].status = "leased" /\ item[b].token = p

\* acquire_dispatch_items.
acquire_dispatch_items(p, b) ==
    /\ b \in scanned
    /\ \A c \in Batches : ~owned(p, c)
    /\ batch[b] \in {"materialized", "running"}
    /\ ~item[b].job /\ dispatchable(item[b])
    /\ store(b, Item("leased", item[b].attempts, item[b].retry, p, FALSE, FALSE), "running")

heartbeat_item_lease(p, b) ==
    owned(p, b) /\ item[b].expired /\ store(b, [item[b] EXCEPT !.expired = FALSE], batch[b])

\* mark_item_waiting_on_report_job: the lease columns stay as they are.
mark_item_waiting_on_report_job(p, b) ==
    /\ owned(p, b)
    /\ store(b, [item[b] EXCEPT !.status = "waiting_on_report_job", !.job = TRUE], batch[b])

mark_item_succeeded(b) ==
    /\ item[b] # None /\ item[b].status = "waiting_on_report_job"
    /\ refreshed(b, Item("succeeded", item[b].attempts, FALSE, None, FALSE, TRUE))

\* mark_item_failed with batch_item_failure_outcome: whatever state the item is in.
mark_item_failed(b, retryable) ==
    /\ item[b] # None /\ item[b].attempts <= MaxAttempts   \* bound: one report past the budget
    /\ LET attempts == item[b].attempts + 1
           again == retryable /\ attempts < MaxAttempts
       IN refreshed(b, Item(IF again THEN "failed_retryable" ELSE "failed_terminal",
                            attempts, again, None, FALSE, item[b].job))

retry_failed_items(b) ==
    /\ item[b] # None /\ item[b].status = "failed_retryable" /\ ~item[b].job
    /\ item[b].retry /\ item[b].attempts < MaxAttempts
    /\ refreshed(b, Item("materialized", item[b].attempts, FALSE, None, FALSE, FALSE))

pause_batch(b) ==
    batch[b] \in {"materialized", "running"} /\ store(b, item[b], "paused")

resume_batch(b) ==
    batch[b] = "paused" /\ store(b, item[b], "materialized")

cancel_batch(b) ==
    /\ batch[b] \notin {None, "cancelled"}
    /\ LET dropped == ~item[b].job /\ item[b].status \in
                        {"materialized", "recovery_pending", "failed_retryable", "leased"}
       IN store(b, IF dropped THEN Item("cancelled", item[b].attempts, FALSE, None, FALSE, FALSE)
                              ELSE item[b],
                IF batch[b] \in {"completed", "completed_with_failures", "failed"} THEN batch[b]
                                                                             ELSE "cancelled")

recover_expired_leases(b) ==
    /\ item[b] # None /\ item[b].status = "leased" /\ item[b].expired
    /\ refreshed(b, Item("recovery_pending", item[b].attempts, TRUE, None, FALSE, FALSE))

relink_failed_item_for_replay(b) ==
    /\ item[b] # None /\ item[b].status = "failed_retryable" /\ item[b].retry
    /\ item[b].attempts < MaxAttempts
    /\ refreshed(b, Item("waiting_on_report_job", item[b].attempts, FALSE, None, FALSE, TRUE))

---------------------------------------------------------------------------
(* The runtime's scan *)

\* No caller gives mark_item_failed a next_retry_at: a retryable failure is due at once.
runnable(b) ==
    /\ batch[b] \in {"materialized", "running"}
    /\ \/ item[b].status \in {"materialized", "recovery_pending", "waiting_on_report_job"}
       \/ item[b].status = "leased" /\ ~item[b].job /\ item[b].expired
       \/ item[b].status = "failed_retryable" /\ item[b].retry

\* ROW_NUMBER() OVER (PARTITION BY tenant_id ORDER BY created_at).
tenant_rank(b) ==
    Cardinality({c \in Batches : runnable(c) /\ Tenant[c] = Tenant[b] /\ c <= b})

\* Mutant: the oldest batches fill the window, whoever they belong to.
list_runnable_batch_ids_oldest(found) ==
    LET eligible == {b \in Batches : runnable(b)} IN
    /\ found \subseteq eligible
    /\ Cardinality(found) <= Window
    /\ found # eligible => Cardinality(found) = Window
    /\ \A b \in found, c \in eligible \ found : b <= c

\* list_runnable_batch_ids: ranks in order, ties by RANDOM(), cut at the limit.
list_runnable_batch_ids(found) ==
    LET eligible == {b \in Batches : runnable(b)} IN
    /\ found \subseteq eligible
    /\ Cardinality(found) <= Window
    /\ found # eligible => Cardinality(found) = Window
    /\ \A b \in found, c \in eligible \ found : tenant_rank(b) <= tenant_rank(c)

\* run_pass: what this pass will advance.
run_pass(found) ==
    /\ list_runnable_batch_ids(found)
    /\ scanned' = found
    /\ UNCHANGED <<batch, item>>

LeaseExpires(b) ==
    /\ item[b] # None /\ item[b].status = "leased" /\ ~item[b].expired
    /\ store(b, [item[b] EXCEPT !.expired = TRUE], batch[b])

BatchLedgerNext ==
    \/ \E found \in SUBSET Batches : run_pass(found)
    \/ \E b \in Batches : create_batch(b)
    \/ \E b \in Handled :
        \/ mark_item_succeeded(b) \/ retry_failed_items(b)
        \/ \E retryable \in BOOLEAN : mark_item_failed(b, retryable)
        \/ pause_batch(b) \/ resume_batch(b) \/ cancel_batch(b)
        \/ recover_expired_leases(b) \/ relink_failed_item_for_replay(b) \/ LeaseExpires(b)
        \/ \E p \in Passes : \/ acquire_dispatch_items(p, b) \/ heartbeat_item_lease(p, b)
                             \/ mark_item_waiting_on_report_job(p, b)

\* The scheduler loop starts a pass again and again, and RANDOM() does not pass over a
\* batch that could fill the window for ever.
BatchLedgerFairness ==
    \A b \in Batches :
        SF_batch_ledger_vars(\E found \in SUBSET Batches :
                                 b \in found /\ b \notin scanned /\ run_pass(found))

BatchLedgerSpec ==
    BatchLedgerInit /\ [][BatchLedgerNext]_batch_ledger_vars /\ BatchLedgerFairness

\* One backlogged tenant cannot monopolize the bounded scan window: a tenant that has a
\* runnable batch is scanned, unless its batches stop being runnable.
NoTenantStarves ==
    \A t \in Tenants :
        (\E b \in Batches : Tenant[b] = t /\ runnable(b))
          ~> \/ \E b \in scanned : Tenant[b] = t
             \/ \A b \in Batches : Tenant[b] = t => ~runnable(b)
=============================================================================
