----------------------------- MODULE ReportBatch -----------------------------
(***************************************************************************)
(* One report batch of app/report_batch_orchestrator: the batch row, its   *)
(* item rows, the worker passes that recover, dispatch and execute items   *)
(* (the batch-worker daemon and operator run-once calls, which may overlap)*)
(* and the operator commands on the batch and its items.  A step is one    *)
(* ledger transaction, one job-ledger call or one execution of a linked    *)
(* report job; between two steps of a pass anything else may move.         *)
(*                                                                         *)
(* A report job is kept by what a pass can tell of it: still under way,    *)
(* rendered with its custody open (completed, then archiving), delivered,  *)
(* failed with or without retry, cancelled.  ReportJobPipeline models how  *)
(* an execution gets there; a job of data only ends at completed.  Jobs    *)
(* are named by the idempotency key they are created under: the item's own *)
(* key or a replay key.                                                    *)
(*                                                                         *)
(* lease_expires_at is relative to now, expired once negative.  No caller  *)
(* passes next_retry_at, so a retryable item is always due.  The batch and *)
(* its jobs belong to one tenant.                                          *)
(***************************************************************************)
EXTENDS Integers, FiniteSets

CONSTANTS
    Items,            \* report_batch_item rows of the batch
    Workers,          \* concurrent worker passes
    Operators,        \* concurrent item-replay commands
    ReplayKeys,       \* the Idempotency-Keys operators replay with
    ItemKey,          \* the item_idempotency_key of dispatch
    Tokens,           \* lease tokens
    NoToken, NoKey, NoItem,
    MaxAttempts,      \* BatchRetryPolicy.max_attempts
    MaxActiveItems,   \* BatchDispatchPolicy.max_active_items
    LeaseTicks        \* BatchDispatchPolicy.lease_seconds, in ticks

ASSUME BatchAssumption ==
    /\ Items # {} /\ NoItem \notin Items
    /\ ItemKey \notin ReplayKeys /\ NoKey \notin ReplayKeys \cup {ItemKey}
    /\ NoToken \notin Tokens
    /\ MaxAttempts \in Nat \ {0}
    /\ MaxActiveItems \in Nat \ {0}
    /\ LeaseTicks \in Nat \ {0}

VARIABLES
    batch,    \* the status of the batch row
    item,     \* [Items -> the item row]
    jobs,     \* [Items -> [Keys -> the report job created under that key]]
    rendered, \* the <<item, key>> whose job row records a rendered document
    pass,     \* [Workers -> where a worker pass is]
    replay    \* [Operators -> where an item replay is]

batchVars == <<batch, item, jobs, rendered, pass, replay>>

Keys == ReplayKeys \cup {ItemKey}

BatchStatuses == {"materialized", "running", "paused", "cancelled", "completed",
                  "completed_with_failures", "failed"}

RunnableStatuses == {"materialized", "running"}

ItemStatuses == {"materialized", "leased", "waiting_on_report_job", "succeeded",
                 "failed_retryable", "failed_terminal", "recovery_pending", "cancelled"}

ActiveItemStatuses == {"leased", "waiting_on_report_job"}

Failed == {"failed_retryable", "failed_final"}

\* REPORT_JOB_TRANSITION_ALLOWED_FROM by what the batch tells apart, with the accepted
\* repeat of the current state: what the calls of an execution can make of a job.
NextOutcomes ==
    [absent           |-> {},
     active           |-> {"active", "completed"} \cup Failed,
     completed        |-> {"completed", "archiving", "succeeded"} \cup Failed,
     archiving        |-> {"archiving", "succeeded"} \cup Failed,
     succeeded        |-> {"succeeded"},
     failed_retryable |-> {"failed_retryable", "succeeded"},
     failed_final     |-> {"failed_final", "succeeded"},
     cancelled        |-> {}]

JobOutcomes == DOMAIN NextOutcomes

\* _is_successful_job, over the record an execution returned.
SuccessfulOutcomes == {"completed", "succeeded"}

\* A pass by its stage and what it carries: the items still to handle, the item and job
\* key at hand, the lease token, the capacity it read and the job outcome it saw.
PassAt(pc, todo, i, k, t, limit, seen) ==
    [pc |-> pc, todo |-> todo, item |-> i, key |-> k, token |-> t, limit |-> limit,
     seen |-> seen]

IdlePass == PassAt("idle", {}, NoItem, NoKey, NoToken, 0, "absent")

IdleReplay == [pc |-> "idle", item |-> NoItem, key |-> NoKey]

-----------------------------------------------------------------------------
(* Rows *)

\* reconciled_batch_status; "none" leaves the batch as it is.
reconciled_batch_status(statuses) ==
    IF statuses \subseteq {"succeeded", "cancelled"}
    THEN IF "cancelled" \in statuses THEN "cancelled" ELSE "completed"
    ELSE IF statuses \subseteq {"succeeded", "failed_terminal", "cancelled"}
    THEN "completed_with_failures"
    ELSE IF "failed_retryable" \in statuses /\ statuses \subseteq {"succeeded", "failed_retryable"}
    THEN "failed" ELSE "none"

\* _refresh_batch_status over the item rows as they are after the update.
refreshed(rows) ==
    LET status == reconciled_batch_status({rows[i].status : i \in Items})
    IN  IF batch \in {"paused", "cancelled"} \/ status = "none" THEN batch ELSE status

\* An item update that ends in a refresh of the batch row.
update_items(rows) == item' = rows /\ batch' = refreshed(rows)

\* Mutant: the budget comparison is off by one.
failure_outcome_late(retryable, attempts) ==
    IF retryable /\ attempts <= MaxAttempts THEN "failed_retryable" ELSE "failed_terminal"

\* batch_item_failure_outcome.
failure_outcome(retryable, attempts) ==
    IF retryable /\ attempts < MaxAttempts THEN "failed_retryable" ELSE "failed_terminal"

ItemRow(status, k, attempts, retry, t, expires) ==
    [status |-> status, key |-> k, attempt_count |-> attempts, retry_eligible |-> retry,
     lease_token |-> t, lease_expires_at |-> expires]

\* The row every settlement leaves: the lease columns are cleared.
settled_row(row, status, attempts, retry) ==
    ItemRow(status, row.key, attempts, retry, NoToken, 0)

\* The row of a job; mark_completed and mark_archived leave the document's identity in it.
job_becomes(i, k, outcome) ==
    /\ jobs' = [jobs EXCEPT ![i] = [jobs[i] EXCEPT ![k] = outcome]]
    /\ rendered' = IF outcome \in SuccessfulOutcomes THEN rendered \cup {<<i, k>>} ELSE rendered

\* create_portfolio_review_job: one job per idempotency key.
create_job(i, k) == job_becomes(i, k, IF jobs[i][k] = "absent" THEN "active" ELSE jobs[i][k])

\* mark_item_failed: whatever state the item is in.
mark_item_failed(i, retryable) ==
    LET attempts == item[i].attempt_count + 1
        status == failure_outcome(retryable, attempts)
    IN  update_items([item EXCEPT ![i] =
            settled_row(item[i], status, attempts, status = "failed_retryable")])

-----------------------------------------------------------------------------
(* A worker pass: run_once *)

in_pass(w, pc) == pass[w].pc = pc

pass_goes(w, next) == pass' = [pass EXCEPT ![w] = next]

pass_to(w, pc) == pass_goes(w, PassAt(pc, {}, NoItem, NoKey, NoToken, 0, "absent"))

end_pass(w) == pass_goes(w, IdlePass)

\* The admitted batch is runnable; list_runnable_batch_ids and run_once both ask.
run_once(w) ==
    /\ in_pass(w, "idle")
    /\ batch \in RunnableStatuses
    /\ pass_to(w, "recover")
    /\ UNCHANGED <<batch, item, jobs, rendered, replay>>

\* An operator's run-once may ask to skip the recovery of expired leases.
run_once_unrecovered(w) ==
    /\ in_pass(w, "idle")
    /\ batch \in RunnableStatuses
    /\ pass_to(w, "dispatch")
    /\ UNCHANGED <<batch, item, jobs, rendered, replay>>

\* Mutant: the sweep looks at items that already have a job.
expired_waiting(i) ==
    /\ item[i].status = "waiting_on_report_job"
    /\ item[i].lease_expires_at < 0

expired(i) ==
    /\ item[i].status = "leased"
    /\ item[i].lease_expires_at < 0

\* The effect of recover_expired_leases on the item rows.
recovered_items ==
    [i \in Items |->
        IF expired(i) /\ item[i].key = NoKey
        THEN settled_row(item[i], "recovery_pending", item[i].attempt_count, TRUE)
        ELSE item[i]]

recover_expired_leases(w) ==
    /\ in_pass(w, "recover")
    /\ update_items(recovered_items)
    /\ pass_to(w, "dispatch")
    /\ UNCHANGED <<jobs, rendered, replay>>

\* _runtime_load_for_batch and evaluate_back_pressure: the capacity is read here and used
\* by the lease below; load elsewhere may refuse dispatch too.
evaluate_back_pressure(w) ==
    LET active == Cardinality({i \in Items : item[i].status \in ActiveItemStatuses})
    IN  /\ in_pass(w, "dispatch")
        /\ \/ /\ active < MaxActiveItems
              /\ pass_goes(w, PassAt("acquire", {}, NoItem, NoKey, NoToken,
                                     MaxActiveItems - active, "absent"))
           \/ pass_to(w, "list")
        /\ UNCHANGED <<batch, item, jobs, rendered, replay>>

\* The WHERE clause of acquire_dispatch_items.
dispatchable(i) ==
    /\ item[i].key = NoKey
    /\ batch \in RunnableStatuses
    /\ \/ item[i].status \in {"materialized", "recovery_pending"}
       \/ expired(i)
       \/ item[i].status = "failed_retryable" /\ item[i].retry_eligible

fresh_token(t) ==
    /\ \A i \in Items : item[i].lease_token # t
    /\ \A w \in Workers : pass[w].token # t

leased_row(row, t) ==
    ItemRow("leased", row.key, row.attempt_count, row.retry_eligible, t, LeaseTicks)

\* acquire_dispatch_items: up to the limit are leased under one token (in item order, of
\* which the model keeps only the number), and the batch starts running.
acquire_dispatch_items(w) ==
    LET ready == {i \in Items : dispatchable(i)}
    IN  /\ in_pass(w, "acquire")
        /\ \/ /\ ready = {}
              /\ pass_to(w, "list")
              /\ UNCHANGED <<batch, item>>
           \/ \E S \in SUBSET ready, t \in Tokens :
                /\ Cardinality(S) = IF Cardinality(ready) < pass[w].limit
                                    THEN Cardinality(ready) ELSE pass[w].limit
                /\ S # {}
                /\ fresh_token(t)
                /\ item' = [i \in Items |-> IF i \in S THEN leased_row(item[i], t) ELSE item[i]]
                /\ batch' = IF batch = "materialized" THEN "running" ELSE batch
                /\ pass_goes(w, PassAt("create", S, NoItem, NoKey, t, 0, "absent"))
        /\ UNCHANGED <<jobs, rendered, replay>>

\* One leased item: its request is refused for good, or its job is created (or found).
create_item_job(w) ==
    /\ in_pass(w, "create")
    /\ \/ /\ pass[w].todo = {}
          /\ pass_to(w, "list")
          /\ UNCHANGED <<batch, item, jobs, rendered>>
       \/ \E i \in pass[w].todo :
            \/ /\ mark_item_failed(i, FALSE)
               /\ pass_goes(w, PassAt("create", pass[w].todo \ {i}, NoItem, NoKey,
                                      pass[w].token, 0, "absent"))
               /\ UNCHANGED <<jobs, rendered>>
            \/ /\ create_job(i, ItemKey)
               /\ pass_goes(w, PassAt("link", pass[w].todo \ {i}, i, NoKey,
                                      pass[w].token, 0, "absent"))
               /\ UNCHANGED <<batch, item>>
    /\ UNCHANGED replay

\* The fence of mark_item_waiting_on_report_job.
lease_owned(w, i) ==
    /\ item[i].status = "leased"
    /\ item[i].lease_token = pass[w].token

\* mark_item_waiting_on_report_job; a lost lease raises out of the pass.
mark_item_waiting(w) ==
    LET i == pass[w].item
    IN  /\ in_pass(w, "link")
        /\ \/ /\ lease_owned(w, i)
              /\ item' = [item EXCEPT ![i] =
                    ItemRow("waiting_on_report_job", ItemKey, item[i].attempt_count,
                            item[i].retry_eligible, item[i].lease_token,
                            item[i].lease_expires_at)]
              /\ pass_goes(w, PassAt("create", pass[w].todo, NoItem, NoKey,
                                     pass[w].token, 0, "absent"))
           \/ ~lease_owned(w, i) /\ end_pass(w) /\ UNCHANGED item
        /\ UNCHANGED <<batch, jobs, rendered, replay>>

waiting(i) == item[i].status = "waiting_on_report_job" /\ item[i].key # NoKey

\* _execute_waiting_items lists what waits now.
list_waiting_items(w) ==
    /\ in_pass(w, "list")
    /\ pass_goes(w, PassAt("execute", {i \in Items : waiting(i)}, NoItem, NoKey, NoToken, 0,
                           "absent"))
    /\ UNCHANGED <<batch, item, jobs, rendered, replay>>

\* execute_item loads the item again and execute_job its job; an item that no longer waits
\* raises out of the pass.
execute_item(w) ==
    /\ in_pass(w, "execute")
    /\ \/ pass[w].todo = {} /\ end_pass(w)
       \/ \E i \in pass[w].todo :
            \/ /\ waiting(i)
               /\ pass_goes(w, PassAt("await", pass[w].todo \ {i}, i, item[i].key, NoToken, 0,
                                      jobs[i][item[i].key]))
            \/ ~waiting(i) /\ end_pass(w)
    /\ UNCHANGED <<batch, item, jobs, rendered, replay>>

\* execute_job on the linked job, whatever other executions do to it meanwhile: its calls
\* move the row, each handing back the record it left, until it returns its last record or
\* raises.  An execution that has to wait for the owner returns the record it holds.
execute_job(w) ==
    LET i == pass[w].item
        k == pass[w].key
    IN  /\ in_pass(w, "await")
        /\ \/ /\ pass[w].seen \in {"active", "completed", "archiving"}
              /\ \E r \in NextOutcomes[jobs[i][k]] :
                    /\ r = "succeeded" => pass[w].seen # "active"
                    /\ job_becomes(i, k, r)
                    /\ pass_goes(w, PassAt("await", pass[w].todo, i, k, NoToken, 0, r))
           \/ /\ \E seen \in {pass[w].seen, "raised"} :
                    pass_goes(w, PassAt("reconcile", pass[w].todo, i, k, NoToken, 0, seen))
              /\ UNCHANGED <<jobs, rendered>>
        /\ UNCHANGED <<batch, item, replay>>

next_item(w) ==
    pass_goes(w, PassAt("execute", pass[w].todo, NoItem, NoKey, NoToken, 0, "absent"))

\* Mutant: the executed job is not compared with the linked one.
success_owned_by_status(w) == item[pass[w].item].status = "waiting_on_report_job"

\* The fence of mark_item_succeeded: the item still waits on the job that was executed.
success_owned(w) ==
    /\ item[pass[w].item].status = "waiting_on_report_job"
    /\ item[pass[w].item].key = pass[w].key

\* The item follows the record, whether or not the execution waits on its owner
\* (waiting_on_owner is not read): a rendered document whose custody is open is a success.
\* A job still under way, in archiving, or cancelled leaves the item waiting.
reconcile_item(w) ==
    LET i == pass[w].item
        seen == pass[w].seen
    IN  /\ in_pass(w, "reconcile")
        /\ \/ /\ seen \in SuccessfulOutcomes /\ success_owned(w)
              /\ update_items([item EXCEPT ![i] =
                    settled_row(item[i], "succeeded", item[i].attempt_count, FALSE)])
              /\ next_item(w)
           \/ /\ seen \in SuccessfulOutcomes /\ ~success_owned(w)
              /\ end_pass(w)
              /\ UNCHANGED <<batch, item>>
           \/ /\ seen \in Failed \cup {"raised"}
              /\ mark_item_failed(i, seen # "failed_final")
              /\ next_item(w)
           \/ /\ seen \in {"active", "archiving", "cancelled"}
              /\ next_item(w)
              /\ UNCHANGED <<batch, item>>
        /\ UNCHANGED <<jobs, rendered, replay>>

\* The process dies, or a database error ends the pass.
pass_dies(w) ==
    /\ ~in_pass(w, "idle")
    /\ end_pass(w)
    /\ UNCHANGED <<batch, item, jobs, rendered, replay>>

-----------------------------------------------------------------------------
(* Operator commands *)

pause_batch ==
    /\ batch \in RunnableStatuses
    /\ batch' = "paused"
    /\ UNCHANGED <<item, jobs, rendered, pass, replay>>

resume_batch ==
    /\ batch = "paused"
    /\ batch' = "materialized"
    /\ UNCHANGED <<item, jobs, rendered, pass, replay>>

\* Mutant: recovered items are forgotten.
cancellable_item_leased(i) ==
    /\ item[i].key = NoKey
    /\ item[i].status \in {"materialized", "failed_retryable", "leased"}

\* BATCH_ITEM_CANCEL_ELIGIBLE_STATUSES, for items without a job.
cancellable_item(i) ==
    /\ item[i].key = NoKey
    /\ item[i].status \in {"materialized", "recovery_pending", "failed_retryable", "leased"}

cancel_batch ==
    /\ item' = [i \in Items |->
                  IF cancellable_item(i)
                  THEN settled_row(item[i], "cancelled", item[i].attempt_count, FALSE)
                  ELSE item[i]]
    /\ batch' = IF batch \in {"completed", "completed_with_failures", "failed"}
                THEN batch ELSE "cancelled"
    /\ UNCHANGED <<jobs, rendered, pass, replay>>

\* retry_failed_items: only items that never got a job are reset.
retry_failed_items ==
    /\ update_items([i \in Items |->
          IF /\ item[i].status = "failed_retryable" /\ item[i].key = NoKey
             /\ item[i].retry_eligible /\ item[i].attempt_count < MaxAttempts
          THEN settled_row(item[i], "materialized", item[i].attempt_count, FALSE)
          ELSE item[i]])
    /\ UNCHANGED <<jobs, rendered, pass, replay>>

\* The recover-expired-leases command, outside a pass and whatever the batch status.
operator_recovers ==
    /\ update_items(recovered_items)
    /\ UNCHANGED <<jobs, rendered, pass, replay>>

\* replay_item: the item and its linked job are read and found replayable (assert_replay_eligible).
replay_item(o) ==
    /\ replay[o].pc = "idle"
    /\ \E i \in Items, k \in ReplayKeys :
        /\ item[i].key # NoKey
        /\ item[i].status = "failed_retryable" /\ item[i].retry_eligible
        /\ jobs[i][item[i].key] = "failed_retryable"
        /\ replay' = [replay EXCEPT ![o] = [pc |-> "create", item |-> i, key |-> k]]
    /\ UNCHANGED <<batch, item, jobs, rendered, pass>>

\* The replay job is created or found under the replay key.
create_replay_job(o) ==
    LET i == replay[o].item
        k == replay[o].key
    IN  /\ replay[o].pc = "create"
        /\ create_job(i, k)
        /\ replay' = [replay EXCEPT ![o] = [pc |-> "relink", item |-> i, key |-> k]]
        /\ UNCHANGED <<batch, item, pass>>

\* The WHERE clause of relink_failed_item_for_replay.
relinkable(i) ==
    /\ item[i].status = "failed_retryable" /\ item[i].retry_eligible
    /\ item[i].lease_token = NoToken
    /\ item[i].attempt_count < MaxAttempts

\* relink_failed_item_for_replay, with its refresh; otherwise the command is refused.
relink_failed_item(o) ==
    LET i == replay[o].item
    IN  /\ replay[o].pc = "relink"
        /\ \/ /\ relinkable(i)
              /\ update_items([item EXCEPT ![i] =
                    ItemRow("waiting_on_report_job", replay[o].key, item[i].attempt_count,
                            FALSE, NoToken, 0)])
           \/ ~relinkable(i) /\ UNCHANGED <<batch, item>>
        /\ replay' = [replay EXCEPT ![o] = IdleReplay]
        /\ UNCHANGED <<jobs, rendered, pass>>

replay_dies(o) ==
    /\ replay[o].pc # "idle"
    /\ replay' = [replay EXCEPT ![o] = IdleReplay]
    /\ UNCHANGED <<batch, item, jobs, rendered, pass>>

\* cancel_job on a report job of the batch.
client_cancels_job(i, k) ==
    /\ jobs[i][k] \in {"active"} \cup Failed
    /\ job_becomes(i, k, "cancelled")
    /\ UNCHANGED <<batch, item, pass, replay>>

\* A replay of the job itself adopts a document the archive had committed after all.
job_resolved(i, k) ==
    /\ jobs[i][k] = "failed_retryable" /\ <<i, k>> \in rendered
    /\ job_becomes(i, k, "succeeded")
    /\ UNCHANGED <<batch, item, pass, replay>>

aged_row(row) ==
    ItemRow(row.status, row.key, row.attempt_count, row.retry_eligible, row.lease_token,
            IF row.status = "leased" /\ row.lease_expires_at >= 0
            THEN row.lease_expires_at - 1 ELSE row.lease_expires_at)

tick ==
    /\ item' = [i \in Items |-> aged_row(item[i])]
    /\ UNCHANGED <<batch, jobs, rendered, pass, replay>>

-----------------------------------------------------------------------------

\* create_batch commits the batch with all its items.
BatchInit ==
    /\ batch = "materialized"
    /\ item = [i \in Items |-> ItemRow("materialized", NoKey, 0, FALSE, NoToken, 0)]
    /\ jobs = [i \in Items |-> [k \in Keys |-> "absent"]]
    /\ rendered = {}
    /\ pass = [w \in Workers |-> IdlePass]
    /\ replay = [o \in Operators |-> IdleReplay]

\* The steps a live pass takes by itself.
PassStep(w) ==
    \/ recover_expired_leases(w) \/ evaluate_back_pressure(w) \/ acquire_dispatch_items(w)
    \/ create_item_job(w) \/ mark_item_waiting(w) \/ list_waiting_items(w)
    \/ execute_item(w) \/ execute_job(w) \/ reconcile_item(w)

BatchNext ==
    \/ \E w \in Workers :
        run_once(w) \/ run_once_unrecovered(w) \/ PassStep(w) \/ pass_dies(w)
    \/ pause_batch \/ resume_batch \/ cancel_batch \/ retry_failed_items \/ operator_recovers
    \/ \E o \in Operators :
        replay_item(o) \/ create_replay_job(o) \/ relink_failed_item(o) \/ replay_dies(o)
    \/ \E i \in Items, k \in Keys : client_cancels_job(i, k) \/ job_resolved(i, k)
    \/ tick

BatchSpec == BatchInit /\ [][BatchNext]_batchVars

\* The daemon starts a pass of its own again and again while the batch is runnable, whatever
\* operators run besides; a pass that is not interrupted goes on, not every pass dies before
\* its first transaction, and time passes.
BatchFairness ==
    /\ \A w \in Workers :
        /\ SF_batchVars(run_once(w))
        /\ WF_batchVars(PassStep(w))
        /\ SF_batchVars(recover_expired_leases(w))
    /\ WF_batchVars(tick)

FairBatchSpec == BatchSpec /\ BatchFairness

-----------------------------------------------------------------------------
(* Properties *)

\* However passes overlap with replays that relink the item meanwhile, an item is reported
\* succeeded only under a job of its own that rendered its document (the fence of
\* mark_item_succeeded): never for what another job, or another item's job, achieved.
SucceededItemWasRendered ==
    \A i \in Items :
        item[i].status = "succeeded" => item[i].key # NoKey /\ <<i, item[i].key>> \in rendered

\* A batch with a verdict, or a cancelled one, holds nothing a pass could still dispatch:
\* refresh, cancellation, expiry recovery and a late lease never leave such an item behind.
ClosedBatchHoldsNoDispatch ==
    batch \in {"completed", "completed_with_failures", "failed", "cancelled"} =>
        \A i \in Items : item[i].status \notin {"materialized", "recovery_pending", "leased"}

\* The budget is enforced where work restarts: an item waits on a job, or invites a replay,
\* only with attempts left.
RestartWithinBudget ==
    \A i \in Items :
        item[i].status \in {"waiting_on_report_job", "failed_retryable"}
            => item[i].attempt_count < MaxAttempts

\* A lease is not a dead end: whatever becomes of the pass that took it, the item is
\* dispatched, refused, recovered or cancelled, unless an operator pauses the batch.
LeasedItemMovesOn ==
    \A i \in Items :
        item[i].status = "leased" ~> item[i].status # "leased" \/ batch = "paused"

\* ":cancel ... Cancels batch items that have not created report jobs".
CancelledItemHasNoJob ==
    \A i \in Items :
        item[i].status = "cancelled" => \A k \in Keys : jobs[i][k] = "absent"

\* ":pause ... already-created report jobs continue under their own job lifecycle": a job
\* an item of a paused batch waits on ends without the batch being resumed.
PausedBatchJobsContinue ==
    \A i \in Items :
        batch = "paused" /\ waiting(i) /\ jobs[i][item[i].key] = "active"
            ~> batch # "paused" \/ ~waiting(i) \/ jobs[i][item[i].key] # "active"
=============================================================================
