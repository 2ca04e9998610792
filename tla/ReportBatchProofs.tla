-------------------------- MODULE ReportBatchProofs --------------------------
(***************************************************************************)
(* Proofs about one report batch for every set of items, overlapping worker*)
(* passes and replay commands, and every retry and dispatch policy.        *)
(***************************************************************************)
EXTENDS ReportBatch, TLAPS

(* The inductive invariant *)

\* The items a pass may still dispatch.
Undispatched == {"materialized", "recovery_pending", "leased"}

Closed == {"completed", "completed_with_failures", "failed", "cancelled"}

\* An item has no job until it is linked and keeps one afterwards, fails retryably only
\* once it has one, and is worked on only with attempts left.
RowOK(r) ==
    /\ r.key \in Keys \cup {NoKey}
    /\ r.attempt_count \in Nat
    /\ r.status \in Undispatched => r.key = NoKey
    /\ r.status \in {"waiting_on_report_job", "failed_retryable", "succeeded"} => r.key # NoKey
    /\ r.status \in Undispatched \cup {"waiting_on_report_job", "failed_retryable"}
         => r.attempt_count < MaxAttempts

\* A pass executes only jobs of linked items, and a success it saw was rendered.
PassOK(p, rows, done) ==
    /\ p.todo \subseteq Items
    /\ p.pc = "link" => p.item \in Items
    /\ p.pc \in {"await", "reconcile"} =>
         p.item \in Items /\ p.key \in Keys /\ rows[p.item].key # NoKey
    /\ p.pc \in {"await", "reconcile"} /\ p.seen \in SuccessfulOutcomes =>
         <<p.item, p.key>> \in done

ReplayOK(r) == r.pc \in {"create", "relink"} => r.item \in Items /\ r.key \in ReplayKeys

Shape ==
    /\ batch \in BatchStatuses
    /\ item = [i \in Items |-> item[i]]
    /\ jobs \in [Items -> [Keys -> JobOutcomes]]
    /\ \A i \in Items, k \in Keys : jobs[i][k] \in SuccessfulOutcomes => <<i, k>> \in rendered
    /\ pass = [w \in Workers |-> pass[w]]
    /\ replay = [o \in Operators |-> replay[o]]

RowsOK == \A i \in Items : RowOK(item[i])

PassesOK == \A w \in Workers : PassOK(pass[w], item, rendered)

ReplaysOK == \A o \in Operators : ReplayOK(replay[o])

\* Neither fence is inductive alone: the verdict needs that a retryable item has a job (so
\* :retry-failed has nothing to reopen), which needs what a pass carries across its awaits.
BInv ==
    /\ Shape
    /\ RowsOK
    /\ PassesOK
    /\ ReplaysOK
    /\ SucceededItemWasRendered
    /\ ClosedBatchHoldsNoDispatch

-----------------------------------------------------------------------------
(* Facts about one step *)

\* A refresh that gives a verdict has seen no item that could still be dispatched.
LEMMA RefreshCloses ==
    ASSUME NEW rows, batch \in BatchStatuses, refreshed(rows) \in Closed,
           refreshed(rows) # batch
    PROVE  \A i \in Items : rows[i].status \notin Undispatched
  <1> DEFINE S == {rows[i].status : i \in Items}
  <1>1. reconciled_batch_status(S) \in Closed
    BY DEF refreshed
  <1>2. S \subseteq {"succeeded", "failed_terminal", "cancelled", "failed_retryable"}
    <2> HIDE DEF S
    <2> QED BY <1>1 DEF reconciled_batch_status, Closed
  <1>3. QED
    BY <1>2 DEF Undispatched

\* An update of the items that adds nothing to dispatch keeps a verdict truthful.
LEMMA UpdateKeepsVerdict ==
    ASSUME batch \in BatchStatuses, ClosedBatchHoldsNoDispatch, NEW rows, update_items(rows),
           \A i \in Items : rows[i].status \in Undispatched => item[i].status \in Undispatched
    PROVE  ClosedBatchHoldsNoDispatch' /\ batch' \in BatchStatuses
  <1>1. batch' \in BatchStatuses
    BY DEF update_items, refreshed, reconciled_batch_status, BatchStatuses
  <1>2. CASE batch' = batch
    BY <1>1, <1>2 DEF update_items, ClosedBatchHoldsNoDispatch, Undispatched
  <1>3. CASE batch' # batch
    BY <1>1, <1>3, RefreshCloses DEF update_items, ClosedBatchHoldsNoDispatch, Undispatched, Closed
  <1>4. QED
    BY <1>1, <1>2, <1>3

\* The rows a failure leaves.
LEMMA FailedRow ==
    ASSUME NEW i \in Items, NEW r \in BOOLEAN, RowOK(item[i]), r => item[i].key # NoKey
    PROVE  LET attempts == item[i].attempt_count + 1
               status == failure_outcome(r, attempts)
               row == settled_row(item[i], status, attempts, status = "failed_retryable")
           IN  /\ RowOK(row)
               /\ row.key = item[i].key
               /\ row.status \in {"failed_retryable", "failed_terminal"}
  BY BatchAssumption DEF failure_outcome, settled_row, ItemRow, RowOK, Undispatched

\* What carries over when rows keep their job and nothing rendered is forgotten.
LEMMA Carried ==
    ASSUME PassesOK, NEW w \in Workers, NEW rows, NEW done,
           \A i \in Items : item[i].key # NoKey => rows[i].key # NoKey,
           rendered \subseteq done
    PROVE  PassOK(pass[w], rows, done)
  BY DEF PassesOK, PassOK

\* One pass moves on, the others are left alone.
LEMMA PassMoves ==
    ASSUME Shape, PassesOK, NEW w \in Workers, NEW next, pass_goes(w, next),
           PassOK(next, item', rendered'),
           \A i \in Items : item[i].key # NoKey => item'[i].key # NoKey,
           rendered \subseteq rendered'
    PROVE  PassesOK' /\ pass' = [v \in Workers |-> pass'[v]]
  <1>1. \A v \in Workers : PassOK(pass[v], item', rendered')
    BY Carried
  <1>2. \A v \in Workers : pass'[v] = IF v = w THEN next ELSE pass[v]
    BY DEF Shape, pass_goes
  <1>3. pass' = [v \in Workers |-> pass'[v]]
    BY DEF Shape, pass_goes
  <1>4. \A v \in Workers : PassOK(pass'[v], item', rendered')
    BY <1>1, <1>2
  <1>5. QED
    BY <1>3, <1>4 DEF PassesOK

\* No pass moves.
LEMMA PassesStay ==
    ASSUME Shape, PassesOK, pass' = pass,
           \A i \in Items : item[i].key # NoKey => item'[i].key # NoKey,
           rendered \subseteq rendered'
    PROVE  PassesOK'
  <1>1. \A v \in Workers : PassOK(pass[v], item', rendered')
    BY Carried
  <1>2. QED
    BY <1>1 DEF PassesOK

\* Whatever becomes of a job, the jobs stay typed and what was rendered is remembered.
LEMMA JobMoves ==
    ASSUME Shape, SucceededItemWasRendered, RowsOK, NEW i \in Items, NEW k \in Keys,
           NEW r \in JobOutcomes, job_becomes(i, k, r)
    PROVE  /\ jobs' \in [Items -> [Keys -> JobOutcomes]]
           /\ \A x \in Items, y \in Keys :
                jobs'[x][y] \in SuccessfulOutcomes => <<x, y>> \in rendered'
           /\ rendered \subseteq rendered'
  BY DEF Shape, job_becomes

\* What succeeded items rest on survives when no row becomes succeeded or changes its job.
LEMMA RenderStays ==
    ASSUME SucceededItemWasRendered, RowsOK,
           \A i \in Items : item'[i].status = "succeeded" =>
                item[i].status = "succeeded" /\ item'[i].key = item[i].key,
           rendered \subseteq rendered'
    PROVE  SucceededItemWasRendered'
  BY DEF SucceededItemWasRendered, RowsOK, RowOK

\* An update_items step over rows that stay well formed, keep their jobs, and neither
\* reopen dispatch nor invent a success.
LEMMA ItemsUpdated ==
    ASSUME BInv, NEW rows, update_items(rows), rows = [i \in Items |-> rows[i]],
           \A i \in Items : RowOK(rows[i]),
           \A i \in Items : rows[i].status \in Undispatched => item[i].status \in Undispatched,
           \A i \in Items : rows[i].status = "succeeded" =>
                item[i].status = "succeeded" /\ rows[i].key = item[i].key,
           UNCHANGED <<jobs, rendered>>
    PROVE  /\ RowsOK' /\ SucceededItemWasRendered' /\ ClosedBatchHoldsNoDispatch'
           /\ batch' \in BatchStatuses
           /\ item' = [i \in Items |-> item'[i]]
           /\ item' = rows
  <1>1. item' = rows
    BY DEF update_items
  <1>2. RowsOK'
    BY <1>1 DEF RowsOK
  <1>3. SucceededItemWasRendered'
    BY <1>1, RenderStays DEF BInv
  <1>4. ClosedBatchHoldsNoDispatch' /\ batch' \in BatchStatuses
    BY UpdateKeepsVerdict DEF BInv, Shape
  <1>5. QED
    BY <1>1, <1>2, <1>3, <1>4

\* A step that only moves a pass.
LEMMA PassOnly ==
    ASSUME BInv, NEW w \in Workers, NEW next, pass_goes(w, next), PassOK(next, item, rendered),
           UNCHANGED <<batch, item, jobs, rendered, replay>>
    PROVE  BInv'
  <1>1. PassesOK' /\ pass' = [v \in Workers |-> pass'[v]]
    BY PassMoves DEF BInv
  <1>2. Shape'
    BY <1>1 DEF BInv, Shape
  <1>3. RowsOK' /\ ReplaysOK' /\ SucceededItemWasRendered' /\ ClosedBatchHoldsNoDispatch'
    BY DEF BInv, RowsOK, ReplaysOK, SucceededItemWasRendered, ClosedBatchHoldsNoDispatch
  <1>4. QED
    BY <1>1, <1>2, <1>3 DEF BInv

\* A pass at a stage that carries nothing.
LEMMA EmptyPassOK ==
    ASSUME NEW pc \in {"idle", "recover", "dispatch", "list", "acquire"}, NEW limit,
           NEW rows, NEW done
    PROVE  PassOK(PassAt(pc, {}, NoItem, NoKey, NoToken, limit, "absent"), rows, done)
  BY DEF PassOK, PassAt

\* A pass at a stage that carries leased or listed items.
LEMMA BusyPassOK ==
    ASSUME NEW pc \in {"create", "execute"}, NEW todo, todo \subseteq Items, NEW t,
           NEW rows, NEW done
    PROVE  PassOK(PassAt(pc, todo, NoItem, NoKey, t, 0, "absent"), rows, done)
  BY DEF PassOK, PassAt

-----------------------------------------------------------------------------
(* One lemma per action *)

\* Steps of a pass that read and decide.
LEMMA ReadingSteps ==
    ASSUME BInv, NEW w \in Workers,
           \/ run_once(w) \/ run_once_unrecovered(w)
           \/ evaluate_back_pressure(w) \/ list_waiting_items(w)
           \/ execute_item(w) \/ pass_dies(w)
    PROVE  BInv'
  <1>1. CASE run_once(w) \/ run_once_unrecovered(w)
    BY <1>1, EmptyPassOK, PassOnly DEF run_once, run_once_unrecovered, pass_to
  <1>2. CASE evaluate_back_pressure(w)
    <2> DEFINE active == Cardinality({i \in Items : item[i].status \in ActiveItemStatuses})
    <2>1. CASE pass_goes(w, PassAt("acquire", {}, NoItem, NoKey, NoToken,
                                   MaxActiveItems - active, "absent"))
      <3> HIDE DEF active
      <3> QED BY <1>2, <2>1, EmptyPassOK, PassOnly DEF evaluate_back_pressure
    <2>2. CASE pass_to(w, "list")
      BY <1>2, <2>2, EmptyPassOK, PassOnly DEF evaluate_back_pressure, pass_to
    <2>3. QED
      BY <1>2, <2>1, <2>2 DEF evaluate_back_pressure
  <1>3. CASE list_waiting_items(w)
    <2> DEFINE todo == {i \in Items : waiting(i)}
    <2>1. todo \subseteq Items
      OBVIOUS
    <2>2. pass_goes(w, PassAt("execute", todo, NoItem, NoKey, NoToken, 0, "absent"))
      BY <1>3 DEF list_waiting_items
    <2> HIDE DEF todo
    <2>3. QED
      BY <1>3, <2>1, <2>2, BusyPassOK, PassOnly DEF list_waiting_items
  <1>4. CASE execute_item(w)
    <2>1. CASE end_pass(w)
      BY <1>4, <2>1, EmptyPassOK, PassOnly DEF execute_item, end_pass, IdlePass
    <2>2. CASE \E i \in pass[w].todo :
                  /\ waiting(i)
                  /\ pass_goes(w, PassAt("await", pass[w].todo \ {i}, i, item[i].key,
                                         NoToken, 0, jobs[i][item[i].key]))
      <3>1. PICK i \in pass[w].todo :
                  /\ waiting(i)
                  /\ pass_goes(w, PassAt("await", pass[w].todo \ {i}, i, item[i].key,
                                         NoToken, 0, jobs[i][item[i].key]))
        BY <2>2
      <3>2. i \in Items /\ pass[w].todo \subseteq Items
        BY DEF BInv, PassesOK, PassOK
      <3>3. item[i].key \in Keys
        BY <3>1, <3>2 DEF BInv, RowsOK, RowOK, waiting
      <3>4. item[i].key # NoKey
        BY <3>1 DEF waiting
      <3>5. PassOK(PassAt("await", pass[w].todo \ {i}, i, item[i].key, NoToken, 0,
                          jobs[i][item[i].key]),
                   item, rendered)
        BY <3>2, <3>3, <3>4 DEF PassOK, PassAt, BInv, Shape
      <3>6. QED
        BY <1>4, <3>1, <3>5, PassOnly DEF execute_item
    <2>3. QED
      BY <1>4, <2>1, <2>2 DEF execute_item
  <1>5. CASE pass_dies(w)
    BY <1>5, EmptyPassOK, PassOnly DEF pass_dies, end_pass, IdlePass
  <1>6. QED
    BY <1>1, <1>2, <1>3, <1>4, <1>5

\* The sweep of expired leases leaves well-formed rows and nothing new to dispatch.
LEMMA RecoveredRows ==
    ASSUME BInv
    PROVE  /\ recovered_items = [i \in Items |-> recovered_items[i]]
           /\ \A i \in Items : RowOK(recovered_items[i])
           /\ \A i \in Items : recovered_items[i].status \in Undispatched
                                  => item[i].status \in Undispatched
           /\ \A i \in Items : recovered_items[i].status = "succeeded" =>
                item[i].status = "succeeded" /\ recovered_items[i].key = item[i].key
           /\ \A i \in Items : recovered_items[i].key = item[i].key
  BY BatchAssumption DEF BInv, RowsOK, RowOK, recovered_items, expired, settled_row, ItemRow,
     Undispatched

\* recover_expired_leases, in a pass and as an operator command.
LEMMA RecoverySteps ==
    ASSUME BInv,
           \/ \E w \in Workers : recover_expired_leases(w)
           \/ operator_recovers
    PROVE  BInv'
  <1>1. update_items(recovered_items) /\ UNCHANGED <<jobs, rendered>> /\ replay' = replay
    BY DEF recover_expired_leases, operator_recovers
  <1>2. /\ RowsOK' /\ SucceededItemWasRendered' /\ ClosedBatchHoldsNoDispatch'
        /\ batch' \in BatchStatuses
        /\ item' = [i \in Items |-> item'[i]]
        /\ item' = recovered_items
    <2> HIDE DEF BInv
    <2> QED BY <1>1, RecoveredRows, ItemsUpdated
  <1>3. \A i \in Items : item'[i].key = item[i].key
    BY <1>2, RecoveredRows
  <1>4. PassesOK' /\ pass' = [v \in Workers |-> pass'[v]]
    <2>1. CASE \E w \in Workers : recover_expired_leases(w)
      BY <1>1, <1>3, <2>1, EmptyPassOK, PassMoves DEF BInv, recover_expired_leases, pass_to
    <2>2. CASE operator_recovers
      BY <1>1, <1>3, <2>2, PassesStay DEF BInv, Shape, operator_recovers
    <2>3. QED
      BY <2>1, <2>2
  <1>5. QED
    BY <1>1, <1>2, <1>4 DEF BInv, Shape, ReplaysOK

\* One row is replaced and the batch refreshed.
LEMMA RowUpdated ==
    ASSUME BInv, NEW i \in Items, NEW row, update_items([item EXCEPT ![i] = row]),
           RowOK(row), row.key # NoKey \/ item[i].key = NoKey,
           row.status \notin Undispatched, row.status # "succeeded",
           UNCHANGED <<jobs, rendered>>
    PROVE  /\ RowsOK' /\ SucceededItemWasRendered' /\ ClosedBatchHoldsNoDispatch'
           /\ batch' \in BatchStatuses
           /\ item' = [x \in Items |-> item'[x]]
           /\ \A x \in Items : item[x].key # NoKey => item'[x].key # NoKey
  <1> DEFINE rows == [item EXCEPT ![i] = row]
  <1>1. \A x \in Items : rows[x] = IF x = i THEN row ELSE item[x]
    BY DEF BInv, Shape
  <1>2. rows = [x \in Items |-> rows[x]]
    BY DEF BInv, Shape
  <1>3. update_items(rows)
    OBVIOUS
  <1> HIDE DEF rows
  <1>4. \A x \in Items : RowOK(rows[x])
    BY <1>1 DEF BInv, RowsOK
  <1>5. /\ RowsOK' /\ SucceededItemWasRendered' /\ ClosedBatchHoldsNoDispatch'
        /\ batch' \in BatchStatuses
        /\ item' = [x \in Items |-> item'[x]]
        /\ item' = rows
    <2> HIDE DEF BInv
    <2> QED BY <1>1, <1>2, <1>3, <1>4, ItemsUpdated
  <1>6. QED
    BY <1>1, <1>5

\* mark_item_failed, whatever state the item is in.
LEMMA ItemFails ==
    ASSUME BInv, NEW i \in Items, NEW r \in BOOLEAN, mark_item_failed(i, r),
           r => item[i].key # NoKey, UNCHANGED <<jobs, rendered>>
    PROVE  /\ RowsOK' /\ SucceededItemWasRendered' /\ ClosedBatchHoldsNoDispatch'
           /\ batch' \in BatchStatuses
           /\ item' = [x \in Items |-> item'[x]]
           /\ \A x \in Items : item[x].key # NoKey => item'[x].key # NoKey
  <1> DEFINE attempts == item[i].attempt_count + 1
             status == failure_outcome(r, attempts)
             row == settled_row(item[i], status, attempts, status = "failed_retryable")
  <1>1. RowOK(item[i])
    BY DEF BInv, RowsOK
  <1>2. RowOK(row) /\ row.key = item[i].key /\ row.status \in {"failed_retryable", "failed_terminal"}
    BY <1>1, FailedRow
  <1>3. update_items([item EXCEPT ![i] = row])
    BY DEF mark_item_failed
  <1> HIDE DEF row, BInv
  <1>4. row.status \notin Undispatched /\ row.status # "succeeded"
    BY <1>2 DEF Undispatched
  <1>5. QED
    BY <1>2, <1>3, <1>4, RowUpdated

\* A pass that changed the rows moves on.
LEMMA PassAndRows ==
    ASSUME BInv, NEW w \in Workers, NEW next, pass_goes(w, next), PassOK(next, item', rendered),
           /\ RowsOK' /\ SucceededItemWasRendered' /\ ClosedBatchHoldsNoDispatch'
           /\ batch' \in BatchStatuses
           /\ item' = [x \in Items |-> item'[x]]
           /\ \A x \in Items : item[x].key # NoKey => item'[x].key # NoKey,
           UNCHANGED <<jobs, rendered, replay>>
    PROVE  BInv'
  <1>1. PassesOK' /\ pass' = [v \in Workers |-> pass'[v]]
    BY PassMoves DEF BInv
  <1>2. Shape' /\ ReplaysOK'
    BY <1>1 DEF BInv, Shape, ReplaysOK
  <1>3. QED
    BY <1>1, <1>2 DEF BInv

\* A pass that changed a job moves on.
LEMMA PassAndJob ==
    ASSUME BInv, NEW w \in Workers, NEW next, pass_goes(w, next), PassOK(next, item, rendered'),
           NEW i \in Items, NEW k \in Keys, NEW r \in JobOutcomes, job_becomes(i, k, r),
           UNCHANGED <<batch, item, replay>>
    PROVE  BInv'
  <1>1. /\ jobs' \in [Items -> [Keys -> JobOutcomes]]
        /\ \A x \in Items, y \in Keys :
              jobs'[x][y] \in SuccessfulOutcomes => <<x, y>> \in rendered'
        /\ rendered \subseteq rendered'
    BY JobMoves DEF BInv
  <1>2. PassesOK' /\ pass' = [v \in Workers |-> pass'[v]]
    BY <1>1, PassMoves DEF BInv
  <1>3. SucceededItemWasRendered'
    BY <1>1, RenderStays DEF BInv
  <1>4. Shape' /\ ReplaysOK' /\ RowsOK' /\ ClosedBatchHoldsNoDispatch'
    BY <1>1, <1>2 DEF BInv, Shape, ReplaysOK, RowsOK, ClosedBatchHoldsNoDispatch
  <1>5. QED
    BY <1>2, <1>3, <1>4 DEF BInv

\* acquire_dispatch_items leases only undispatched items, and only of a runnable batch.
LEMMA AcquireStep ==
    ASSUME BInv, NEW w \in Workers, acquire_dispatch_items(w)
    PROVE  BInv'
  <1> DEFINE ready == {i \in Items : dispatchable(i)}
  <1>1. CASE pass_to(w, "list") /\ UNCHANGED <<batch, item>>
    BY <1>1, EmptyPassOK, PassOnly DEF acquire_dispatch_items, pass_to
  <1>2. CASE \E S \in SUBSET ready, t \in Tokens :
                /\ S # {}
                /\ item' = [i \in Items |-> IF i \in S THEN leased_row(item[i], t) ELSE item[i]]
                /\ batch' = IF batch = "materialized" THEN "running" ELSE batch
                /\ pass_goes(w, PassAt("create", S, NoItem, NoKey, t, 0, "absent"))
    <2>1. PICK S \in SUBSET ready, t \in Tokens :
                /\ S # {}
                /\ item' = [i \in Items |-> IF i \in S THEN leased_row(item[i], t) ELSE item[i]]
                /\ batch' = IF batch = "materialized" THEN "running" ELSE batch
                /\ pass_goes(w, PassAt("create", S, NoItem, NoKey, t, 0, "absent"))
      BY <1>2
    <2>2. S \subseteq Items /\ \A i \in S : dispatchable(i)
      OBVIOUS
    <2> HIDE DEF ready
    <2>3. batch \in RunnableStatuses /\ batch' = "running"
      BY <2>1, <2>2 DEF dispatchable, RunnableStatuses
    <2>4. \A i \in S : /\ RowOK(leased_row(item[i], t))
                       /\ leased_row(item[i], t).key = item[i].key
                       /\ leased_row(item[i], t).status = "leased"
      BY <2>2 DEF BInv, RowsOK, RowOK, dispatchable, expired, leased_row, ItemRow, Undispatched
    <2>5. RowsOK'
      BY <2>1, <2>2, <2>4 DEF BInv, RowsOK
    <2>6. SucceededItemWasRendered'
      BY <2>1, <2>2, <2>4, RenderStays DEF BInv, acquire_dispatch_items
    <2>7. ClosedBatchHoldsNoDispatch' /\ batch' \in BatchStatuses
      BY <2>3 DEF ClosedBatchHoldsNoDispatch, BatchStatuses
    <2>8. item' = [i \in Items |-> item'[i]] /\ \A i \in Items : item[i].key # NoKey => item'[i].key # NoKey
      BY <2>1, <2>2, <2>4
    <2>9. PassOK(PassAt("create", S, NoItem, NoKey, t, 0, "absent"), item', rendered)
      BY <2>2, BusyPassOK
    <2>10. UNCHANGED <<jobs, rendered, replay>>
      BY DEF acquire_dispatch_items
    <2> HIDE DEF BInv
    <2>11. QED
      BY <2>1, <2>5, <2>6, <2>7, <2>8, <2>9, <2>10, PassAndRows
  <1>3. QED
    BY <1>1, <1>2 DEF acquire_dispatch_items

\* create_item_job: the item fails for good, or its job is created or found.
LEMMA CreateStep ==
    ASSUME BInv, NEW w \in Workers, create_item_job(w)
    PROVE  BInv'
  <1>1. CASE pass_to(w, "list") /\ UNCHANGED <<batch, item, jobs, rendered>>
    BY <1>1, EmptyPassOK, PassOnly DEF create_item_job, pass_to
  <1>2. CASE \E i \in pass[w].todo :
               /\ mark_item_failed(i, FALSE)
               /\ pass_goes(w, PassAt("create", pass[w].todo \ {i}, NoItem, NoKey,
                                      pass[w].token, 0, "absent"))
               /\ UNCHANGED <<jobs, rendered>>
    <2>1. PICK i \in pass[w].todo :
               /\ mark_item_failed(i, FALSE)
               /\ pass_goes(w, PassAt("create", pass[w].todo \ {i}, NoItem, NoKey,
                                      pass[w].token, 0, "absent"))
               /\ UNCHANGED <<jobs, rendered>>
      BY <1>2
    <2>2. i \in Items /\ pass[w].todo \ {i} \subseteq Items
      BY DEF BInv, PassesOK, PassOK
    <2> HIDE DEF BInv
    <2>3. /\ RowsOK' /\ SucceededItemWasRendered' /\ ClosedBatchHoldsNoDispatch'
          /\ batch' \in BatchStatuses
          /\ item' = [x \in Items |-> item'[x]]
          /\ \A x \in Items : item[x].key # NoKey => item'[x].key # NoKey
      BY <2>1, <2>2, ItemFails
    <2>4. QED
      BY <2>1, <2>2, <2>3, BusyPassOK, PassAndRows DEF create_item_job
  <1>3. CASE \E i \in pass[w].todo :
               /\ create_job(i, ItemKey)
               /\ pass_goes(w, PassAt("link", pass[w].todo \ {i}, i, NoKey,
                                      pass[w].token, 0, "absent"))
               /\ UNCHANGED <<batch, item>>
    <2>1. PICK i \in pass[w].todo :
               /\ create_job(i, ItemKey)
               /\ pass_goes(w, PassAt("link", pass[w].todo \ {i}, i, NoKey,
                                      pass[w].token, 0, "absent"))
               /\ UNCHANGED <<batch, item>>
      BY <1>3
    <2>2. i \in Items /\ pass[w].todo \ {i} \subseteq Items /\ ItemKey \in Keys
      BY DEF BInv, PassesOK, PassOK, Keys
    <2> DEFINE r == IF jobs[i][ItemKey] = "absent" THEN "active" ELSE jobs[i][ItemKey]
               next == PassAt("link", pass[w].todo \ {i}, i, NoKey, pass[w].token, 0, "absent")
    <2>3. /\ r \in JobOutcomes /\ job_becomes(i, ItemKey, r)
      BY <2>1, <2>2 DEF create_job, BInv, Shape, JobOutcomes, NextOutcomes
    <2>4. PassOK(next, item, rendered') /\ pass_goes(w, next)
      BY <2>1, <2>2 DEF PassOK, PassAt
    <2> HIDE DEF r, next, BInv
    <2>5. QED
      BY <2>1, <2>2, <2>3, <2>4, PassAndJob DEF create_item_job
  <1>4. QED
    BY <1>1, <1>2, <1>3 DEF create_item_job

\* mark_item_waiting links the leased item to its job.
LEMMA LinkStep ==
    ASSUME BInv, NEW w \in Workers, mark_item_waiting(w)
    PROVE  BInv'
  <1> DEFINE i == pass[w].item
             row == ItemRow("waiting_on_report_job", ItemKey, item[i].attempt_count,
                            item[i].retry_eligible, item[i].lease_token,
                            item[i].lease_expires_at)
             next == PassAt("create", pass[w].todo, NoItem, NoKey, pass[w].token, 0, "absent")
  <1>1. CASE end_pass(w) /\ UNCHANGED item
    BY <1>1, EmptyPassOK, PassOnly DEF mark_item_waiting, end_pass, IdlePass
  <1>2. CASE lease_owned(w, i) /\ item' = [item EXCEPT ![i] = row] /\ pass_goes(w, next)
    <2>1. i \in Items /\ pass[w].todo \subseteq Items
      BY DEF BInv, PassesOK, PassOK, mark_item_waiting, in_pass
    <2>2. RowOK(item[i]) /\ item[i].status = "leased"
      BY <1>2, <2>1 DEF BInv, RowsOK, lease_owned
    <2>3. RowOK(row) /\ row.key # NoKey /\ row.status = "waiting_on_report_job"
      BY <2>2, BatchAssumption DEF RowOK, ItemRow, Undispatched, Keys
    <2>4. \A x \in Items : item'[x] = IF x = i THEN row ELSE item[x]
      BY <1>2, <2>1 DEF BInv, Shape
    <2>5. item' = [x \in Items |-> item'[x]]
      BY <1>2, <2>1 DEF BInv, Shape
    <2>6. UNCHANGED <<batch, jobs, rendered, replay>>
      BY DEF mark_item_waiting
    <2> HIDE DEF i, row
    <2>7. RowsOK'
      BY <2>3, <2>4 DEF BInv, RowsOK
    <2>8. SucceededItemWasRendered'
      BY <2>3, <2>4, <2>6, RenderStays DEF BInv
    <2>9. ClosedBatchHoldsNoDispatch' /\ batch' \in BatchStatuses
      BY <2>3, <2>4, <2>6 DEF BInv, Shape, ClosedBatchHoldsNoDispatch
    <2>10. PassOK(next, item', rendered)
      BY <2>1, BusyPassOK
    <2>11. \A x \in Items : item[x].key # NoKey => item'[x].key # NoKey
      BY <2>3, <2>4
    <2> HIDE DEF next, BInv
    <2>12. QED
      BY <1>2, <2>5, <2>6, <2>7, <2>8, <2>9, <2>10, <2>11, PassAndRows
  <1>3. QED
    BY <1>1, <1>2 DEF mark_item_waiting

\* execute_job carries away a success only of a job whose row records the document.
LEMMA ExecuteStep ==
    ASSUME BInv, NEW w \in Workers, execute_job(w)
    PROVE  BInv'
  <1> DEFINE i == pass[w].item
             k == pass[w].key
             marked(r) == PassAt("await", pass[w].todo, i, k, NoToken, 0, r)
             ended(seen) == PassAt("reconcile", pass[w].todo, i, k, NoToken, 0, seen)
  <1>1. /\ i \in Items /\ k \in Keys /\ item[i].key # NoKey /\ pass[w].todo \subseteq Items
        /\ jobs[i][k] \in JobOutcomes
        /\ pass[w].seen \in SuccessfulOutcomes => <<i, k>> \in rendered
    BY DEF BInv, Shape, PassesOK, PassOK, execute_job, in_pass
  <1>2. UNCHANGED <<batch, item, replay>>
    BY DEF execute_job
  <1>3. ASSUME NEW r \in NextOutcomes[jobs[i][k]], job_becomes(i, k, r), pass_goes(w, marked(r))
        PROVE  BInv'
    <2>1. r \in JobOutcomes
      BY <1>1 DEF JobOutcomes, NextOutcomes, Failed
    <2>2. r \in SuccessfulOutcomes => <<i, k>> \in rendered'
      BY <1>3 DEF job_becomes
    <2>3. PassOK(marked(r), item, rendered')
      BY <1>1, <2>2 DEF PassOK, PassAt
    <2> HIDE DEF i, k, marked, BInv
    <2>4. QED
      BY <1>1, <1>2, <1>3, <2>1, <2>3, PassAndJob
  <1>4. ASSUME NEW seen \in {pass[w].seen, "raised"}, pass_goes(w, ended(seen)),
               UNCHANGED <<jobs, rendered>>
        PROVE  BInv'
    <2>1. PassOK(ended(seen), item, rendered)
      BY <1>1 DEF PassOK, PassAt, SuccessfulOutcomes
    <2> HIDE DEF i, k, ended, BInv
    <2>2. QED
      BY <1>2, <1>4, <2>1, PassOnly
  <1>5. QED
    BY <1>3, <1>4 DEF execute_job

\* reconcile_item: success only for the job the item still waits on.
LEMMA ReconcileStep ==
    ASSUME BInv, NEW w \in Workers, reconcile_item(w)
    PROVE  BInv'
  <1> DEFINE i == pass[w].item
             k == pass[w].key
             seen == pass[w].seen
             next == PassAt("execute", pass[w].todo, NoItem, NoKey, NoToken, 0, "absent")
             row == settled_row(item[i], "succeeded", item[i].attempt_count, FALSE)
             rows == [item EXCEPT ![i] = row]
  <1>1. /\ i \in Items /\ k \in Keys /\ item[i].key # NoKey /\ pass[w].todo \subseteq Items
        /\ seen \in SuccessfulOutcomes => <<i, k>> \in rendered
    BY DEF BInv, PassesOK, PassOK, reconcile_item, in_pass
  <1>2. UNCHANGED <<jobs, rendered, replay>>
    BY DEF reconcile_item
  <1>3. PassOK(next, item, rendered) /\ PassOK(next, item', rendered)
    BY <1>1, BusyPassOK
  <1>4. CASE seen \in SuccessfulOutcomes /\ success_owned(w) /\ update_items(rows) /\ next_item(w)
    <2>1. item[i].status = "waiting_on_report_job" /\ item[i].key = k
      BY <1>4 DEF success_owned
    <2>2. RowOK(row) /\ row.key = k /\ row.status = "succeeded" /\ k # NoKey
      BY <1>1, <2>1 DEF BInv, RowsOK, RowOK, settled_row, ItemRow, Undispatched
    <2>3. item' = rows
      BY <1>4 DEF update_items
    <2>4. \A x \in Items : item'[x] = IF x = i THEN row ELSE item[x]
      BY <1>1, <2>3 DEF BInv, Shape
    <2>5. item' = [x \in Items |-> item'[x]]
      BY <1>1, <2>3 DEF BInv, Shape
    <2>6. pass_goes(w, next)
      BY <1>4 DEF next_item
    <2> HIDE DEF i, k, seen, row, next
    <2>7. \A x \in Items : rows[x].status \in Undispatched => item[x].status \in Undispatched
      BY <2>2, <2>3, <2>4 DEF Undispatched
    <2> HIDE DEF rows
    <2>8. RowsOK'
      BY <2>2, <2>4 DEF BInv, RowsOK
    <2>9. SucceededItemWasRendered'
      BY <1>1, <1>2, <1>4, <2>2, <2>4 DEF BInv, SucceededItemWasRendered
    <2>10. ClosedBatchHoldsNoDispatch' /\ batch' \in BatchStatuses
      BY <1>4, <2>7, UpdateKeepsVerdict DEF BInv, Shape
    <2>11. \A x \in Items : item[x].key # NoKey => item'[x].key # NoKey
      BY <2>2, <2>4
    <2> HIDE DEF BInv
    <2>12. QED
      BY <1>2, <1>3, <2>5, <2>6, <2>8, <2>9, <2>10, <2>11, PassAndRows
  <1>5. CASE end_pass(w) /\ UNCHANGED <<batch, item>>
    BY <1>2, <1>5, EmptyPassOK, PassOnly DEF end_pass, IdlePass
  <1>6. CASE mark_item_failed(i, seen # "failed_final") /\ next_item(w)
    <2>1. pass_goes(w, next)
      BY <1>6 DEF next_item
    <2> HIDE DEF i, next, seen, BInv
    <2>2. /\ RowsOK' /\ SucceededItemWasRendered' /\ ClosedBatchHoldsNoDispatch'
          /\ batch' \in BatchStatuses
          /\ item' = [x \in Items |-> item'[x]]
          /\ \A x \in Items : item[x].key # NoKey => item'[x].key # NoKey
      BY <1>1, <1>2, <1>6, ItemFails
    <2>3. QED
      BY <1>2, <1>3, <2>1, <2>2, PassAndRows
  <1>7. CASE next_item(w) /\ UNCHANGED <<batch, item>>
    <2>1. pass_goes(w, next)
      BY <1>7 DEF next_item
    <2> HIDE DEF i, next, seen, BInv
    <2>2. QED
      BY <1>2, <1>3, <1>7, <2>1, PassOnly
  <1>8. QED
    BY <1>4, <1>5, <1>6, <1>7 DEF reconcile_item

\* Commands on the batch row alone.
LEMMA PauseResumeSteps ==
    ASSUME BInv, pause_batch \/ resume_batch
    PROVE  BInv'
  <1>1. UNCHANGED <<item, jobs, rendered, pass, replay>> /\ batch' \in {"paused", "materialized"}
    BY DEF pause_batch, resume_batch
  <1>2. Shape' /\ RowsOK' /\ ReplaysOK' /\ SucceededItemWasRendered'
    BY <1>1 DEF BInv, Shape, RowsOK, ReplaysOK, SucceededItemWasRendered, BatchStatuses
  <1>3. PassesOK'
    BY <1>1, PassesStay DEF BInv
  <1>4. ClosedBatchHoldsNoDispatch'
    BY <1>1 DEF ClosedBatchHoldsNoDispatch
  <1>5. QED
    BY <1>2, <1>3, <1>4 DEF BInv

\* The rows change and nothing else but the batch status.
LEMMA RowsOnly ==
    ASSUME BInv,
           /\ RowsOK' /\ SucceededItemWasRendered' /\ ClosedBatchHoldsNoDispatch'
           /\ batch' \in BatchStatuses
           /\ item' = [x \in Items |-> item'[x]]
           /\ \A x \in Items : item[x].key # NoKey => item'[x].key # NoKey,
           UNCHANGED <<jobs, rendered, pass, replay>>
    PROVE  BInv'
  <1>1. PassesOK'
    BY PassesStay DEF BInv
  <1>2. Shape' /\ ReplaysOK'
    BY DEF BInv, Shape, ReplaysOK
  <1>3. QED
    BY <1>1, <1>2 DEF BInv

\* cancel_batch: every item that could still be dispatched has no job and is cancelled.
LEMMA CancelStep ==
    ASSUME BInv, cancel_batch
    PROVE  BInv'
  <1> DEFINE row(i) == settled_row(item[i], "cancelled", item[i].attempt_count, FALSE)
  <1>1. item' = [i \in Items |-> IF cancellable_item(i) THEN row(i) ELSE item[i]]
    BY DEF cancel_batch
  <1>2. \A i \in Items : /\ RowOK(row(i)) /\ row(i).status = "cancelled"
                         /\ row(i).key = item[i].key
    BY DEF BInv, RowsOK, RowOK, settled_row, ItemRow, Undispatched
  <1> HIDE DEF row
  <1>3. RowsOK'
    BY <1>1, <1>2 DEF BInv, RowsOK
  <1>4. UNCHANGED <<jobs, rendered, pass, replay>>
    BY DEF cancel_batch
  <1>5. SucceededItemWasRendered'
    BY <1>1, <1>2, <1>4, RenderStays DEF BInv
  <1>6. \A i \in Items : item[i].status \in Undispatched => cancellable_item(i)
    BY DEF BInv, RowsOK, RowOK, Undispatched, cancellable_item
  <1>7. \A i \in Items : item'[i].status \notin Undispatched
    BY <1>1, <1>2, <1>6 DEF Undispatched
  <1>8. ClosedBatchHoldsNoDispatch' /\ batch' \in BatchStatuses
    BY <1>7 DEF BInv, Shape, ClosedBatchHoldsNoDispatch, Undispatched, cancel_batch,
       BatchStatuses
  <1>9. /\ item' = [x \in Items |-> item'[x]]
        /\ \A x \in Items : item[x].key # NoKey => item'[x].key # NoKey
    BY <1>1, <1>2
  <1> HIDE DEF BInv
  <1>10. QED
    BY <1>3, <1>4, <1>5, <1>8, <1>9, RowsOnly

\* retry_failed_items finds nothing to reset: a retryable item always has a job.
LEMMA RetryStep ==
    ASSUME BInv, retry_failed_items
    PROVE  BInv'
  <1>1. \A i \in Items : ~(item[i].status = "failed_retryable" /\ item[i].key = NoKey)
    BY DEF BInv, RowsOK, RowOK
  <1>2. update_items([i \in Items |-> item[i]])
    BY <1>1 DEF retry_failed_items, update_items
  <1>3. update_items(item) /\ item' = item
    BY <1>2 DEF BInv, Shape, update_items
  <1>4. UNCHANGED <<jobs, rendered, pass, replay>>
    BY DEF retry_failed_items
  <1>5. ClosedBatchHoldsNoDispatch' /\ batch' \in BatchStatuses
    BY <1>3, UpdateKeepsVerdict DEF BInv, Shape
  <1>6. RowsOK' /\ SucceededItemWasRendered' /\ item' = [x \in Items |-> item'[x]]
    BY <1>3, <1>4 DEF BInv, Shape, RowsOK, SucceededItemWasRendered
  <1> HIDE DEF BInv
  <1>7. QED
    BY <1>3, <1>4, <1>5, <1>6, RowsOnly

\* A job changes and no pass, row or replay with it.
LEMMA JobOnly ==
    ASSUME BInv, NEW i \in Items, NEW k \in Keys, NEW r \in JobOutcomes, job_becomes(i, k, r),
           UNCHANGED <<batch, item, pass>>, replay' = [o \in Operators |-> replay'[o]],
           ReplaysOK'
    PROVE  BInv'
  <1>1. /\ jobs' \in [Items -> [Keys -> JobOutcomes]]
        /\ \A x \in Items, y \in Keys :
              jobs'[x][y] \in SuccessfulOutcomes => <<x, y>> \in rendered'
        /\ rendered \subseteq rendered'
    BY JobMoves DEF BInv
  <1>2. PassesOK'
    BY <1>1, PassesStay DEF BInv
  <1>3. SucceededItemWasRendered'
    BY <1>1, RenderStays DEF BInv
  <1>4. Shape' /\ RowsOK' /\ ClosedBatchHoldsNoDispatch'
    BY <1>1 DEF BInv, Shape, RowsOK, ClosedBatchHoldsNoDispatch
  <1>5. QED
    BY <1>2, <1>3, <1>4 DEF BInv

\* client_cancels_job and job_resolved.
LEMMA JobSteps ==
    ASSUME BInv, NEW i \in Items, NEW k \in Keys, client_cancels_job(i, k) \/ job_resolved(i, k)
    PROVE  BInv'
  <1>1. /\ UNCHANGED <<batch, item, pass, replay>>
        /\ \/ job_becomes(i, k, "cancelled")
           \/ job_becomes(i, k, "succeeded")
    BY DEF client_cancels_job, job_resolved
  <1>2. replay' = [o \in Operators |-> replay'[o]] /\ ReplaysOK'
    BY <1>1 DEF BInv, Shape, ReplaysOK
  <1>3. "cancelled" \in JobOutcomes /\ "succeeded" \in JobOutcomes
    BY DEF JobOutcomes, NextOutcomes
  <1> HIDE DEF BInv
  <1>4. QED
    BY <1>1, <1>2, <1>3, JobOnly

\* Steps of an item replay that change neither rows nor jobs.
LEMMA ReplayReads ==
    ASSUME BInv, NEW o \in Operators, replay_item(o) \/ replay_dies(o)
    PROVE  BInv'
  <1>1. UNCHANGED <<batch, item, jobs, rendered, pass>>
    BY DEF replay_item, replay_dies
  <1>2. replay' = [x \in Operators |-> replay'[x]] /\ ReplaysOK'
    <2>1. CASE replay_item(o)
      <3>1. PICK i \in Items, k \in ReplayKeys :
                replay' = [replay EXCEPT ![o] = [pc |-> "create", item |-> i, key |-> k]]
        BY <2>1 DEF replay_item
      <3>2. QED
        BY <3>1 DEF BInv, Shape, ReplaysOK, ReplayOK
    <2>2. CASE replay_dies(o)
      BY <2>2 DEF replay_dies, IdleReplay, BInv, Shape, ReplaysOK, ReplayOK
    <2>3. QED
      BY <2>1, <2>2
  <1>3. PassesOK'
    BY <1>1, PassesStay DEF BInv
  <1>4. Shape' /\ RowsOK' /\ SucceededItemWasRendered' /\ ClosedBatchHoldsNoDispatch'
    BY <1>1, <1>2 DEF BInv, Shape, RowsOK, SucceededItemWasRendered, ClosedBatchHoldsNoDispatch
  <1>5. QED
    BY <1>2, <1>3, <1>4 DEF BInv

\* The replay job is created or found; nothing rendered is forgotten.
LEMMA CreateReplayStep ==
    ASSUME BInv, NEW o \in Operators, create_replay_job(o)
    PROVE  BInv'
  <1> DEFINE i == replay[o].item
             k == replay[o].key
             r == IF jobs[i][k] = "absent" THEN "active" ELSE jobs[i][k]
  <1>1. i \in Items /\ k \in ReplayKeys /\ k \in Keys
    BY DEF BInv, ReplaysOK, ReplayOK, create_replay_job, Keys
  <1>2. /\ r \in JobOutcomes /\ job_becomes(i, k, r)
    BY <1>1 DEF create_replay_job, create_job, BInv, Shape, JobOutcomes, NextOutcomes
  <1>3. replay' = [x \in Operators |-> replay'[x]] /\ ReplaysOK'
    BY <1>1 DEF create_replay_job, BInv, Shape, ReplaysOK, ReplayOK
  <1>4. UNCHANGED <<batch, item, pass>>
    BY DEF create_replay_job
  <1> HIDE DEF i, k, r, BInv
  <1>5. QED
    BY <1>1, <1>2, <1>3, <1>4, JobOnly

\* relink_failed_item puts a failed item with attempts left on its replay job.
LEMMA RelinkStep ==
    ASSUME BInv, NEW o \in Operators, relink_failed_item(o)
    PROVE  BInv'
  <1> DEFINE i == replay[o].item
             row == ItemRow("waiting_on_report_job", replay[o].key, item[i].attempt_count,
                            FALSE, NoToken, 0)
  <1>1. i \in Items /\ replay[o].key \in ReplayKeys
    BY DEF BInv, ReplaysOK, ReplayOK, relink_failed_item
  <1>2. UNCHANGED <<jobs, rendered, pass>>
    BY DEF relink_failed_item
  <1>3. replay' = [x \in Operators |-> replay'[x]] /\ ReplaysOK'
    BY DEF relink_failed_item, IdleReplay, BInv, Shape, ReplaysOK, ReplayOK
  <1>4. /\ RowsOK' /\ SucceededItemWasRendered' /\ ClosedBatchHoldsNoDispatch'
        /\ batch' \in BatchStatuses
        /\ item' = [x \in Items |-> item'[x]]
        /\ \A x \in Items : item[x].key # NoKey => item'[x].key # NoKey
    <2>1. CASE relinkable(i) /\ update_items([item EXCEPT ![i] = row])
      <3>1. RowOK(row) /\ row.key # NoKey /\ row.status = "waiting_on_report_job"
        BY <1>1, <2>1, BatchAssumption DEF relinkable, RowOK, ItemRow, Undispatched, Keys,
           BInv, RowsOK
      <3> HIDE DEF row, i, BInv
      <3>2. row.status \notin Undispatched /\ row.status # "succeeded"
        BY <3>1 DEF Undispatched
      <3>3. QED
        BY <1>1, <1>2, <2>1, <3>1, <3>2, RowUpdated
    <2>2. CASE UNCHANGED <<batch, item>>
      BY <1>2, <2>2 DEF BInv, Shape, RowsOK, SucceededItemWasRendered,
         ClosedBatchHoldsNoDispatch
    <2>3. QED
      BY <2>1, <2>2 DEF relink_failed_item
  <1>5. PassesOK'
    BY <1>2, <1>4, PassesStay DEF BInv
  <1>6. Shape'
    BY <1>2, <1>3, <1>4 DEF BInv, Shape
  <1>7. QED
    BY <1>3, <1>4, <1>5, <1>6 DEF BInv

\* Time only ages leases.
LEMMA TickStep ==
    ASSUME BInv, tick
    PROVE  BInv'
  <1>1. item' = [i \in Items |-> aged_row(item[i])] /\ UNCHANGED <<batch, jobs, rendered, pass, replay>>
    BY DEF tick
  <1>2. \A i \in Items : /\ aged_row(item[i]).status = item[i].status
                         /\ aged_row(item[i]).key = item[i].key
                         /\ aged_row(item[i]).attempt_count = item[i].attempt_count
    BY DEF aged_row, ItemRow
  <1>3. RowsOK'
    BY <1>1, <1>2 DEF BInv, RowsOK, RowOK
  <1>4. SucceededItemWasRendered'
    BY <1>1, <1>2, RenderStays DEF BInv
  <1>5. ClosedBatchHoldsNoDispatch' /\ batch' \in BatchStatuses
    BY <1>1, <1>2 DEF BInv, Shape, ClosedBatchHoldsNoDispatch
  <1>6. /\ item' = [x \in Items |-> item'[x]]
        /\ \A x \in Items : item[x].key # NoKey => item'[x].key # NoKey
    BY <1>1, <1>2
  <1> HIDE DEF BInv
  <1>7. QED
    BY <1>1, <1>3, <1>4, <1>5, <1>6, RowsOnly

-----------------------------------------------------------------------------
(* The theorems *)

\* A freshly materialized batch satisfies the invariant.
LEMMA BatchInitial == BatchInit => BInv
  <1> SUFFICES ASSUME BatchInit PROVE BInv
    OBVIOUS
  <1>1. Shape /\ RowsOK
    BY BatchAssumption DEF BatchInit, Shape, RowsOK, RowOK, ItemRow, Undispatched,
       BatchStatuses, JobOutcomes, NextOutcomes, SuccessfulOutcomes
  <1>2. PassesOK
    BY EmptyPassOK DEF BatchInit, PassesOK, IdlePass
  <1>3. ReplaysOK /\ SucceededItemWasRendered /\ ClosedBatchHoldsNoDispatch
    BY DEF BatchInit, ReplaysOK, ReplayOK, IdleReplay, SucceededItemWasRendered, ItemRow,
       ClosedBatchHoldsNoDispatch
  <1>4. QED
    BY <1>1, <1>2, <1>3 DEF BInv

\* Every step of a pass, an operator, a client or time keeps it.
LEMMA BatchStep == BInv /\ [BatchNext]_batchVars => BInv'
  <1> SUFFICES ASSUME BInv, [BatchNext]_batchVars PROVE BInv'
    OBVIOUS
  <1>1. ASSUME NEW w \in Workers,
               run_once(w) \/ run_once_unrecovered(w) \/ PassStep(w) \/ pass_dies(w)
        PROVE  BInv'
    <2> HIDE DEF BInv
    <2> QED BY <1>1, ReadingSteps, RecoverySteps, AcquireStep, CreateStep, LinkStep,
               ExecuteStep, ReconcileStep DEF PassStep
  <1>2. ASSUME pause_batch \/ resume_batch \/ cancel_batch \/ retry_failed_items
               \/ operator_recovers \/ tick
        PROVE  BInv'
    <2> HIDE DEF BInv
    <2> QED BY <1>2, PauseResumeSteps, CancelStep, RetryStep, RecoverySteps, TickStep
  <1>3. ASSUME NEW o \in Operators,
               replay_item(o) \/ create_replay_job(o) \/ relink_failed_item(o) \/ replay_dies(o)
        PROVE  BInv'
    <2> HIDE DEF BInv
    <2> QED BY <1>3, ReplayReads, CreateReplayStep, RelinkStep
  <1>4. ASSUME NEW i \in Items, NEW k \in Keys, client_cancels_job(i, k) \/ job_resolved(i, k)
        PROVE  BInv'
    <2> HIDE DEF BInv
    <2> QED BY <1>4, JobSteps
  <1>5. ASSUME UNCHANGED batchVars PROVE BInv'
    <2>1. UNCHANGED <<batch, item, jobs, rendered, pass, replay>>
      BY <1>5 DEF batchVars
    <2>2. RowsOK' /\ SucceededItemWasRendered' /\ ClosedBatchHoldsNoDispatch'
          /\ batch' \in BatchStatuses /\ item' = [x \in Items |-> item'[x]]
          /\ \A x \in Items : item[x].key # NoKey => item'[x].key # NoKey
      BY <2>1 DEF BInv, Shape, RowsOK, SucceededItemWasRendered, ClosedBatchHoldsNoDispatch
    <2> HIDE DEF BInv
    <2>3. QED
      BY <2>1, <2>2, RowsOnly
  <1>6. QED
    BY <1>1, <1>2, <1>3, <1>4, <1>5 DEF BatchNext

\* The inductive invariant holds throughout, however passes, replays and operators overlap.
THEOREM BatchInvariant == BatchSpec => []BInv
  BY BatchInitial, BatchStep, PTL DEF BatchSpec

\* mark_item_succeeded's fence: an item reported succeeded names a job that rendered its
\* document, however stale the record was that the pass acted on.
THEOREM BatchSucceededItemWasRendered == BatchSpec => []SucceededItemWasRendered
  <1>1. BInv => SucceededItemWasRendered
    BY DEF BInv
  <1>2. QED
    BY <1>1, BatchInvariant, PTL

\* A verdict or a cancellation leaves nothing that a pass could still dispatch.
THEOREM BatchClosedBatchHoldsNoDispatch == BatchSpec => []ClosedBatchHoldsNoDispatch
  <1>1. BInv => ClosedBatchHoldsNoDispatch
    BY DEF BInv
  <1>2. QED
    BY <1>1, BatchInvariant, PTL

\* Although mark_item_failed has no budget guard, work restarts only with attempts left.
THEOREM BatchRestartWithinBudget == BatchSpec => []RestartWithinBudget
  <1>1. BInv => RestartWithinBudget
    BY DEF BInv, RowsOK, RowOK, RestartWithinBudget
  <1>2. QED
    BY <1>1, BatchInvariant, PTL
=============================================================================
