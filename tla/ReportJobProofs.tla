--------------------------- MODULE ReportJobProofs ---------------------------
(***************************************************************************)
(* Proofs about report jobs, in three parts.  The ledger: for every set of *)
(* jobs, workers and tokens, every retry policy and arbitrary callers.     *)
(* The execution of jobs: it implements the ledger specification, and      *)
(* whatever stale record an executor acts on, what it writes is true.      *)
(* Failed-work replay: it keeps to the ledger, a delivery that was looked  *)
(* up stays uncommitted, and a lineage has one replacement under way.      *)
(***************************************************************************)
EXTENDS ReportJobReplay, FiniteSetTheorems, TLAPS

-----------------------------------------------------------------------------
(***************************************************************************)
(* The ledger                                                              *)
(***************************************************************************)

(* What each helper returns *)

\* retry_delay_seconds is a whole number of ticks between zero and the ceiling.
LEMMA DelayRange ==
    ASSUME NEW n \in Nat
    PROVE  retry_delay_seconds(n) \in 0..MaxDelay
  BY LedgerAssumption DEF retry_delay_seconds

\* A transition leaves a well-formed job row.
LEMMA TransitionedType ==
    ASSUME TypeOK, NEW j \in Jobs, NEW to \in TransitionTargets,
           NEW c \in FailureCategories, NEW r \in BOOLEAN, NEW ids \in SUBSET Identities
    PROVE  transitioned(j, to, c, r, ids) \in JobRow
  BY DEF TypeOK, transitioned, JobRow, TransitionTargets, AllowedFrom, JobStatuses

\* The failure decision leaves a well-formed work row that is either failed with its
\* budget spent or retry_pending with an attempt left, and never carries a token.
LEMMA DecisionType ==
    ASSUME NEW item \in WorkRow, NEW eta \in (-MaxDelay)..0
    PROVE  LET d == failure_decision(item, eta)
           IN  /\ d \in WorkRow
               /\ d.lease_token = NoToken
               /\ d.status \in {"failed", "retry_pending"}
               /\ d.status = "retry_pending" => d.attempt_count < MaxAttempts
  <1>1. item.attempt_count \in Nat
    BY LedgerAssumption DEF WorkRow
  <1>2. retry_delay_seconds(item.attempt_count) \in 0..MaxDelay
    BY <1>1, DelayRange
  <1>3. due_in(eta + retry_delay_seconds(item.attempt_count)) \in 0..MaxDelay
    BY <1>2, LedgerAssumption DEF due_in
  <1>4. 0 \in (-MaxDelay)..LeaseTicks
    BY LedgerAssumption
  <1>5. QED
    BY <1>1, <1>3, <1>4, LedgerAssumption DEF failure_decision, WorkRow, WorkStatuses

-----------------------------------------------------------------------------
(* The inductive invariant *)

\* Each conjunct is inductive only beside the others: the budget bounds the counter that
\* TypeOK types, and the fence is what lets a settlement speak for the row it settles.
IInv ==
    /\ TypeOK
    /\ AttemptBudget
    /\ ExhaustedWorkIsTerminal
    /\ LeaseFence
    /\ DocumentIffArchived

\* A change of one job row that keeps it well formed, keeps terminal jobs terminal and
\* keeps the document fact preserves the invariant when work and leases stay.
LEMMA JobRowChange ==
    ASSUME IInv, NEW j \in Jobs, NEW row \in JobRow,
           job' = [job EXCEPT ![j] = row],
           job[j].status \in TerminalStatuses => row.status \in TerminalStatuses,
           "archive_document_id" \in row.ids <=> row.status = "archived",
           UNCHANGED <<work, holding>>
    PROVE  IInv'
  <1>1. TypeOK'
    BY DEF IInv, TypeOK
  <1>2. AttemptBudget' /\ LeaseFence'
    BY DEF IInv, AttemptBudget, LeaseFence
  <1>3. ExhaustedWorkIsTerminal'
    BY DEF IInv, TypeOK, ExhaustedWorkIsTerminal
  <1>4. DocumentIffArchived'
    BY DEF IInv, TypeOK, DocumentIffArchived
  <1>5. QED
    BY <1>1, <1>2, <1>3, <1>4 DEF IInv

\* What _transition_job leaves satisfies the hypotheses of JobRowChange, provided the
\* document id is supplied exactly by the transition to archived.
LEMMA TransitionPreserves ==
    ASSUME IInv, NEW j \in Jobs, NEW to \in TransitionTargets,
           NEW c \in FailureCategories, NEW r \in BOOLEAN, NEW ids \in SUBSET Identities,
           "archive_document_id" \in ids <=> to = "archived",
           transition_job(j, to, c, r, ids), UNCHANGED <<work, holding>>
    PROVE  IInv'
  <1> DEFINE row == transitioned(j, to, c, r, ids)
  <1>1. row \in JobRow
    BY TransitionedType DEF IInv
  <1>2. job' = [job EXCEPT ![j] = row]
    BY DEF transition_job
  <1>3. job[j].status = to \/ job[j].status \in AllowedFrom[to]
    BY DEF transition_job, transition_accepted
  <1>4. job[j].status \in TerminalStatuses => row.status \in TerminalStatuses
    BY <1>3 DEF transitioned, TerminalStatuses, AllowedFrom, TransitionTargets
  <1>5. "archive_document_id" \in row.ids <=> row.status = "archived"
    <2>1. "archive_document_id" \in job[j].ids <=> job[j].status = "archived"
      BY DEF IInv, DocumentIffArchived
    <2>2. job[j].status = "archived" => job[j].status = to
      BY <1>3 DEF AllowedFrom, TransitionTargets
    <2>3. QED
      BY <2>1, <2>2 DEF transitioned
  <1>6. QED
    BY <1>1, <1>2, <1>4, <1>5, JobRowChange

\* A change of one work row to a row without a lease preserves the invariant: the row
\* keeps the budget, and a failed row comes with a terminal job.
LEMMA WorkRowChange ==
    ASSUME IInv, NEW j \in Jobs, NEW item \in WorkRow, NEW jrow \in JobRow,
           work' = [work EXCEPT ![j] = item],
           job' = [job EXCEPT ![j] = jrow],
           item.lease_token = NoToken, item.status # "leased",
           item.status \in ClaimableStatuses => item.attempt_count < MaxAttempts,
           item.status = "failed" => jrow.status \in TerminalStatuses,
           "archive_document_id" \in jrow.ids <=> jrow.status = "archived",
           holding' \in [Workers -> Lease \cup {NoLease}],
           \A w \in Workers : holding'[w] = holding[w] \/ holding'[w] = NoLease
    PROVE  IInv'
  <1>1. TypeOK'
    BY DEF IInv, TypeOK
  <1>2. AttemptBudget'
    BY DEF IInv, TypeOK, AttemptBudget
  <1>3. ExhaustedWorkIsTerminal'
    BY DEF IInv, TypeOK, ExhaustedWorkIsTerminal
  <1>4. LeaseFence'
    <2>1. \A i \in Jobs : work'[i].status = "leased" <=> work'[i].lease_token # NoToken
      BY DEF IInv, TypeOK, LeaseFence
    <2>2. \A w1, w2 \in Workers :
             holding'[w1] # NoLease /\ holding'[w2] # NoLease
                /\ holding'[w1].token = holding'[w2].token => w1 = w2
      BY DEF IInv, LeaseFence
    <2>3. \A i1, i2 \in Jobs :
             work'[i1].status = "leased" /\ work'[i1].lease_token = work'[i2].lease_token
                => i1 = i2
      BY DEF IInv, TypeOK, LeaseFence
    <2>4. QED
      BY <2>1, <2>2, <2>3 DEF LeaseFence
  <1>5. DocumentIffArchived'
    BY DEF IInv, TypeOK, DocumentIffArchived
  <1>6. QED
    BY <1>1, <1>2, <1>3, <1>4, <1>5 DEF IInv

\* A failed attempt, whether reported by its worker or found by the expiry sweep.
LEMMA SettleFailedPreserves ==
    ASSUME IInv, NEW j \in Jobs, NEW eta \in (-MaxDelay)..0,
           NEW c \in FailureCategories,
           settle_failed_work(j, eta, c),
           holding' \in [Workers -> Lease \cup {NoLease}],
           \A w \in Workers : holding'[w] = holding[w] \/ holding'[w] = NoLease
    PROVE  IInv'
  <1> DEFINE item == failure_decision(work[j], eta)
             jrow == IF item.status = "failed" THEN terminalized(j, c) ELSE job[j]
  <1>1. work[j] \in WorkRow /\ job[j] \in JobRow
    BY DEF IInv, TypeOK
  <1>2. /\ item \in WorkRow
        /\ item.lease_token = NoToken
        /\ item.status \in {"failed", "retry_pending"}
        /\ item.status = "retry_pending" => item.attempt_count < MaxAttempts
    BY <1>1, DecisionType
  <1>3. terminalized(j, c) \in JobRow
    <2>1. transitioned(j, "failed", c, TRUE, {}) \in JobRow
      BY TransitionedType DEF IInv, TransitionTargets, AllowedFrom
    <2>2. QED
      BY <2>1, <1>1 DEF terminalized
  <1>4. terminalized(j, c).status \in TerminalStatuses
    BY DEF terminalized, transitioned, TerminalStatuses
  <1>5. "archive_document_id" \in terminalized(j, c).ids
          <=> terminalized(j, c).status = "archived"
    BY DEF IInv, DocumentIffArchived, terminalized, transitioned, TerminalStatuses
  <1>6. jrow \in JobRow /\ ("archive_document_id" \in jrow.ids <=> jrow.status = "archived")
    BY <1>1, <1>3, <1>5 DEF IInv, DocumentIffArchived
  <1>7. work' = [work EXCEPT ![j] = item] /\ job' = [job EXCEPT ![j] = jrow]
    BY DEF settle_failed_work, IInv, TypeOK
  <1> HIDE DEF item, jrow
  <1>8. item.status = "failed" => jrow.status \in TerminalStatuses
    BY <1>4 DEF jrow
  <1>9. QED
    BY <1>2, <1>6, <1>7, <1>8, WorkRowChange DEF ClaimableStatuses

\* A claim takes the item out of the queue under a token nobody else has.
LEMMA ClaimPreserves ==
    ASSUME IInv, NEW w \in Workers, NEW j \in Jobs, NEW t \in Tokens,
           claim_work_item(w, j, t)
    PROVE  IInv'
  <1>1. /\ work[j].status \in ClaimableStatuses
        /\ work[j] \in WorkRow
        /\ work[j].attempt_count < MaxAttempts
    BY DEF claim_work_item, IInv, TypeOK, AttemptBudget
  <1> DEFINE item == leased_row(work[j], t)
  <1>2. work' = [work EXCEPT ![j] = item]
    BY DEF claim_work_item, IInv, TypeOK
  <1>3. /\ item \in WorkRow
        /\ item.status = "leased"
        /\ item.attempt_count \in 1..MaxAttempts
        /\ item.lease_token = t
    BY <1>1, LedgerAssumption DEF leased_row, WorkRow, WorkStatuses
  <1> HIDE DEF item
  <1>4. holding' = [holding EXCEPT ![w] = [job |-> j, token |-> t]] /\ job' = job
    BY DEF claim_work_item
  <1>5. TypeOK'
    BY <1>2, <1>3, <1>4 DEF IInv, TypeOK, Lease
  <1>6. AttemptBudget'
    BY <1>2, <1>3, <1>4 DEF IInv, TypeOK, AttemptBudget, ClaimableStatuses
  <1>7. ExhaustedWorkIsTerminal'
    BY <1>2, <1>3, <1>4 DEF IInv, TypeOK, ExhaustedWorkIsTerminal
  <1>8. LeaseFence'
    <2>1. /\ \A i \in Jobs : work[i].lease_token # t
          /\ \A v \in Workers : holding[v] # NoLease => holding[v].token # t
      BY DEF claim_work_item, fresh_token
    <2>2. \A i \in Jobs : work'[i].status = "leased" <=> work'[i].lease_token # NoToken
      BY <1>2, <1>3, LedgerAssumption DEF IInv, TypeOK, LeaseFence
    <2>3. \A w1, w2 \in Workers :
             holding'[w1] # NoLease /\ holding'[w2] # NoLease
                /\ holding'[w1].token = holding'[w2].token => w1 = w2
      BY <1>4, <2>1 DEF IInv, TypeOK, LeaseFence
    <2>4. \A i1, i2 \in Jobs :
             work'[i1].status = "leased" /\ work'[i1].lease_token = work'[i2].lease_token
                => i1 = i2
      BY <1>2, <1>3, <2>1 DEF IInv, TypeOK, LeaseFence
    <2>5. QED
      BY <2>2, <2>3, <2>4 DEF LeaseFence
  <1>9. DocumentIffArchived'
    BY <1>4 DEF IInv, DocumentIffArchived
  <1>10. QED
    BY <1>5, <1>6, <1>7, <1>8, <1>9 DEF IInv

\* A settlement by the lease owner: completed, deferred or failed.
LEMMA SettlePreserves ==
    ASSUME IInv, NEW w \in Workers, Settle(w)
    PROVE  IInv'
  <1> DEFINE j == holding[w].job
  <1>1. /\ holding[w] # NoLease
        /\ j \in Jobs
        /\ work[j].status = "leased"
        /\ work[j] \in WorkRow
        /\ job[j] \in JobRow
        /\ work[j].attempt_count \in 1..MaxAttempts
        /\ "archive_document_id" \in job[j].ids <=> job[j].status = "archived"
    BY DEF Settle, complete_work_item, defer_work_item, fail_work_item, lease_owned,
           IInv, TypeOK, Lease, AttemptBudget, DocumentIffArchived
  <1>2. /\ holding' \in [Workers -> Lease \cup {NoLease}]
        /\ \A v \in Workers : holding'[v] = holding[v] \/ holding'[v] = NoLease
    BY DEF Settle, release, IInv, TypeOK
  <1>3. 0 \in (-MaxDelay)..LeaseTicks /\ 0 \in (-MaxDelay)..0
    BY LedgerAssumption
  <1>4. CASE complete_work_item(w)
    <2> DEFINE item == completed_row(work[j])
    <2>1. work' = [work EXCEPT ![j] = item] /\ job' = [job EXCEPT ![j] = job[j]]
      BY <1>4 DEF complete_work_item, IInv, TypeOK
    <2>2. item \in WorkRow /\ item.lease_token = NoToken /\ item.status = "completed"
      BY <1>1, <1>3 DEF completed_row, WorkRow, WorkStatuses
    <2> HIDE DEF item, j
    <2>3. QED
      BY <1>1, <1>2, <2>1, <2>2, WorkRowChange DEF ClaimableStatuses
  <1>5. CASE defer_work_item(w, BaseDelay)
    <2> DEFINE item == deferred_row(work[j], BaseDelay)
    <2>1. work' = [work EXCEPT ![j] = item] /\ job' = [job EXCEPT ![j] = job[j]]
      BY <1>5 DEF defer_work_item, IInv, TypeOK
    <2>2. /\ item \in WorkRow
          /\ item.lease_token = NoToken
          /\ item.status = "retry_pending"
          /\ item.attempt_count < MaxAttempts
      BY <1>1, <1>3, LedgerAssumption DEF deferred_row, WorkRow, WorkStatuses
    <2> HIDE DEF item, j
    <2>3. QED
      BY <1>1, <1>2, <2>1, <2>2, WorkRowChange DEF ClaimableStatuses
  <1>6. CASE fail_work_item(w)
    <2> HIDE DEF j
    <2>1. settle_failed_work(j, 0, "operator_intervention_required")
      BY <1>6 DEF fail_work_item, j
    <2>2. QED
      BY <1>1, <1>2, <1>3, <2>1, SettleFailedPreserves DEF FailureCategories
  <1>7. QED
    BY <1>4, <1>5, <1>6 DEF Settle

\* Creating or resubmitting a job opens at most one work item, and never behind the back
\* of one that ended.
LEMMA EnqueuePreserves ==
    ASSUME IInv, NEW j \in Jobs, NEW status \in JobStatuses, NEW jrow \in JobRow,
           jrow.status = status, "archive_document_id" \in jrow.ids <=> jrow.status = "archived",
           job[j] = jrow \/ job[j].status = "absent",
           job' = [job EXCEPT ![j] = jrow],
           work' = [work EXCEPT ![j] = ensured_work_item(j, status)],
           UNCHANGED holding
    PROVE  IInv'
  <1>1. /\ work[j] \in WorkRow
        /\ holding' \in [Workers -> Lease \cup {NoLease}]
    BY DEF IInv, TypeOK
  <1>2. CASE ensured_work_item(j, status) = work[j]
    <2>1. work' = work
      BY <1>2 DEF IInv, TypeOK
    <2>2. job[j].status \in TerminalStatuses => jrow.status \in TerminalStatuses
      BY DEF TerminalStatuses
    <2>3. QED
      BY <2>1, <2>2, JobRowChange
  <1>3. CASE ensured_work_item(j, status) = PendingWork
    <2>1. /\ PendingWork \in WorkRow
          /\ PendingWork.lease_token = NoToken
          /\ PendingWork.status = "pending"
          /\ PendingWork.attempt_count < MaxAttempts
      BY LedgerAssumption DEF PendingWork, WorkRow, WorkStatuses
    <2>2. QED
      BY <1>1, <1>3, <2>1, WorkRowChange
  <1>4. QED
    BY <1>2, <1>3 DEF ensured_work_item

\* Time passing changes neither who holds what nor how much of the budget is spent.
LEMMA TickPreserves ==
    ASSUME IInv, tick
    PROVE  IInv'
  <1>1. ASSUME NEW j \in Jobs
        PROVE  /\ aged_row(work[j]) \in WorkRow
               /\ aged_row(work[j]).status = work[j].status
               /\ aged_row(work[j]).lease_token = work[j].lease_token
               /\ aged_row(work[j]).attempt_count = work[j].attempt_count
    <2>1. work[j] \in WorkRow
      BY DEF IInv, TypeOK
    <2>2. QED
      BY <2>1, LedgerAssumption DEF aged_row, due_in, WorkRow
  <1>2. /\ work' = [j \in Jobs |-> aged_row(work[j])]
        /\ job' = job /\ holding' = holding
    BY DEF tick
  <1>3. \A j \in Jobs : /\ work'[j] \in WorkRow
                         /\ work'[j].status = work[j].status
                         /\ work'[j].lease_token = work[j].lease_token
                         /\ work'[j].attempt_count = work[j].attempt_count
    BY <1>1, <1>2
  <1>4. TypeOK'
    BY <1>2, <1>3 DEF IInv, TypeOK
  <1>5. AttemptBudget' /\ ExhaustedWorkIsTerminal' /\ LeaseFence' /\ DocumentIffArchived'
    BY <1>2, <1>3 DEF IInv, AttemptBudget, ExhaustedWorkIsTerminal, LeaseFence,
                      DocumentIffArchived
  <1>6. QED
    BY <1>4, <1>5 DEF IInv

\* Before anything was submitted the invariant holds.
LEMMA InitInvariant == LedgerInit => IInv
  <1> SUFFICES ASSUME LedgerInit PROVE IInv
    OBVIOUS
  <1>1. TypeOK
    BY LedgerAssumption DEF LedgerInit, TypeOK, JobRow, WorkRow, AbsentJob, AbsentWork,
                            JobStatuses, FailureCategories, WorkStatuses
  <1>2. AttemptBudget /\ ExhaustedWorkIsTerminal /\ LeaseFence /\ DocumentIffArchived
    BY DEF LedgerInit, AbsentJob, AbsentWork, AttemptBudget, ClaimableStatuses,
           ExhaustedWorkIsTerminal, LeaseFence, DocumentIffArchived
  <1>3. QED
    BY <1>1, <1>2 DEF IInv

\* Every transaction of the ledger preserves the invariant.
LEMMA StepInvariant == IInv /\ [LedgerNext]_ledgerVars => IInv'
  <1> SUFFICES ASSUME IInv, [LedgerNext]_ledgerVars PROVE IInv'
    OBVIOUS
  <1>1. CASE UNCHANGED ledgerVars
    BY <1>1 DEF ledgerVars, IInv, TypeOK, AttemptBudget, ExhaustedWorkIsTerminal,
                LeaseFence, DocumentIffArchived
  <1>2. ASSUME NEW j \in Jobs, NEW enqueue \in BOOLEAN, create_report_job(j, enqueue)
        PROVE  IInv'
    <2>1. /\ AcceptedJob \in JobRow
          /\ AcceptedJob.status = "accepted"
          /\ "archive_document_id" \notin AcceptedJob.ids
      BY DEF AcceptedJob, JobRow, JobStatuses, FailureCategories
    <2>2. CASE enqueue
      BY <1>2, <2>1, <2>2, EnqueuePreserves DEF create_report_job, JobStatuses
    <2>3. CASE ~enqueue
      BY <1>2, <2>1, <2>3, JobRowChange DEF create_report_job, TerminalStatuses
    <2>4. QED
      BY <2>2, <2>3
  <1>3. ASSUME NEW j \in Jobs, resubmit_report_job(j)
        PROVE  IInv'
    <2>1. /\ job[j] \in JobRow
          /\ job[j].status \in JobStatuses
          /\ "archive_document_id" \in job[j].ids <=> job[j].status = "archived"
          /\ job' = [job EXCEPT ![j] = job[j]]
      BY <1>3 DEF resubmit_report_job, IInv, TypeOK, JobRow, DocumentIffArchived
    <2>2. QED
      BY <1>3, <2>1, EnqueuePreserves DEF resubmit_report_job
  <1>4. ASSUME NEW j \in Jobs, MarkProgress(j)
        PROVE  IInv'
    <2>1. /\ {} \in SUBSET Identities
          /\ {"render_job_id"} \in SUBSET Identities
          /\ {"archive_request_id"} \in SUBSET Identities
          /\ {"collecting_data", "data_ready", "rendering", "completed", "archiving"}
                \subseteq TransitionTargets
          /\ "none" \in FailureCategories
      BY DEF Identities, TransitionTargets, AllowedFrom, FailureCategories
    <2>2. UNCHANGED <<work, holding>>
      BY <1>4 DEF MarkProgress
    <2>3. CASE transition_job(j, "collecting_data", "none", FALSE, {})
      BY <2>1, <2>2, <2>3, TransitionPreserves
    <2>4. CASE transition_job(j, "data_ready", "none", FALSE, {})
      BY <2>1, <2>2, <2>4, TransitionPreserves
    <2>5. CASE transition_job(j, "rendering", "none", FALSE, {"render_job_id"})
      BY <2>1, <2>2, <2>5, TransitionPreserves
    <2>6. CASE transition_job(j, "completed", "none", FALSE, {"render_job_id"})
      BY <2>1, <2>2, <2>6, TransitionPreserves
    <2>7. CASE transition_job(j, "archiving", "none", FALSE, {"archive_request_id"})
      BY <2>1, <2>2, <2>7, TransitionPreserves
    <2>8. QED
      BY <1>4, <2>3, <2>4, <2>5, <2>6, <2>7 DEF MarkProgress
  <1>5. ASSUME NEW j \in Jobs, mark_archived(j)
        PROVE  IInv'
    <2>1. /\ {"archive_request_id", "archive_document_id"} \in SUBSET Identities
          /\ "archived" \in TransitionTargets
          /\ "none" \in FailureCategories
      BY DEF Identities, TransitionTargets, AllowedFrom, FailureCategories
    <2>2. QED
      BY <1>5, <2>1, TransitionPreserves DEF mark_archived
  <1>6. ASSUME NEW j \in Jobs, NEW c \in CallerCategories, NEW r \in BOOLEAN,
               mark_failed(j, c, r)
        PROVE  IInv'
    <2>1. /\ {} \in SUBSET Identities
          /\ "failed" \in TransitionTargets
          /\ c \in FailureCategories
      BY LedgerAssumption DEF Identities, TransitionTargets, AllowedFrom, FailureCategories
    <2>2. QED
      BY <1>6, <2>1, TransitionPreserves DEF mark_failed
  <1>7. ASSUME NEW j \in Jobs, cancel_job(j)
        PROVE  IInv'
    <2> DEFINE row == [status |-> "cancelled", failure_category |-> "cancelled",
                       retry_eligible |-> FALSE, ids |-> job[j].ids]
    <2>1. /\ job[j] \in JobRow
          /\ "archive_document_id" \in job[j].ids <=> job[j].status = "archived"
          /\ job[j].status # "archived"
      BY <1>7 DEF cancel_job, is_report_job_cancellable, CancelBlockedStatuses,
                  IInv, TypeOK, DocumentIffArchived
    <2>2. row \in JobRow
      BY <2>1 DEF JobRow, JobStatuses, FailureCategories
    <2>3. QED
      BY <1>7, <2>1, <2>2, JobRowChange DEF cancel_job, TerminalStatuses
  <1>8. ASSUME NEW j \in Jobs, recover_expired_work_item(j)
        PROVE  IInv'
    <2>1. work[j].lease_expires_at \in (-MaxDelay)..0
      BY <1>8, LedgerAssumption DEF recover_expired_work_item, IInv, TypeOK, WorkRow
    <2>2. holding' \in [Workers -> Lease \cup {NoLease}] /\ holding' = holding
      BY <1>8 DEF recover_expired_work_item, IInv, TypeOK
    <2>3. QED
      BY <1>8, <2>1, <2>2, SettleFailedPreserves
         DEF recover_expired_work_item, FailureCategories
  <1>9. ASSUME NEW w \in Workers, Abandon(w)
        PROVE  IInv'
    <2>1. /\ holding' = [holding EXCEPT ![w] = NoLease]
          /\ job' = job /\ work' = work
      BY <1>9 DEF Abandon, release
    <2>2. TypeOK'
      BY <2>1 DEF IInv, TypeOK
    <2>3. AttemptBudget' /\ ExhaustedWorkIsTerminal' /\ DocumentIffArchived'
      BY <2>1 DEF IInv, AttemptBudget, ExhaustedWorkIsTerminal, DocumentIffArchived
    <2>4. LeaseFence'
      BY <2>1 DEF IInv, TypeOK, LeaseFence
    <2>5. QED
      BY <2>2, <2>3, <2>4 DEF IInv
  <1>10. QED
    BY <1>1, <1>2, <1>3, <1>4, <1>5, <1>6, <1>7, <1>8, <1>9,
       ClaimPreserves, SettlePreserves, TickPreserves DEF LedgerNext

-----------------------------------------------------------------------------
(* Safety for every instance *)

\* The invariant holds in every reachable state.
THEOREM LedgerInvariant == LedgerSpec => []IInv
  BY InitInvariant, StepInvariant, PTL DEF LedgerSpec

\* Rows, counters and timestamps stay inside their declared ranges.
THEOREM LedgerTypeCorrect == LedgerSpec => []TypeOK
  <1>1. IInv => TypeOK
    BY DEF IInv
  <1>2. QED
    BY <1>1, LedgerInvariant, PTL

\* No claimable item is out of attempts and no lease runs beyond the retry budget.
THEOREM LedgerAttemptBudget == LedgerSpec => []AttemptBudget
  <1>1. IInv => AttemptBudget
    BY DEF IInv
  <1>2. QED
    BY <1>1, LedgerInvariant, PTL

\* A work item that ran out of attempts never leaves its job looking alive.
THEOREM LedgerExhaustedWorkIsTerminal == LedgerSpec => []ExhaustedWorkIsTerminal
  <1>1. IInv => ExhaustedWorkIsTerminal
    BY DEF IInv
  <1>2. QED
    BY <1>1, LedgerInvariant, PTL

\* The lease token of the settlement statements excludes every other worker.
THEOREM LedgerLeaseFence == LedgerSpec => []LeaseFence
  <1>1. IInv => LeaseFence
    BY DEF IInv
  <1>2. QED
    BY <1>1, LedgerInvariant, PTL

\* A job row names an archive document exactly when it is archived.
THEOREM LedgerDocumentIffArchived == LedgerSpec => []DocumentIffArchived
  <1>1. IInv => DocumentIffArchived
    BY DEF IInv
  <1>2. QED
    BY <1>1, LedgerInvariant, PTL

-----------------------------------------------------------------------------
(* What a step may never do *)

\* Archived and cancelled rows never change; a failed row may only be resolved.
JobStep(j) ==
    /\ job[j].status \in {"archived", "cancelled"} => job'[j] = job[j]
    /\ job[j].status = "failed" =>
          job'[j] = job[j] \/ job'[j].status \in {"archived", "cancelled"}

\* A settled work item keeps its settlement.
WorkStep(j) ==
    work[j].status \in {"completed", "failed"} => work'[j].status = work[j].status

\* _transition_job refuses to leave a terminal state, except to resolve a failure.
LEMMA TransitionStep ==
    ASSUME TypeOK, NEW i \in Jobs, NEW to \in TransitionTargets, NEW c, NEW r, NEW ids,
           transition_job(i, to, c, r, ids)
    PROVE  \A j \in Jobs : JobStep(j)
  <1>1. job[i].status = to \/ job[i].status \in AllowedFrom[to]
    BY DEF transition_job, transition_accepted
  <1>2. job' = [job EXCEPT ![i] = transitioned(i, to, c, r, ids)]
    BY DEF transition_job
  <1>3. job[i].status \in {"archived", "cancelled", "failed"}
          => to = job[i].status \/ (job[i].status = "failed" /\ to = "archived")
    BY <1>1 DEF AllowedFrom, TransitionTargets
  <1>4. QED
    BY <1>2, <1>3 DEF TypeOK, JobStep, transitioned

\* Running out of attempts fails a live job and leaves a terminal one alone.
LEMMA SettleFailedStep ==
    ASSUME TypeOK, NEW i \in Jobs, NEW eta, NEW c, work[i].status = "leased",
           settle_failed_work(i, eta, c)
    PROVE  \A j \in Jobs : JobStep(j) /\ WorkStep(j)
  <1>1. \A j \in Jobs : job'[j] = job[j] \/ (j = i /\ job'[j] = terminalized(j, c))
    BY DEF settle_failed_work, TypeOK
  <1>2. \A j \in Jobs : JobStep(j)
    BY <1>1 DEF JobStep, terminalized, TerminalStatuses
  <1>3. \A j \in Jobs : WorkStep(j)
    BY DEF settle_failed_work, TypeOK, WorkStep
  <1>4. QED
    BY <1>2, <1>3

\* No step of the ledger leaves a terminal job state or reopens settled work.
LEMMA StepDiscipline ==
    ASSUME IInv, [LedgerNext]_ledgerVars
    PROVE  \A j \in Jobs : JobStep(j) /\ WorkStep(j)
  <1> USE DEF IInv
  <1>1. CASE job' = job /\ work' = work
    BY <1>1 DEF JobStep, WorkStep
  <1>2. ASSUME NEW i \in Jobs, NEW enqueue \in BOOLEAN, create_report_job(i, enqueue)
        PROVE  \A j \in Jobs : JobStep(j) /\ WorkStep(j)
    BY <1>2 DEF create_report_job, ensured_work_item, JobStep, WorkStep, TypeOK
  <1>3. ASSUME NEW i \in Jobs, resubmit_report_job(i)
        PROVE  \A j \in Jobs : JobStep(j) /\ WorkStep(j)
    BY <1>3 DEF resubmit_report_job, ensured_work_item, JobStep, WorkStep, TypeOK
  <1>4. ASSUME NEW i \in Jobs, NEW to \in TransitionTargets, NEW c, NEW r, NEW ids,
               transition_job(i, to, c, r, ids), UNCHANGED work
        PROVE  \A j \in Jobs : JobStep(j) /\ WorkStep(j)
    <2>1. \A j \in Jobs : JobStep(j)
      BY <1>4, TransitionStep
    <2>2. QED
      BY <1>4, <2>1 DEF WorkStep
  <1>5. ASSUME NEW i \in Jobs,
               MarkProgress(i) \/ mark_archived(i)
                 \/ \E c \in CallerCategories, r \in BOOLEAN : mark_failed(i, c, r)
        PROVE  \A j \in Jobs : JobStep(j) /\ WorkStep(j)
    <2>1. TransitionTargets = {"collecting_data", "data_ready", "rendering", "completed",
                               "archiving", "archived", "failed"}
      BY DEF TransitionTargets, AllowedFrom
    <2>2. PICK to \in TransitionTargets : \E c, r, ids : transition_job(i, to, c, r, ids)
      BY <1>5, <2>1 DEF MarkProgress, mark_archived, mark_failed
    <2>3. UNCHANGED work
      BY <1>5 DEF MarkProgress, mark_archived, mark_failed
    <2>4. PICK c, r, ids : transition_job(i, to, c, r, ids)
      BY <2>2
    <2>5. QED
      BY <1>4, <2>3, <2>4
  <1>6. ASSUME NEW i \in Jobs, cancel_job(i)
        PROVE  \A j \in Jobs : JobStep(j) /\ WorkStep(j)
    BY <1>6 DEF cancel_job, is_report_job_cancellable, CancelBlockedStatuses,
                JobStep, WorkStep, TypeOK
  <1>7. ASSUME NEW i \in Jobs, recover_expired_work_item(i)
        PROVE  \A j \in Jobs : JobStep(j) /\ WorkStep(j)
    BY <1>7, SettleFailedStep DEF recover_expired_work_item
  <1>8. ASSUME NEW w \in Workers, NEW i \in Jobs, NEW t \in Tokens,
               claim_work_item(w, i, t)
        PROVE  \A j \in Jobs : JobStep(j) /\ WorkStep(j)
    BY <1>8 DEF claim_work_item, ClaimableStatuses, leased_row, JobStep, WorkStep, TypeOK
  <1>9. ASSUME NEW w \in Workers, Settle(w)
        PROVE  \A j \in Jobs : JobStep(j) /\ WorkStep(j)
    <2> DEFINE i == holding[w].job
    <2>1. i \in Jobs /\ work[i].status = "leased"
      BY <1>9 DEF Settle, complete_work_item, defer_work_item, fail_work_item,
                  lease_owned, TypeOK, Lease
    <2>2. CASE fail_work_item(w)
      <3> HIDE DEF i
      <3>1. settle_failed_work(i, 0, "operator_intervention_required")
        BY <2>2 DEF fail_work_item, i
      <3>2. QED
        BY <2>1, <3>1, SettleFailedStep
    <2>3. CASE complete_work_item(w) \/ defer_work_item(w, BaseDelay)
      <3>1. job' = job /\ \E row : work' = [work EXCEPT ![i] = row]
        BY <2>3 DEF complete_work_item, defer_work_item
      <3> HIDE DEF i
      <3>2. QED
        BY <2>1, <3>1 DEF JobStep, WorkStep, TypeOK
    <2>4. QED
      BY <1>9, <2>2, <2>3 DEF Settle
  <1>10. CASE tick
    BY <1>10 DEF tick, aged_row, JobStep, WorkStep
  <1>11. QED
    BY <1>1, <1>2, <1>3, <1>5, <1>6, <1>7, <1>8, <1>9, <1>10
       DEF LedgerNext, ledgerVars, Abandon

\* Archived and cancelled jobs are final for every caller, and a failed job may only be
\* resolved to archived or withdrawn.
THEOREM LedgerTerminalJobsStayTerminal == LedgerSpec => TerminalJobsStayTerminal
  <1>1. ASSUME IInv, [LedgerNext]_ledgerVars
        PROVE  [\A j \in Jobs :
                  /\ job[j].status \in {"archived", "cancelled"} => job'[j] = job[j]
                  /\ job[j].status = "failed" =>
                        job'[j] = job[j] \/ job'[j].status \in {"archived", "cancelled"}
               ]_ledgerVars
    BY <1>1, StepDiscipline DEF JobStep
  <1>2. QED
    BY <1>1, LedgerInvariant, PTL DEF LedgerSpec, TerminalJobsStayTerminal

\* Work that completed or failed is never run again.
THEOREM LedgerWorkSettledOnce == LedgerSpec => WorkSettledOnce
  <1>1. ASSUME IInv, [LedgerNext]_ledgerVars
        PROVE  [\A j \in Jobs :
                  work[j].status \in {"completed", "failed"}
                     => work'[j].status = work[j].status]_ledgerVars
    BY <1>1, StepDiscipline DEF WorkStep
  <1>2. QED
    BY <1>1, LedgerInvariant, PTL DEF LedgerSpec, WorkSettledOnce

\* A row is leased after a step only if it was leased under the same token before, or the
\* step is a claim under a token nobody had.
LeaseStep(j) ==
    work'[j].status = "leased" =>
        \/ work[j].status = "leased" /\ work'[j].lease_token = work[j].lease_token
        \/ \A w \in Workers : holding[w] # NoLease => holding[w].token # work'[j].lease_token

\* A step that rewrites one row without leasing it creates no lease.
LEMMA UnleasedStep ==
    ASSUME TypeOK, NEW i \in Jobs, NEW row, row.status # "leased",
           work' = [work EXCEPT ![i] = row]
    PROVE  \A j \in Jobs : LeaseStep(j)
  BY DEF TypeOK, LeaseStep

\* Only a claim grants a lease.
LEMMA StepLeases ==
    ASSUME IInv, [LedgerNext]_ledgerVars
    PROVE  \A j \in Jobs : LeaseStep(j)
  <1> USE DEF IInv
  <1>1. CASE work' = work
    BY <1>1 DEF LeaseStep
  <1>2. ASSUME NEW i \in Jobs, NEW status,
               work' = [work EXCEPT ![i] = ensured_work_item(i, status)]
        PROVE  \A j \in Jobs : LeaseStep(j)
    <2>1. ensured_work_item(i, status) \in {work[i], PendingWork}
      BY DEF ensured_work_item
    <2>2. CASE ensured_work_item(i, status) = work[i]
      BY <1>1, <1>2, <2>2 DEF TypeOK
    <2>3. CASE ensured_work_item(i, status) = PendingWork
      BY <1>2, <2>3, UnleasedStep DEF PendingWork
    <2>4. QED
      BY <2>1, <2>2, <2>3
  <1>3. ASSUME NEW i \in Jobs,
               \/ create_report_job(i, TRUE)
               \/ create_report_job(i, FALSE)
               \/ resubmit_report_job(i)
        PROVE  \A j \in Jobs : LeaseStep(j)
    BY <1>1, <1>2, <1>3 DEF create_report_job, resubmit_report_job
  <1>4. ASSUME NEW i \in Jobs, NEW eta, NEW c, settle_failed_work(i, eta, c)
        PROVE  \A j \in Jobs : LeaseStep(j)
    <2>1. failure_decision(work[i], eta).status # "leased"
      BY DEF failure_decision
    <2>2. QED
      BY <1>4, <2>1, UnleasedStep DEF settle_failed_work
  <1>5. ASSUME NEW w \in Workers, NEW i \in Jobs, NEW t \in Tokens, claim_work_item(w, i, t)
        PROVE  \A j \in Jobs : LeaseStep(j)
    BY <1>5 DEF claim_work_item, fresh_token, leased_row, LeaseStep, TypeOK
  <1>6. ASSUME NEW w \in Workers, Settle(w)
        PROVE  \A j \in Jobs : LeaseStep(j)
    <2> DEFINE i == holding[w].job
    <2>1. i \in Jobs
      BY <1>6 DEF Settle, complete_work_item, defer_work_item, fail_work_item,
                  lease_owned, TypeOK, Lease
    <2>2. CASE fail_work_item(w)
      BY <1>4, <2>1, <2>2 DEF fail_work_item
    <2>3. CASE complete_work_item(w)
      <3>1. completed_row(work[i]).status # "leased"
        BY DEF completed_row
      <3>2. work' = [work EXCEPT ![i] = completed_row(work[i])]
        BY <2>3 DEF complete_work_item
      <3> HIDE DEF i
      <3>3. QED
        BY <2>1, <3>1, <3>2, UnleasedStep
    <2>4. CASE defer_work_item(w, BaseDelay)
      <3>1. deferred_row(work[i], BaseDelay).status # "leased"
        BY DEF deferred_row
      <3>2. work' = [work EXCEPT ![i] = deferred_row(work[i], BaseDelay)]
        BY <2>4 DEF defer_work_item
      <3> HIDE DEF i
      <3>3. QED
        BY <2>1, <3>1, <3>2, UnleasedStep
    <2>5. QED
      BY <1>6, <2>2, <2>3, <2>4 DEF Settle
  <1>7. CASE tick
    BY <1>7 DEF tick, aged_row, LeaseStep
  <1>8. QED
    BY <1>1, <1>3, <1>4, <1>5, <1>6, <1>7
       DEF LedgerNext, ledgerVars, Abandon, MarkProgress, mark_archived, mark_failed,
           cancel_job, recover_expired_work_item

\* A worker whose lease was recovered under it never regains the right to settle.
THEOREM LedgerLostLeaseStaysLost == LedgerSpec => LostLeaseStaysLost
  <1>1. ASSUME IInv, [LedgerNext]_ledgerVars
        PROVE  [\A w \in Workers :
                  holding[w] # NoLease /\ ~lease_owned(w) /\ holding'[w] = holding[w]
                      => ~(lease_owned(w)')]_ledgerVars
    <2> SUFFICES ASSUME NEW w \in Workers, holding[w] # NoLease, ~lease_owned(w),
                        holding'[w] = holding[w], lease_owned(w)'
                 PROVE  FALSE
      OBVIOUS
    <2>1. holding[w].job \in Jobs
      BY <1>1 DEF IInv, TypeOK, Lease
    <2>2. LeaseStep(holding[w].job)
      BY <1>1, <2>1, StepLeases
    <2>3. QED
      BY <2>2 DEF LeaseStep, lease_owned
  <1>2. QED
    BY <1>1, LedgerInvariant, PTL DEF LedgerSpec, LostLeaseStaysLost

-----------------------------------------------------------------------------
(***************************************************************************)
(* The execution of jobs                                                   *)
(***************************************************************************)
-----------------------------------------------------------------------------
(* The inductive invariant *)

Stages == {"idle", "load", "resume", "mark_collecting", "collect", "store",
           "mark_data_ready", "build", "mark_rendering", "submit", "await", "lookup",
           "diagnose", "mark_completed", "mark_archiving", "mark_archived",
           "mark_failed", "waiting", "done", "raised"}

\* Stages an executor reaches only for a document job whose capture is complete.
SubmitStages == {"build", "mark_rendering", "submit", "await"}
LookupStages == {"lookup", "diagnose"}
OutcomeStages == {"mark_completed", "mark_archiving", "mark_archived"}
RenderStages == SubmitStages \cup LookupStages \cup OutcomeStages

ArchivePostures == {"archive_outcome_unknown", "archive_handoff_failed",
                    "archive_handoff_not_configured"}

Payloads == Contents \cup {"failed_retryable", "failed_final", "inconsistent"}

RunRow == [pc : Stages, job : Jobs \cup {NoJob}, seen : JobStatuses,
           payload : Payloads \cup {"none"}, category : CallerCategories \cup {"none"},
           retry : BOOLEAN, request : BOOLEAN]

\* Executors, snapshots, renders and custody have their declared shape.
PipelineTypeOK ==
    /\ run \in [Executors -> RunRow]
    /\ snapshot \in [Jobs -> Payloads \cup {"none"}]
    /\ render \in [Jobs -> {"absent", "in_progress", "rendered", "failed"}]
    /\ custody \in [Jobs -> {"none", "committed", "refused", "dropped"}]

\* What an executor at a stage may rely on although the job may have moved since it read
\* it: each fact is one that nobody takes back.
RunOK(e) ==
    LET j == run[e].job
        pc == run[e].pc
    IN  pc # "idle" =>
          /\ j \in Jobs
          /\ job[j].status # "absent"
          /\ pc = "store" => run[e].payload # "none"
          /\ pc = "mark_data_ready" => snapshot[j] \in Contents
          /\ pc \in RenderStages => j \notin DataOnly /\ snapshot[j] \in Contents
          /\ pc \in SubmitStages => run[e].seen \in {"data_ready", "rendering"}
          /\ pc \in LookupStages => run[e].seen \in {"rendering", "completed", "archiving"}
          /\ pc \in LookupStages /\ run[e].seen = "archiving"
                => "archive_request_id" \in job[j].ids
          /\ pc \in OutcomeStages =>
                /\ run[e].category = "none" => custody[j] = "committed"
                /\ run[e].category # "none" /\ run[e].retry => run[e].request
          /\ pc = "mark_archived" => run[e].category = "none"
          /\ pc = "mark_failed" =>
                /\ run[e].category # "none"
                /\ run[e].retry /\ run[e].category \in ArchivePostures
                      => "archive_request_id" \in job[j].ids
          /\ pc = "done" => finished(j)

\* What the two rows of a job say about each other and about its identities.
JobOK(j) ==
    /\ work[j].status # "absent" => job[j].status # "absent"
    /\ j \in DataOnly => job[j].status \notin {"rendering", "completed", "archiving", "archived"}
    /\ job[j].status = "archiving" => "archive_request_id" \in job[j].ids

\* A worker executes the item it holds.
HoldingOK ==
    \A w \in Workers : holding[w] # NoLease =>
        run[w].pc # "idle" /\ run[w].job = holding[w].job

PipelineInv ==
    /\ IInv
    /\ PipelineTypeOK
    /\ \A e \in Executors : RunOK(e)
    /\ \A j \in Jobs : JobOK(j)
    /\ HoldingOK
    /\ CompletedWorkIsFinished
    /\ RenderedFromIntactSnapshot
    /\ ArchivedIsCommitted
    /\ ReplayableArchiveFailureHasRequest

-----------------------------------------------------------------------------
(* What a step may do to a job *)

\* The change of a job row by any step: nothing, a new job, or one of the transitions with
\* what its caller knew when it asked for it.
RowStep(j) ==
    \/ job'[j] = job[j]
    \/ job[j].status = "absent" /\ job'[j] = AcceptedJob
    \/ /\ job[j].status # "absent"
       /\ job'[j].status = "cancelled" /\ job'[j].ids = job[j].ids
    \/ /\ job[j].status # "absent"
       /\ job'[j].status = "failed" /\ job'[j].ids = job[j].ids
       /\ job'[j].retry_eligible /\ job'[j].failure_category \in ArchivePostures
             => "archive_request_id" \in job[j].ids
    \/ /\ job[j].status = "accepted"
       /\ job'[j].status = "collecting_data" /\ job'[j].ids = job[j].ids
    \/ /\ job[j].status \in {"accepted", "collecting_data"}
       /\ job'[j].status = "data_ready" /\ job'[j].ids = job[j].ids
       /\ snapshot[j] \in Contents
    \/ /\ job[j].status \notin {"absent", "archived", "cancelled"}
       /\ job'[j].status \in {"rendering", "completed", "archiving", "archived"}
       /\ job[j].ids \subseteq job'[j].ids
       /\ j \notin DataOnly /\ snapshot[j] \in Contents
       /\ job[j].status = "failed" => job'[j].status = "archived"
       /\ job'[j].status = "archiving" => "archive_request_id" \in job'[j].ids
       /\ job'[j].status = "archived" => custody[j] = "committed"

\* The change of a work item: it is created with its job and completed under a finished one.
ItemStep(j) ==
    /\ work'[j].status = "completed" => work[j].status = "completed" \/ finished(j)
    /\ work'[j].status # "absent" => work[j].status # "absent" \/ job'[j].status # "absent"

\* Intact snapshots and committed deliveries stay.
StoresKept(j) ==
    /\ snapshot[j] \in Contents => snapshot'[j] = snapshot[j]
    /\ custody[j] = "committed" => custody'[j] = "committed"

\* What every step keeps of a job, and what an executor that acts on a stale record relies on.
Kept(j) ==
    /\ job[j].status # "absent" => job'[j].status # "absent"
    /\ job[j].status # "absent" /\ "archive_request_id" \in job[j].ids
          => "archive_request_id" \in job'[j].ids
    /\ StoresKept(j)
    /\ finished(j) => finished(j)'

\* The allowed changes of a job row keep what executors rely on.
LEMMA RowStepKeeps ==
    ASSUME NEW j \in Jobs, RowStep(j), StoresKept(j)
    PROVE  Kept(j)
  BY DEF RowStep, Kept, finished, TerminalStatuses, AcceptedJob

\* An executor that does not move keeps its footing through the steps of all others.
LEMMA RunKept ==
    ASSUME NEW e \in Executors, RunOK(e), run'[e] = run[e],
           \A j \in Jobs : Kept(j)
    PROVE  RunOK(e)'
  BY DEF RunOK, Kept, StoresKept

\* The allowed changes preserve every fact about the rows of a job.
LEMMA RowStepPreserves ==
    ASSUME PipelineInv, NEW j \in Jobs, RowStep(j), ItemStep(j), StoresKept(j)
    PROVE  /\ JobOK(j)'
           /\ work'[j].status = "completed" => finished(j)'
           /\ job'[j].status \in {"data_ready", "rendering", "completed", "archiving", "archived"}
                => snapshot'[j] \in Contents
           /\ job'[j].status = "archived" => custody'[j] = "committed"
           /\ job'[j].status = "failed" /\ job'[j].retry_eligible
                 /\ job'[j].failure_category \in ArchivePostures
                => "archive_request_id" \in job'[j].ids
  <1>1. JobOK(j)
    BY DEF PipelineInv
  <1>2. Kept(j)
    BY RowStepKeeps
  <1>3. JobOK(j)'
    BY <1>1, <1>2 DEF JobOK, RowStep, ItemStep, Kept, AcceptedJob
  <1>4. work'[j].status = "completed" => finished(j)'
    BY <1>2 DEF PipelineInv, CompletedWorkIsFinished, ItemStep, Kept
  <1>5. job'[j].status \in {"data_ready", "rendering", "completed", "archiving", "archived"}
          => snapshot'[j] \in Contents
    BY DEF PipelineInv, RenderedFromIntactSnapshot, RowStep, StoresKept, AcceptedJob
  <1>6. job'[j].status = "archived" => custody'[j] = "committed"
    BY DEF PipelineInv, ArchivedIsCommitted, RowStep, StoresKept, AcceptedJob
  <1>7. job'[j].status = "failed" /\ job'[j].retry_eligible
          /\ job'[j].failure_category \in ArchivePostures
          => "archive_request_id" \in job'[j].ids
    BY DEF PipelineInv, ReplayableArchiveFailureHasRequest, RowStep, AcceptedJob,
           ArchivePostures
  <1>8. QED
    BY <1>3, <1>4, <1>5, <1>6, <1>7

\* A step that changes rows in the allowed ways, and leaves its executor with facts that
\* hold, preserves the invariant.
LEMMA StepPreserves ==
    ASSUME PipelineInv, IInv', PipelineTypeOK', HoldingOK',
           \A j \in Jobs : RowStep(j) /\ ItemStep(j) /\ StoresKept(j),
           \A e \in Executors : run'[e] = run[e] \/ RunOK(e)'
    PROVE  PipelineInv'
  <1>1. \A j \in Jobs : Kept(j)
    BY RowStepKeeps
  <1>2. ASSUME NEW e \in Executors
        PROVE  RunOK(e)'
    <2>1. RunOK(e)
      BY DEF PipelineInv
    <2>2. CASE run'[e] = run[e]
      BY <1>1, <2>1, <2>2, RunKept
    <2>3. QED
      BY <2>2
  <1>3. \A j \in Jobs : JobOK(j)'
    BY RowStepPreserves
  <1>4. CompletedWorkIsFinished'
    BY RowStepPreserves DEF CompletedWorkIsFinished
  <1>5. RenderedFromIntactSnapshot'
    BY RowStepPreserves DEF RenderedFromIntactSnapshot
  <1>6. ArchivedIsCommitted'
    BY RowStepPreserves DEF ArchivedIsCommitted
  <1>7. ReplayableArchiveFailureHasRequest'
    BY RowStepPreserves DEF ReplayableArchiveFailureHasRequest, ArchivePostures
  <1>8. QED
    BY <1>2, <1>3, <1>4, <1>5, <1>6, <1>7 DEF PipelineInv

-----------------------------------------------------------------------------
(* Every step is a step of the ledger, or leaves the ledger alone *)

\* The stages that ask sources, Render or the snapshot store, and write no ledger row.
QuietStage(e) ==
    \/ execute_job(e) \/ resume_existing_capture(e) \/ collect_for_job(e)
    \/ capture_proof_pack_snapshot(e) \/ capture_outcome_review_snapshot(e)
    \/ capture_wave_snapshot(e) \/ build_package_or_fail(e) \/ submit_answered(e)
    \/ lookup_answered(e) \/ escalate_or_wait(e) \/ leave_resolution_pending(e)
    \/ stage_raises(e)

\* A quiet stage changes nothing but its executor.
LEMMA QuietStageIsLocal ==
    ASSUME NEW e, QuietStage(e)
    PROVE  local(e)
  BY DEF QuietStage, execute_job, resume_existing_capture, collect_for_job,
         capture_proof_pack_snapshot, capture_outcome_review_snapshot,
         capture_wave_snapshot, capture_embedded_input, build_package_or_fail,
         submit_answered, lookup_answered, escalate_or_wait, leave_resolution_pending,
         stage_raises

\* The stages that are one mark_* call.
MarkStage(e) ==
    \/ mark_collecting_data(e) \/ mark_data_ready(e) \/ mark_rendering(e)
    \/ mark_completed(e) \/ mark_archiving(e) \/ record_archived(e) \/ record_failed(e)

\* A mark_* call is the ledger transaction of that name, or nothing, for any caller that
\* works on a job and names a category of the stages when it fails it.
LEMMA MarkCallIsLedgerStep ==
    ASSUME NEW e, MarkStage(e), run[e].job \in Jobs,
           run[e].pc = "mark_failed" =>
               run[e].category \in CallerCategories /\ run[e].retry \in BOOLEAN
    PROVE  [LedgerNext]_ledgerVars
  <1> DEFINE j == run[e].job
  <1>1. ASSUME NEW to, NEW c, NEW r, NEW ids, NEW seen, NEW next,
               mark(e, to, c, r, ids, seen, next)
        PROVE  \/ transition_job(j, to, c, r, ids) /\ UNCHANGED <<work, holding>>
               \/ UNCHANGED ledgerVars
    BY <1>1 DEF mark, ledgerVars
  <1>2. j \in Jobs
    OBVIOUS
  <1> HIDE DEF j
  <1>3. MarkProgress(j) => LedgerNext
    BY <1>2 DEF LedgerNext
  <1>4. CASE mark_collecting_data(e)
    BY <1>1, <1>3, <1>4 DEF mark_collecting_data, MarkProgress
  <1>5. CASE mark_data_ready(e)
    BY <1>1, <1>3, <1>5 DEF mark_data_ready, MarkProgress
  <1>6. CASE mark_rendering(e)
    BY <1>1, <1>3, <1>6 DEF mark_rendering, MarkProgress
  <1>7. CASE mark_completed(e)
    BY <1>1, <1>3, <1>7 DEF mark_completed, MarkProgress
  <1>8. CASE mark_archiving(e)
    BY <1>1, <1>3, <1>8 DEF mark_archiving, MarkProgress
  <1>9. CASE record_archived(e)
    <2>1. mark_archived(j) => LedgerNext
      BY <1>2 DEF LedgerNext
    <2>2. QED
      BY <1>1, <1>9, <2>1 DEF record_archived, mark_archived
  <1>10. CASE record_failed(e)
    <2>1. run[e].category \in CallerCategories /\ run[e].retry \in BOOLEAN
      BY <1>10 DEF record_failed, at
    <2>2. mark_failed(j, run[e].category, run[e].retry) => LedgerNext
      BY <1>2, <2>1 DEF LedgerNext
    <2>3. QED
      BY <1>1, <1>10, <2>2 DEF record_failed, mark_failed
  <1>11. QED
    BY <1>4, <1>5, <1>6, <1>7, <1>8, <1>9, <1>10 DEF MarkStage

\* An executor of the pipeline is such a caller.
LEMMA MarkIsLedgerStep ==
    ASSUME PipelineInv, NEW e \in Executors, MarkStage(e)
    PROVE  [LedgerNext]_ledgerVars
  <1>1. run[e].pc # "idle"
    BY DEF MarkStage, mark_collecting_data, mark_data_ready, mark_rendering,
           mark_completed, mark_archiving, record_archived, record_failed, at
  <1>2. run[e].job \in Jobs
    BY <1>1 DEF PipelineInv, RunOK
  <1>3. run[e].pc = "mark_failed" =>
            run[e].category \in CallerCategories /\ run[e].retry \in BOOLEAN
    BY DEF PipelineInv, PipelineTypeOK, RunRow, RunOK
  <1>4. QED
    BY <1>2, <1>3, MarkCallIsLedgerStep

\* Every step of the pipeline is a step the ledger allows, or leaves the ledger alone.
LEMMA StepImplements ==
    ASSUME PipelineInv, [PipelineNext]_pipelineVars
    PROVE  [LedgerNext]_ledgerVars
  <1>1. CASE UNCHANGED pipelineVars
    BY <1>1 DEF pipelineVars, ledgerVars
  <1>2. ASSUME NEW j \in Jobs, client_submits(j)
        PROVE  LedgerNext
    BY <1>2 DEF client_submits, create_report_job, LedgerNext
  <1>3. ASSUME NEW j \in Jobs, client_resubmits(j) \/ client_cancels(j) \/ expiry_swept(j)
        PROVE  LedgerNext
    BY <1>3 DEF client_resubmits, client_cancels, expiry_swept, LedgerNext
  <1>4. ASSUME NEW j \in Jobs, render_finishes(j) \/ render_forgets(j) \/ archive_decides(j)
        PROVE  UNCHANGED ledgerVars
    BY <1>4 DEF render_finishes, render_forgets, archive_decides, ledgerVars
  <1>5. ASSUME NEW e \in Executors, QuietStage(e)
        PROVE  UNCHANGED ledgerVars
    BY <1>5, QuietStageIsLocal DEF local, ledgerVars
  <1>6. ASSUME NEW e \in Executors, complete_capture(e) \/ submit_render_package(e)
        PROVE  UNCHANGED ledgerVars
    BY <1>6 DEF complete_capture, submit_render_package, ledgerVars
  <1>7. ASSUME NEW e \in Executors, MarkStage(e)
        PROVE  [LedgerNext]_ledgerVars
    BY <1>7, MarkIsLedgerStep
  <1>8. ASSUME NEW w \in Workers, NEW j \in Jobs, worker_claims(w, j)
        PROVE  LedgerNext
    BY <1>8 DEF worker_claims, LedgerNext
  <1>9. ASSUME NEW w \in Workers, settle_work_item(w)
        PROVE  LedgerNext
    <2>1. Settle(w)
      BY <1>9 DEF settle_work_item, Settle
    <2>2. QED
      BY <2>1 DEF LedgerNext
  <1>10. ASSUME NEW w \in Workers, settlement_refused(w) \/ worker_abandons(w)
         PROVE  [LedgerNext]_ledgerVars
    <2>1. release(w) /\ UNCHANGED <<job, work>>
      BY <1>10 DEF settlement_refused, worker_abandons
    <2>2. CASE holding[w] = NoLease
      BY <2>1, <2>2 DEF release, PipelineInv, IInv, TypeOK, ledgerVars
    <2>3. CASE holding[w] # NoLease
      BY <2>1, <2>3 DEF Abandon, LedgerNext
    <2>4. QED
      BY <2>2, <2>3
  <1>11. ASSUME NEW c \in Callers, caller_starts(c) \/ caller_ends(c)
         PROVE  UNCHANGED ledgerVars
    BY <1>11 DEF caller_starts, caller_ends, local, ledgerVars
  <1>12. CASE clock
    BY <1>12 DEF clock, LedgerNext
  <1>13. ASSUME NEW e \in Executors, Stage(e)
         PROVE  QuietStage(e) \/ MarkStage(e) \/ complete_capture(e) \/ submit_render_package(e)
    BY <1>13 DEF Stage, QuietStage, MarkStage
  <1>14. ASSUME NEW e \in Executors, leave_resolution_pending(e) \/ stage_raises(e)
         PROVE  QuietStage(e)
    BY <1>14 DEF QuietStage
  <1>15. \A w \in Workers : w \in Executors
    BY DEF Executors
  <1>16. QED
    BY <1>1, <1>2, <1>3, <1>4, <1>5, <1>6, <1>7, <1>8, <1>9, <1>10, <1>11, <1>12, <1>13,
       <1>14, <1>15 DEF PipelineNext

-----------------------------------------------------------------------------
(* Steps that move one executor only *)

\* Nothing durable changes and executor e goes on with the same job and facts that hold.
LEMMA LocalStep ==
    ASSUME PipelineInv, NEW e \in Executors, local(e),
           run' \in [Executors -> RunRow],
           \A x \in Executors \ {e} : run'[x] = run[x],
           run'[e].pc # "idle", run'[e].job = run[e].job, RunOK(e)'
    PROVE  PipelineInv'
  <1>1. UNCHANGED ledgerVars
    BY DEF local, ledgerVars
  <1>2. IInv'
    BY <1>1, StepInvariant DEF PipelineInv
  <1>3. PipelineTypeOK'
    BY DEF PipelineInv, PipelineTypeOK, local
  <1>4. HoldingOK'
    BY DEF PipelineInv, HoldingOK, local, Executors
  <1>5. \A j \in Jobs : RowStep(j) /\ ItemStep(j) /\ StoresKept(j)
    BY DEF local, RowStep, ItemStep, StoresKept
  <1>6. QED
    BY <1>2, <1>3, <1>4, <1>5, StepPreserves

\* goto changes the stage only.
LEMMA GotoRow ==
    ASSUME PipelineInv, NEW e \in Executors, NEW pc \in Stages, goto(e, pc)
    PROVE  /\ run' \in [Executors -> RunRow]
           /\ \A x \in Executors \ {e} : run'[x] = run[x]
           /\ run'[e] = [run[e] EXCEPT !.pc = pc]
  BY DEF PipelineInv, PipelineTypeOK, goto, RunRow

\* fail_with sets the posture and keeps the job.
LEMMA FailRow ==
    ASSUME PipelineInv, NEW e \in Executors, NEW c \in StageCategories, NEW r \in BOOLEAN,
           fail_with(e, c, r)
    PROVE  /\ run' \in [Executors -> RunRow]
           /\ \A x \in Executors \ {e} : run'[x] = run[x]
           /\ run'[e].pc = "mark_failed" /\ run'[e].job = run[e].job
           /\ run'[e].category = c /\ run'[e].retry = r
  <1> DEFINE row == [run[e] EXCEPT !.pc = "mark_failed", !.category = c, !.retry = r,
                                   !.payload = "none", !.request = FALSE]
  <1>1. run \in [Executors -> RunRow] /\ run[e] \in RunRow
    BY DEF PipelineInv, PipelineTypeOK
  <1>2. c \in CallerCategories
    BY PipelineAssumption
  <1>3. /\ row \in RunRow
        /\ row.pc = "mark_failed" /\ row.job = run[e].job
        /\ row.category = c /\ row.retry = r
    BY <1>1, <1>2 DEF RunRow, Stages
  <1>4. run' = [run EXCEPT ![e] = row]
    BY <1>1 DEF fail_with
  <1> HIDE DEF row
  <1>5. QED
    BY <1>1, <1>3, <1>4

\* A decision to fail the job, with a posture that promises nothing about an archive
\* request or follows one that is recorded.
LEMMA FailStep ==
    ASSUME PipelineInv, NEW e \in Executors, NEW c \in StageCategories, NEW r \in BOOLEAN,
           run[e].pc # "idle", local(e), fail_with(e, c, r),
           r /\ c \in ArchivePostures => "archive_request_id" \in job[run[e].job].ids
    PROVE  PipelineInv'
  <1>1. RunOK(e)
    BY DEF PipelineInv
  <1>2. /\ run' \in [Executors -> RunRow]
        /\ \A x \in Executors \ {e} : run'[x] = run[x]
        /\ run'[e].pc = "mark_failed" /\ run'[e].job = run[e].job
        /\ run'[e].category = c /\ run'[e].retry = r
    BY FailRow
  <1>3. RunOK(e)'
    BY <1>1, <1>2 DEF RunOK, local, StageCategories, RenderStages, SubmitStages,
                      LookupStages, OutcomeStages
  <1>4. QED
    BY <1>2, <1>3, LocalStep

\* The stages at which an executor relies on nothing but the job it works on.
PlainStages == {"resume", "mark_collecting", "collect", "waiting", "raised"}

\* An executor goes on to a plain stage.
LEMMA PlainStep ==
    ASSUME PipelineInv, NEW e \in Executors, NEW pc \in PlainStages,
           run[e].pc # "idle", local(e), goto(e, pc)
    PROVE  PipelineInv'
  <1>1. RunOK(e)
    BY DEF PipelineInv
  <1> pc \in Stages
    BY DEF PlainStages, Stages
  <1>2. /\ run' \in [Executors -> RunRow]
        /\ \A x \in Executors \ {e} : run'[x] = run[x]
        /\ run'[e] = [run[e] EXCEPT !.pc = pc]
    BY GotoRow
  <1>3. run[e] \in RunRow
    BY DEF PipelineInv, PipelineTypeOK
  <1>4. run'[e].pc = pc /\ run'[e].job = run[e].job
    BY <1>2, <1>3 DEF RunRow
  <1>5. RunOK(e)'
    BY <1>1, <1>4 DEF RunOK, local, PlainStages, RenderStages, SubmitStages, LookupStages,
                      OutcomeStages
  <1>6. QED
    BY <1>2, <1>4, <1>5, LocalStep DEF PlainStages

\* Reading the job picks a stage whose facts the row itself supplies.
LEMMA ExecuteJobStep ==
    ASSUME PipelineInv, NEW e \in Executors, execute_job(e)
    PROVE  PipelineInv'
  <1> DEFINE j == run[e].job
             status == job[j].status
             stage == IF status \in {"accepted", "collecting_data"} THEN "resume"
                      ELSE IF j \in DataOnly THEN "done"
                      ELSE IF status = "data_ready" THEN "build"
                      ELSE IF status \in {"rendering", "completed", "archiving"} THEN "lookup"
                      ELSE "done"
             row == [run[e] EXCEPT !.pc = stage, !.seen = status]
  <1>1. run[e].pc = "load" /\ RunOK(e) /\ run[e] \in RunRow /\ run \in [Executors -> RunRow]
    BY DEF execute_job, at, PipelineInv, PipelineTypeOK
  <1>2. /\ j \in Jobs /\ status # "absent" /\ status \in JobStatuses
        /\ JobOK(j)
    BY <1>1 DEF RunOK, PipelineInv, IInv, TypeOK, JobRow
  <1>3. status \in {"data_ready", "rendering", "completed", "archiving"}
          => snapshot[j] \in Contents
    BY <1>2 DEF PipelineInv, RenderedFromIntactSnapshot
  <1>4. stage \in Stages /\ stage # "idle"
    BY DEF Stages
  <1>5. /\ row \in RunRow
        /\ row.pc = stage /\ row.job = j /\ row.seen = status
    BY <1>1, <1>2, <1>4 DEF RunRow
  <1>6. run' = [run EXCEPT ![e] = row] /\ local(e)
    BY <1>1 DEF execute_job
  <1> HIDE DEF row
  <1>7. /\ run' \in [Executors -> RunRow]
        /\ \A x \in Executors \ {e} : run'[x] = run[x]
        /\ run'[e].pc = stage /\ run'[e].job = j /\ run'[e].seen = status
    BY <1>1, <1>5, <1>6
  <1>8. stage = "done" => finished(j)
    BY <1>2 DEF finished, JobOK, JobStatuses, TerminalStatuses
  <1>9. stage = "lookup" => status \in {"rendering", "completed", "archiving"}
    OBVIOUS
  <1>10. stage = "build" => status = "data_ready"
    OBVIOUS
  <1>11. stage \in {"build", "lookup"} => j \notin DataOnly
    OBVIOUS
  <1>12. stage \in {"resume", "done", "build", "lookup"}
    OBVIOUS
  <1> HIDE DEF stage
  <1>13. RunOK(e)'
    BY <1>2, <1>3, <1>6, <1>7, <1>8, <1>9, <1>10, <1>11, <1>12
       DEF RunOK, local, finished, JobOK, RenderStages, SubmitStages, LookupStages,
           OutcomeStages
  <1>14. QED
    BY <1>4, <1>6, <1>7, <1>13, LocalStep

\* After the payload is known: ready, or failed with a posture about the sources.
LEMMA AfterCaptureRow ==
    ASSUME PipelineInv, NEW e \in Executors, run[e].pc # "idle", NEW p \in Payloads,
           after_capture(e, p), UNCHANGED <<job, custody>>,
           snapshot'[run[e].job] = p
    PROVE  /\ run' \in [Executors -> RunRow]
           /\ \A x \in Executors \ {e} : run'[x] = run[x]
           /\ run'[e].pc # "idle" /\ run'[e].job = run[e].job
           /\ RunOK(e)'
  <1>1. RunOK(e) /\ run[e] \in RunRow /\ run \in [Executors -> RunRow]
    BY DEF PipelineInv, PipelineTypeOK
  <1>2. CASE p \in Contents /\ run' = [run EXCEPT ![e].pc = "mark_data_ready",
                                                 ![e].payload = "none"]
    <2> DEFINE row == [run[e] EXCEPT !.pc = "mark_data_ready", !.payload = "none"]
    <2>1. row \in RunRow /\ row.pc = "mark_data_ready" /\ row.job = run[e].job
      BY <1>1 DEF RunRow, Stages
    <2>2. run' = [run EXCEPT ![e] = row]
      BY <1>1, <1>2
    <2> HIDE DEF row
    <2>3. /\ run' \in [Executors -> RunRow]
          /\ \A x \in Executors \ {e} : run'[x] = run[x]
          /\ run'[e].pc = "mark_data_ready" /\ run'[e].job = run[e].job
      BY <1>1, <2>1, <2>2
    <2>4. RunOK(e)'
      BY <1>1, <1>2, <2>3 DEF RunOK, RenderStages, SubmitStages, LookupStages, OutcomeStages
    <2>5. QED
      BY <2>3, <2>4
  <1>3. ASSUME NEW c \in StageCategories, NEW r \in BOOLEAN, c \notin ArchivePostures,
               fail_with(e, c, r)
        PROVE  /\ run' \in [Executors -> RunRow]
               /\ \A x \in Executors \ {e} : run'[x] = run[x]
               /\ run'[e].pc # "idle" /\ run'[e].job = run[e].job
               /\ RunOK(e)'
    <2>1. /\ run' \in [Executors -> RunRow]
          /\ \A x \in Executors \ {e} : run'[x] = run[x]
          /\ run'[e].pc = "mark_failed" /\ run'[e].job = run[e].job
          /\ run'[e].category = c /\ run'[e].retry = r
      BY <1>3, FailRow
    <2>2. RunOK(e)'
      BY <1>1, <1>3, <2>1 DEF RunOK, StageCategories, RenderStages, SubmitStages,
                              LookupStages, OutcomeStages
    <2>3. QED
      BY <2>1, <2>2
  <1>4. QED
    BY <1>2, <1>3 DEF after_capture, StageCategories, ArchivePostures

\* A stored snapshot is resumed, or the capture starts.
LEMMA ResumeStep ==
    ASSUME PipelineInv, NEW e \in Executors, resume_existing_capture(e)
    PROVE  PipelineInv'
  <1> DEFINE j == run[e].job
  <1>1. run[e].pc = "resume" /\ local(e) /\ RunOK(e)
    BY DEF resume_existing_capture, at, PipelineInv
  <1>2. j \in Jobs /\ snapshot[j] \in Payloads \cup {"none"}
    BY <1>1 DEF RunOK, PipelineInv, PipelineTypeOK
  <1>3. CASE snapshot[j] # "none" /\ after_capture(e, snapshot[j])
    <2>1. UNCHANGED <<job, custody>> /\ snapshot'[j] = snapshot[j]
      BY <1>1 DEF local
    <2>2. snapshot[j] \in Payloads
      BY <1>2, <1>3
    <2>3. QED
      BY <1>1, <1>3, <2>1, <2>2, AfterCaptureRow, LocalStep
  <1>4. CASE goto(e, "mark_collecting") \/ goto(e, "collect")
    BY <1>1, <1>4, PlainStep DEF PlainStages
  <1>5. QED
    BY <1>3, <1>4 DEF resume_existing_capture

\* A payload was collected, or read from the order.
LEMMA CollectedStep ==
    ASSUME PipelineInv, NEW e \in Executors, NEW p \in Payloads, run[e].pc # "idle", local(e),
           run' = [run EXCEPT ![e].pc = "store", ![e].payload = p]
    PROVE  PipelineInv'
  <1> DEFINE row == [run[e] EXCEPT !.pc = "store", !.payload = p]
  <1>1. RunOK(e) /\ run[e] \in RunRow /\ run \in [Executors -> RunRow]
    BY DEF PipelineInv, PipelineTypeOK
  <1>2. row \in RunRow /\ row.pc = "store" /\ row.job = run[e].job /\ row.payload = p
    BY <1>1 DEF RunRow, Stages
  <1>3. run' = [run EXCEPT ![e] = row]
    BY <1>1
  <1> HIDE DEF row
  <1>4. /\ run' \in [Executors -> RunRow]
        /\ \A x \in Executors \ {e} : run'[x] = run[x]
        /\ run'[e].pc = "store" /\ run'[e].job = run[e].job /\ run'[e].payload = p
    BY <1>1, <1>2, <1>3
  <1>5. p # "none"
    BY PipelineAssumption DEF Payloads
  <1>6. RunOK(e)'
    BY <1>1, <1>4, <1>5 DEF RunOK, local, RenderStages, SubmitStages, LookupStages, OutcomeStages
  <1>7. QED
    BY <1>4, <1>6, LocalStep

\* Sources answer, fail, or ask for another attempt.
LEMMA CollectStep ==
    ASSUME PipelineInv, NEW e \in Executors, collect_for_job(e)
    PROVE  PipelineInv'
  <1>1. run[e].pc # "idle" /\ local(e)
    BY DEF collect_for_job, at
  <1>2. CaptureAnswers \subseteq Payloads
    BY PipelineAssumption DEF Payloads
  <1>3. CASE goto(e, "raised")
    BY <1>1, <1>3, PlainStep DEF PlainStages
  <1>4. CASE \E p \in CaptureAnswers : run' = [run EXCEPT ![e].pc = "store", ![e].payload = p]
    BY <1>1, <1>2, <1>4, CollectedStep
  <1>5. QED
    BY <1>3, <1>4 DEF collect_for_job

\* An order's own input is read back and checked again.
LEMMA EmbeddedStep ==
    ASSUME PipelineInv, NEW e \in Executors, NEW family, capture_embedded_input(e, family)
    PROVE  PipelineInv'
  <1> DEFINE input == Embedded[run[e].job].input
  <1>1. run[e].pc # "idle" /\ local(e)
    BY DEF capture_embedded_input, at
  <1>2. CASE input \in Contents /\ run' = [run EXCEPT ![e].pc = "store", ![e].payload = input]
    BY <1>1, <1>2, CollectedStep DEF Payloads
  <1>3. CASE fail_with(e, "validation_failed", FALSE)
    BY <1>1, <1>3, FailStep DEF StageCategories, ArchivePostures
  <1>4. CASE goto(e, "raised")
    BY <1>1, <1>4, PlainStep DEF PlainStages
  <1>5. QED
    BY <1>2, <1>3, <1>4 DEF capture_embedded_input

\* goto between stages that rely on the complete capture of a document job.
LEMMA SubmitGotoStep ==
    ASSUME PipelineInv, NEW e \in Executors, NEW pc \in SubmitStages,
           run[e].pc \in RenderStages, run[e].seen \in {"data_ready", "rendering"},
           UNCHANGED <<job, custody, snapshot>>, goto(e, pc)
    PROVE  /\ run' \in [Executors -> RunRow]
           /\ \A x \in Executors \ {e} : run'[x] = run[x]
           /\ run'[e].pc # "idle" /\ run'[e].job = run[e].job
           /\ RunOK(e)'
  <1> pc \in Stages /\ pc # "idle"
    BY DEF SubmitStages, Stages
  <1>1. run[e].pc # "idle" /\ RunOK(e) /\ run[e] \in RunRow
    BY DEF PipelineInv, PipelineTypeOK, RenderStages, SubmitStages, LookupStages, OutcomeStages
  <1>2. /\ run' \in [Executors -> RunRow]
        /\ \A x \in Executors \ {e} : run'[x] = run[x]
        /\ run'[e] = [run[e] EXCEPT !.pc = pc]
    BY GotoRow
  <1>3. run'[e].pc = pc /\ run'[e].job = run[e].job /\ run'[e].seen = run[e].seen
    BY <1>1, <1>2 DEF RunRow
  <1>4. RunOK(e)'
    BY <1>1, <1>3 DEF RunOK, RenderStages, SubmitStages, LookupStages, OutcomeStages
  <1>5. QED
    BY <1>2, <1>3, <1>4

\* A package is built, or the job fails validation.
LEMMA BuildStep ==
    ASSUME PipelineInv, NEW e \in Executors, build_package_or_fail(e)
    PROVE  PipelineInv'
  <1>1. run[e].pc = "build" /\ local(e) /\ RunOK(e)
    BY DEF build_package_or_fail, at, PipelineInv
  <1>2. run[e].seen \in {"data_ready", "rendering"} /\ run[e].pc \in RenderStages
    BY <1>1 DEF RunOK, RenderStages, SubmitStages
  <1>3. CASE goto(e, "mark_rendering") \/ goto(e, "submit")
    BY <1>1, <1>2, <1>3, SubmitGotoStep, LocalStep DEF local, SubmitStages
  <1>4. CASE fail_with(e, "render_validation_failed", FALSE)
    BY <1>1, <1>4, FailStep DEF StageCategories, ArchivePostures
  <1>5. QED
    BY <1>3, <1>4 DEF build_package_or_fail

\* A rendered outcome is adopted with a posture that is true: only a committed delivery has
\* no failure category, and a replay is promised only for a request that is recorded.
LEMMA AdoptRenderedStep ==
    ASSUME PipelineInv, NEW e \in Executors, run[e].pc \in {"await", "lookup"}, local(e),
           adopt_rendered(e)
    PROVE  PipelineInv'
  <1> DEFINE j == run[e].job
             seen == run[e].seen
  <1>1. RunOK(e) /\ run[e] \in RunRow /\ run \in [Executors -> RunRow] /\ run[e].pc # "idle"
    BY DEF PipelineInv, PipelineTypeOK
  <1>2. CASE fail_with(e, "render_validation_failed", FALSE)
    BY <1>1, <1>2, FailStep DEF StageCategories, ArchivePostures
  <1>3. CASE \E state \in CustodyAnswers, request \in BOOLEAN :
               LET category == archive_category(state, request)
                   next == IF seen \in {"data_ready", "rendering"} THEN "mark_completed"
                           ELSE archive_stage(seen, category, request)
               IN  /\ reportable(j, state)
                   /\ run' = [run EXCEPT ![e].pc = next, ![e].category = category,
                                         ![e].request = request,
                                         ![e].retry = archive_retry(j, state, request)]
    <2>0. PICK state \in CustodyAnswers, request \in BOOLEAN :
               /\ reportable(j, state)
               /\ run' = [run EXCEPT
                     ![e].pc = IF seen \in {"data_ready", "rendering"} THEN "mark_completed"
                               ELSE archive_stage(seen, archive_category(state, request), request),
                     ![e].category = archive_category(state, request),
                     ![e].request = request,
                     ![e].retry = archive_retry(j, state, request)]
      BY <1>3, Zenon
    <2> DEFINE category == archive_category(state, request)
               next == IF seen \in {"data_ready", "rendering"} THEN "mark_completed"
                       ELSE archive_stage(seen, category, request)
               retry == archive_retry(j, state, request)
    <2> DEFINE row == [run[e] EXCEPT !.pc = next, !.category = category,
                                     !.request = request, !.retry = retry]
    <2>1. category \in StageCategories \cup {"none"} /\ retry \in BOOLEAN
      BY <2>0 DEF archive_category, archive_retry, StageCategories
    <2>2. /\ category = "none" => custody[j] = "committed" /\ request
          /\ retry => request
      BY <2>0 DEF archive_category, archive_retry, reportable
    <2>3. /\ next \in {"mark_completed", "mark_archiving", "mark_archived", "mark_failed"}
          /\ next = "mark_archived" => category = "none"
          /\ next = "mark_failed" => category # "none"
      BY <2>0 DEF archive_stage
    <2>4. next = "mark_failed" /\ request => seen \notin {"data_ready", "rendering", "completed"}
      BY <2>0 DEF archive_stage
    <2> HIDE DEF category, next, retry
    <2>5. category \in CallerCategories \cup {"none"}
      BY <2>1, PipelineAssumption
    <2>6. /\ row \in RunRow
          /\ row.pc = next /\ row.job = j /\ row.category = category
          /\ row.request = request /\ row.retry = retry
      BY <1>1, <2>1, <2>3, <2>5 DEF RunRow, Stages
    <2>7. run' = [run EXCEPT ![e] = row]
      BY <1>1, <2>0 DEF category, next, retry
    <2> HIDE DEF row
    <2>8. /\ run' \in [Executors -> RunRow]
          /\ \A x \in Executors \ {e} : run'[x] = run[x]
          /\ run'[e].pc = next /\ run'[e].job = j /\ run'[e].category = category
          /\ run'[e].request = request /\ run'[e].retry = retry
      BY <1>1, <2>6, <2>7
    <2>9. /\ j \in Jobs /\ job[j].status # "absent"
          /\ j \notin DataOnly /\ snapshot[j] \in Contents
          /\ seen \in {"data_ready", "rendering", "completed", "archiving"}
          /\ seen = "archiving" => "archive_request_id" \in job[j].ids
      BY <1>1 DEF RunOK, RenderStages, SubmitStages, LookupStages
    <2>10. next = "mark_failed" /\ retry => "archive_request_id" \in job[j].ids
      BY <2>2, <2>4, <2>9
    <2> HIDE DEF j, seen
    <2>11. RunOK(e)'
      BY <2>2, <2>3, <2>8, <2>9, <2>10
         DEF RunOK, local, RenderStages, SubmitStages, LookupStages, OutcomeStages
    <2>12. run'[e].pc # "idle" /\ run'[e].job = run[e].job
      BY <2>3, <2>8 DEF j
    <2>13. QED
      BY <2>8, <2>11, <2>12, LocalStep
  <1>4. QED
    BY <1>2, <1>3 DEF adopt_rendered

\* A lost render is resubmitted, or fails with a posture its record supports.
LEMMA ResubmitStep ==
    ASSUME PipelineInv, NEW e \in Executors, run[e].pc \in LookupStages, local(e),
           resubmit_or_lost(e)
    PROVE  PipelineInv'
  <1>1. RunOK(e) /\ run[e].pc # "idle" /\ run[e].pc \in RenderStages
    BY DEF PipelineInv, LookupStages, RenderStages
  <1>2. CASE run[e].seen = "rendering" /\ goto(e, "build")
    BY <1>1, <1>2, SubmitGotoStep, LocalStep DEF local, SubmitStages
  <1>3. CASE fail_with(e, "render_artifact_unrecoverable", TRUE)
    BY <1>1, <1>3, FailStep DEF StageCategories, ArchivePostures
  <1>4. CASE run[e].seen = "archiving" /\ fail_with(e, "archive_outcome_unknown", TRUE)
    <2>1. "archive_request_id" \in job[run[e].job].ids
      BY <1>1, <1>4 DEF RunOK
    <2>2. QED
      BY <1>1, <1>4, <2>1, FailStep DEF StageCategories
  <1>5. QED
    BY <1>2, <1>3, <1>4 DEF resubmit_or_lost

\* The answer to a submission, or its absence.
LEMMA SubmitAnsweredStep ==
    ASSUME PipelineInv, NEW e \in Executors, submit_answered(e)
    PROVE  PipelineInv'
  <1>1. run[e].pc = "await" /\ local(e)
    BY DEF submit_answered, at
  <1>2. CASE adopt_rendered(e)
    BY <1>1, <1>2, AdoptRenderedStep
  <1>3. ASSUME NEW r \in BOOLEAN, fail_with(e, "render_execution_failed", r)
        PROVE  PipelineInv'
    BY <1>1, <1>3, FailStep DEF StageCategories, ArchivePostures
  <1>4. QED
    BY <1>2, <1>3 DEF submit_answered

\* The answer to a status lookup.
LEMMA LookupAnsweredStep ==
    ASSUME PipelineInv, NEW e \in Executors, lookup_answered(e)
    PROVE  PipelineInv'
  <1>1. run[e].pc = "lookup" /\ local(e) /\ RunOK(e) /\ run[e] \in RunRow
    BY DEF lookup_answered, at, PipelineInv, PipelineTypeOK
  <1>2. run[e].pc \in LookupStages /\ run[e].pc # "idle"
    BY <1>1 DEF LookupStages
  <1>3. CASE adopt_rendered(e)
    BY <1>1, <1>3, AdoptRenderedStep
  <1>4. CASE adopt_persisted_render_failure(e)
    BY <1>1, <1>2, <1>4, FailStep DEF adopt_persisted_render_failure, StageCategories,
                                      ArchivePostures
  <1>5. CASE goto(e, "diagnose")
    <2> "diagnose" \in Stages
      BY DEF Stages
    <2>1. /\ run' \in [Executors -> RunRow]
          /\ \A x \in Executors \ {e} : run'[x] = run[x]
          /\ run'[e] = [run[e] EXCEPT !.pc = "diagnose"]
      BY <1>5, GotoRow
    <2>2. run'[e].pc = "diagnose" /\ run'[e].job = run[e].job /\ run'[e].seen = run[e].seen
      BY <1>1, <2>1 DEF RunRow
    <2>3. RunOK(e)'
      BY <1>1, <2>2 DEF RunOK, local, RenderStages, SubmitStages, LookupStages, OutcomeStages
    <2>4. QED
      BY <1>1, <2>1, <2>2, <2>3, LocalStep
  <1>6. CASE resubmit_or_lost(e)
    BY <1>1, <1>2, <1>6, ResubmitStep
  <1>7. QED
    BY <1>3, <1>4, <1>5, <1>6 DEF lookup_answered

\* The diagnostics of a render that is still running.
LEMMA EscalateStep ==
    ASSUME PipelineInv, NEW e \in Executors, escalate_or_wait(e)
    PROVE  PipelineInv'
  <1>1. run[e].pc \in LookupStages /\ run[e].pc # "idle" /\ local(e)
    BY DEF escalate_or_wait, at, LookupStages
  <1>2. CASE goto(e, "waiting")
    BY <1>1, <1>2, PlainStep DEF PlainStages
  <1>3. CASE resubmit_or_lost(e)
    BY <1>1, <1>3, ResubmitStep
  <1>4. ASSUME NEW c \in {"render_validation_failed", "render_execution_failed"},
               fail_with(e, c, FALSE)
        PROVE  PipelineInv'
    BY <1>1, <1>4, FailStep DEF StageCategories, ArchivePostures
  <1>5. QED
    BY <1>2, <1>3, <1>4 DEF escalate_or_wait

\* No stage that only asks and decides breaks the invariant.
LEMMA QuietStagePreserves ==
    ASSUME PipelineInv, NEW e \in Executors, QuietStage(e)
    PROVE  PipelineInv'
  <1>1. CASE leave_resolution_pending(e)
    <2>1. run[e].pc # "idle" /\ local(e) /\ goto(e, "waiting")
      BY <1>1 DEF leave_resolution_pending, at
    <2>2. QED
      BY <2>1, PlainStep DEF PlainStages
  <1>2. CASE stage_raises(e)
    <2>1. run[e].pc # "idle" /\ local(e) /\ goto(e, "raised")
      BY <1>2 DEF stage_raises
    <2>2. QED
      BY <2>1, PlainStep DEF PlainStages
  <1>3. CASE capture_proof_pack_snapshot(e) \/ capture_outcome_review_snapshot(e)
               \/ capture_wave_snapshot(e)
    BY <1>3, EmbeddedStep DEF capture_proof_pack_snapshot, capture_outcome_review_snapshot,
                              capture_wave_snapshot
  <1>4. QED
    BY <1>1, <1>2, <1>3, ExecuteJobStep, ResumeStep, CollectStep, BuildStep,
       SubmitAnsweredStep, LookupAnsweredStep, EscalateStep DEF QuietStage

-----------------------------------------------------------------------------
(* Stages that write a store or a job row *)

\* Executor e writes a store or a job row in an allowed way and goes on with the same job
\* and facts that hold.
LEMMA StageStep ==
    ASSUME PipelineInv, NEW e \in Executors, [LedgerNext]_ledgerVars,
           UNCHANGED <<work, holding, custody>>,
           snapshot' \in [Jobs -> Payloads \cup {"none"}],
           render' \in [Jobs -> {"absent", "in_progress", "rendered", "failed"}],
           \A j \in Jobs : RowStep(j) /\ StoresKept(j),
           run' \in [Executors -> RunRow],
           \A x \in Executors \ {e} : run'[x] = run[x],
           run'[e].pc # "idle", run'[e].job = run[e].job, RunOK(e)'
    PROVE  PipelineInv'
  <1>1. IInv'
    BY StepInvariant DEF PipelineInv
  <1>2. PipelineTypeOK'
    BY DEF PipelineInv, PipelineTypeOK
  <1>3. HoldingOK'
    BY DEF PipelineInv, HoldingOK, Executors
  <1>4. \A j \in Jobs : ItemStep(j)
    BY DEF ItemStep
  <1>5. QED
    BY <1>1, <1>2, <1>3, <1>4, StepPreserves

\* The snapshot store takes the first payload, and an intact one is never replaced.
LEMMA CompleteCaptureStep ==
    ASSUME PipelineInv, NEW e \in Executors, complete_capture(e)
    PROVE  PipelineInv'
  <1> DEFINE j == run[e].job
             p == run[e].payload
  <1>1. /\ run[e].pc = "store" /\ RunOK(e) /\ run[e] \in RunRow
        /\ UNCHANGED <<job, work, holding, render, custody>>
    BY DEF complete_capture, at, PipelineInv, PipelineTypeOK
  <1>2. j \in Jobs /\ p \in Payloads
    BY <1>1 DEF RunOK, RunRow
  <1>3. [LedgerNext]_ledgerVars /\ \A i \in Jobs : RowStep(i)
    BY <1>1 DEF ledgerVars, RowStep
  <1>4. render' \in [Jobs -> {"absent", "in_progress", "rendered", "failed"}]
    BY <1>1 DEF PipelineInv, PipelineTypeOK
  <1>5. snapshot \in [Jobs -> Payloads \cup {"none"}]
    BY DEF PipelineInv, PipelineTypeOK
  <1>6. CASE create_capture(j, p) /\ after_capture(e, p)
    <2>1. /\ snapshot' \in [Jobs -> Payloads \cup {"none"}]
          /\ snapshot'[j] = p
      BY <1>2, <1>5, <1>6 DEF create_capture
    <2>2. "none" \notin Contents
      BY PipelineAssumption
    <2>3. \A i \in Jobs : StoresKept(i)
      BY <1>1, <1>5, <1>6, <2>2 DEF StoresKept, create_capture, capture_conflicts
    <2>4. /\ run' \in [Executors -> RunRow]
          /\ \A x \in Executors \ {e} : run'[x] = run[x]
          /\ run'[e].pc # "idle" /\ run'[e].job = run[e].job
          /\ RunOK(e)'
      BY <1>1, <1>2, <1>6, <2>1, AfterCaptureRow
    <2>5. QED
      BY <1>1, <1>3, <1>4, <2>1, <2>3, <2>4, StageStep
  <1>7. CASE fail_with(e, "data_incomplete", FALSE) /\ UNCHANGED snapshot
    BY <1>1, <1>7, FailStep DEF local, StageCategories, ArchivePostures
  <1>8. QED
    BY <1>6, <1>7 DEF complete_capture

\* A submission touches Render only.
LEMMA SubmitStep ==
    ASSUME PipelineInv, NEW e \in Executors, submit_render_package(e)
    PROVE  PipelineInv'
  <1> DEFINE j == run[e].job
  <1>1. /\ run[e].pc = "submit" /\ RunOK(e)
        /\ UNCHANGED <<job, work, holding, snapshot, custody>>
    BY DEF submit_render_package, at, PipelineInv
  <1>2. run[e].seen \in {"data_ready", "rendering"} /\ run[e].pc \in RenderStages
    BY <1>1 DEF RunOK, RenderStages, SubmitStages
  <1>3. CASE /\ render' = [render EXCEPT ![j] = IF @ = "absent" THEN "in_progress" ELSE @]
             /\ goto(e, "await")
    <2>1. [LedgerNext]_ledgerVars /\ \A i \in Jobs : RowStep(i) /\ StoresKept(i)
      BY <1>1 DEF ledgerVars, RowStep, StoresKept
    <2>2. render' \in [Jobs -> {"absent", "in_progress", "rendered", "failed"}]
      BY <1>3 DEF PipelineInv, PipelineTypeOK
    <2>3. snapshot' \in [Jobs -> Payloads \cup {"none"}]
      BY <1>1 DEF PipelineInv, PipelineTypeOK
    <2>4. "await" \in SubmitStages
      BY DEF SubmitStages
    <2>5. /\ run' \in [Executors -> RunRow]
          /\ \A x \in Executors \ {e} : run'[x] = run[x]
          /\ run'[e].pc # "idle" /\ run'[e].job = run[e].job
          /\ RunOK(e)'
      BY <1>1, <1>2, <1>3, <2>4, SubmitGotoStep
    <2>6. QED
      BY <1>1, <2>1, <2>2, <2>3, <2>5, StageStep
  <1>4. ASSUME NEW c \in {"render_conflict", "render_validation_failed",
                          "render_execution_failed"}, NEW r \in BOOLEAN,
               fail_with(e, c, r), UNCHANGED render
        PROVE  PipelineInv'
    BY <1>1, <1>4, FailStep DEF local, StageCategories, ArchivePostures
  <1>5. QED
    BY <1>3, <1>4 DEF submit_render_package

\* A mark_* call that the ledger refuses leaves its executor with an exception; one that
\* commits has to change the row in an allowed way and leave facts that hold.
LEMMA MarkStep ==
    ASSUME PipelineInv, NEW e \in Executors, run[e].pc # "idle", MarkStage(e),
           NEW to, NEW c, NEW r, NEW ids, NEW seen \in JobStatuses,
           NEW next \in Stages \ {"idle"},
           mark(e, to, c, r, ids, seen, next),
           ASSUME transition_job(run[e].job, to, c, r, ids),
                  UNCHANGED <<work, holding, snapshot, render, custody>>,
                  run'[e].pc = next, run'[e].job = run[e].job, run'[e].seen = seen,
                  run'[e].category = run[e].category, run'[e].retry = run[e].retry,
                  run'[e].request = run[e].request
           PROVE  RowStep(run[e].job) /\ RunOK(e)'
    PROVE  PipelineInv'
  <1> DEFINE j == run[e].job
  <1>1. UNCHANGED <<work, holding, snapshot, render, custody>>
    BY DEF mark
  <1>2. RunOK(e) /\ run[e] \in RunRow /\ run \in [Executors -> RunRow]
    BY DEF PipelineInv, PipelineTypeOK
  <1>3. CASE /\ transition_job(j, to, c, r, ids)
             /\ run' = [run EXCEPT ![e].pc = next, ![e].seen = seen]
    <2> DEFINE row == [run[e] EXCEPT !.pc = next, !.seen = seen]
    <2>1. /\ row \in RunRow
          /\ row.pc = next /\ row.job = j /\ row.seen = seen
          /\ row.category = run[e].category /\ row.retry = run[e].retry
          /\ row.request = run[e].request
      BY <1>2 DEF RunRow
    <2>2. run' = [run EXCEPT ![e] = row]
      BY <1>2, <1>3
    <2> HIDE DEF row
    <2>3. /\ run' \in [Executors -> RunRow]
          /\ \A x \in Executors \ {e} : run'[x] = run[x]
          /\ run'[e] = row
      BY <1>2, <2>1, <2>2
    <2>4. /\ run'[e].pc = next /\ run'[e].job = j /\ run'[e].seen = seen
          /\ run'[e].category = run[e].category /\ run'[e].retry = run[e].retry
          /\ run'[e].request = run[e].request
      BY <2>1, <2>3
    <2>5. RowStep(j) /\ RunOK(e)'
      BY <1>1, <1>3, <2>4
    <2>6. \A i \in Jobs : i # j => job'[i] = job[i]
      BY <1>3 DEF transition_job, PipelineInv, IInv, TypeOK
    <2>7. \A i \in Jobs : RowStep(i) /\ StoresKept(i)
      BY <1>1, <2>5, <2>6 DEF RowStep, StoresKept
    <2>8. [LedgerNext]_ledgerVars
      BY MarkIsLedgerStep
    <2>9. /\ snapshot' \in [Jobs -> Payloads \cup {"none"}]
          /\ render' \in [Jobs -> {"absent", "in_progress", "rendered", "failed"}]
      BY <1>1 DEF PipelineInv, PipelineTypeOK
    <2>10. run'[e].pc # "idle" /\ run'[e].job = run[e].job
      BY <2>4
    <2>11. QED
      BY <1>1, <2>3, <2>5, <2>7, <2>8, <2>9, <2>10, StageStep
  <1>4. CASE goto(e, "raised") /\ UNCHANGED job
    <2>1. local(e)
      BY <1>1, <1>4 DEF local
    <2>2. QED
      BY <1>4, <2>1, PlainStep DEF PlainStages
  <1>5. QED
    BY <1>3, <1>4 DEF mark

\* What a committed transition to a state leaves in the row.
LEMMA TransitionRow ==
    ASSUME PipelineInv, NEW j \in Jobs, NEW to, NEW c, NEW r, NEW ids,
           transition_job(j, to, c, r, ids)
    PROVE  /\ job[j].status # "absent" /\ job'[j].status = to
           /\ \/ job[j].status = to /\ job'[j] = job[j]
              \/ /\ job[j].status \in AllowedFrom[to]
                 /\ job'[j].ids = job[j].ids \cup ids
                 /\ ids = {} => job'[j].ids = job[j].ids
                 /\ job'[j].failure_category = c /\ job'[j].retry_eligible = r
  BY DEF transition_job, transition_accepted, transitioned, PipelineInv, IInv, TypeOK

\* The capture stages write what the stored snapshot supports.
LEMMA MarkCapturedStep ==
    ASSUME PipelineInv, NEW e \in Executors, mark_collecting_data(e) \/ mark_data_ready(e)
    PROVE  PipelineInv'
  <1> DEFINE j == run[e].job
  <1>1. MarkStage(e) /\ run[e].pc # "idle" /\ RunOK(e) /\ run[e].seen \in JobStatuses
    BY DEF MarkStage, mark_collecting_data, mark_data_ready, at, PipelineInv, PipelineTypeOK,
           RunRow
  <1>2. j \in Jobs
    BY <1>1 DEF RunOK
  <1>3. CASE mark_collecting_data(e)
    <2>1. /\ mark(e, "collecting_data", "none", FALSE, {}, run[e].seen, "collect")
          /\ "collect" \in Stages \ {"idle"}
      BY <1>3 DEF mark_collecting_data, Stages
    <2>2. ASSUME transition_job(j, "collecting_data", "none", FALSE, {}),
                 run'[e].pc = "collect", run'[e].job = j
          PROVE  RowStep(j) /\ RunOK(e)'
      <3>1. /\ job[j].status # "absent" /\ job'[j].status = "collecting_data"
            /\ \/ job[j].status = "collecting_data" /\ job'[j] = job[j]
               \/ job[j].status \in AllowedFrom["collecting_data"] /\ job'[j].ids = job[j].ids
        BY <1>2, <2>2, TransitionRow
      <3>2. QED
        BY <1>2, <2>2, <3>1 DEF RowStep, RunOK, AllowedFrom, RenderStages, SubmitStages,
                                LookupStages, OutcomeStages
    <2>3. QED
      BY <1>1, <2>1, <2>2, MarkStep
  <1>4. CASE mark_data_ready(e)
    <2> DEFINE next == IF j \in DataOnly THEN "done" ELSE "build"
    <2>1. /\ mark(e, "data_ready", "none", FALSE, {}, "data_ready", next)
          /\ next \in Stages \ {"idle"} /\ "data_ready" \in JobStatuses
          /\ next \in {"done", "build"}
          /\ next = "done" <=> j \in DataOnly
      BY <1>4 DEF mark_data_ready, Stages, JobStatuses
    <2>2. snapshot[j] \in Contents
      BY <1>1, <1>4 DEF RunOK, mark_data_ready, at
    <2> HIDE DEF next
    <2>3. ASSUME transition_job(j, "data_ready", "none", FALSE, {}),
                 UNCHANGED <<work, holding, snapshot, render, custody>>,
                 run'[e].pc = next, run'[e].job = j, run'[e].seen = "data_ready"
          PROVE  RowStep(j) /\ RunOK(e)'
      <3>1. /\ job[j].status # "absent" /\ job'[j].status = "data_ready"
            /\ \/ job[j].status = "data_ready" /\ job'[j] = job[j]
               \/ job[j].status \in AllowedFrom["data_ready"] /\ job'[j].ids = job[j].ids
        BY <1>2, <2>3, TransitionRow
      <3>2. RowStep(j)
        BY <2>2, <3>1 DEF RowStep, AllowedFrom
      <3>3. RunOK(e)'
        BY <1>2, <2>1, <2>2, <2>3, <3>1 DEF RunOK, finished, RenderStages, SubmitStages,
                                            LookupStages, OutcomeStages
      <3>4. QED
        BY <3>2, <3>3
    <2>4. QED
      BY <1>1, <2>1, <2>3, MarkStep
  <1>5. QED
    BY <1>3, <1>4

\* The render stages write what their executor knows of a document job.
LEMMA MarkRenderedStep ==
    ASSUME PipelineInv, NEW e \in Executors,
           mark_rendering(e) \/ mark_completed(e) \/ mark_archiving(e)
    PROVE  PipelineInv'
  <1> DEFINE j == run[e].job
             row == run[e]
  <1>1. /\ MarkStage(e) /\ RunOK(e) /\ row \in RunRow
        /\ run[e].pc \in {"mark_rendering", "mark_completed", "mark_archiving"}
    BY DEF MarkStage, mark_rendering, mark_completed, mark_archiving, at, PipelineInv,
           PipelineTypeOK
  <1>2. /\ j \in Jobs /\ j \notin DataOnly /\ snapshot[j] \in Contents
        /\ run[e].pc # "idle" /\ run[e].seen \in JobStatuses
    BY <1>1 DEF RunOK, RunRow, RenderStages, SubmitStages, LookupStages, OutcomeStages
  <1>3. run[e].pc # "mark_rendering" =>
          /\ row.category = "none" => custody[j] = "committed"
          /\ row.category # "none" /\ row.retry => row.request
    BY <1>1 DEF RunOK, OutcomeStages
  <1>4. CASE mark_rendering(e)
    <2>1. /\ mark(e, "rendering", "none", FALSE, {"render_job_id"}, run[e].seen, "submit")
          /\ "submit" \in Stages \ {"idle"}
      BY <1>4 DEF mark_rendering, Stages
    <2>2. run[e].seen \in {"data_ready", "rendering"}
      BY <1>1, <1>4 DEF RunOK, SubmitStages, mark_rendering, at
    <2>3. ASSUME transition_job(j, "rendering", "none", FALSE, {"render_job_id"}),
                 UNCHANGED <<work, holding, snapshot, render, custody>>,
                 run'[e].pc = "submit", run'[e].job = j, run'[e].seen = run[e].seen
          PROVE  RowStep(j) /\ RunOK(e)'
      <3>1. /\ job[j].status # "absent" /\ job'[j].status = "rendering"
            /\ \/ job[j].status = "rendering" /\ job'[j] = job[j]
               \/ /\ job[j].status \in AllowedFrom["rendering"]
                  /\ job'[j].ids = job[j].ids \cup {"render_job_id"}
        BY <1>2, <2>3, TransitionRow
      <3>2. RowStep(j)
        BY <1>2, <3>1 DEF RowStep, AllowedFrom
      <3>3. RunOK(e)'
        BY <1>2, <2>2, <2>3, <3>1 DEF RunOK, RenderStages, SubmitStages, LookupStages,
                                      OutcomeStages
      <3>4. QED
        BY <3>2, <3>3
    <2>4. QED
      BY <1>1, <1>2, <2>1, <2>3, MarkStep
  <1>5. CASE mark_completed(e)
    <2> DEFINE next == archive_stage("completed", row.category, row.request)
    <2>1. /\ mark(e, "completed", "none", FALSE, {"render_job_id"}, "completed", next)
          /\ next \in Stages \ {"idle"} /\ "completed" \in JobStatuses
      BY <1>5 DEF mark_completed, archive_stage, Stages, JobStatuses
    <2>2. /\ next \in {"mark_archiving", "mark_archived", "mark_failed"}
          /\ next = "mark_archived" => row.category = "none"
          /\ next = "mark_failed" => row.category # "none" /\ ~row.request
      BY DEF archive_stage
    <2>3. /\ row.category = "none" => custody[j] = "committed"
          /\ row.category # "none" /\ row.retry => row.request
      BY <1>3, <1>5 DEF mark_completed, at
    <2> HIDE DEF next
    <2>4. ASSUME transition_job(j, "completed", "none", FALSE, {"render_job_id"}),
                 UNCHANGED <<work, holding, snapshot, render, custody>>,
                 run'[e].pc = next, run'[e].job = j,
                 run'[e].category = row.category, run'[e].retry = row.retry,
                 run'[e].request = row.request
          PROVE  RowStep(j) /\ RunOK(e)'
      <3>1. /\ job[j].status # "absent" /\ job'[j].status = "completed"
            /\ \/ job[j].status = "completed" /\ job'[j] = job[j]
               \/ /\ job[j].status \in AllowedFrom["completed"]
                  /\ job'[j].ids = job[j].ids \cup {"render_job_id"}
        BY <1>2, <2>4, TransitionRow
      <3>2. RowStep(j)
        BY <1>2, <3>1 DEF RowStep, AllowedFrom
      <3>3. RunOK(e)'
        BY <1>2, <2>2, <2>3, <2>4, <3>1 DEF RunOK, RenderStages, SubmitStages, LookupStages,
                                            OutcomeStages
      <3>4. QED
        BY <3>2, <3>3
    <2>5. QED
      BY <1>1, <1>2, <2>1, <2>4, MarkStep
  <1>6. CASE mark_archiving(e)
    <2> DEFINE next == archive_stage("archiving", row.category, row.request)
    <2>1. /\ mark(e, "archiving", "none", FALSE, {"archive_request_id"}, row.seen, next)
          /\ next \in Stages \ {"idle"}
      BY <1>6 DEF mark_archiving, archive_stage, Stages
    <2>2. /\ next \in {"mark_archived", "mark_failed"}
          /\ next = "mark_archived" <=> row.category = "none"
      BY DEF archive_stage
    <2>3. /\ row.category = "none" => custody[j] = "committed"
          /\ row.category # "none" /\ row.retry => row.request
      BY <1>3, <1>6 DEF mark_archiving, at
    <2>4. JobOK(j)
      BY <1>2 DEF PipelineInv
    <2> HIDE DEF next
    <2>5. ASSUME transition_job(j, "archiving", "none", FALSE, {"archive_request_id"}),
                 UNCHANGED <<work, holding, snapshot, render, custody>>,
                 run'[e].pc = next, run'[e].job = j,
                 run'[e].category = row.category, run'[e].retry = row.retry,
                 run'[e].request = row.request
          PROVE  RowStep(j) /\ RunOK(e)'
      <3>1. /\ job[j].status # "absent" /\ job'[j].status = "archiving"
            /\ \/ job[j].status = "archiving" /\ job'[j] = job[j]
               \/ /\ job[j].status \in AllowedFrom["archiving"]
                  /\ job'[j].ids = job[j].ids \cup {"archive_request_id"}
        BY <1>2, <2>5, TransitionRow
      <3>2. "archive_request_id" \in job'[j].ids
        BY <2>4, <3>1 DEF JobOK
      <3>3. RowStep(j)
        BY <1>2, <3>1, <3>2 DEF RowStep, AllowedFrom
      <3>4. RunOK(e)'
        BY <1>2, <2>2, <2>3, <2>5, <3>1, <3>2
           DEF RunOK, RenderStages, SubmitStages, LookupStages, OutcomeStages
      <3>5. QED
        BY <3>3, <3>4
    <2>6. QED
      BY <1>1, <1>2, <2>1, <2>5, MarkStep
  <1>7. QED
    BY <1>4, <1>5, <1>6

\* A job is recorded archived on a committed delivery, and failed with a posture whose
\* request is recorded.
LEMMA MarkEndedStep ==
    ASSUME PipelineInv, NEW e \in Executors, record_archived(e) \/ record_failed(e)
    PROVE  PipelineInv'
  <1> DEFINE j == run[e].job
  <1>1. /\ MarkStage(e) /\ RunOK(e) /\ run[e] \in RunRow
        /\ run[e].pc \in {"mark_archived", "mark_failed"}
    BY DEF MarkStage, record_archived, record_failed, at, PipelineInv, PipelineTypeOK
  <1>2. /\ j \in Jobs /\ run[e].pc # "idle"
        /\ {"archived", "failed"} \subseteq JobStatuses /\ "done" \in Stages \ {"idle"}
    BY <1>1 DEF RunOK, JobStatuses, Stages
  <1>3. CASE record_archived(e)
    <2>0. PICK ids : ids = {"archive_request_id", "archive_document_id"}
      OBVIOUS
    <2>1. mark(e, "archived", "none", FALSE, ids, "archived", "done")
      BY <1>3, <2>0 DEF record_archived
    <2>2. j \notin DataOnly /\ snapshot[j] \in Contents /\ custody[j] = "committed"
      BY <1>1, <1>3 DEF RunOK, record_archived, at, RenderStages, OutcomeStages
    <2>3. ASSUME transition_job(j, "archived", "none", FALSE, ids),
                 run'[e].pc = "done", run'[e].job = j
          PROVE  RowStep(j) /\ RunOK(e)'
      <3>1. /\ job[j].status # "absent" /\ job'[j].status = "archived"
            /\ \/ job[j].status = "archived" /\ job'[j] = job[j]
               \/ /\ job[j].status \in AllowedFrom["archived"]
                  /\ job'[j].ids = job[j].ids \cup ids
        BY <1>2, <2>3, TransitionRow
      <3>2. RowStep(j)
        BY <2>2, <3>1 DEF RowStep, AllowedFrom
      <3>3. RunOK(e)'
        BY <1>2, <2>3, <3>1 DEF RunOK, finished, TerminalStatuses, RenderStages,
                                SubmitStages, LookupStages, OutcomeStages
      <3>4. QED
        BY <3>2, <3>3
    <2>4. QED
      BY <1>1, <1>2, <2>1, <2>3, MarkStep
  <1>4. CASE record_failed(e)
    <2> DEFINE c == run[e].category
               r == run[e].retry
    <2>1. mark(e, "failed", c, r, {}, "failed", "done")
      BY <1>4 DEF record_failed
    <2>2. r /\ c \in ArchivePostures => "archive_request_id" \in job[j].ids
      BY <1>1, <1>4 DEF RunOK, record_failed, at
    <2> HIDE DEF c, r
    <2>3. ASSUME transition_job(j, "failed", c, r, {}),
                 run'[e].pc = "done", run'[e].job = j
          PROVE  RowStep(j) /\ RunOK(e)'
      <3>1. /\ job[j].status # "absent" /\ job'[j].status = "failed"
            /\ \/ job[j].status = "failed" /\ job'[j] = job[j]
               \/ /\ job'[j].ids = job[j].ids
                  /\ job'[j].failure_category = c /\ job'[j].retry_eligible = r
        BY <1>2, <2>3, TransitionRow
      <3>2. RowStep(j)
        BY <2>2, <3>1 DEF RowStep
      <3>3. RunOK(e)'
        BY <1>2, <2>3, <3>1 DEF RunOK, finished, TerminalStatuses, RenderStages,
                                SubmitStages, LookupStages, OutcomeStages
      <3>4. QED
        BY <3>2, <3>3
    <2>4. QED
      BY <1>1, <1>2, <2>1, <2>3, MarkStep
  <1>5. QED
    BY <1>3, <1>4

\* No mark_* call breaks the invariant.
LEMMA MarkStagePreserves ==
    ASSUME PipelineInv, NEW e \in Executors, MarkStage(e)
    PROVE  PipelineInv'
  BY MarkCapturedStep, MarkRenderedStep, MarkEndedStep DEF MarkStage

-----------------------------------------------------------------------------
(* Workers, callers and the outside *)

\* A step of the outside: no executor moves, and rows change in the allowed ways.
LEMMA OutsideStep ==
    ASSUME PipelineInv, [LedgerNext]_ledgerVars, UNCHANGED <<run, holding>>,
           PipelineTypeOK',
           \A j \in Jobs : RowStep(j) /\ ItemStep(j) /\ StoresKept(j)
    PROVE  PipelineInv'
  <1>1. IInv'
    BY StepInvariant DEF PipelineInv
  <1>2. HoldingOK'
    BY DEF PipelineInv, HoldingOK
  <1>3. QED
    BY <1>1, <1>2, StepPreserves

\* The stores keep their type when the outside leaves them alone.
LEMMA StoresUntouched ==
    ASSUME PipelineInv, UNCHANGED <<snapshot, run, render, custody>>
    PROVE  PipelineTypeOK' /\ \A j \in Jobs : StoresKept(j)
  BY DEF PipelineInv, PipelineTypeOK, StoresKept

\* Render and the archive: a delivery that is committed stays committed.
LEMMA ExternalStep ==
    ASSUME PipelineInv, NEW i \in Jobs,
           render_finishes(i) \/ render_forgets(i) \/ archive_decides(i)
    PROVE  PipelineInv'
  <1>1. UNCHANGED <<job, work, holding, snapshot, run>>
    BY DEF render_finishes, render_forgets, archive_decides
  <1>2. PipelineTypeOK'
    BY <1>1 DEF render_finishes, render_forgets, archive_decides, PipelineInv, PipelineTypeOK
  <1>3. \A j \in Jobs : StoresKept(j)
    BY <1>1 DEF render_finishes, render_forgets, archive_decides, PipelineInv,
                PipelineTypeOK, StoresKept
  <1>4. [LedgerNext]_ledgerVars /\ \A j \in Jobs : RowStep(j) /\ ItemStep(j)
    BY <1>1 DEF ledgerVars, RowStep, ItemStep
  <1>5. QED
    BY <1>1, <1>2, <1>3, <1>4, OutsideStep

\* A spent budget terminalizes the job with a posture of its own, in the same transaction.
LEMMA SettleFailedRows ==
    ASSUME PipelineInv, NEW i \in Jobs, NEW when, NEW c, c \notin ArchivePostures,
           work[i].status # "absent", settle_failed_work(i, when, c)
    PROVE  \A j \in Jobs : RowStep(j) /\ ItemStep(j)
  <1>1. /\ JobOK(i) /\ job[i].status # "absent"
        /\ job \in [Jobs -> JobRow] /\ work \in [Jobs -> WorkRow]
    BY DEF PipelineInv, IInv, TypeOK, JobOK
  <1>2. \A j \in Jobs : job'[j] = job[j] \/ (j = i /\ job'[j] = terminalized(j, c))
    BY <1>1 DEF settle_failed_work
  <1>3. \A j \in Jobs : j # i => work'[j] = work[j]
    BY <1>1 DEF settle_failed_work
  <1>4. work'[i].status # "completed"
    BY <1>1 DEF settle_failed_work, failure_decision
  <1>5. terminalized(i, c) = job[i]
          \/ /\ terminalized(i, c).status = "failed"
             /\ terminalized(i, c).ids = job[i].ids
             /\ terminalized(i, c).failure_category = c
    BY DEF terminalized, transitioned, TerminalStatuses
  <1>6. \A j \in Jobs : RowStep(j)
    BY <1>1, <1>2, <1>5 DEF RowStep
  <1>7. \A j \in Jobs : ItemStep(j)
    BY <1>1, <1>3, <1>4 DEF ItemStep
  <1>8. QED
    BY <1>6, <1>7

\* One tick of the clock changes no status.
LEMMA ClockStep ==
    ASSUME PipelineInv, [LedgerNext]_ledgerVars, clock
    PROVE  PipelineInv'
  <1>1. UNCHANGED <<snapshot, run, render, custody, holding>>
    BY DEF clock, tick
  <1>2. PipelineTypeOK' /\ \A j \in Jobs : StoresKept(j)
    BY <1>1, StoresUntouched
  <1>3. UNCHANGED job /\ \A j \in Jobs : work'[j].status = work[j].status
    BY DEF clock, tick, aged_row
  <1>4. \A j \in Jobs : RowStep(j) /\ ItemStep(j)
    BY <1>3 DEF RowStep, ItemStep
  <1>5. QED
    BY <1>1, <1>2, <1>4, OutsideStep

\* Clients and the sweep of expired leases.
LEMMA ClientStep ==
    ASSUME PipelineInv, [LedgerNext]_ledgerVars, NEW i \in Jobs,
           client_submits(i) \/ client_resubmits(i) \/ client_cancels(i) \/ expiry_swept(i)
    PROVE  PipelineInv'
  <1>1. UNCHANGED <<snapshot, run, render, custody, holding>>
    BY DEF client_submits, client_resubmits, client_cancels, expiry_swept,
           create_report_job, resubmit_report_job, cancel_job, recover_expired_work_item
  <1>2. PipelineTypeOK' /\ \A j \in Jobs : StoresKept(j)
    BY <1>1, StoresUntouched
  <1>3. job \in [Jobs -> JobRow] /\ work \in [Jobs -> WorkRow]
    BY DEF PipelineInv, IInv, TypeOK
  <1>4. CASE client_submits(i)
    <2>1. \A j \in Jobs : RowStep(j)
      BY <1>3, <1>4 DEF client_submits, create_report_job, RowStep
    <2>2. \A j \in Jobs : work'[j] = work[j] \/ (j = i /\ work'[j].status = "pending")
      BY <1>3, <1>4 DEF client_submits, create_report_job, ensured_work_item, PendingWork
    <2>3. job'[i].status # "absent"
      BY <1>3, <1>4 DEF client_submits, create_report_job, AcceptedJob
    <2>4. \A j \in Jobs : ItemStep(j)
      BY <2>2, <2>3 DEF ItemStep
    <2>5. QED
      BY <1>1, <1>2, <2>1, <2>4, OutsideStep
  <1>5. CASE client_resubmits(i)
    <2>1. UNCHANGED job /\ job[i].status # "absent"
      BY <1>5 DEF client_resubmits, resubmit_report_job
    <2>2. \A j \in Jobs : work'[j] = work[j] \/ (j = i /\ work'[j].status = "pending")
      BY <1>3, <1>5 DEF client_resubmits, resubmit_report_job, ensured_work_item, PendingWork
    <2>3. \A j \in Jobs : RowStep(j) /\ ItemStep(j)
      BY <2>1, <2>2 DEF RowStep, ItemStep
    <2>4. QED
      BY <1>1, <1>2, <2>3, OutsideStep
  <1>6. CASE client_cancels(i)
    <2>1. UNCHANGED work
      BY <1>6 DEF client_cancels, cancel_job
    <2>2. job[i].status # "absent"
      BY <1>6 DEF client_cancels, cancel_job, is_report_job_cancellable
    <2>3. \A j \in Jobs : job'[j] = job[j] \/ (j = i /\ job'[j].status = "cancelled"
                                                 /\ job'[j].ids = job[j].ids)
      BY <1>3, <1>6 DEF client_cancels, cancel_job
    <2>4. \A j \in Jobs : RowStep(j) /\ ItemStep(j)
      BY <2>1, <2>2, <2>3 DEF RowStep, ItemStep
    <2>5. QED
      BY <1>1, <1>2, <2>4, OutsideStep
  <1>7. CASE expiry_swept(i)
    <2>1. work[i].status # "absent" /\ settle_failed_work(i, work[i].lease_expires_at, "timeout")
      BY <1>7 DEF expiry_swept, recover_expired_work_item
    <2>2. \A j \in Jobs : RowStep(j) /\ ItemStep(j)
      BY <2>1, SettleFailedRows DEF ArchivePostures
    <2>3. QED
      BY <1>1, <1>2, <2>2, OutsideStep
  <1>8. QED
    BY <1>4, <1>5, <1>6, <1>7

\* An executor that starts or stops: its new row is the loading or the idle one.
LEMMA BoundaryStep ==
    ASSUME PipelineInv, [LedgerNext]_ledgerVars, NEW e \in Executors,
           NEW row \in RunRow, row = IdleRun \/ (row.pc = "load" /\ row.job \in Jobs
                                                   /\ job'[row.job].status # "absent"),
           run' = [run EXCEPT ![e] = row], HoldingOK',
           UNCHANGED <<snapshot, render, custody>>,
           \A j \in Jobs : RowStep(j) /\ ItemStep(j)
    PROVE  PipelineInv'
  <1>1. IInv'
    BY StepInvariant DEF PipelineInv
  <1>2. run \in [Executors -> RunRow]
    BY DEF PipelineInv, PipelineTypeOK
  <1>3. PipelineTypeOK' /\ \A j \in Jobs : StoresKept(j)
    BY <1>2 DEF PipelineInv, PipelineTypeOK, StoresKept
  <1>4. \A x \in Executors : x # e => run'[x] = run[x]
    BY <1>2
  <1>5. run'[e] = row
    BY <1>2
  <1>6. RunOK(e)'
    <2>1. CASE row = IdleRun
      BY <1>5, <2>1 DEF RunOK, IdleRun
    <2>2. CASE row.pc = "load" /\ row.job \in Jobs /\ job'[row.job].status # "absent"
      BY <1>5, <2>2 DEF RunOK, RenderStages, SubmitStages, LookupStages, OutcomeStages
    <2>3. QED
      BY <2>1, <2>2
  <1>7. QED
    BY <1>1, <1>3, <1>4, <1>6, StepPreserves

\* The two rows of BoundaryStep have the declared shape.
LEMMA BoundaryRows ==
    /\ IdleRun \in RunRow /\ IdleRun.pc = "idle"
    /\ \A j \in Jobs : LET row == [IdleRun EXCEPT !.pc = "load", !.job = j]
                       IN  row \in RunRow /\ row.pc = "load" /\ row.job = j
  BY DEF IdleRun, RunRow, Stages, JobStatuses

\* A worker claims an item of an existing job and starts to execute it.
LEMMA ClaimStep ==
    ASSUME PipelineInv, [LedgerNext]_ledgerVars, NEW w \in Workers, NEW i \in Jobs,
           worker_claims(w, i)
    PROVE  PipelineInv'
  <1>1. PICK t \in Tokens : claim_work_item(w, i, t)
    BY DEF worker_claims
  <1> DEFINE row == [IdleRun EXCEPT !.pc = "load", !.job = i]
             lease == [job |-> i, token |-> t]
  <1>2. run' = [run EXCEPT ![w] = row] /\ UNCHANGED <<snapshot, render, custody>>
    BY DEF worker_claims, start
  <1>3. row \in RunRow /\ row.pc = "load" /\ row.job = i
    BY BoundaryRows
  <1>4. /\ UNCHANGED job /\ work[i].status \in ClaimableStatuses
        /\ work' = [work EXCEPT ![i] = leased_row(work[i], t)]
        /\ holding' = [holding EXCEPT ![w] = lease]
    BY <1>1 DEF claim_work_item
  <1>5. job[i].status # "absent"
    BY <1>4 DEF PipelineInv, JobOK, ClaimableStatuses
  <1>6. \A j \in Jobs : work'[j] = work[j] \/ (j = i /\ work'[j].status = "leased")
    BY <1>4 DEF PipelineInv, IInv, TypeOK, leased_row
  <1>7. \A j \in Jobs : RowStep(j) /\ ItemStep(j)
    BY <1>4, <1>5, <1>6 DEF RowStep, ItemStep
  <1> HIDE DEF row
  <1>8. lease.job = i
    OBVIOUS
  <1> HIDE DEF lease
  <1>9. HoldingOK'
    <2>1. /\ run \in [Executors -> RunRow] /\ w \in Executors
          /\ holding \in [Workers -> Lease \cup {NoLease}] /\ Workers \subseteq Executors
      BY DEF PipelineInv, PipelineTypeOK, IInv, TypeOK, Executors
    <2>2. run'[w] = row /\ holding'[w] = lease
      BY <1>2, <1>4, <2>1
    <2>3. \A v \in Workers \ {w} : run'[v] = run[v] /\ holding'[v] = holding[v]
      BY <1>2, <1>4, <2>1
    <2>4. QED
      BY <1>3, <1>8, <2>2, <2>3 DEF PipelineInv, HoldingOK
  <1>10. w \in Executors
    BY DEF Executors
  <1>11. job'[row.job].status # "absent"
    BY <1>3, <1>4, <1>5
  <1>12. QED
    BY <1>2, <1>3, <1>7, <1>9, <1>10, <1>11, BoundaryStep

\* A worker drops or settles its item and is idle again.
LEMMA StopStep ==
    ASSUME PipelineInv, [LedgerNext]_ledgerVars, NEW w \in Workers,
           release(w), stop(w), UNCHANGED <<snapshot, render, custody>>,
           \A j \in Jobs : RowStep(j) /\ ItemStep(j)
    PROVE  PipelineInv'
  <1>1. w \in Executors /\ IdleRun \in RunRow /\ run' = [run EXCEPT ![w] = IdleRun]
    BY BoundaryRows DEF Executors, stop
  <1>2. HoldingOK'
    <2>1. /\ run \in [Executors -> RunRow]
          /\ holding \in [Workers -> Lease \cup {NoLease}] /\ Workers \subseteq Executors
      BY DEF PipelineInv, PipelineTypeOK, IInv, TypeOK, Executors
    <2>2. holding'[w] = NoLease
      BY <2>1 DEF release
    <2>3. \A v \in Workers \ {w} : run'[v] = run[v] /\ holding'[v] = holding[v]
      BY <1>1, <2>1 DEF release
    <2>4. QED
      BY <2>2, <2>3 DEF PipelineInv, HoldingOK
  <1>3. QED
    BY <1>1, <1>2, BoundaryStep

\* A worker completes an item only for a job it knows to be finished for good.
LEMMA SettleStep ==
    ASSUME PipelineInv, [LedgerNext]_ledgerVars, NEW w \in Workers, settle_work_item(w)
    PROVE  PipelineInv'
  <1> DEFINE i == holding[w].job
  <1>1. release(w) /\ stop(w) /\ UNCHANGED <<snapshot, render, custody>>
    BY DEF settle_work_item
  <1>2. lease_owned(w)
    BY DEF settle_work_item, defer_work_item, complete_work_item, fail_work_item
  <1>3. holding[w] # NoLease /\ work[i].status = "leased"
    BY <1>2 DEF lease_owned
  <1>4. w \in Executors
    BY DEF Executors
  <1>5. i \in Jobs /\ run[w].job = i
    BY <1>3, <1>4 DEF PipelineInv, HoldingOK, RunOK
  <1>6. job[i].status # "absent" /\ work \in [Jobs -> WorkRow]
    BY <1>3, <1>5 DEF PipelineInv, JobOK, IInv, TypeOK
  <1>7. CASE complete_work_item(w) /\ at(w, "done")
    <2>1. finished(i)
      BY <1>4, <1>5, <1>7 DEF PipelineInv, RunOK, at
    <2>2. UNCHANGED job /\ \A j \in Jobs \ {i} : work'[j] = work[j]
      BY <1>6, <1>7 DEF complete_work_item
    <2>3. \A j \in Jobs : RowStep(j) /\ ItemStep(j)
      BY <1>6, <2>1, <2>2 DEF RowStep, ItemStep
    <2>4. QED
      BY <1>1, <2>3, StopStep
  <1>8. CASE defer_work_item(w, BaseDelay)
    <2>1. /\ UNCHANGED job /\ \A j \in Jobs \ {i} : work'[j] = work[j]
          /\ work'[i].status = "retry_pending"
      BY <1>5, <1>6, <1>8 DEF defer_work_item, deferred_row
    <2>2. \A j \in Jobs : RowStep(j) /\ ItemStep(j)
      BY <1>6, <2>1 DEF RowStep, ItemStep
    <2>3. QED
      BY <1>1, <2>2, StopStep
  <1>9. CASE fail_work_item(w)
    <2>1. settle_failed_work(i, 0, "operator_intervention_required")
      BY <1>9 DEF fail_work_item
    <2>2. \A j \in Jobs : RowStep(j) /\ ItemStep(j)
      BY <1>3, <1>5, <2>1, SettleFailedRows DEF ArchivePostures
    <2>3. QED
      BY <1>1, <2>2, StopStep
  <1>10. QED
    BY <1>7, <1>8, <1>9 DEF settle_work_item

\* A direct caller holds no lease, so it starts and ends without touching the ledger.
LEMMA CallerStep ==
    ASSUME PipelineInv, NEW c \in Callers, caller_starts(c) \/ caller_ends(c)
    PROVE  PipelineInv'
  <1>1. /\ local(c) /\ c \in Executors /\ c \notin Workers
        /\ run \in [Executors -> RunRow]
    BY PipelineAssumption DEF caller_starts, caller_ends, Executors, PipelineInv, PipelineTypeOK
  <1>2. /\ [LedgerNext]_ledgerVars /\ UNCHANGED <<job, holding, snapshot, render, custody>>
        /\ \A j \in Jobs : RowStep(j) /\ ItemStep(j)
    BY <1>1 DEF local, ledgerVars, RowStep, ItemStep
  <1>3. ASSUME NEW row, run' = [run EXCEPT ![c] = row]
        PROVE  HoldingOK'
    BY <1>1, <1>2, <1>3 DEF PipelineInv, HoldingOK, Executors
  <1>4. CASE caller_starts(c)
    <2>1. PICK j \in Direct : job[j].status # "absent" /\ start(c, j)
      BY <1>4 DEF caller_starts
    <2> DEFINE row == [IdleRun EXCEPT !.pc = "load", !.job = j]
    <2>2. row \in RunRow /\ row.pc = "load" /\ row.job = j /\ j \in Jobs
      BY BoundaryRows, PipelineAssumption
    <2>3. run' = [run EXCEPT ![c] = row]
      BY <2>1 DEF start
    <2> HIDE DEF row
    <2>4. HoldingOK' /\ job'[row.job].status # "absent" /\ row.job \in Jobs
      BY <1>2, <1>3, <2>1, <2>2, <2>3
    <2>5. QED
      BY <1>1, <1>2, <2>2, <2>3, <2>4, BoundaryStep
  <1>5. CASE caller_ends(c)
    <2>1. run' = [run EXCEPT ![c] = IdleRun] /\ IdleRun \in RunRow
      BY <1>5, BoundaryRows DEF caller_ends, stop
    <2>2. HoldingOK'
      BY <1>3, <2>1
    <2>3. QED
      BY <1>1, <1>2, <2>1, <2>2, BoundaryStep
  <1>6. QED
    BY <1>4, <1>5

-----------------------------------------------------------------------------
(* The theorems *)

\* The initial states satisfy the invariant.
LEMMA PipelineInitInvariant == PipelineInit => PipelineInv
  <1> SUFFICES ASSUME PipelineInit PROVE PipelineInv
    OBVIOUS
  <1>1. IInv
    BY InitInvariant DEF PipelineInit
  <1>2. PipelineTypeOK
    BY BoundaryRows DEF PipelineInit, PipelineTypeOK
  <1>3. /\ \A e \in Executors : RunOK(e)
        /\ HoldingOK
    BY BoundaryRows DEF PipelineInit, LedgerInit, RunOK, HoldingOK
  <1>4. \A j \in Jobs : job[j].status = "absent" /\ work[j].status = "absent"
    BY DEF PipelineInit, LedgerInit, AbsentJob, AbsentWork
  <1>5. QED
    BY <1>1, <1>2, <1>3, <1>4
       DEF PipelineInv, JobOK, CompletedWorkIsFinished, RenderedFromIntactSnapshot,
           ArchivedIsCommitted, ReplayableArchiveFailureHasRequest

\* Every step preserves the invariant.
LEMMA PipelineStepInvariant == PipelineInv /\ [PipelineNext]_pipelineVars => PipelineInv'
  <1> SUFFICES ASSUME PipelineInv, [PipelineNext]_pipelineVars PROVE PipelineInv'
    OBVIOUS
  <1>1. [LedgerNext]_ledgerVars
    BY StepImplements
  <1>2. CASE UNCHANGED pipelineVars
    <2>1. UNCHANGED <<snapshot, run, render, custody, holding, job, work>>
      BY <1>2 DEF pipelineVars
    <2>2. PipelineTypeOK' /\ \A j \in Jobs : StoresKept(j)
      BY <2>1, StoresUntouched
    <2>3. \A j \in Jobs : RowStep(j) /\ ItemStep(j)
      BY <2>1 DEF RowStep, ItemStep
    <2>4. QED
      BY <1>1, <2>1, <2>2, <2>3, OutsideStep
  <1>3. ASSUME NEW j \in Jobs,
               client_submits(j) \/ client_resubmits(j) \/ client_cancels(j) \/ expiry_swept(j)
        PROVE  PipelineInv'
    BY <1>1, <1>3, ClientStep
  <1>4. ASSUME NEW j \in Jobs, render_finishes(j) \/ render_forgets(j) \/ archive_decides(j)
        PROVE  PipelineInv'
    BY <1>4, ExternalStep
  <1>5. ASSUME NEW e \in Executors,
               Stage(e) \/ leave_resolution_pending(e) \/ stage_raises(e)
        PROVE  PipelineInv'
    <2>1. QuietStage(e) \/ MarkStage(e) \/ complete_capture(e) \/ submit_render_package(e)
      BY <1>5 DEF Stage, QuietStage, MarkStage
    <2>2. QED
      BY <2>1, QuietStagePreserves, MarkStagePreserves, CompleteCaptureStep, SubmitStep
  <1>6. ASSUME NEW w \in Workers, NEW j \in Jobs, worker_claims(w, j)
        PROVE  PipelineInv'
    BY <1>1, <1>6, ClaimStep
  <1>7. ASSUME NEW w \in Workers, settle_work_item(w)
        PROVE  PipelineInv'
    BY <1>1, <1>7, SettleStep
  <1>8. ASSUME NEW w \in Workers, settlement_refused(w) \/ worker_abandons(w)
        PROVE  PipelineInv'
    <2>1. /\ release(w) /\ stop(w) /\ UNCHANGED <<snapshot, render, custody>>
          /\ \A j \in Jobs : RowStep(j) /\ ItemStep(j)
      BY <1>8 DEF settlement_refused, worker_abandons, RowStep, ItemStep
    <2>2. QED
      BY <1>1, <2>1, StopStep
  <1>9. ASSUME NEW c \in Callers, caller_starts(c) \/ caller_ends(c)
        PROVE  PipelineInv'
    BY <1>9, CallerStep
  <1>10. CASE clock
    BY <1>1, <1>10, ClockStep
  <1>11. \A w \in Workers : w \in Executors
    BY DEF Executors
  <1>12. QED
    BY <1>2, <1>3, <1>4, <1>5, <1>6, <1>7, <1>8, <1>9, <1>10, <1>11 DEF PipelineNext

\* The invariant holds in every state that any number of workers and direct callers reach,
\* through crashes, lost leases and stale records.
THEOREM PipelineInvariant == PipelineSpec => []PipelineInv
  BY PipelineInitInvariant, PipelineStepInvariant, PTL DEF PipelineSpec

\* The executors implement the ledger specification: a worker or caller, whatever it read
\* before, changes job rows and work items only the way the ledger's transactions allow, so
\* everything proved of LedgerSpec holds of the running system.
THEOREM PipelineImplementsLedger == PipelineSpec => LedgerSpec
  <1>1. PipelineInit => LedgerInit
    BY DEF PipelineInit
  <1>2. PipelineInv /\ [PipelineNext]_pipelineVars => [LedgerNext]_ledgerVars
    BY StepImplements
  <1>3. QED
    BY <1>1, <1>2, PipelineInvariant, PTL DEF PipelineSpec, LedgerSpec

\* complete_work_item, called from a record that may be stale, never ends an item under a
\* job that is owed more work.
THEOREM PipelineCompletedWorkIsFinished == PipelineSpec => []CompletedWorkIsFinished
  <1>1. PipelineInv => CompletedWorkIsFinished
    BY DEF PipelineInv
  <1>2. QED
    BY <1>1, PipelineInvariant, PTL

\* A job past its capture rests on one stored, intact snapshot, whoever raced over it.
THEOREM PipelineRenderedFromIntactSnapshot == PipelineSpec => []RenderedFromIntactSnapshot
  <1>1. PipelineInv => RenderedFromIntactSnapshot
    BY DEF PipelineInv
  <1>2. QED
    BY <1>1, PipelineInvariant, PTL

\* mark_archived, also from an executor that lost its lease, records only deliveries the
\* archive committed.
THEOREM PipelineArchivedIsCommitted == PipelineSpec => []ArchivedIsCommitted
  <1>1. PipelineInv => ArchivedIsCommitted
    BY DEF PipelineInv
  <1>2. QED
    BY <1>1, PipelineInvariant, PTL

\* A failed archive handoff that invites a replay names the request the replay resolves.
THEOREM PipelineReplayableArchiveFailureHasRequest ==
    PipelineSpec => []ReplayableArchiveFailureHasRequest
  <1>1. PipelineInv => ReplayableArchiveFailureHasRequest
    BY DEF PipelineInv
  <1>2. QED
    BY <1>1, PipelineInvariant, PTL

-----------------------------------------------------------------------------
(***************************************************************************)
(* Failed-work replay                                                      *)
(***************************************************************************)
-----------------------------------------------------------------------------
(* The inductive invariant *)

RequestStages == {"resolve", "adopt", "create", "clone"}

ReplayRow == [pc : Stages \cup RequestStages, job : Jobs \cup {NoJob}, seen : JobStatuses,
              payload : Payloads \cup {"none"}, category : FailureCategories,
              retry : BOOLEAN, request : BOOLEAN]

RelationRow == [source : Jobs \cup {NoJob}, category : FailureCategories]

ReplayTypeOK ==
    /\ run \in [Executors -> ReplayRow]
    /\ relation \in [Jobs -> RelationRow]
    /\ custody \in [Jobs -> {"none", "committed", "refused", "dropped"}]

\* A delivery that ended without a document.
Undelivered == {"refused", "dropped"}

\* The archive knew no document of s: none follows, or the lookup raced the delivery.
absence_answered(s) == custody[s] \in Undelivered \/ s \in raced

\* What the stages need of the row an executor carries.
RowOK(q) ==
    /\ q.pc # "idle" => q.job \in Jobs
    /\ q.pc \in OutcomeStages => q.category \in CallerCategories \cup {"none"}
    /\ q.pc = "mark_failed" => q.category \in CallerCategories

\* A request that the archive lookup let through works from an absence that stays true,
\* or from one that was answered too early.
ResolvedOK(q) ==
    q.pc = "create" /\ q.category \in ArchiveCategories => absence_answered(q.job)

\* A derived job and its source exist, and an archive failure that was replayed has no
\* document and gets none, unless its lookup raced.
RelationOK(d) ==
    /\ relation[d].source # NoJob =>
          job[d].status # "absent" /\ job[relation[d].source].status # "absent"
    /\ relation[d].category \in ArchiveCategories =>
          relation[d].source # NoJob /\ absence_answered(relation[d].source)

under_way(d) == d \in Direct /\ job[d].status \notin TerminalStatuses \cup {"absent"}

\* Two derived jobs under way are of different lineages: some closed set tells them apart.
ApartOK ==
    \A x, y \in Jobs :
        under_way(x) /\ under_way(y) /\ x # y =>
            \E S \in SUBSET Jobs : closed_under_replay(S) /\ x \in S /\ y \notin S

ReplayInv ==
    /\ IInv
    /\ ReplayTypeOK
    /\ \A e \in Executors : RowOK(run[e]) /\ ResolvedOK(run[e])
    /\ \A d \in Jobs : RelationOK(d)
    /\ ApartOK

-----------------------------------------------------------------------------
(* Steps that derive no job *)

\* The life of a job row under any step that derives no job: it stays in the table, a
\* terminal one stays terminal, and one of the derived keys is not brought to life.
LifeStep(j) ==
    /\ job[j].status # "absent" => job'[j].status # "absent"
    /\ job[j].status \in TerminalStatuses => job'[j].status \in TerminalStatuses
    /\ j \in Direct /\ job[j].status = "absent" => job'[j].status \in {"absent", "failed"}

CustodyKept(j) ==
    custody[j] \in Undelivered => custody'[j] = custody[j]

\* The facts about relations survive such a step.
LEMMA RelationKept ==
    ASSUME ReplayInv, UNCHANGED relation, raced \subseteq raced',
           \A j \in Jobs : LifeStep(j) /\ CustodyKept(j)
    PROVE  (\A d \in Jobs : RelationOK(d)') /\ ApartOK'
  <1>1. \A d \in Jobs : RelationOK(d)'
    <2> SUFFICES ASSUME NEW d \in Jobs PROVE RelationOK(d)'
      OBVIOUS
    <2>1. relation[d] \in RelationRow /\ RelationOK(d)
      BY DEF ReplayInv, ReplayTypeOK
    <2>2. relation[d].source \in Jobs \cup {NoJob}
      BY <2>1 DEF RelationRow
    <2>3. QED
      BY <2>1, <2>2 DEF RelationOK, LifeStep, CustodyKept, absence_answered
  <1>2. \A x \in Jobs : under_way(x)' => under_way(x)
    BY DEF under_way, LifeStep, TerminalStatuses
  <1>3. \A S : closed_under_replay(S)' <=> closed_under_replay(S)
    BY DEF closed_under_replay
  <1>4. ApartOK'
    BY <1>2, <1>3 DEF ReplayInv, ApartOK
  <1>5. QED
    BY <1>1, <1>4

\* The step of one executor to a row that supplies what its stage needs; the history of
\* lookups may grow with it.
LEMMA ExecutorMoves ==
    ASSUME ReplayInv, NEW e \in Executors, NEW q \in ReplayRow,
           run' = [run EXCEPT ![e] = q], RowOK(q),
           q.pc = "create" /\ q.category \in ArchiveCategories =>
               custody[q.job] \in Undelivered \/ q.job \in raced',
           UNCHANGED <<relation, custody>>, raced \subseteq raced',
           \A j \in Jobs : LifeStep(j), IInv'
    PROVE  ReplayInv'
  <1>1. ReplayTypeOK'
    BY DEF ReplayInv, ReplayTypeOK
  <1>2. \A x \in Executors : run'[x] = run[x] \/ run'[x] = q
    BY DEF ReplayInv, ReplayTypeOK
  <1>3. \A x \in Executors : RowOK(run[x])' /\ ResolvedOK(run[x])'
    BY <1>2 DEF ReplayInv, RowOK, ResolvedOK, absence_answered
  <1>4. \A j \in Jobs : CustodyKept(j)
    BY DEF CustodyKept
  <1>5. (\A d \in Jobs : RelationOK(d)') /\ ApartOK'
    BY <1>4, RelationKept
  <1>6. QED
    BY <1>1, <1>3, <1>5 DEF ReplayInv

LEMMA ExecutorStep ==
    ASSUME ReplayInv, NEW e \in Executors, NEW q \in ReplayRow,
           run' = [run EXCEPT ![e] = q], RowOK(q), ResolvedOK(q),
           UNCHANGED <<relation, raced, custody>>, \A j \in Jobs : LifeStep(j), IInv'
    PROVE  ReplayInv'
  BY ExecutorMoves DEF ResolvedOK, absence_answered

\* A step of the outside moves no executor and takes back no ended delivery.
LEMMA OutsideKeeps ==
    ASSUME ReplayInv, UNCHANGED <<run, relation, raced>>,
           custody' \in [Jobs -> {"none", "committed", "refused", "dropped"}],
           \A j \in Jobs : LifeStep(j) /\ CustodyKept(j), IInv'
    PROVE  ReplayInv'
  <1>1. ReplayTypeOK'
    BY DEF ReplayInv, ReplayTypeOK
  <1>2. \A x \in Executors : RowOK(run[x])' /\ ResolvedOK(run[x])'
    <2> SUFFICES ASSUME NEW x \in Executors PROVE RowOK(run[x])' /\ ResolvedOK(run[x])'
      OBVIOUS
    <2>1. RowOK(run[x]) /\ ResolvedOK(run[x]) /\ run'[x] = run[x]
      BY DEF ReplayInv
    <2>2. QED
      BY <2>1 DEF RowOK, ResolvedOK, CustodyKept, absence_answered
  <1>3. (\A d \in Jobs : RelationOK(d)') /\ ApartOK'
    BY RelationKept
  <1>4. QED
    BY <1>1, <1>2, <1>3 DEF ReplayInv

-----------------------------------------------------------------------------
(* The life of a job row *)

LEMMA SameRowsLife ==
    ASSUME UNCHANGED job
    PROVE  \A i \in Jobs : LifeStep(i)
  BY DEF LifeStep

\* A transition starts from a row that exists and leaves terminal rows terminal.
LEMMA TransitionLife ==
    ASSUME IInv, NEW j \in Jobs, NEW to \in TransitionTargets, NEW c, NEW r, NEW ids,
           transition_job(j, to, c, r, ids)
    PROVE  \A i \in Jobs : LifeStep(i)
  <1>1. \A i \in Jobs : JobStep(i)
    BY TransitionStep DEF IInv
  <1>2. \A i \in Jobs : i # j => job'[i] = job[i]
    BY DEF transition_job, IInv, TypeOK
  <1>3. job[j].status # "absent" /\ job'[j].status = to
    BY DEF transition_job, transition_accepted, transitioned, IInv, TypeOK
  <1>4. to # "absent"
    BY DEF TransitionTargets, AllowedFrom
  <1>5. QED
    BY <1>1, <1>2, <1>3, <1>4 DEF LifeStep, JobStep, TerminalStatuses

\* Spending the last attempt can only fail a job.
LEMMA SettleFailedLife ==
    ASSUME IInv, NEW j \in Jobs, NEW when, NEW c, settle_failed_work(j, when, c)
    PROVE  \A i \in Jobs : LifeStep(i)
  <1>1. \A i \in Jobs : job'[i] = job[i] \/ job'[i] = terminalized(i, c)
    BY DEF settle_failed_work, IInv, TypeOK
  <1>2. \A i \in Jobs : terminalized(i, c).status = "failed"
                           \/ terminalized(i, c) = job[i]
    BY DEF terminalized, transitioned
  <1>3. QED
    BY <1>1, <1>2 DEF LifeStep, TerminalStatuses

LEMMA CancelLife ==
    ASSUME IInv, NEW j \in Jobs, cancel_job(j)
    PROVE  \A i \in Jobs : LifeStep(i)
  BY DEF cancel_job, is_report_job_cancellable, LifeStep, TerminalStatuses, IInv, TypeOK

\* A client submits original jobs only.
LEMMA SubmitLife ==
    ASSUME IInv, NEW j \in Jobs \ Direct, NEW enqueue, create_report_job(j, enqueue)
    PROVE  \A i \in Jobs : LifeStep(i)
  BY DEF create_report_job, AcceptedJob, LifeStep, TerminalStatuses, IInv, TypeOK

-----------------------------------------------------------------------------
(* The stages, for workers and for requests that run a derived job *)

\* The row an executor moves to, when the stages move it.
StageRow(e, q) ==
    /\ q \in ReplayRow /\ q.pc \in Stages
    /\ RowOK(q)
    /\ run' = [run EXCEPT ![e] = q]

LEMMA GotoMoves ==
    ASSUME ReplayInv, NEW e \in Executors, run[e].pc # "idle",
           NEW pc \in Stages \ (OutcomeStages \cup {"mark_failed"}), goto(e, pc)
    PROVE  \E q : StageRow(e, q)
  <1>1. run \in [Executors -> ReplayRow] /\ run[e] \in ReplayRow /\ RowOK(run[e])
    BY DEF ReplayInv, ReplayTypeOK
  <1>2. PICK q : q = [run[e] EXCEPT !.pc = pc]
    OBVIOUS
  <1>3. run' = [run EXCEPT ![e] = q]
    BY <1>1, <1>2 DEF goto
  <1>4. q \in ReplayRow /\ q.pc = pc /\ q.job = run[e].job
    BY <1>1, <1>2 DEF ReplayRow
  <1>5. RowOK(q)
    BY <1>1, <1>4 DEF RowOK
  <1>6. QED
    BY <1>3, <1>4, <1>5 DEF StageRow

LEMMA StageCategoriesFit ==
    /\ CallerCategories \subseteq FailureCategories
    /\ StageCategories \subseteq CallerCategories
    /\ "none" \in FailureCategories
  BY LedgerAssumption, PipelineAssumption DEF FailureCategories

LEMMA FailMoves ==
    ASSUME ReplayInv, NEW e \in Executors, run[e].pc # "idle",
           NEW c \in StageCategories, NEW r \in BOOLEAN, fail_with(e, c, r)
    PROVE  \E q : StageRow(e, q)
  <1>1. run \in [Executors -> ReplayRow] /\ run[e] \in ReplayRow /\ RowOK(run[e])
    BY DEF ReplayInv, ReplayTypeOK
  <1>2. PICK q : q = [run[e] EXCEPT !.pc = "mark_failed", !.category = c, !.retry = r,
                                    !.payload = "none", !.request = FALSE]
    OBVIOUS
  <1>3. run' = [run EXCEPT ![e] = q]
    BY <1>1, <1>2 DEF fail_with
  <1>4. c \in CallerCategories /\ c \in FailureCategories
    BY StageCategoriesFit
  <1>5. /\ q \in ReplayRow /\ q.pc = "mark_failed" /\ q.job = run[e].job /\ q.category = c
        /\ q.pc \in Stages
    BY <1>1, <1>2, <1>4 DEF ReplayRow, Stages
  <1>6. RowOK(q)
    BY <1>1, <1>4, <1>5 DEF RowOK, OutcomeStages
  <1>7. QED
    BY <1>3, <1>5, <1>6 DEF StageRow

\* A stage that also notes a payload.
LEMMA PayloadMoves ==
    ASSUME ReplayInv, NEW e \in Executors, run[e].pc # "idle",
           NEW pc \in {"store", "mark_data_ready"}, NEW p \in Payloads \cup {"none"},
           run' = [run EXCEPT ![e].pc = pc, ![e].payload = p]
    PROVE  \E q : StageRow(e, q)
  <1>1. run \in [Executors -> ReplayRow] /\ run[e] \in ReplayRow /\ RowOK(run[e])
    BY DEF ReplayInv, ReplayTypeOK
  <1>2. PICK q : q = [run[e] EXCEPT !.pc = pc, !.payload = p]
    OBVIOUS
  <1>3. run' = [run EXCEPT ![e] = q]
    BY <1>1, <1>2
  <1>4. q \in ReplayRow /\ q.pc = pc /\ q.pc \in Stages /\ q.job = run[e].job
    BY <1>1, <1>2 DEF ReplayRow, Stages
  <1>5. RowOK(q)
    BY <1>1, <1>4 DEF RowOK, OutcomeStages
  <1>6. QED
    BY <1>3, <1>4, <1>5 DEF StageRow

\* A stage that notes the job status it read or wrote, and carries its category on.
LEMMA SeenMoves ==
    ASSUME ReplayInv, NEW e \in Executors, run[e].pc # "idle",
           NEW pc \in Stages, NEW s \in JobStatuses,
           pc \in OutcomeStages => run[e].category \in CallerCategories \cup {"none"},
           pc = "mark_failed" => run[e].category \in CallerCategories,
           run' = [run EXCEPT ![e].pc = pc, ![e].seen = s]
    PROVE  \E q : StageRow(e, q)
  <1>1. run \in [Executors -> ReplayRow] /\ run[e] \in ReplayRow /\ RowOK(run[e])
    BY DEF ReplayInv, ReplayTypeOK
  <1>2. PICK q : q = [run[e] EXCEPT !.pc = pc, !.seen = s]
    OBVIOUS
  <1>3. run' = [run EXCEPT ![e] = q]
    BY <1>1, <1>2
  <1>4. /\ q \in ReplayRow /\ q.pc = pc /\ q.job = run[e].job
        /\ q.category = run[e].category
    BY <1>1, <1>2 DEF ReplayRow
  <1>5. RowOK(q)
    BY <1>1, <1>4 DEF RowOK
  <1>6. QED
    BY <1>3, <1>4, <1>5 DEF StageRow
\* A rendered outcome is carried on with a category of the stages, or with none.
LEMMA AdoptRenderedMoves ==
    ASSUME ReplayInv, NEW e \in Executors, run[e].pc # "idle", adopt_rendered(e)
    PROVE  \E q : StageRow(e, q)
  <1> DEFINE j == run[e].job
             seen == run[e].seen
  <1>1. run \in [Executors -> ReplayRow] /\ run[e] \in ReplayRow /\ RowOK(run[e])
    BY DEF ReplayInv, ReplayTypeOK
  <1>2. CASE fail_with(e, "render_validation_failed", FALSE)
    BY <1>2, FailMoves DEF StageCategories
  <1>3. CASE \E state \in CustodyAnswers, request \in BOOLEAN :
               LET category == archive_category(state, request)
                   next == IF seen \in {"data_ready", "rendering"} THEN "mark_completed"
                           ELSE archive_stage(seen, category, request)
               IN  /\ reportable(j, state)
                   /\ run' = [run EXCEPT ![e].pc = next, ![e].category = category,
                                         ![e].request = request,
                                         ![e].retry = archive_retry(j, state, request)]
    <2>1. PICK state \in CustodyAnswers, request \in BOOLEAN :
               run' = [run EXCEPT
                     ![e].pc = IF seen \in {"data_ready", "rendering"} THEN "mark_completed"
                               ELSE archive_stage(seen, archive_category(state, request), request),
                     ![e].category = archive_category(state, request),
                     ![e].request = request,
                     ![e].retry = archive_retry(j, state, request)]
      BY <1>3, Zenon
    <2>2. PICK category : category = archive_category(state, request)
      OBVIOUS
    <2>3. PICK next : next = IF seen \in {"data_ready", "rendering"} THEN "mark_completed"
                             ELSE archive_stage(seen, category, request)
      OBVIOUS
    <2>4. PICK retry : retry = archive_retry(j, state, request)
      OBVIOUS
    <2>5. category \in StageCategories \cup {"none"} /\ retry \in BOOLEAN
      BY <2>2, <2>4 DEF archive_category, archive_retry, StageCategories
    <2>6. /\ next \in {"mark_completed", "mark_archiving", "mark_archived", "mark_failed"}
          /\ next = "mark_failed" => category # "none"
      BY <2>3 DEF archive_stage
    <2>7. category \in CallerCategories \cup {"none"} /\ category \in FailureCategories
      BY <2>5, StageCategoriesFit
    <2>8. PICK q : q = [run[e] EXCEPT !.pc = next, !.category = category,
                                      !.request = request, !.retry = retry]
      OBVIOUS
    <2>9. run' = [run EXCEPT ![e] = q]
      BY <1>1, <2>1, <2>2, <2>3, <2>4, <2>8
    <2>10. /\ q \in ReplayRow /\ q.pc = next /\ q.pc \in Stages
           /\ q.job = j /\ q.category = category
      BY <1>1, <2>5, <2>6, <2>7, <2>8 DEF ReplayRow, Stages
    <2>11. RowOK(q)
      BY <1>1, <2>6, <2>7, <2>10 DEF RowOK, OutcomeStages
    <2>12. QED
      BY <2>9, <2>10, <2>11 DEF StageRow
  <1>4. QED
    BY <1>2, <1>3 DEF adopt_rendered

LEMMA AfterCaptureMoves ==
    ASSUME ReplayInv, NEW e \in Executors, run[e].pc # "idle", NEW p, after_capture(e, p)
    PROVE  \E q : StageRow(e, q)
  <1>1. CASE run' = [run EXCEPT ![e].pc = "mark_data_ready", ![e].payload = "none"]
    BY <1>1, PayloadMoves
  <1>2. CASE \E c \in StageCategories, r \in BOOLEAN : fail_with(e, c, r)
    BY <1>2, FailMoves
  <1>3. QED
    BY <1>1, <1>2 DEF after_capture, StageCategories

LEMMA ResubmitMoves ==
    ASSUME ReplayInv, NEW e \in Executors, run[e].pc # "idle", resubmit_or_lost(e)
    PROVE  \E q : StageRow(e, q)
  <1>1. CASE goto(e, "build")
    BY <1>1, GotoMoves DEF Stages, OutcomeStages
  <1>2. CASE \E c \in StageCategories, r \in BOOLEAN : fail_with(e, c, r)
    BY <1>2, FailMoves
  <1>3. QED
    BY <1>1, <1>2 DEF resubmit_or_lost, StageCategories

\* Every quiet stage moves its executor to such a row.
LEMMA QuietStageMoves ==
    ASSUME ReplayInv, NEW e \in Executors, QuietStage(e)
    PROVE  \E q : StageRow(e, q)
  <1>1. run[e].pc # "idle"
    BY DEF QuietStage, execute_job, resume_existing_capture, collect_for_job,
           capture_proof_pack_snapshot, capture_outcome_review_snapshot,
           capture_wave_snapshot, capture_embedded_input, build_package_or_fail,
           submit_answered, lookup_answered, escalate_or_wait, leave_resolution_pending,
           stage_raises, at
  <1>2. ASSUME NEW pc \in {"waiting", "raised", "mark_rendering", "submit", "diagnose",
                           "mark_collecting", "collect"},
               goto(e, pc)
        PROVE  \E q : StageRow(e, q)
    BY <1>1, <1>2, GotoMoves DEF Stages, OutcomeStages
  <1>3. ASSUME NEW c \in StageCategories, NEW r \in BOOLEAN, fail_with(e, c, r)
        PROVE  \E q : StageRow(e, q)
    BY <1>1, <1>3, FailMoves
  <1>4. CASE execute_job(e)
    <2>1. run[e].job \in Jobs
      BY <1>1 DEF ReplayInv, RowOK
    <2>2. job[run[e].job].status \in JobStatuses
      BY <2>1 DEF ReplayInv, IInv, TypeOK, JobRow
    <2>3. PICK pc \in {"resume", "done", "build", "lookup"} :
             run' = [run EXCEPT ![e].pc = pc, ![e].seen = job[run[e].job].status]
      BY <1>4 DEF execute_job
    <2>4. QED
      BY <1>1, <2>2, <2>3, SeenMoves DEF Stages, OutcomeStages
  <1>5. CASE resume_existing_capture(e)
    BY <1>1, <1>2, <1>5, AfterCaptureMoves DEF resume_existing_capture
  <1>6. CASE collect_for_job(e)
    <2>1. CaptureAnswers \subseteq Payloads
      BY PipelineAssumption DEF Payloads
    <2>2. CASE \E p \in CaptureAnswers :
                  run' = [run EXCEPT ![e].pc = "store", ![e].payload = p]
      BY <1>1, <2>1, <2>2, PayloadMoves
    <2>3. QED
      BY <1>2, <1>6, <2>2 DEF collect_for_job
  <1>7. ASSUME NEW family, capture_embedded_input(e, family)
        PROVE  \E q : StageRow(e, q)
    <2> DEFINE input == Embedded[run[e].job].input
    <2>1. CASE input \in Contents /\ run' = [run EXCEPT ![e].pc = "store", ![e].payload = input]
      <3>1. PICK p \in Payloads \cup {"none"} : p = input
        BY <2>1 DEF Payloads
      <3>2. run' = [run EXCEPT ![e].pc = "store", ![e].payload = p]
        BY <2>1, <3>1
      <3>3. QED
        BY <1>1, <3>2, PayloadMoves
    <2>2. CASE fail_with(e, "validation_failed", FALSE)
      BY <1>3, <2>2 DEF StageCategories
    <2>3. QED
      BY <1>2, <1>7, <2>1, <2>2 DEF capture_embedded_input
  <1>8. CASE build_package_or_fail(e)
    BY <1>2, <1>3, <1>8 DEF build_package_or_fail, StageCategories
  <1>9. CASE submit_answered(e)
    BY <1>1, <1>3, <1>9, AdoptRenderedMoves DEF submit_answered, StageCategories
  <1>10. CASE lookup_answered(e)
    <2>1. CASE adopt_persisted_render_failure(e)
      BY <1>3, <2>1 DEF adopt_persisted_render_failure, StageCategories
    <2>2. QED
      BY <1>1, <1>2, <1>10, <2>1, AdoptRenderedMoves, ResubmitMoves DEF lookup_answered
  <1>11. CASE escalate_or_wait(e)
    <2>1. CASE \E c \in {"render_validation_failed", "render_execution_failed"} :
                  fail_with(e, c, FALSE)
      BY <1>3, <2>1 DEF StageCategories
    <2>2. QED
      BY <1>1, <1>2, <1>11, <2>1, ResubmitMoves DEF escalate_or_wait
  <1>12. CASE leave_resolution_pending(e) \/ stage_raises(e)
    BY <1>2, <1>12 DEF leave_resolution_pending, stage_raises
  <1>13. QED
    BY <1>4, <1>5, <1>6, <1>7, <1>8, <1>9, <1>10, <1>11, <1>12
       DEF QuietStage, capture_proof_pack_snapshot, capture_outcome_review_snapshot,
           capture_wave_snapshot

\* So does every mark_* call, and what it writes is a transition of the ledger.
LEMMA MarkStageMoves ==
    ASSUME ReplayInv, NEW e \in Executors, MarkStage(e)
    PROVE  /\ \E q : StageRow(e, q)
           /\ \A i \in Jobs : LifeStep(i)
           /\ UNCHANGED custody
  <1>1. run[e].pc # "idle"
    BY DEF MarkStage, mark_collecting_data, mark_data_ready, mark_rendering,
           mark_completed, mark_archiving, record_archived, record_failed, at
  <1>2. run[e].job \in Jobs /\ RowOK(run[e]) /\ run[e] \in ReplayRow
    BY <1>1 DEF ReplayInv, ReplayTypeOK, RowOK
  <1>3. ASSUME NEW to \in TransitionTargets, NEW c, NEW r, NEW ids, NEW s \in JobStatuses,
               NEW pc \in Stages, mark(e, to, c, r, ids, s, pc),
               pc \in OutcomeStages => run[e].category \in CallerCategories \cup {"none"},
               pc = "mark_failed" => run[e].category \in CallerCategories
        PROVE  /\ \E q : StageRow(e, q)
               /\ \A i \in Jobs : LifeStep(i)
               /\ UNCHANGED custody
    <2>1. UNCHANGED custody
      BY <1>3 DEF mark
    <2>2. CASE /\ transition_job(run[e].job, to, c, r, ids)
               /\ run' = [run EXCEPT ![e].pc = pc, ![e].seen = s]
      <3>1. \A i \in Jobs : LifeStep(i)
        BY <1>2, <2>2, TransitionLife DEF ReplayInv
      <3>2. \E q : StageRow(e, q)
        BY <1>1, <1>3, <2>2, SeenMoves
      <3>3. QED
        BY <2>1, <3>1, <3>2
    <2>3. CASE goto(e, "raised") /\ UNCHANGED job
      <3>1. \A i \in Jobs : LifeStep(i)
        BY <2>3, SameRowsLife
      <3>2. \E q : StageRow(e, q)
        BY <1>1, <2>3, GotoMoves DEF Stages, OutcomeStages
      <3>3. QED
        BY <2>1, <3>1, <3>2
    <2>4. QED
      BY <1>3, <2>2, <2>3 DEF mark
  <1>4. TransitionTargets = {"collecting_data", "data_ready", "rendering", "completed",
                             "archiving", "archived", "failed"}
    BY DEF TransitionTargets, AllowedFrom
  <1>5. /\ {"data_ready", "completed", "archived", "failed"} \subseteq JobStatuses
        /\ run[e].seen \in JobStatuses
    BY <1>2 DEF JobStatuses, ReplayRow
  <1>6. /\ {"collect", "done", "build", "submit", "mark_failed"} \subseteq Stages
        /\ OutcomeStages \subseteq Stages
        /\ OutcomeStages \cap {"collect", "done", "build", "submit", "mark_failed"} = {}
    BY DEF Stages, OutcomeStages
  <1>7. CASE mark_collecting_data(e)
    BY <1>3, <1>4, <1>5, <1>6, <1>7 DEF mark_collecting_data
  <1>8. CASE mark_data_ready(e)
    BY <1>3, <1>4, <1>5, <1>6, <1>8 DEF mark_data_ready
  <1>9. CASE mark_rendering(e)
    BY <1>3, <1>4, <1>5, <1>6, <1>9 DEF mark_rendering
  <1>10. ASSUME NEW seen, run[e].pc \in OutcomeStages
         PROVE  LET pc == archive_stage(seen, run[e].category, run[e].request)
                IN  /\ pc \in OutcomeStages \cup {"mark_failed"}
                    /\ run[e].category \in CallerCategories \cup {"none"}
                    /\ pc = "mark_failed" => run[e].category \in CallerCategories
    BY <1>2, <1>10 DEF archive_stage, OutcomeStages, RowOK
  <1>11. CASE mark_completed(e)
    <2>1. run[e].pc \in OutcomeStages
      BY <1>11 DEF mark_completed, at, OutcomeStages
    <2>2. PICK pc : pc = archive_stage("completed", run[e].category, run[e].request)
      OBVIOUS
    <2>3. mark(e, "completed", "none", FALSE, {"render_job_id"}, "completed", pc)
      BY <1>11, <2>2 DEF mark_completed
    <2>4. /\ pc \in Stages
          /\ pc \in OutcomeStages => run[e].category \in CallerCategories \cup {"none"}
          /\ pc = "mark_failed" => run[e].category \in CallerCategories
      BY <1>6, <1>10, <2>1, <2>2
    <2>5. QED
      BY <1>3, <1>4, <1>5, <2>3, <2>4
  <1>12. CASE mark_archiving(e)
    <2>1. run[e].pc \in OutcomeStages
      BY <1>12 DEF mark_archiving, at, OutcomeStages
    <2>2. PICK pc : pc = archive_stage("archiving", run[e].category, run[e].request)
      OBVIOUS
    <2>3. mark(e, "archiving", "none", FALSE, {"archive_request_id"}, run[e].seen, pc)
      BY <1>12, <2>2 DEF mark_archiving
    <2>4. /\ pc \in Stages
          /\ pc \in OutcomeStages => run[e].category \in CallerCategories \cup {"none"}
          /\ pc = "mark_failed" => run[e].category \in CallerCategories
      BY <1>6, <1>10, <2>1, <2>2
    <2>5. QED
      BY <1>3, <1>4, <1>5, <2>3, <2>4
  <1>13. CASE record_archived(e)
    BY <1>3, <1>4, <1>5, <1>6, <1>13 DEF record_archived
  <1>14. CASE record_failed(e)
    BY <1>3, <1>4, <1>5, <1>6, <1>14 DEF record_failed
  <1>15. QED
    BY <1>7, <1>8, <1>9, <1>11, <1>12, <1>13, <1>14 DEF MarkStage
LEMMA StageMovePreserves ==
    ASSUME ReplayInv, NEW e \in Executors, \E q : StageRow(e, q),
           UNCHANGED <<custody, relation, raced>>, \A j \in Jobs : LifeStep(j), IInv'
    PROVE  ReplayInv'
  <1>1. PICK q : StageRow(e, q)
    OBVIOUS
  <1>2. q \in ReplayRow /\ RowOK(q) /\ run' = [run EXCEPT ![e] = q] /\ q.pc \in Stages
    BY <1>1 DEF StageRow
  <1>3. ResolvedOK(q)
    BY <1>2 DEF ResolvedOK, Stages
  <1>4. UNCHANGED <<relation, raced, custody>>
    OBVIOUS
  <1>5. QED
    BY <1>2, <1>3, <1>4, ExecutorStep

\* A stage of any executor keeps the invariant and is a step of the ledger, or none.
LEMMA StagePreserves ==
    ASSUME ReplayInv, NEW e \in Executors, UNCHANGED <<relation, raced>>,
           Stage(e) \/ leave_resolution_pending(e) \/ stage_raises(e)
    PROVE  [LedgerNext]_ledgerVars /\ ReplayInv'
  <1>1. QuietStage(e) \/ MarkStage(e) \/ complete_capture(e) \/ submit_render_package(e)
    BY DEF Stage, QuietStage, MarkStage
  <1>2. CASE QuietStage(e)
    <2>1. local(e)
      BY <1>2, QuietStageIsLocal
    <2>2. UNCHANGED ledgerVars /\ UNCHANGED job /\ UNCHANGED custody
      BY <2>1 DEF local, ledgerVars
    <2>3. IInv' /\ \A j \in Jobs : LifeStep(j)
      BY <2>2, StepInvariant, SameRowsLife DEF ReplayInv
    <2>4. \E q : StageRow(e, q)
      BY <1>2, QuietStageMoves
    <2>5. ReplayInv'
      BY <2>2, <2>3, <2>4, StageMovePreserves
    <2>6. QED
      BY <2>2, <2>5
  <1>3. CASE MarkStage(e)
    <2>1. run[e].pc # "idle"
      BY <1>3 DEF MarkStage, mark_collecting_data, mark_data_ready, mark_rendering,
                  mark_completed, mark_archiving, record_archived, record_failed, at
    <2>2. /\ run[e].job \in Jobs
          /\ run[e].pc = "mark_failed" =>
                run[e].category \in CallerCategories /\ run[e].retry \in BOOLEAN
      BY <2>1 DEF ReplayInv, ReplayTypeOK, ReplayRow, RowOK
    <2>3. [LedgerNext]_ledgerVars
      BY <1>3, <2>2, MarkCallIsLedgerStep
    <2>4. IInv'
      BY <2>3, StepInvariant DEF ReplayInv
    <2>5. (\E q : StageRow(e, q)) /\ (\A i \in Jobs : LifeStep(i)) /\ UNCHANGED custody
      BY <1>3, MarkStageMoves
    <2>6. ReplayInv'
      BY <2>4, <2>5, StageMovePreserves
    <2>7. QED
      BY <2>3, <2>6
  <1>4. CASE complete_capture(e) \/ submit_render_package(e)
    <2>1. run[e].pc # "idle"
      BY <1>4 DEF complete_capture, submit_render_package, at
    <2>2. UNCHANGED ledgerVars /\ UNCHANGED job /\ UNCHANGED custody
      BY <1>4 DEF complete_capture, submit_render_package, ledgerVars
    <2>3. IInv' /\ \A j \in Jobs : LifeStep(j)
      BY <2>2, StepInvariant, SameRowsLife DEF ReplayInv
    <2>4. ASSUME NEW c \in StageCategories, NEW r \in BOOLEAN, fail_with(e, c, r)
          PROVE  \E q : StageRow(e, q)
      BY <2>1, <2>4, FailMoves
    <2>5. goto(e, "await") => \E q : StageRow(e, q)
      BY <2>1, GotoMoves DEF Stages, OutcomeStages
    <2>6. complete_capture(e) => \E q : StageRow(e, q)
      BY <2>1, <2>4, AfterCaptureMoves DEF complete_capture, StageCategories
    <2>7. \E q : StageRow(e, q)
      BY <1>4, <2>4, <2>5, <2>6 DEF submit_render_package, StageCategories
    <2>8. ReplayInv'
      BY <2>2, <2>3, <2>7, StageMovePreserves
    <2>9. QED
      BY <2>2, <2>8
  <1>5. QED
    BY <1>1, <1>2, <1>3, <1>4

\* An idle row needs nothing.
LEMMA IdleRowFits == IdleRun \in ReplayRow /\ RowOK(IdleRun) /\ ResolvedOK(IdleRun)
  <1>1. /\ "idle" \in Stages /\ "absent" \in JobStatuses /\ "none" \in FailureCategories
        /\ "none" \in Payloads \cup {"none"}
    BY DEF Stages, JobStatuses, FailureCategories
  <1>2. QED
    BY <1>1 DEF IdleRun, ReplayRow, RowOK, ResolvedOK, OutcomeStages

LEMMA StopPreserves ==
    ASSUME ReplayInv, NEW e \in Executors, stop(e), UNCHANGED <<relation, raced, custody>>,
           \A j \in Jobs : LifeStep(j), IInv'
    PROVE  ReplayInv'
  <1>1. run' = [run EXCEPT ![e] = IdleRun]
    BY DEF stop
  <1>2. QED
    BY <1>1, IdleRowFits, ExecutorStep

-----------------------------------------------------------------------------
(* The surroundings of replay *)

LEMMA SurroundingsPreserve ==
    ASSUME ReplayInv, Surroundings, UNCHANGED <<relation, raced>>
    PROVE  [LedgerNext]_ledgerVars /\ ReplayInv'
  <1>1. \A w \in Workers : w \in Executors
    BY DEF Executors
  <1>2. custody \in [Jobs -> {"none", "committed", "refused", "dropped"}]
    BY DEF ReplayInv, ReplayTypeOK
  <1>3. ASSUME [LedgerNext]_ledgerVars, UNCHANGED <<run, custody>>,
               \A j \in Jobs : LifeStep(j)
        PROVE  ReplayInv'
    <2>1. IInv'
      BY <1>3, StepInvariant DEF ReplayInv
    <2>2. \A j \in Jobs : CustodyKept(j)
      BY <1>3 DEF CustodyKept
    <2>3. UNCHANGED <<run, relation, raced>>
      BY <1>3
    <2>4. custody' \in [Jobs -> {"none", "committed", "refused", "dropped"}]
      BY <1>2, <1>3
    <2>5. QED
      BY <1>3, <2>1, <2>2, <2>3, <2>4, OutsideKeeps
  <1>4. ASSUME NEW j \in Jobs, j \notin Direct, client_submits(j)
        PROVE  [LedgerNext]_ledgerVars /\ ReplayInv'
    <2>1. create_report_job(j, TRUE) /\ UNCHANGED <<run, custody>>
      BY <1>4 DEF client_submits, create_report_job
    <2>2. [LedgerNext]_ledgerVars
      BY <2>1 DEF LedgerNext
    <2>3. \A i \in Jobs : LifeStep(i)
      BY <1>4, <2>1, SubmitLife DEF ReplayInv
    <2>4. QED
      BY <1>3, <2>1, <2>2, <2>3
  <1>5. ASSUME NEW j \in Jobs, client_cancels(j)
        PROVE  [LedgerNext]_ledgerVars /\ ReplayInv'
    <2>1. cancel_job(j) /\ UNCHANGED <<run, custody>>
      BY <1>5 DEF client_cancels
    <2>2. [LedgerNext]_ledgerVars
      BY <2>1 DEF LedgerNext
    <2>3. \A i \in Jobs : LifeStep(i)
      BY <2>1, CancelLife DEF ReplayInv
    <2>4. QED
      BY <1>3, <2>1, <2>2, <2>3
  <1>6. ASSUME NEW j \in Jobs, expiry_swept(j)
        PROVE  [LedgerNext]_ledgerVars /\ ReplayInv'
    <2>1. recover_expired_work_item(j) /\ UNCHANGED <<run, custody>>
      BY <1>6 DEF expiry_swept
    <2>2. [LedgerNext]_ledgerVars
      BY <2>1 DEF LedgerNext
    <2>3. PICK when : settle_failed_work(j, when, "timeout")
      BY <2>1 DEF recover_expired_work_item
    <2>4. \A i \in Jobs : LifeStep(i)
      BY <2>3, SettleFailedLife DEF ReplayInv
    <2>5. QED
      BY <1>3, <2>1, <2>2, <2>4
  <1>7. ASSUME NEW j \in Jobs, render_finishes(j) \/ render_forgets(j) \/ archive_decides(j)
        PROVE  [LedgerNext]_ledgerVars /\ ReplayInv'
    <2>1. UNCHANGED ledgerVars /\ UNCHANGED job /\ UNCHANGED <<run, relation, raced>>
      BY <1>7 DEF render_finishes, render_forgets, archive_decides, ledgerVars
    <2>2. \/ custody' = custody
          \/ /\ custody[j] = "none"
             /\ \E c \in {"committed", "refused", "dropped"} :
                   custody' = [custody EXCEPT ![j] = c]
      BY <1>7 DEF render_finishes, render_forgets, archive_decides
    <2>3. /\ custody' \in [Jobs -> {"none", "committed", "refused", "dropped"}]
          /\ \A i \in Jobs : CustodyKept(i)
      BY <1>2, <2>2 DEF CustodyKept, Undelivered
    <2>4. IInv' /\ \A i \in Jobs : LifeStep(i)
      BY <2>1, StepInvariant, SameRowsLife DEF ReplayInv
    <2>5. ReplayInv'
      BY <2>1, <2>3, <2>4, OutsideKeeps
    <2>6. QED
      BY <2>1, <2>5
  <1>8. ASSUME NEW e \in Executors,
               Stage(e) \/ leave_resolution_pending(e) \/ stage_raises(e)
        PROVE  [LedgerNext]_ledgerVars /\ ReplayInv'
    BY <1>8, StagePreserves
  <1>9. ASSUME NEW w \in Workers, NEW j \in Jobs, worker_claims(w, j)
        PROVE  [LedgerNext]_ledgerVars /\ ReplayInv'
    <2>1. PICK t \in Tokens : claim_work_item(w, j, t) /\ start(w, j) /\ UNCHANGED custody
      BY <1>9 DEF worker_claims
    <2>2. [LedgerNext]_ledgerVars
      BY <2>1 DEF LedgerNext
    <2>3. UNCHANGED job
      BY <2>1 DEF claim_work_item
    <2>4. IInv' /\ \A i \in Jobs : LifeStep(i)
      BY <2>2, <2>3, StepInvariant, SameRowsLife DEF ReplayInv
    <2>5. PICK q : q = [IdleRun EXCEPT !.pc = "load", !.job = j]
      OBVIOUS
    <2>6. run' = [run EXCEPT ![w] = q]
      BY <2>1, <2>5 DEF start
    <2>7. IdleRun \in ReplayRow
      BY IdleRowFits
    <2>8. q \in ReplayRow /\ q.pc = "load" /\ q.job = j
      BY <2>5, <2>7 DEF ReplayRow, Stages
    <2>9. RowOK(q) /\ ResolvedOK(q)
      BY <2>8 DEF RowOK, ResolvedOK, OutcomeStages
    <2>10. UNCHANGED <<relation, raced, custody>>
      BY <2>1
    <2>11. ReplayInv'
      BY <1>1, <2>4, <2>6, <2>8, <2>9, <2>10, ExecutorStep
    <2>12. QED
      BY <2>2, <2>11
  <1>10. ASSUME NEW w \in Workers, settle_work_item(w)
         PROVE  [LedgerNext]_ledgerVars /\ ReplayInv'
    <2>1. Settle(w)
      BY <1>10 DEF settle_work_item, Settle
    <2>2. [LedgerNext]_ledgerVars
      BY <2>1 DEF LedgerNext
    <2>3. IInv'
      BY <2>2, StepInvariant DEF ReplayInv
    <2>4. \A i \in Jobs : LifeStep(i)
      <3>1. CASE UNCHANGED job
        BY <3>1, SameRowsLife
      <3>2. CASE fail_work_item(w)
        <4>1. holding[w].job \in Jobs
          BY <3>2 DEF fail_work_item, lease_owned, ReplayInv, IInv, TypeOK, Lease
        <4>2. settle_failed_work(holding[w].job, 0, "operator_intervention_required")
          BY <3>2 DEF fail_work_item
        <4>3. QED
          BY <4>1, <4>2, SettleFailedLife DEF ReplayInv
      <3>3. QED
        BY <1>10, <3>1, <3>2 DEF settle_work_item, defer_work_item, complete_work_item
    <2>5. stop(w) /\ UNCHANGED <<relation, raced, custody>>
      BY <1>10 DEF settle_work_item
    <2>6. ReplayInv'
      BY <1>1, <2>3, <2>4, <2>5, StopPreserves
    <2>7. QED
      BY <2>2, <2>6
  <1>11. ASSUME NEW w \in Workers, settlement_refused(w) \/ worker_abandons(w)
         PROVE  [LedgerNext]_ledgerVars /\ ReplayInv'
    <2>1. release(w) /\ stop(w) /\ UNCHANGED <<job, work>> /\ UNCHANGED <<relation, raced, custody>>
      BY <1>11 DEF settlement_refused, worker_abandons
    <2>2. holding[w] = NoLease => UNCHANGED ledgerVars
      BY <2>1 DEF release, ReplayInv, IInv, TypeOK, ledgerVars
    <2>3. holding[w] # NoLease => LedgerNext
      BY <2>1 DEF Abandon, LedgerNext
    <2>4. [LedgerNext]_ledgerVars
      BY <2>2, <2>3
    <2>5. IInv' /\ \A i \in Jobs : LifeStep(i)
      BY <2>1, <2>4, StepInvariant, SameRowsLife DEF ReplayInv
    <2>6. ReplayInv'
      BY <1>1, <2>1, <2>5, StopPreserves
    <2>7. QED
      BY <2>4, <2>6
  <1>12. CASE clock
    <2>1. tick /\ UNCHANGED <<run, custody>> /\ UNCHANGED job
      BY <1>12 DEF clock, tick
    <2>2. [LedgerNext]_ledgerVars
      BY <2>1 DEF LedgerNext
    <2>3. \A i \in Jobs : LifeStep(i)
      BY <2>1, SameRowsLife
    <2>4. QED
      BY <1>3, <2>1, <2>2, <2>3
  <1>13. QED
    BY <1>1, <1>4, <1>5, <1>6, <1>7, <1>8, <1>9, <1>10, <1>11, <1>12 DEF Surroundings
-----------------------------------------------------------------------------
(* The steps of a replay request *)

\* A request that only moves on.
LEMMA RequestGoto ==
    ASSUME ReplayInv, NEW c \in Executors, run[c].pc # "idle",
           NEW pc \in RequestStages, goto(c, pc),
           pc = "create" /\ run[c].category \in ArchiveCategories =>
               custody[run[c].job] \in Undelivered \/ run[c].job \in raced',
           UNCHANGED <<job, work, holding, custody, relation>>, raced \subseteq raced'
    PROVE  ReplayInv'
  <1>1. run \in [Executors -> ReplayRow] /\ run[c] \in ReplayRow /\ RowOK(run[c])
    BY DEF ReplayInv, ReplayTypeOK
  <1>2. PICK q : q = [run[c] EXCEPT !.pc = pc]
    OBVIOUS
  <1>3. run' = [run EXCEPT ![c] = q]
    BY <1>1, <1>2 DEF goto
  <1>4. q \in ReplayRow /\ q.pc = pc /\ q.job = run[c].job /\ q.category = run[c].category
    BY <1>1, <1>2 DEF ReplayRow
  <1>5. RowOK(q)
    BY <1>1, <1>4 DEF RowOK, RequestStages, OutcomeStages
  <1>6. UNCHANGED ledgerVars /\ UNCHANGED job
    BY DEF ledgerVars
  <1>7. IInv' /\ \A j \in Jobs : LifeStep(j)
    BY <1>6, StepInvariant, SameRowsLife DEF ReplayInv
  <1>8. UNCHANGED <<relation, custody>>
    OBVIOUS
  <1>9. QED
    BY <1>3, <1>4, <1>5, <1>7, <1>8, ExecutorMoves

\* A request that ends leaves everything as it is.
LEMMA RequestStops ==
    ASSUME ReplayInv, NEW c \in Executors, stop(c),
           UNCHANGED <<job, work, holding, custody, relation, raced>>
    PROVE  ReplayInv'
  <1>1. UNCHANGED ledgerVars /\ UNCHANGED job /\ UNCHANGED <<relation, raced, custody>>
    BY DEF ledgerVars
  <1>2. IInv' /\ \A j \in Jobs : LifeStep(j)
    BY <1>1, StepInvariant, SameRowsLife DEF ReplayInv
  <1>3. QED
    BY <1>1, <1>2, StopPreserves

\* The row a request goes on with once it has its derived job.
LEMMA DerivedRow ==
    ASSUME ReplayInv, NEW c \in Executors, NEW d \in Jobs, NEW s \in JobStatuses,
           with_derived(c, d, s)
    PROVE  \E q \in ReplayRow : /\ RowOK(q) /\ q.pc # "create"
                                /\ run' = [run EXCEPT ![c] = q]
  <1>1. run \in [Executors -> ReplayRow] /\ run[c] \in ReplayRow
    BY DEF ReplayInv, ReplayTypeOK
  <1>2. PICK pc : pc = derived_stage(d, s, run[c].category)
    OBVIOUS
  <1>3. PICK k : k = IF pc = "clone" THEN run[c].category ELSE "none"
    OBVIOUS
  <1>4. PICK q : q = [run[c] EXCEPT !.pc = pc, !.job = d, !.seen = s, !.category = k]
    OBVIOUS
  <1>5. run' = [run EXCEPT ![c] = q]
    BY <1>1, <1>2, <1>3, <1>4 DEF with_derived, ReplayRow
  <1>6. pc \in {"clone", "resume", "build", "done"}
    BY <1>2 DEF derived_stage
  <1>7. pc \in Stages \cup RequestStages
    BY <1>6 DEF Stages, RequestStages
  <1>8. k \in FailureCategories
    BY <1>1, <1>3 DEF ReplayRow, FailureCategories
  <1>9. q \in ReplayRow /\ q.pc = pc /\ q.job = d
    BY <1>1, <1>4, <1>7, <1>8 DEF ReplayRow
  <1>10. RowOK(q)
    BY <1>6, <1>9 DEF RowOK, OutcomeStages
  <1>11. QED
    BY <1>5, <1>6, <1>9, <1>10

\* The closed sets before and after a fresh job is derived from s: a job nobody is related
\* to joins the side its source is on.
LEMMA ClosedAfterDerivation ==
    ASSUME ReplayInv, NEW s \in Jobs, NEW d \in Jobs, NEW k,
           job[d].status = "absent",
           relation' = [relation EXCEPT ![d] = [source |-> s, category |-> k]],
           NEW S \in SUBSET Jobs, closed_under_replay(S)
    PROVE  /\ s \in S => closed_under_replay(S \cup {d})'
           /\ s \notin S => closed_under_replay(S \ {d})'
           /\ closed_under_replay(Jobs \ S)
  <1>1. relation \in [Jobs -> RelationRow]
    BY DEF ReplayInv, ReplayTypeOK
  <1>2. \A i \in Jobs : relation[i].source \in Jobs \cup {NoJob}
    BY <1>1 DEF RelationRow
  <1>3. \A i \in Jobs : relation[i].source # NoJob => i # d /\ relation[i].source # d
    BY DEF ReplayInv, RelationOK
  <1>4. relation'[d].source = s /\ \A i \in Jobs : i # d => relation'[i] = relation[i]
    BY <1>1
  <1>5. closed_under_replay(Jobs \ S)
    BY <1>2 DEF closed_under_replay
  <1>6. s \in S => closed_under_replay(S \cup {d})'
    BY <1>3, <1>4 DEF closed_under_replay
  <1>7. ASSUME s \notin S PROVE closed_under_replay(S \ {d})'
    <2>1. \A i \in Jobs : i # d /\ relation'[i].source # NoJob =>
              (i \in S \ {d} <=> relation'[i].source \in S \ {d})
      BY <1>3, <1>4 DEF closed_under_replay
    <2>2. d \notin S \ {d} /\ s \notin S \ {d}
      BY <1>7
    <2>3. QED
      BY <1>4, <2>1, <2>2 DEF closed_under_replay
  <1>8. QED
    BY <1>5, <1>6, <1>7
\* The guard of create_replay_derived_job and the insert behind it keep the lineages'
\* replacements apart: whoever is under way elsewhere is outside a closed set around s.
LEMMA DerivationKeepsApart ==
    ASSUME ReplayInv, NEW s \in Jobs, NEW d \in Jobs, NEW k,
           job[s].status = "failed", \A m \in lineage(s) \ {s} : ~live(m),
           job[d].status = "absent",
           job' = [job EXCEPT ![d] = AcceptedJob],
           relation' = [relation EXCEPT ![d] = [source |-> s, category |-> k]]
    PROVE  ApartOK'
  <1> SUFFICES ASSUME NEW x \in Jobs, NEW y \in Jobs,
                      under_way(x)', under_way(y)', x # y
               PROVE  \E S \in SUBSET Jobs :
                         closed_under_replay(S)' /\ x \in S /\ y \notin S
    BY DEF ApartOK
  <1>1. s # d
    OBVIOUS
  <1>2. \A i \in Jobs : i # d /\ under_way(i)' => under_way(i)
    BY DEF under_way, ReplayInv, IInv, TypeOK
  <1>3. ASSUME NEW z \in Jobs, under_way(z)
        PROVE  \E S \in SUBSET Jobs : closed_under_replay(S) /\ s \in S /\ z \notin S
    <2>1. live(z) /\ z # s /\ job[z].status # "absent"
      BY <1>3 DEF under_way, live, TerminalStatuses
    <2>2. z \notin lineage(s)
      BY <2>1
    <2>3. QED
      BY <2>1, <2>2 DEF lineage
  <1>4. CASE x # d /\ y # d
    <2>1. PICK S \in SUBSET Jobs : closed_under_replay(S) /\ x \in S /\ y \notin S
      BY <1>2, <1>4 DEF ReplayInv, ApartOK
    <2>2. CASE s \in S
      <3>1. closed_under_replay(S \cup {d})'
        BY <2>1, <2>2, ClosedAfterDerivation
      <3>2. QED
        BY <1>4, <2>1, <3>1
    <2>3. CASE s \notin S
      <3>1. closed_under_replay(S \ {d})'
        BY <2>1, <2>3, ClosedAfterDerivation
      <3>2. QED
        BY <1>4, <2>1, <3>1
    <2>4. QED
      BY <2>2, <2>3
  <1>5. CASE x = d
    <2>1. under_way(y)
      BY <1>2, <1>5
    <2>2. PICK S \in SUBSET Jobs : closed_under_replay(S) /\ s \in S /\ y \notin S
      BY <1>3, <2>1
    <2>3. closed_under_replay(S \cup {d})'
      BY <2>2, ClosedAfterDerivation
    <2>4. QED
      BY <1>5, <2>2, <2>3
  <1>6. CASE y = d
    <2>1. under_way(x)
      BY <1>2, <1>6
    <2>2. PICK S \in SUBSET Jobs : closed_under_replay(S) /\ s \in S /\ x \notin S
      BY <1>3, <2>1
    <2>3. PICK R \in SUBSET Jobs : R = Jobs \ S
      OBVIOUS
    <2>4. closed_under_replay(R)
      BY <2>2, <2>3, ClosedAfterDerivation
    <2>5. s \notin R /\ x \in R
      BY <2>2, <2>3
    <2>6. closed_under_replay(R \ {d})'
      BY <2>4, <2>5, ClosedAfterDerivation
    <2>7. QED
      BY <1>6, <2>5, <2>6
  <1>7. QED
    BY <1>4, <1>5, <1>6

\* create_replay_derived_job.
LEMMA CreatePreserves ==
    ASSUME ReplayInv, NEW c \in Executors, create_replay_derived_job(c)
    PROVE  [LedgerNext]_ledgerVars /\ ReplayInv'
  <1>1. PICK s : s = run[c].job
    OBVIOUS
  <1>2. PICK k : k = run[c].category
    OBVIOUS
  <1>3. at(c, "create") /\ job[s].status = "failed" /\ \A m \in lineage(s) \ {s} : ~live(m)
    BY <1>1 DEF create_replay_derived_job
  <1>4. PICK d \in Direct :
            /\ job[d].status = "absent"
            /\ job' = [job EXCEPT ![d] = AcceptedJob]
            /\ relation' = [relation EXCEPT ![d] = [source |-> s, category |-> k]]
            /\ with_derived(c, d, "accepted")
    BY <1>1, <1>2 DEF create_replay_derived_job
  <1>5. UNCHANGED <<work, holding, custody, raced>>
    BY DEF create_replay_derived_job
  <1>6. /\ s \in Jobs /\ d \in Jobs
        /\ k \in FailureCategories
        /\ k \in ArchiveCategories => absence_answered(s)
    BY <1>1, <1>2, <1>3, <1>4, PipelineAssumption
       DEF ReplayInv, ReplayTypeOK, ReplayRow, RowOK, ResolvedOK, at
  <1>7. create_report_job(d, FALSE)
    BY <1>4, <1>5 DEF create_report_job
  <1>8. [LedgerNext]_ledgerVars
    BY <1>6, <1>7 DEF LedgerNext
  <1>9. IInv'
    BY <1>8, StepInvariant DEF ReplayInv
  <1>10. "accepted" \in JobStatuses
    BY DEF JobStatuses
  <1>11. PICK q \in ReplayRow : RowOK(q) /\ q.pc # "create" /\ run' = [run EXCEPT ![c] = q]
    BY <1>4, <1>6, <1>10, DerivedRow
  <1>12. ReplayTypeOK'
    <2>1. [source |-> s, category |-> k] \in RelationRow
      BY <1>6 DEF RelationRow
    <2>2. relation' \in [Jobs -> RelationRow]
      BY <1>4, <2>1 DEF ReplayInv, ReplayTypeOK
    <2>3. run' \in [Executors -> ReplayRow]
      BY <1>11 DEF ReplayInv, ReplayTypeOK
    <2>4. QED
      BY <1>5, <2>2, <2>3 DEF ReplayInv, ReplayTypeOK
  <1>13. \A x \in Executors : RowOK(run[x])' /\ ResolvedOK(run[x])'
    <2>1. \A x \in Executors : run'[x] = run[x] \/ run'[x] = q
      BY <1>11 DEF ReplayInv, ReplayTypeOK
    <2>2. QED
      BY <1>5, <1>11, <2>1 DEF ReplayInv, RowOK, ResolvedOK, absence_answered
  <1>14. \A i \in Jobs : RelationOK(i)'
    <2> SUFFICES ASSUME NEW i \in Jobs PROVE RelationOK(i)'
      OBVIOUS
    <2>1. /\ job'[d].status # "absent"
          /\ \A n \in Jobs : job[n].status # "absent" => job'[n].status # "absent"
      BY <1>4, <1>6 DEF AcceptedJob, ReplayInv, IInv, TypeOK
    <2>2. relation[i] \in RelationRow /\ RelationOK(i)
      BY DEF ReplayInv, ReplayTypeOK
    <2>3. CASE i = d
      <3>1. relation'[i].source = s /\ relation'[i].category = k
        BY <1>4, <1>6, <2>3 DEF ReplayInv, ReplayTypeOK
      <3>2. s # NoJob
        BY <1>6, PipelineAssumption
      <3>3. QED
        BY <1>3, <1>5, <1>6, <2>1, <2>3, <3>1, <3>2 DEF RelationOK, absence_answered
    <2>4. CASE i # d
      <3>1. relation'[i] = relation[i]
        BY <1>4, <2>4 DEF ReplayInv, ReplayTypeOK
      <3>2. relation[i].source \in Jobs \cup {NoJob}
        BY <2>2 DEF RelationRow
      <3>3. QED
        BY <1>5, <2>1, <2>2, <3>1, <3>2 DEF RelationOK, absence_answered
    <2>5. QED
      BY <2>3, <2>4
  <1>15. ApartOK'
    BY <1>3, <1>4, <1>6, DerivationKeepsApart
  <1>16. ReplayInv'
    BY <1>9, <1>12, <1>13, <1>14, <1>15 DEF ReplayInv
  <1>17. QED
    BY <1>8, <1>16

\* reuse_replay_derived_job.
LEMMA ReusePreserves ==
    ASSUME ReplayInv, NEW c \in Executors, reuse_replay_derived_job(c)
    PROVE  [LedgerNext]_ledgerVars /\ ReplayInv'
  <1>1. PICK d \in Jobs : with_derived(c, d, job[d].status)
    BY DEF reuse_replay_derived_job, derivedFrom
  <1>2. PICK st \in JobStatuses : st = job[d].status
    BY DEF ReplayInv, IInv, TypeOK, JobRow
  <1>3. with_derived(c, d, st)
    BY <1>1, <1>2
  <1>4. PICK q \in ReplayRow : RowOK(q) /\ q.pc # "create" /\ run' = [run EXCEPT ![c] = q]
    BY <1>3, DerivedRow
  <1>5. ResolvedOK(q)
    BY <1>4 DEF ResolvedOK
  <1>6. UNCHANGED ledgerVars /\ UNCHANGED job /\ UNCHANGED <<relation, raced, custody>>
    BY DEF reuse_replay_derived_job, ledgerVars
  <1>7. IInv' /\ \A j \in Jobs : LifeStep(j)
    BY <1>6, StepInvariant, SameRowsLife DEF ReplayInv
  <1>8. ReplayInv'
    BY <1>4, <1>5, <1>6, <1>7, ExecutorStep
  <1>9. QED
    BY <1>6, <1>8
\* replay_requested: the row read is the row carried.
LEMMA RequestedPreserves ==
    ASSUME ReplayInv, NEW c \in Executors, replay_requested(c)
    PROVE  [LedgerNext]_ledgerVars /\ ReplayInv'
  <1>1. PICK s \in Jobs :
            run' = [run EXCEPT ![c] = [IdleRun EXCEPT !.pc = "resolve", !.job = s,
                                        !.seen = "failed", !.category = job[s].failure_category]]
    BY DEF replay_requested
  <1>2. PICK k \in FailureCategories : k = job[s].failure_category
    BY DEF ReplayInv, IInv, TypeOK, JobRow
  <1>3. PICK q : q = [IdleRun EXCEPT !.pc = "resolve", !.job = s, !.seen = "failed",
                                     !.category = k]
    OBVIOUS
  <1>4. run' = [run EXCEPT ![c] = q]
    BY <1>1, <1>2, <1>3
  <1>5. IdleRun \in ReplayRow
    BY IdleRowFits
  <1>6. q \in ReplayRow /\ q.pc = "resolve" /\ q.job = s
    BY <1>3, <1>5 DEF ReplayRow, RequestStages, JobStatuses
  <1>7. RowOK(q) /\ ResolvedOK(q)
    BY <1>6 DEF RowOK, ResolvedOK, OutcomeStages
  <1>8. UNCHANGED ledgerVars /\ UNCHANGED job /\ UNCHANGED <<relation, raced, custody>>
    BY DEF replay_requested, ledgerVars
  <1>9. IInv' /\ \A j \in Jobs : LifeStep(j)
    BY <1>8, StepInvariant, SameRowsLife DEF ReplayInv
  <1>10. ReplayInv'
    BY <1>4, <1>6, <1>7, <1>8, <1>9, ExecutorStep
  <1>11. QED
    BY <1>8, <1>10

\* _resolve_archive_ambiguity lets a replay of an archive failure through only on a
\* delivery that ended without a document, or records that its lookup raced.
LEMMA ResolvePreserves ==
    ASSUME ReplayInv, NEW c \in Executors, resolve_archive_ambiguity(c)
    PROVE  [LedgerNext]_ledgerVars /\ ReplayInv'
  <1>1. UNCHANGED <<job, work, holding, custody, relation>> /\ run[c].pc # "idle"
    BY DEF resolve_archive_ambiguity, at
  <1>2. UNCHANGED ledgerVars
    BY <1>1 DEF ledgerVars
  <1>3. run[c].job \in Jobs /\ custody \in [Jobs -> {"none", "committed", "refused", "dropped"}]
    BY <1>1 DEF ReplayInv, ReplayTypeOK, RowOK
  <1>4. raced \subseteq raced'
    BY DEF resolve_archive_ambiguity
  <1>5. stop(c) /\ UNCHANGED raced => ReplayInv'
    BY <1>1, RequestStops
  <1>6. goto(c, "adopt") => ReplayInv'
    BY <1>1, <1>4, RequestGoto DEF RequestStages
  <1>7. /\ goto(c, "create")
        /\ run[c].category \in ArchiveCategories =>
              custody[run[c].job] \in Undelivered \/ run[c].job \in raced'
        => ReplayInv'
    BY <1>1, <1>4, RequestGoto DEF RequestStages
  <1>8. custody[run[c].job] \notin {"committed", "none"} => custody[run[c].job] \in Undelivered
    BY <1>3 DEF Undelivered
  <1>9. ReplayInv'
    BY <1>5, <1>6, <1>7, <1>8 DEF resolve_archive_ambiguity
  <1>10. QED
    BY <1>2, <1>9

\* Adoption writes the source's own outcome and ends the request.
LEMMA AdoptPreserves ==
    ASSUME ReplayInv, NEW c \in Executors, adopt_committed_document(c)
    PROVE  [LedgerNext]_ledgerVars /\ ReplayInv'
  <1>1. PICK s : s = run[c].job
    OBVIOUS
  <1>2. s \in Jobs
    BY <1>1 DEF adopt_committed_document, at, ReplayInv, RowOK
  <1>3. stop(c) /\ UNCHANGED <<work, holding>> /\ UNCHANGED <<relation, raced, custody>>
    BY DEF adopt_committed_document
  <1>4. \/ transition_job(s, "archived", "none", FALSE,
                          {"archive_request_id", "archive_document_id"})
        \/ UNCHANGED job
    BY <1>1 DEF adopt_committed_document
  <1>5. [LedgerNext]_ledgerVars
    <2>1. mark_archived(s) \/ UNCHANGED ledgerVars
      BY <1>3, <1>4 DEF mark_archived, ledgerVars
    <2>2. QED
      BY <1>2, <2>1 DEF LedgerNext
  <1>6. IInv'
    BY <1>5, StepInvariant DEF ReplayInv
  <1>7. \A j \in Jobs : LifeStep(j)
    <2>1. "archived" \in TransitionTargets
      BY DEF TransitionTargets, AllowedFrom
    <2>2. QED
      BY <1>2, <1>4, <2>1, TransitionLife, SameRowsLife DEF ReplayInv
  <1>8. ReplayInv'
    BY <1>3, <1>6, <1>7, StopPreserves
  <1>9. QED
    BY <1>5, <1>8

\* _clone_retained_snapshot.
LEMMA ClonePreserves ==
    ASSUME ReplayInv, NEW c \in Executors, clone_retained_snapshot(c)
    PROVE  [LedgerNext]_ledgerVars /\ ReplayInv'
  <1>1. PICK d : d = run[c].job
    OBVIOUS
  <1>2. /\ d \in Jobs /\ run[c].pc = "clone"
        /\ run \in [Executors -> ReplayRow] /\ run[c] \in ReplayRow
    BY <1>1 DEF clone_retained_snapshot, at, ReplayInv, ReplayTypeOK, RowOK
  <1>3. UNCHANGED <<work, holding>> /\ UNCHANGED <<relation, raced, custody>>
    BY DEF clone_retained_snapshot
  <1>4. \/ transition_job(d, "collecting_data", "none", FALSE, {})
        \/ UNCHANGED job
    BY <1>1 DEF clone_retained_snapshot
  <1>5. [LedgerNext]_ledgerVars
    <2>1. MarkProgress(d) \/ UNCHANGED ledgerVars
      BY <1>3, <1>4 DEF MarkProgress, ledgerVars
    <2>2. QED
      BY <1>2, <2>1 DEF LedgerNext
  <1>6. IInv'
    BY <1>5, StepInvariant DEF ReplayInv
  <1>7. \A j \in Jobs : LifeStep(j)
    <2>1. "collecting_data" \in TransitionTargets
      BY DEF TransitionTargets, AllowedFrom
    <2>2. QED
      BY <1>2, <1>4, <2>1, TransitionLife, SameRowsLife DEF ReplayInv
  <1>8. stop(c) => ReplayInv'
    BY <1>3, <1>6, <1>7, StopPreserves
  <1>9. run' = [run EXCEPT ![c].seen = "collecting_data"] => ReplayInv'
    <2> SUFFICES ASSUME run' = [run EXCEPT ![c].seen = "collecting_data"]
                 PROVE  ReplayInv'
      OBVIOUS
    <2>1. PICK q : q = [run[c] EXCEPT !.seen = "collecting_data"]
      OBVIOUS
    <2>2. run' = [run EXCEPT ![c] = q]
      BY <1>2, <2>1
    <2>3. q \in ReplayRow /\ q.pc = "clone" /\ q.job = d
      BY <1>1, <1>2, <2>1 DEF ReplayRow, JobStatuses
    <2>4. RowOK(q) /\ ResolvedOK(q)
      BY <1>2, <2>3 DEF RowOK, ResolvedOK, OutcomeStages
    <2>5. QED
      BY <1>3, <1>6, <1>7, <2>2, <2>3, <2>4, ExecutorStep
  <1>10. run' = [run EXCEPT ![c].pc = "mark_data_ready", ![c].category = "none"] => ReplayInv'
    <2> SUFFICES ASSUME run' = [run EXCEPT ![c].pc = "mark_data_ready",
                                           ![c].category = "none"]
                 PROVE  ReplayInv'
      OBVIOUS
    <2>1. PICK q : q = [run[c] EXCEPT !.pc = "mark_data_ready", !.category = "none"]
      OBVIOUS
    <2>2. run' = [run EXCEPT ![c] = q]
      BY <1>2, <2>1
    <2>3. q \in ReplayRow /\ q.pc = "mark_data_ready" /\ q.job = d
      BY <1>1, <1>2, <2>1 DEF ReplayRow, Stages, FailureCategories
    <2>4. RowOK(q) /\ ResolvedOK(q)
      BY <1>2, <2>3 DEF RowOK, ResolvedOK, OutcomeStages
    <2>5. QED
      BY <1>3, <1>6, <1>7, <2>2, <2>3, <2>4, ExecutorStep
  <1>11. ReplayInv'
    BY <1>8, <1>9, <1>10 DEF clone_retained_snapshot
  <1>12. QED
    BY <1>5, <1>11

-----------------------------------------------------------------------------
(* The theorems *)

LEMMA ReplayInitInvariant == ReplayInit => ReplayInv
  <1> SUFFICES ASSUME ReplayInit PROVE ReplayInv
    OBVIOUS
  <1> USE DEF ReplayInit, PipelineInit
  <1>1. IInv
    BY InitInvariant
  <1>2. ReplayTypeOK
    BY IdleRowFits DEF ReplayTypeOK, NoRelation, RelationRow, FailureCategories
  <1>3. \A e \in Executors : RowOK(run[e]) /\ ResolvedOK(run[e])
    BY IdleRowFits
  <1>4. \A d \in Jobs : RelationOK(d)
    BY DEF RelationOK, NoRelation, ArchiveCategories
  <1>5. ApartOK
    BY DEF ApartOK, under_way, LedgerInit, AbsentJob
  <1>6. QED
    BY <1>1, <1>2, <1>3, <1>4, <1>5 DEF ReplayInv

LEMMA ReplayStep ==
    ASSUME ReplayInv, [ReplayNext]_replayVars
    PROVE  [LedgerNext]_ledgerVars /\ ReplayInv'
  <1>1. CASE UNCHANGED replayVars
    <2>1. UNCHANGED ledgerVars /\ UNCHANGED job /\ UNCHANGED <<run, relation, raced>> /\ UNCHANGED custody
      BY <1>1 DEF replayVars, pipelineVars, ledgerVars
    <2>2. IInv' /\ \A j \in Jobs : LifeStep(j)
      BY <2>1, StepInvariant, SameRowsLife DEF ReplayInv
    <2>3. \A j \in Jobs : CustodyKept(j)
      BY <2>1 DEF CustodyKept
    <2>4. custody' \in [Jobs -> {"none", "committed", "refused", "dropped"}]
      BY <2>1 DEF ReplayInv, ReplayTypeOK
    <2>5. ReplayInv'
      BY <2>1, <2>2, <2>3, <2>4, OutsideKeeps
    <2>6. QED
      BY <2>1, <2>5
  <1>2. CASE Surroundings /\ UNCHANGED <<relation, raced>>
    BY <1>2, SurroundingsPreserve
  <1>3. ASSUME NEW c \in Callers, replay_requested(c) \/ Replay(c) \/ replay_ends(c)
        PROVE  [LedgerNext]_ledgerVars /\ ReplayInv'
    <2>1. c \in Executors
      BY DEF Executors
    <2>2. CASE replay_ends(c)
      <3>1. stop(c) /\ UNCHANGED <<job, work, holding, custody, relation, raced>>
        BY <2>2 DEF replay_ends
      <3>2. ReplayInv'
        BY <2>1, <3>1, RequestStops
      <3>3. QED
        BY <3>1, <3>2 DEF ledgerVars
    <2>3. QED
      BY <1>3, <2>1, <2>2, RequestedPreserves, ResolvePreserves, AdoptPreserves,
         CreatePreserves, ReusePreserves, ClonePreserves DEF Replay
  <1>4. QED
    BY <1>1, <1>2, <1>3 DEF ReplayNext

\* The invariant holds in every state that workers, clients and any number of concurrent
\* replay requests reach.
THEOREM ReplayInvariant == ReplaySpec => []ReplayInv
  BY ReplayInitInvariant, ReplayStep, PTL DEF ReplaySpec

\* Replay keeps to the ledger: whatever it read before, a request creates and advances job
\* rows only the way the ledger's transactions allow, so what is proved of LedgerSpec
\* (lease fence, attempt budget, final states) holds while jobs are being replaced.
THEOREM ReplayImplementsLedger == ReplaySpec => LedgerSpec
  <1>1. ReplayInit => LedgerInit
    BY DEF ReplayInit, PipelineInit
  <1>2. QED
    BY <1>1, ReplayInvariant, ReplayStep, PTL DEF ReplaySpec, LedgerSpec

\* At most one element.
LEMMA AtMostOne ==
    ASSUME NEW S, \A x, y \in S : x = y
    PROVE  Cardinality(S) <= 1
  <1>1. CASE S = {}
    BY <1>1, FS_EmptySet
  <1>2. CASE S # {}
    <2>1. PICK x : x \in S
      BY <1>2
    <2>2. S = {x}
      BY <2>1
    <2>3. QED
      BY <2>2, FS_Singleton
  <1>3. QED
    BY <1>1, <1>2

\* A replay that _resolve_archive_ambiguity let through on a settled delivery never ends in
\* a second document: a second one takes a lookup answered while the delivery was running.
THEOREM ReplayResolvedReplayIsUnique == ReplaySpec => []ResolvedReplayIsUnique
  <1>1. ReplayInv => ResolvedReplayIsUnique
    <2> SUFFICES ASSUME ReplayInv, NEW d \in Jobs,
                        relation[d].category \in ArchiveCategories,
                        relation[d].source \notin raced
                 PROVE  Cardinality(Documents({d, relation[d].source})) <= 1
      BY DEF ResolvedReplayIsUnique
    <2>1. custody[relation[d].source] \in Undelivered
      BY DEF ReplayInv, RelationOK, absence_answered
    <2>2. \A x, y \in Documents({d, relation[d].source}) : x = y
      BY <2>1 DEF Documents, Undelivered
    <2>3. QED
      BY <2>2, AtMostOne
  <1>2. QED
    BY <1>1, ReplayInvariant, PTL

\* create_replay_derived_job never admits a second replacement beside one under way,
\* however the requests for the members of a lineage interleave.
THEOREM ReplayOneReplacementUnderWay == ReplaySpec => []OneReplacementUnderWay
  <1>1. ReplayInv => OneReplacementUnderWay
    <2> DEFINE replacing(j) == {d \in lineage(j) \cap Direct :
                                    job[d].status \notin TerminalStatuses}
    <2> SUFFICES ASSUME ReplayInv, NEW j \in Jobs
                 PROVE  Cardinality(replacing(j)) <= 1
      BY DEF OneReplacementUnderWay
    <2>1. ASSUME NEW x \in replacing(j), NEW y \in replacing(j), x # y
          PROVE  FALSE
      <3>1. /\ x \in Jobs /\ y \in Jobs /\ under_way(x) /\ under_way(y)
            /\ x \in lineage(j) /\ y \in lineage(j)
        BY DEF lineage, under_way
      <3>2. PICK S \in SUBSET Jobs : closed_under_replay(S) /\ x \in S /\ y \notin S
        BY <2>1, <3>1 DEF ReplayInv, ApartOK
      <3>3. j \notin S
        BY <3>1, <3>2 DEF lineage
      <3>4. \A d \in Jobs : relation[d].source \in Jobs \cup {NoJob}
        BY DEF ReplayInv, ReplayTypeOK, RelationRow
      <3>5. closed_under_replay(Jobs \ S)
        BY <3>2, <3>4 DEF closed_under_replay
      <3>6. x \in Jobs \ S
        BY <3>1, <3>3, <3>5 DEF lineage
      <3>7. QED
        BY <3>2, <3>6
    <2> HIDE DEF replacing
    <2>2. QED
      BY <2>1, AtMostOne
  <1>2. QED
    BY <1>1, ReplayInvariant, PTL
=============================================================================
