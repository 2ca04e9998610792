------------------------------ MODULE CustodyRecovery ------------------------------
(***************************************************************************)
(* One report job under the retained-offer custody policy: its work item,  *)
(* the workers that lease it, the render owner it is offered to, callers   *)
(* that cancel and operators that resume.                                  *)
(*                                                                         *)
(* A worker pass is a chain of ledger transactions with calls to the owner *)
(* between them; each transaction is one step and carries the fence (work  *)
(* item, lease token, custody epoch) taken when the pass read the job.     *)
(*                                                                         *)
(* Time is what it decides: whether the lease has run out, whether the     *)
(* next attempt is due, whether the recovery window has closed when a      *)
(* reservation looks (a closed window parks, so it is seen at most once).  *)
(***************************************************************************)
EXTENDS Naturals, FiniteSets

CONSTANTS
    Workers,
    DispatchLimit,    \* repeated sends per window (3)
    PollLimit,        \* status reads per window (12)
    MaxAttempts,      \* ReportJobWorkRetryPolicy.max_attempts
    MaxResumes,       \* bound: operator approvals
    RequestIds,       \* archive requests the owner may name
    None

VARIABLES
    job,              \* custody columns of the report_job row
    work,             \* the report_job_work_item row
    due,              \* whether custody_next_attempt_at has passed
    run,              \* where each worker's pass stands
    received,         \* the render owner has the offer
    sent,             \* sends that left this service
    ticket,           \* epoch an operator read before resuming
    resumes

custody_vars == <<job, work, due, run, received, sent, ticket, resumes>>

Resumable == {"retry_budget_exhausted", "retry_exhausted"}

ASSUME CustodyAssumption ==
    /\ DispatchLimit \in Nat /\ PollLimit \in Nat /\ MaxResumes \in Nat
    /\ MaxAttempts \in Nat \ {0}
    /\ IsFiniteSet(Workers)
    /\ None \notin RequestIds /\ None \notin Nat
    /\ None \notin {"ready", "waiting", "blocked", "refused", "verified"}
    /\ None \notin Resumable

Terminal == {"archived", "failed", "cancelled"}

\* What the owner may answer: a refusal (4xx but 429, or archive_refused_*) or anything else,
\* whether it names this render job, and the archive request it names.
Responses ==
    {[refused |-> FALSE, same |-> TRUE, request |-> r] : r \in RequestIds \cup {None}}
    \cup {[refused |-> FALSE, same |-> FALSE, request |-> None],
          [refused |-> TRUE, same |-> TRUE, request |-> None]}

---------------------------------------------------------------------------
(* The fence and the guards *)

Idle == [pc |-> "idle", token |-> 0, epoch |-> 0, status |-> None, action |-> None,
         response |-> None]

\* validate_work: the lease alone, whatever the epoch.
leased(w) == /\ work.status = "leased"
             /\ work.token = run[w].token
             /\ ~work.expired

\* lease: the full fence of a custody transaction.
lease(w) == leased(w) /\ job.epoch = run[w].epoch

\* Mutant: only a job that was sent is protected.
custody_protected_when_sent(j) == j.state # "verified" /\ j.initial > 0

custody_protected(j) ==
    /\ j.state # "verified"
    /\ j.offer \/ j.request # None \/ j.initial > 0 \/ j.status \in {"rendering", "archiving"}

\* The rows after park.
parked_work == [work EXCEPT !.status = "failed", !.token = 0, !.expired = FALSE]
parked_job(reason) == [job EXCEPT !.state = "blocked", !.reason = reason, !.epoch = @ + 1]

park(reason) ==
    IF job.state = "verified" THEN UNCHANGED <<job, work>>
    ELSE job' = parked_job(reason) /\ work' = parked_work

released(status, wait) ==
    [work EXCEPT !.status = status, !.token = 0, !.expired = FALSE, !.wait = wait]

\* The pass moves on; at its end it keeps its lease token only.
goto(w, pc) ==
    run' = [run EXCEPT ![w] = CASE pc = "idle" -> Idle
                                [] pc \in {"waiting", "error", "finish"} ->
                                        [Idle EXCEPT !.pc = pc, !.token = run[w].token]
                                [] OTHER -> [run[w] EXCEPT !.pc = pc]]

\* A transaction that found its fence broken.
stale(w) ==
    /\ ~lease(w)
    /\ goto(w, "error")
    /\ UNCHANGED <<job, work, due>>

outside == <<received, sent, ticket, resumes>>

---------------------------------------------------------------------------
(* Work items *)

\* Mutant: only new work is claimed.
claim_work_items_fresh(w) ==
    /\ run[w].pc = "idle"
    /\ work.status = "pending" /\ work.wait = "none"
    /\ job' = [job EXCEPT !.epoch = @ + 1]
    /\ work' = [work EXCEPT !.status = "leased", !.token = job.epoch + 1, !.attempts = @ + 1]
    /\ run' = [run EXCEPT ![w] = [Idle EXCEPT !.pc = "claimed", !.token = job.epoch + 1]]
    /\ UNCHANGED <<due, outside>>

\* _claim_available_work_item and claimed: the claim moves the epoch.
claim_work_items(w) ==
    /\ run[w].pc = "idle"
    /\ work.status \in {"pending", "retry_pending"} /\ work.wait = "none"
    /\ job' = [job EXCEPT !.epoch = @ + 1]
    /\ work' = [work EXCEPT !.status = "leased", !.token = job.epoch + 1, !.attempts = @ + 1]
    /\ run' = [run EXCEPT ![w] = [Idle EXCEPT !.pc = "claimed", !.token = job.epoch + 1]]
    /\ UNCHANGED <<due, outside>>

\* protect_work, and the terminal failure of a job that is not protected.
exhausted(completing) ==
    IF job.state = "verified"
    THEN work' = released("completed", "none") /\ UNCHANGED job
    ELSE IF custody_protected(job)
    THEN park(IF completing THEN "completion_blocked" ELSE "retry_exhausted")
    ELSE /\ work' = released(IF completing THEN "completed" ELSE "failed", "none")
         /\ job' = IF job.status \in Terminal \/ completing THEN job
                   ELSE [job EXCEPT !.status = "failed"]

complete_work_item(w) ==
    /\ run[w].pc = "finish"
    /\ goto(w, "idle")
    /\ IF leased(w) THEN exhausted(TRUE) ELSE UNCHANGED <<job, work>>
    /\ UNCHANGED <<due, outside>>

\* defer_work_item gives the attempt back; a parked job is left as it is.
defer_work_item(w) ==
    /\ run[w].pc = "waiting"
    /\ goto(w, "idle")
    /\ IF leased(w) /\ job.state \notin {"blocked", "refused"}
       THEN work' = IF job.state = "verified" THEN released("completed", "none")
                    ELSE [released("retry_pending", "delay_and_due") EXCEPT !.attempts = @ - 1]
       ELSE UNCHANGED work
    /\ UNCHANGED <<job, due, outside>>

fail_work_item(w) ==
    /\ run[w].pc = "error"
    /\ goto(w, "idle")
    /\ IF ~leased(w) THEN UNCHANGED <<job, work>>
       ELSE IF job.state = "verified" \/ work.attempts >= MaxAttempts THEN exhausted(FALSE)
       ELSE work' = released("retry_pending", "delay_and_due") /\ UNCHANGED job
    /\ UNCHANGED <<due, outside>>

\* _recover_expired_work_items: the backoff does not look at the custody due time.
recover_expired_work_items ==
    /\ work.status = "leased" /\ work.expired
    /\ IF work.attempts >= MaxAttempts THEN exhausted(FALSE)
       ELSE work' = released("retry_pending", "delay") /\ UNCHANGED job
    /\ UNCHANGED <<due, run, outside>>

\* The process of a worker ends, or its deadline passes: nothing more is written.
worker_dies(w) ==
    /\ run[w].pc # "idle"
    /\ run' = [run EXCEPT ![w] = Idle]
    /\ UNCHANGED <<job, work, due, outside>>

---------------------------------------------------------------------------
(* A worker pass *)

\* load_offer and observe: a job that was never sent is sent, any other is asked about.
observe == IF job.initial = 0 THEN "initial" ELSE "poll"

\* execute_job reads the job and with it the epoch of the fence.
execute_job(w) ==
    /\ run[w].pc = "claimed"
    /\ run' = [run EXCEPT ![w].epoch = job.epoch, ![w].status = job.status,
                          ![w].pc = CASE job.status = "accepted" -> "capture"
                                      [] job.status = "data_ready" -> "commit"
                                      [] job.status \in {"rendering", "archiving"} -> observe
                                      [] OTHER -> "finish"]
    /\ UNCHANGED <<job, work, due, outside>>

\* Capture, through guard_transition: to data_ready, or to failed.
capture_for_job(w, captured) ==
    /\ run[w].pc = "capture"
    /\ IF leased(w) /\ job.status = "accepted"
       THEN /\ job' = [job EXCEPT !.status = IF captured THEN "data_ready" ELSE "failed"]
            /\ run' = [run EXCEPT ![w].epoch = job.epoch, ![w].status = job'.status,
                                  ![w].pc = IF captured THEN "commit" ELSE "finish"]
       ELSE goto(w, "error") /\ UNCHANGED job
    /\ UNCHANGED <<work, due, outside>>

\* commit_offer: the exact bytes are retained once, within the byte quota; an offer that differs
\* from the one held is a conflict.
commit_offer(w, fits) ==
    /\ run[w].pc = "commit"
    /\ \/ stale(w)
       \/ /\ lease(w)
          /\ IF job.offer THEN goto(w, IF fits THEN observe ELSE "error") /\ UNCHANGED job
             ELSE IF job.status # "data_ready" \/ ~fits THEN goto(w, "error") /\ UNCHANGED job
             ELSE /\ goto(w, observe)
                  /\ job' = [job EXCEPT !.offer = TRUE, !.status = "rendering", !.state = "ready"]
          /\ UNCHANGED <<work, due>>
    /\ UNCHANGED outside

count_of(operation) ==
    CASE operation = "initial" -> job.initial
      [] operation = "retry" -> job.dispatch
      [] OTHER -> job.poll
limit_of(operation) ==
    CASE operation = "initial" -> 1 [] operation = "retry" -> DispatchLimit [] OTHER -> PollLimit

\* Mutant: a repeated send is not counted.
reserved_uncounted_retry(operation) ==
    CASE operation = "initial" -> [job EXCEPT !.initial = @ + 1]
      [] operation = "retry" -> job
      [] OTHER -> [job EXCEPT !.poll = @ + 1]

\* The row and the pass after a reservation.
reserved(operation) ==
    CASE operation = "initial" -> [job EXCEPT !.initial = @ + 1]
      [] operation = "retry" -> [job EXCEPT !.dispatch = @ + 1]
      [] OTHER -> [job EXCEPT !.poll = @ + 1]

\* reserve: an effect is counted before it happens; none left, or a closed window, parks.
reserve(w, operation, over) ==
    /\ run[w].pc = operation
    /\ over => job.initial > 0      \* the window opens with the first reservation
    /\ \/ stale(w)
       \/ /\ lease(w)
          /\ IF job.state \in {"blocked", "refused", "verified"} \/ ~due
             THEN goto(w, "waiting") /\ UNCHANGED <<job, work, due>>
             ELSE IF count_of(operation) >= limit_of(operation) \/ over
             THEN goto(w, "waiting") /\ park("retry_budget_exhausted") /\ UNCHANGED due
             ELSE /\ job' = reserved(operation)
                  /\ due' = (operation = "poll")
                  /\ run' = [run EXCEPT ![w].pc = IF operation = "poll" THEN "read" ELSE "send",
                                        ![w].action = operation]
                  /\ UNCHANGED work
    /\ UNCHANGED outside

\* submit_retained_offer or retry_retained_custody: it arrives or not, and it is answered or not.
send(w, arrives, response) ==
    /\ run[w].pc = "send"
    /\ sent' = IF run[w].action = "initial" THEN [sent EXCEPT !.initial = @ + 1]
               ELSE [sent EXCEPT !.again = @ + 1]
    /\ received' = (received \/ arrives)
    /\ run' = [run EXCEPT ![w] = IF arrives /\ response # None
                                 THEN [@ EXCEPT !.pc = "record", !.action = None, !.response = response]
                                 ELSE [Idle EXCEPT !.pc = "error", !.token = run[w].token]]
    /\ UNCHANGED <<job, work, due, ticket, resumes>>

\* read_retained_status answers 404, whether or not the offer ever arrived: it is sent again while
\* the job was rendering, and it is a refusal after that.
read_absent(w) ==
    /\ run[w].pc = "read"
    /\ run' = [run EXCEPT ![w].pc = IF run[w].status = "rendering" THEN "retry" ELSE "record",
                          ![w].action = None,
                          ![w].response = [refused |-> TRUE, same |-> TRUE, request |-> None]]
    /\ UNCHANGED <<job, work, due, outside>>

\* An answer that is not about a rendered document.
read_status(w, response) ==
    /\ run[w].pc = "read"
    /\ run' = [run EXCEPT ![w] = IF response = None
                                 THEN [Idle EXCEPT !.pc = "error", !.token = run[w].token]
                                 ELSE [@ EXCEPT !.pc = "record", !.action = None, !.response = response]]
    /\ UNCHANGED <<job, work, due, outside>>

\* A rendered document: recovery_action names the next action and a due time.
read_rendered(w, response, action, next) ==
    /\ run[w].pc = "read"
    /\ received
    /\ response.same
    /\ run' = [run EXCEPT ![w].pc = IF action \in {"wait", "retry"} /\ next # None THEN next
                                    ELSE IF action = "retry" THEN "retry" ELSE "record",
                          ![w].action = action, ![w].response = response]
    /\ UNCHANGED <<job, work, due, outside>>

\* record_owner_due: a time past the recovery window parks the job.
record_owner_due(w) ==
    /\ run[w].pc \in {"due_inside", "due_outside"}
    /\ \/ stale(w)
       \/ /\ lease(w)
          /\ IF run[w].pc = "due_outside"
             THEN goto(w, "waiting") /\ park("owner_schedule_exhausted") /\ UNCHANGED due
             ELSE /\ due' = FALSE
                  /\ goto(w, IF run[w].action = "retry" THEN "retry" ELSE "record")
                  /\ UNCHANGED <<job, work>>
    /\ UNCHANGED outside

\* The step after disposition.
after_record(w) ==
    IF run[w].action \in {"verify", "blocked"} THEN run[w].action ELSE "waiting"

identity_conflict(response) ==
    \/ ~response.same
    \/ job.request # None /\ response.request \notin {None, job.request}

disposition(w) ==
    /\ run[w].pc = "record"
    /\ \/ stale(w)
       \/ /\ lease(w)
          /\ goto(w, after_record(w))
          /\ LET response == run[w].response
             IN  IF identity_conflict(response) THEN park("identity_conflict")
                 ELSE IF response.refused
                 THEN /\ job' = [parked_job("refused") EXCEPT !.state = "refused"]
                      /\ work' = parked_work
                 ELSE /\ job' = IF response.request = None THEN [job EXCEPT !.state = "waiting"]
                               ELSE [job EXCEPT !.state = "waiting", !.status = "archiving",
                                                !.request = response.request]
                      /\ UNCHANGED work
          /\ UNCHANGED due
    /\ UNCHANGED outside

block(w) ==
    /\ run[w].pc = "blocked"
    /\ \/ stale(w)
       \/ lease(w) /\ goto(w, "waiting") /\ park("owner_blocked") /\ UNCHANGED due
    /\ UNCHANGED outside

\* confirm_final up to the answer of verify_final_custody, which reads the archive itself.
verify_final_custody(w, holds) ==
    /\ run[w].pc = "verify"
    /\ goto(w, IF /\ run[w].response.request # None
                  /\ run[w].response.request = job.request
                  /\ holds THEN "confirm" ELSE "error")
    /\ UNCHANGED <<job, work, due, outside>>

\* confirm_final after the await: the fence and the identity are checked again.
confirm_final(w) ==
    /\ run[w].pc = "confirm"
    /\ \/ stale(w)
       \/ /\ lease(w)
          /\ IF run[w].response.request = job.request
             THEN /\ job' = [job EXCEPT !.state = "verified", !.status = "archived"]
                  /\ goto(w, "finish")
             ELSE goto(w, "error") /\ UNCHANGED job
          /\ UNCHANGED <<work, due>>
    /\ UNCHANGED outside

---------------------------------------------------------------------------
(* Callers, operators, the owner and time *)

\* cancel_job: guard_transition swallows it once verified and parks once protected.
cancel_job ==
    /\ IF job.state = "verified" THEN UNCHANGED <<job, work>>
       ELSE IF custody_protected(job) THEN park("transition_blocked")
       ELSE /\ job.status \in {"accepted", "data_ready", "failed"}
            /\ job' = [job EXCEPT !.status = "cancelled"]
            /\ UNCHANGED work
    /\ job.reason # "transition_blocked"   \* bound: a parked cancel is not repeated
    /\ UNCHANGED <<due, run, outside>>

\* Mutant: any parked job may be resumed, whatever parked it.
resumable_any_reason(epoch) ==
    /\ work.status = "failed" /\ job.epoch = epoch /\ job.state = "blocked"

resumable(epoch) ==
    /\ work.status = "failed" /\ job.epoch = epoch
    /\ job.state = "blocked" /\ job.reason \in Resumable

operator_reads ==
    /\ ticket = None /\ resumable(job.epoch)
    /\ ticket' = job.epoch
    /\ UNCHANGED <<job, work, due, run, received, sent, resumes>>

\* resume: a new window with fresh budgets; repeating it changes nothing.
resume ==
    /\ resumes < MaxResumes
    /\ resumable(ticket)
    /\ job' = [job EXCEPT !.state = "ready", !.epoch = @ + 1, !.dispatch = 0, !.poll = 0]
    /\ work' = [work EXCEPT !.status = "retry_pending", !.attempts = 0, !.wait = "none"]
    /\ due' = TRUE
    /\ resumes' = resumes + 1
    /\ ticket' = None
    /\ UNCHANGED <<run, received, sent>>

lease_expires ==
    /\ work.status = "leased" /\ ~work.expired
    /\ work' = [work EXCEPT !.expired = TRUE]
    /\ UNCHANGED <<job, due, run, outside>>

due_arrives ==
    /\ ~due
    /\ due' = TRUE
    /\ UNCHANGED <<job, work, run, outside>>

\* available_at passes; scheduled_at put it no earlier than the custody due time.
delay_elapses ==
    /\ work.status = "retry_pending"
    /\ work.wait = "delay" \/ (work.wait = "delay_and_due" /\ due)
    /\ work' = [work EXCEPT !.wait = "none"]
    /\ UNCHANGED <<job, due, run, outside>>

\* Nothing is left to do.
settled ==
    /\ work.status \in {"completed", "failed"}
    /\ \A w \in Workers : run[w].pc = "idle"
    /\ UNCHANGED custody_vars

---------------------------------------------------------------------------
CustodyInit ==
    /\ job = [status |-> "accepted", offer |-> FALSE, state |-> None, reason |-> None, epoch |-> 0,
              initial |-> 0, dispatch |-> 0, poll |-> 0, request |-> None]
    /\ work = [status |-> "pending", token |-> 0, attempts |-> 0, expired |-> FALSE, wait |-> "none"]
    /\ due = TRUE
    /\ run = [w \in Workers |-> Idle]
    /\ received = FALSE
    /\ sent = [initial |-> 0, again |-> 0]
    /\ ticket = None
    /\ resumes = 0

WorkerStep(w) ==
    \/ execute_job(w)
    \/ \E captured \in BOOLEAN : capture_for_job(w, captured)
    \/ \E fits \in BOOLEAN : commit_offer(w, fits)
    \/ \E operation \in {"initial", "retry", "poll"}, over \in BOOLEAN : reserve(w, operation, over)
    \/ \E arrives \in BOOLEAN, response \in Responses \cup {None} : send(w, arrives, response)
    \/ read_absent(w)
    \/ \E response \in Responses \cup {None} : read_status(w, response)
    \/ \E response \in Responses, action \in {"wait", "retry", "verify", "blocked"},
          next \in {None, "due_inside", "due_outside"} : read_rendered(w, response, action, next)
    \/ record_owner_due(w)
    \/ disposition(w)
    \/ block(w)
    \/ \E holds \in BOOLEAN : verify_final_custody(w, holds)
    \/ confirm_final(w)
    \/ defer_work_item(w)
    \/ fail_work_item(w)
    \/ complete_work_item(w)

CustodyNext ==
    \/ \E w \in Workers : claim_work_items(w) \/ WorkerStep(w) \/ worker_dies(w)
    \/ recover_expired_work_items
    \/ cancel_job
    \/ operator_reads
    \/ resume
    \/ lease_expires \/ due_arrives \/ delay_elapses
    \/ settled

CustodySpec == CustodyInit /\ [][CustodyNext]_custody_vars

\* Workers poll for work, sweep expired leases on the way, and do not stall in a pass; time passes.
CustodyFairness ==
    /\ WF_custody_vars(\E w \in Workers : claim_work_items(w))
    /\ \A w \in Workers : WF_custody_vars(WorkerStep(w))
    /\ WF_custody_vars(recover_expired_work_items)
    /\ WF_custody_vars(lease_expires)
    /\ WF_custody_vars(due_arrives)
    /\ WF_custody_vars(delay_elapses)

LiveCustodySpec == CustodySpec /\ CustodyFairness

---------------------------------------------------------------------------
(* Properties *)

\* What leaves this service stays within what was approved: one first send ever, and at most
\* DispatchLimit repeats per approval, however leases are lost between reserve and send.
SendsWithinBudget ==
    /\ sent.initial <= 1
    /\ sent.again <= DispatchLimit * (resumes + 1)

\* The custody state and the work item agree: a parked job has no claimable work, and work that
\* ended without delivery has parked its job or ended it (park, protect_work, resume).
ParkedTogether ==
    /\ job.state \in {"blocked", "refused"} => work.status = "failed"
    /\ work.status = "failed" => \/ job.state \in {"blocked", "refused"}
                                 \/ ~job.offer /\ job.status \in Terminal
    /\ work.status = "completed" => job.status \in Terminal

\* Every attempt to deliver comes to an end: the document is delivered, or the job waits for an
\* operator, or it ended before it was offered.
CustodySettles == []<>(work.status \in {"completed", "failed"})

(* Refinement of the abstract delivery *)
delivery_phase ==
    IF job.state = "verified" THEN "delivered"
    ELSE IF job.state = "blocked" /\ job.reason \in Resumable THEN "parked"
    ELSE IF job.state \in {"blocked", "refused"} THEN "stopped"
    ELSE IF job.offer THEN "offered"
    ELSE IF job.status \in {"failed", "cancelled"} THEN "withdrawn" ELSE "held"

Delivery == INSTANCE RetainedDelivery WITH
    phase <- delivery_phase, first <- job.initial, again <- job.dispatch, approvals <- resumes

\* The retained-offer ledger implements the abstract delivery.
DeliverySpec == Delivery!DeliverySpec
====
