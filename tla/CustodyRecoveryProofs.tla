--------------------------- MODULE CustodyRecoveryProofs ---------------------------
(***************************************************************************)
(* Proofs about retained-offer custody, for any number of workers and any  *)
(* budgets: what is sent stays within what was reserved and approved, the  *)
(* custody state and the work item agree, and the ledger implements the    *)
(* abstract delivery.                                                      *)
(***************************************************************************)
EXTENDS CustodyRecovery, FiniteSetTheorems, TLAPS

---------------------------------------------------------------------------
(* The inductive invariant *)

States == {"ready", "waiting", "blocked", "refused", "verified"}

Reasons == {"retry_budget_exhausted", "retry_exhausted", "owner_schedule_exhausted",
            "owner_blocked", "identity_conflict", "refused", "transition_blocked",
            "completion_blocked"}

OfferedStatuses == {"rendering", "archiving", "archived"}
EarlyStatuses == {"accepted", "data_ready", "failed", "cancelled"}

\* Stages at which a pass deals with the owner, and those after the first send.
OwnerStages == {"poll", "retry", "send", "read", "record", "due_inside", "due_outside",
                "blocked", "verify", "confirm"}
AnsweredStages == {"record", "due_inside", "due_outside"}
EndStages == {"waiting", "error", "finish"}
PassStages == {"idle", "claimed", "capture", "commit", "initial"} \cup OwnerStages \cup EndStages

JobRow == [status : OfferedStatuses \cup EarlyStatuses, offer : BOOLEAN,
           state : States \cup {None}, reason : Reasons \cup {None}, epoch : Nat,
           initial : 0..1, dispatch : 0..DispatchLimit, poll : Nat,
           request : RequestIds \cup {None}]

WorkRow == [status : {"pending", "leased", "retry_pending", "completed", "failed"},
            token : Nat, attempts : Nat, expired : BOOLEAN,
            wait : {"none", "delay", "delay_and_due"}]

Pass == [pc : PassStages, token : Nat, epoch : Nat,
         status : OfferedStatuses \cup EarlyStatuses \cup {None},
         action : {None, "initial", "retry", "poll", "wait", "verify", "blocked"},
         response : Responses \cup {None}]

CustodyTypeOK ==
    /\ job \in JobRow
    /\ work \in WorkRow
    /\ due \in BOOLEAN
    /\ run \in [Workers -> Pass]
    /\ received \in BOOLEAN
    /\ sent \in [initial : Nat, again : Nat]
    /\ ticket \in Nat \cup {None}
    /\ resumes \in Nat

\* The pass that took the current lease, whether or not the lease has run out.
owns(w) == work.status = "leased" /\ work.token = run[w].token

\* The retained offer divides the life of a job in two.
JobOK ==
    /\ job.offer => job.status \in OfferedStatuses /\ job.state \in States
    /\ ~job.offer => /\ job.status \in EarlyStatuses /\ job.state = None
                     /\ job.request = None /\ job.initial = 0
    /\ job.state = "verified" <=> job.status = "archived"
    /\ job.state = "verified" => job.initial = 1

LeaseOK ==
    /\ work.status = "leased" => work.attempts > 0 /\ work.token \in 1..job.epoch
    /\ \A v, w \in Workers :
          run[v].pc # "idle" /\ run[w].pc # "idle" /\ run[v].token = run[w].token => v = w

\* What a pass may rely on, and what the one that owns the lease knows besides.
PassOK(w) ==
    LET pass == run[w]
    IN  /\ IF pass.pc = "idle" THEN pass.token = 0 ELSE pass.token \in 1..job.epoch
        /\ pass.pc \in OwnerStages \cup {"initial"} => job.offer
        /\ pass.pc \in OwnerStages => job.initial = 1
        /\ pass.pc \in AnsweredStages => pass.response \in Responses
        /\ pass.pc = "send" => pass.action \in {"initial", "retry"}
        /\ pass.pc = "send" /\ pass.action = "initial" => sent.initial = 0
        /\ pass.pc = "finish" => job.status \in Terminal
        /\ owns(w) /\ pass.pc \in {"capture", "commit"} => ~job.offer
        /\ owns(w) /\ job.state = "verified" => pass.pc \in EndStages \cup {"claimed"}

\* There is one first send, and one pass to make it.
FirstSendOK ==
    /\ sent.initial <= job.initial
    /\ \A v, w \in Workers :
          run[v].pc = "send" /\ run[v].action = "initial"
             /\ run[w].pc = "send" /\ run[w].action = "initial" => v = w

\* Repeated sends, made and about to be made, were reserved under an approval.
retrying == {w \in Workers : run[w].pc = "send" /\ run[w].action = "retry"}
RepeatsOK == sent.again + Cardinality(retrying) <= DispatchLimit * resumes + job.dispatch

CustodyInv ==
    /\ CustodyTypeOK
    /\ JobOK
    /\ LeaseOK
    /\ \A w \in Workers : PassOK(w)
    /\ FirstSendOK
    /\ RepeatsOK
    /\ ParkedTogether

---------------------------------------------------------------------------
(* What a step may do to the rows *)

\* What passes rely on is never taken back.
JobKept ==
    /\ job.offer => job'.offer
    /\ job.initial <= job'.initial
    /\ job.epoch <= job'.epoch
    /\ job.status \in Terminal => job'.status \in Terminal

\* Only a claim makes a lease.
LeaseKept ==
    work'.status = "leased" =>
        work.status = "leased" /\ work'.token = work.token /\ work'.attempts = work.attempts

RowsOK ==
    /\ job' \in JobRow /\ work' \in WorkRow
    /\ JobOK' /\ ParkedTogether'
    /\ JobKept /\ LeaseKept

\* The offer is retained, and the delivery verified, by the pass that owns the lease.
NoNews ==
    /\ job'.offer => job.offer
    /\ job'.state = "verified" => job.state = "verified"

\* A pass that does not move keeps its footing.
LEMMA PassKept ==
    ASSUME CustodyInv, NEW v \in Workers, PassOK(v), run'[v] = run[v],
           job' \in JobRow, JobKept,
           owns(v)' => owns(v) /\ NoNews,
           run[v].pc = "send" /\ run[v].action = "initial" => sent'.initial = sent.initial
    PROVE  PassOK(v)'
  <1>1. run[v] \in Pass /\ job \in JobRow
    BY DEF CustodyInv, CustodyTypeOK
  <1>2. job.initial = 1 => job'.initial = 1
    BY <1>1 DEF JobKept, JobRow
  <1>3. IF run'[v].pc = "idle" THEN run'[v].token = 0 ELSE run'[v].token \in 1..job'.epoch
    BY <1>1 DEF PassOK, JobKept, JobRow, Pass
  <1>4. /\ owns(v)' /\ run'[v].pc \in {"capture", "commit"} => ~job'.offer
        /\ owns(v)' /\ job'.state = "verified" => run'[v].pc \in EndStages \cup {"claimed"}
    BY DEF PassOK, NoNews
  <1>5. QED
    BY <1>2, <1>3, <1>4 DEF PassOK, JobKept

\* A pass that takes no reservation and sends nothing keeps the counts.
LEMMA CountsKept ==
    ASSUME CustodyInv, NEW w \in Workers, run' \in [Workers -> Pass],
           \A v \in Workers \ {w} : run'[v] = run[v],
           run'[w].pc # "send", UNCHANGED <<sent, resumes>>,
           job' \in JobRow, JobKept, job'.dispatch = job.dispatch
    PROVE  FirstSendOK' /\ RepeatsOK'
  <1>1. FirstSendOK'
    BY DEF CustodyInv, CustodyTypeOK, FirstSendOK, JobKept, JobRow
  <1>2. retrying' \in SUBSET retrying /\ retrying \in SUBSET Workers
    BY DEF retrying
  <1>3. IsFiniteSet(retrying) /\ IsFiniteSet(retrying')
    BY <1>2, CustodyAssumption, FS_Subset
  <1>4. /\ Cardinality(retrying') <= Cardinality(retrying)
        /\ Cardinality(retrying) \in Nat /\ Cardinality(retrying') \in Nat
    BY <1>2, <1>3, FS_Subset, FS_CardinalityType
  <1>5. /\ sent.again \in Nat /\ job.dispatch \in Nat
        /\ DispatchLimit * resumes \in Nat
    BY CustodyAssumption DEF CustodyInv, CustodyTypeOK, JobRow
  <1>6. sent.again + Cardinality(retrying') <= DispatchLimit * resumes + job.dispatch
    BY <1>4, <1>5 DEF CustodyInv, RepeatsOK
  <1>7. RepeatsOK'
    BY <1>6 DEF RepeatsOK
  <1>8. QED
    BY <1>1, <1>7

\* A step of pass w, given the facts about its own new place and about the counts.
LEMMA PassStep ==
    ASSUME CustodyInv, NEW w \in Workers, run[w].pc # "idle", RowsOK,
           run' \in [Workers -> Pass],
           \A v \in Workers \ {w} : run'[v] = run[v],
           run'[w].pc = "idle" \/ run'[w].token = run[w].token,
           PassOK(w)',
           owns(w) \/ NoNews,
           \A v \in Workers \ {w} : run[v].pc = "send" /\ run[v].action = "initial"
                => sent'.initial = sent.initial,
           due' \in BOOLEAN, received' \in BOOLEAN, UNCHANGED <<ticket, resumes>>,
           sent' \in [initial : Nat, again : Nat],
           FirstSendOK', RepeatsOK'
    PROVE  CustodyInv'
  <1>1. CustodyTypeOK'
    BY DEF CustodyInv, CustodyTypeOK, RowsOK
  <1>2. job \in JobRow /\ job' \in JobRow /\ run \in [Workers -> Pass] /\ work \in WorkRow
    BY DEF CustodyInv, CustodyTypeOK, RowsOK
  <1>3. LeaseOK'
    <2>1. work'.status = "leased" => work'.attempts > 0 /\ work'.token \in 1..job'.epoch
      BY <1>2 DEF CustodyInv, LeaseOK, RowsOK, LeaseKept, JobKept, JobRow
    <2>2. ASSUME NEW u \in Workers, NEW v \in Workers,
                 run'[u].pc # "idle", run'[v].pc # "idle", run'[u].token = run'[v].token
          PROVE  u = v
      <3>1. /\ run[u].pc # "idle" /\ run'[u].token = run[u].token
            /\ run[v].pc # "idle" /\ run'[v].token = run[v].token
        BY <2>2
      <3>2. QED
        BY <2>2, <3>1 DEF CustodyInv, LeaseOK
    <2>3. QED
      BY <2>1, <2>2 DEF LeaseOK
  <1>4. ASSUME NEW v \in Workers
        PROVE  PassOK(v)'
    <2>1. CASE v = w
      BY <2>1
    <2>2. CASE v # w
      <3>1. run'[v] = run[v] /\ PassOK(v)
        BY <2>2 DEF CustodyInv
      <3>2. owns(v)' => owns(v)
        BY <3>1 DEF owns, RowsOK, LeaseKept
      <3>3. owns(v) => ~owns(w)
        <4>1. owns(v) => run[v].pc # "idle"
          BY <1>2 DEF CustodyInv, LeaseOK, PassOK, owns
        <4>2. QED
          BY <2>2, <4>1 DEF CustodyInv, LeaseOK, owns
      <3>4. QED
        BY <1>2, <2>2, <3>1, <3>2, <3>3, PassKept DEF RowsOK
    <2>3. QED
      BY <2>1, <2>2
  <1>5. QED
    BY <1>1, <1>3, <1>4 DEF CustodyInv, RowsOK

\* goto moves the stage; the end of a pass keeps the lease token only.
LEMMA GotoPass ==
    ASSUME CustodyInv, NEW w \in Workers, NEW pc \in PassStages, goto(w, pc)
    PROVE  /\ run' \in [Workers -> Pass]
           /\ \A v \in Workers \ {w} : run'[v] = run[v]
           /\ run'[w].pc = pc
           /\ IF pc = "idle" THEN run'[w].token = 0 ELSE run'[w].token = run[w].token
           /\ pc \notin EndStages \cup {"idle"} =>
                 run'[w].action = run[w].action /\ run'[w].response = run[w].response
  <1> DEFINE row == CASE pc = "idle" -> Idle
                      [] pc \in {"waiting", "error", "finish"} ->
                            [Idle EXCEPT !.pc = pc, !.token = run[w].token]
                      [] OTHER -> [run[w] EXCEPT !.pc = pc]
  <1>1. run \in [Workers -> Pass] /\ run[w] \in Pass
    BY DEF CustodyInv, CustodyTypeOK
  <1>2. run' = [run EXCEPT ![w] = row]
    BY DEF goto
  <1>3. CASE pc = "idle"
    <2>1. row = Idle
      BY <1>3
    <2>2. row \in Pass /\ row.pc = pc /\ row.token = 0
      BY <1>3, <2>1 DEF Idle, Pass
    <2> HIDE DEF row
    <2>3. QED
      BY <1>1, <1>2, <1>3, <2>2
  <1>4. CASE pc \in EndStages
    <2>1. row = [Idle EXCEPT !.pc = pc, !.token = run[w].token] /\ pc # "idle"
      BY <1>4 DEF EndStages
    <2>2. row \in Pass /\ row.pc = pc /\ row.token = run[w].token
      BY <1>1, <1>4, <2>1 DEF Idle, Pass
    <2> HIDE DEF row
    <2>3. QED
      BY <1>1, <1>2, <1>4, <2>1, <2>2
  <1>5. CASE pc \notin EndStages \cup {"idle"}
    <2>1. row = [run[w] EXCEPT !.pc = pc]
      BY <1>5 DEF EndStages
    <2>2. /\ row \in Pass /\ row.pc = pc /\ row.token = run[w].token
          /\ row.action = run[w].action /\ row.response = run[w].response
      BY <1>1, <2>1 DEF Pass
    <2> HIDE DEF row
    <2>3. QED
      BY <1>1, <1>2, <1>5, <2>2
  <1>6. QED
    BY <1>3, <1>4, <1>5

\* A pass ends, whatever it wrote on the way.
LEMMA EndStep ==
    ASSUME CustodyInv, NEW w \in Workers, run[w].pc # "idle", RowsOK,
           NEW pc \in EndStages \cup {"idle"}, goto(w, pc),
           pc = "finish" => job'.status \in Terminal,
           owns(w) \/ NoNews, job'.dispatch = job.dispatch,
           due' \in BOOLEAN, UNCHANGED outside
    PROVE  CustodyInv'
  <1> pc \in PassStages
    BY DEF PassStages, EndStages
  <1>1. /\ run' \in [Workers -> Pass]
        /\ \A v \in Workers \ {w} : run'[v] = run[v]
        /\ run'[w].pc = pc
        /\ IF pc = "idle" THEN run'[w].token = 0 ELSE run'[w].token = run[w].token
    BY GotoPass
  <1>2. UNCHANGED <<received, sent, ticket, resumes>>
    BY DEF outside
  <1>3. job \in JobRow /\ job' \in JobRow /\ run[w] \in Pass
    BY DEF CustodyInv, CustodyTypeOK, RowsOK
  <1>4. run[w].token \in 1..job'.epoch
    BY <1>3 DEF CustodyInv, PassOK, RowsOK, JobKept, JobRow, Pass
  <1>5. work'.status = "leased" => work'.token # 0
    BY <1>3 DEF CustodyInv, LeaseOK, RowsOK, LeaseKept, JobRow
  <1>6. PassOK(w)'
    BY <1>1, <1>4, <1>5 DEF PassOK, owns, EndStages, OwnerStages, AnsweredStages
  <1>7. FirstSendOK' /\ RepeatsOK'
    BY <1>1, <1>2, <1>3, CountsKept DEF EndStages, RowsOK
  <1>8. /\ received' \in BOOLEAN /\ sent' \in [initial : Nat, again : Nat]
        /\ UNCHANGED <<ticket, resumes>>
    BY <1>2 DEF CustodyInv, CustodyTypeOK
  <1>9. QED
    BY <1>1, <1>2, <1>6, <1>7, <1>8, PassStep

---------------------------------------------------------------------------
(* The rows the transactions leave *)

\* Rows that are not written are in order.
LEMMA RowsSame ==
    ASSUME CustodyInv, UNCHANGED <<job, work>>
    PROVE  RowsOK /\ NoNews /\ job'.dispatch = job.dispatch
  <1>1. job \in JobRow /\ work \in WorkRow /\ JobOK /\ ParkedTogether
    BY DEF CustodyInv, CustodyTypeOK
  <1>2. JobKept /\ LeaseKept
    BY <1>1 DEF JobKept, LeaseKept, JobRow
  <1>3. QED
    BY <1>1, <1>2 DEF RowsOK, NoNews, JobOK, ParkedTogether

\* park blocks the job and ends its work in one transaction.
LEMMA ParkRows ==
    ASSUME CustodyInv, NEW reason \in Reasons, park(reason), job.offer
    PROVE  RowsOK /\ NoNews /\ job'.dispatch = job.dispatch
  <1>1. CASE job.state = "verified"
    BY <1>1, RowsSame DEF park
  <1>2. CASE job.state # "verified"
    <2>1. job \in JobRow /\ work \in WorkRow /\ JobOK
      BY DEF CustodyInv, CustodyTypeOK
    <2>2. job' = parked_job(reason) /\ work' = parked_work
      BY <1>2 DEF park
    <2>3. /\ job' \in JobRow
          /\ job'.status = job.status /\ job'.offer = job.offer /\ job'.state = "blocked"
          /\ job'.epoch = job.epoch + 1 /\ job'.initial = job.initial
          /\ job'.dispatch = job.dispatch /\ job'.request = job.request
      <3>1. job.epoch + 1 \in Nat
        BY <2>1 DEF JobRow
      <3>2. job' = [job EXCEPT !.state = "blocked", !.reason = reason, !.epoch = job.epoch + 1]
        BY <2>2 DEF parked_job
      <3>3. QED
        BY <2>1, <3>1, <3>2 DEF JobRow, States
    <2>4. work' \in WorkRow /\ work'.status = "failed"
      BY <2>1, <2>2 DEF parked_work, WorkRow
    <2>5. JobOK' /\ ParkedTogether'
      BY <1>2, <2>1, <2>3, <2>4 DEF JobOK, ParkedTogether, States
    <2>6. JobKept /\ LeaseKept
      BY <2>1, <2>3, <2>4 DEF JobKept, LeaseKept, JobRow
    <2>7. QED
      BY <2>3, <2>4, <2>5, <2>6 DEF RowsOK, NoNews
  <1>3. QED
    BY <1>1, <1>2

\* A leased item of a job that is not written goes back to the queue, or ends with the job.
LEMMA ReleaseRows ==
    ASSUME CustodyInv, work.status = "leased", UNCHANGED job, work' \in WorkRow,
           \/ work'.status = "retry_pending"
           \/ work'.status = "completed" /\ job.status \in Terminal
           \/ work'.status = "failed" /\ ~job.offer /\ job.status \in Terminal
    PROVE  RowsOK /\ NoNews /\ job'.dispatch = job.dispatch
  <1>1. job \in JobRow /\ JobOK /\ ParkedTogether
    BY DEF CustodyInv, CustodyTypeOK
  <1>2. ParkedTogether' /\ JobOK'
    BY <1>1 DEF ParkedTogether, JobOK
  <1>3. JobKept /\ LeaseKept
    BY <1>1 DEF JobKept, LeaseKept, JobRow
  <1>4. QED
    BY <1>1, <1>2, <1>3 DEF RowsOK, NoNews

\* The row a lease leaves behind has the declared shape.
LEMMA ReleasedType ==
    ASSUME CustodyInv, NEW status \in {"retry_pending", "completed", "failed"},
           NEW wait \in {"none", "delay", "delay_and_due"}
    PROVE  /\ released(status, wait) \in WorkRow
           /\ released(status, wait).status = status
           /\ released(status, wait).attempts = work.attempts
  BY DEF CustodyInv, CustodyTypeOK, WorkRow, released

\* The last attempt, or the end of a pass: a protected job is parked, never failed.
LEMMA ExhaustedRows ==
    ASSUME CustodyInv, work.status = "leased", NEW completing \in BOOLEAN,
           completing => job.status \in Terminal, exhausted(completing)
    PROVE  RowsOK /\ NoNews /\ job'.dispatch = job.dispatch
  <1>1. job \in JobRow /\ JobOK /\ ParkedTogether
    BY DEF CustodyInv, CustodyTypeOK
  <1>2. CASE job.state = "verified"
    <2>1. UNCHANGED job /\ work' = released("completed", "none")
      BY <1>2 DEF exhausted
    <2>2. work' \in WorkRow /\ work'.status = "completed"
      BY <2>1, ReleasedType
    <2>3. job.status \in Terminal
      BY <1>1, <1>2 DEF JobOK, Terminal
    <2>4. QED
      BY <2>1, <2>2, <2>3, ReleaseRows
  <1>3. CASE job.state # "verified" /\ custody_protected(job)
    <2>1. job.offer
      BY <1>1, <1>3 DEF JobOK, custody_protected, EarlyStatuses
    <2>2. PICK reason \in Reasons : park(reason)
      BY <1>3 DEF exhausted, Reasons
    <2>3. QED
      BY <2>1, <2>2, ParkRows
  <1>4. CASE job.state # "verified" /\ ~custody_protected(job)
    <2>1. ~job.offer
      BY <1>4 DEF custody_protected
    <2>2. /\ work' = released(IF completing THEN "completed" ELSE "failed", "none")
          /\ job' = IF job.status \in Terminal \/ completing THEN job
                    ELSE [job EXCEPT !.status = "failed"]
      BY <1>4 DEF exhausted
    <2>3. CASE job.status \in Terminal
      <3>1. UNCHANGED job
        BY <2>2, <2>3
      <3>2. work' \in WorkRow /\ work'.status \in {"completed", "failed"}
        BY <2>2, ReleasedType
      <3>3. QED
        BY <2>1, <2>3, <3>1, <3>2, ReleaseRows
    <2>4. CASE job.status \notin Terminal
      <3>1. /\ job' = [job EXCEPT !.status = "failed"]
            /\ work' = released("failed", "none")
        BY <2>2, <2>4
      <3>2. work' \in WorkRow /\ work'.status = "failed"
        BY <3>1, ReleasedType
      <3>3. /\ job' \in JobRow
            /\ job'.status = "failed" /\ job'.offer = job.offer /\ job'.state = job.state
            /\ job'.epoch = job.epoch /\ job'.initial = job.initial
            /\ job'.dispatch = job.dispatch /\ job'.request = job.request
        BY <1>1, <3>1 DEF JobRow, EarlyStatuses
      <3>4. JobOK' /\ ParkedTogether'
        BY <1>1, <1>4, <2>1, <3>2, <3>3 DEF JobOK, ParkedTogether, EarlyStatuses, Terminal
      <3>5. JobKept /\ LeaseKept
        BY <1>1, <3>2, <3>3 DEF JobKept, LeaseKept, JobRow, Terminal
      <3>6. QED
        BY <1>4, <3>2, <3>3, <3>4, <3>5 DEF RowsOK, NoNews
    <2>5. QED
      BY <2>3, <2>4
  <1>5. QED
    BY <1>2, <1>3, <1>4

---------------------------------------------------------------------------
(* The end of a pass *)

\* due keeps its type.
LEMMA DueType == CustodyInv => due \in BOOLEAN
  BY DEF CustodyInv, CustodyTypeOK

\* A transaction whose fence broke writes nothing.
LEMMA StaleStep ==
    ASSUME CustodyInv, NEW w \in Workers, run[w].pc # "idle", stale(w), UNCHANGED outside
    PROVE  CustodyInv'
  <1>1. UNCHANGED <<job, work, due>> /\ goto(w, "error")
    BY DEF stale
  <1>2. QED
    BY <1>1, RowsSame, DueType, EndStep DEF EndStages

\* complete_work_item.
LEMMA CompleteStep ==
    ASSUME CustodyInv, NEW w \in Workers, complete_work_item(w)
    PROVE  CustodyInv'
  <1>1. run[w].pc = "finish" /\ goto(w, "idle") /\ UNCHANGED <<due, outside>>
    BY DEF complete_work_item
  <1>2. job.status \in Terminal
    BY <1>1 DEF CustodyInv, PassOK
  <1>3. RowsOK /\ NoNews /\ job'.dispatch = job.dispatch
    <2>1. CASE leased(w)
      BY <1>2, <2>1, ExhaustedRows DEF complete_work_item, leased
    <2>2. CASE ~leased(w)
      BY <2>2, RowsSame DEF complete_work_item
    <2>3. QED
      BY <2>1, <2>2
  <1>4. QED
    BY <1>1, <1>3, DueType, EndStep

\* defer_work_item.
LEMMA DeferStep ==
    ASSUME CustodyInv, NEW w \in Workers, defer_work_item(w)
    PROVE  CustodyInv'
  <1>1. run[w].pc = "waiting" /\ goto(w, "idle") /\ UNCHANGED <<job, due, outside>>
    BY DEF defer_work_item
  <1>2. RowsOK /\ NoNews /\ job'.dispatch = job.dispatch
    <2>1. CASE UNCHANGED work
      BY <1>1, <2>1, RowsSame
    <2>2. CASE leased(w) /\ job.state = "verified" /\ work' = released("completed", "none")
      <3>1. work' \in WorkRow /\ work'.status = "completed"
        BY <2>2, ReleasedType
      <3>2. job.status \in Terminal /\ work.status = "leased"
        BY <2>2 DEF CustodyInv, JobOK, Terminal, leased
      <3>3. QED
        BY <1>1, <3>1, <3>2, ReleaseRows
    <2>3. CASE /\ leased(w)
               /\ work' = [released("retry_pending", "delay_and_due") EXCEPT !.attempts = @ - 1]
      <3> DEFINE row == released("retry_pending", "delay_and_due")
      <3>1. work.status = "leased" /\ work.attempts \in Nat /\ work.attempts > 0
        BY <2>3 DEF CustodyInv, CustodyTypeOK, LeaseOK, leased, WorkRow
      <3>2. row \in WorkRow /\ row.status = "retry_pending" /\ row.attempts = work.attempts
        BY ReleasedType
      <3> HIDE DEF row
      <3>3. work' \in WorkRow /\ work'.status = "retry_pending"
        <4>1. row.attempts - 1 \in Nat
          BY <3>1, <3>2
        <4>2. work' = [row EXCEPT !.attempts = row.attempts - 1]
          BY <2>3 DEF row
        <4>3. QED
          BY <3>2, <4>1, <4>2 DEF WorkRow
      <3>4. QED
        BY <1>1, <3>1, <3>3, ReleaseRows
    <2>4. QED
      BY <2>1, <2>2, <2>3 DEF defer_work_item
  <1>3. QED
    BY <1>1, <1>2, DueType, EndStep

\* fail_work_item.
LEMMA FailStep ==
    ASSUME CustodyInv, NEW w \in Workers, fail_work_item(w)
    PROVE  CustodyInv'
  <1>1. run[w].pc = "error" /\ goto(w, "idle") /\ UNCHANGED <<due, outside>>
    BY DEF fail_work_item
  <1>2. RowsOK /\ NoNews /\ job'.dispatch = job.dispatch
    <2>1. CASE UNCHANGED <<job, work>>
      BY <2>1, RowsSame
    <2>2. CASE leased(w) /\ exhausted(FALSE)
      BY <2>2, ExhaustedRows DEF leased
    <2>3. CASE leased(w) /\ work' = released("retry_pending", "delay_and_due") /\ UNCHANGED job
      BY <2>3, ReleasedType, ReleaseRows DEF leased
    <2>4. QED
      BY <2>1, <2>2, <2>3 DEF fail_work_item
  <1>3. QED
    BY <1>1, <1>2, DueType, EndStep

---------------------------------------------------------------------------
(* A pass at work *)

\* The stages at which a verified job is not met by the pass that owns the lease.
WorkingStages == PassStages \ (EndStages \cup {"idle", "claimed"})

\* A pass moves on without sending: what it needs at its new stage.
LEMMA MoveStep ==
    ASSUME CustodyInv, NEW w \in Workers, run[w].pc # "idle", RowsOK, owns(w) \/ NoNews,
           job'.dispatch = job.dispatch, due' \in BOOLEAN, UNCHANGED outside,
           run' \in [Workers -> Pass],
           \A v \in Workers \ {w} : run'[v] = run[v],
           run'[w].token = run[w].token, run'[w].pc \notin {"idle", "send"},
           run'[w].pc \in OwnerStages \cup {"initial"} => job'.offer,
           run'[w].pc \in OwnerStages => job'.initial = 1,
           run'[w].pc \in AnsweredStages => run'[w].response \in Responses,
           run'[w].pc = "finish" => job'.status \in Terminal,
           owns(w) /\ run'[w].pc \in {"capture", "commit"} => ~job'.offer,
           owns(w) /\ run'[w].pc \in WorkingStages => job'.state # "verified"
    PROVE  CustodyInv'
  <1>1. UNCHANGED <<received, sent, ticket, resumes>>
    BY DEF outside
  <1>2. job \in JobRow /\ job' \in JobRow /\ run[w] \in Pass /\ run'[w].pc \in PassStages
    BY DEF CustodyInv, CustodyTypeOK, RowsOK, Pass
  <1>3. run[w].token \in 1..job'.epoch
    BY <1>2 DEF CustodyInv, PassOK, RowsOK, JobKept, JobRow, Pass
  <1>4. owns(w)' => owns(w)
    BY DEF owns, RowsOK, LeaseKept
  <1>5. PassOK(w)'
    BY <1>2, <1>3, <1>4 DEF PassOK, WorkingStages
  <1>6. FirstSendOK' /\ RepeatsOK'
    BY <1>1, <1>2, CountsKept DEF RowsOK
  <1>7. /\ received' \in BOOLEAN /\ sent' \in [initial : Nat, again : Nat]
        /\ UNCHANGED <<ticket, resumes>>
    BY <1>1 DEF CustodyInv, CustodyTypeOK
  <1>8. QED
    BY <1>1, <1>5, <1>6, <1>7, PassStep

\* At a working stage of the lease owner the job is not verified yet.
LEMMA NotVerified ==
    ASSUME CustodyInv, NEW w \in Workers, run[w].pc \in WorkingStages, owns(w)
    PROVE  job.state # "verified"
  BY DEF CustodyInv, PassOK, WorkingStages

\* lease is what the owner of an unexpired lease has.
LEMMA LeaseOwns ==
    ASSUME NEW w, leased(w)
    PROVE  owns(w) /\ work.status = "leased"
  BY DEF leased, owns

\* execute_job reads the row and picks a stage the row supports.
LEMMA ExecuteStep ==
    ASSUME CustodyInv, NEW w \in Workers, execute_job(w)
    PROVE  CustodyInv'
  <1> DEFINE next == CASE job.status = "accepted" -> "capture"
                       [] job.status = "data_ready" -> "commit"
                       [] job.status \in {"rendering", "archiving"} -> observe
                       [] OTHER -> "finish"
             row == [run[w] EXCEPT !.epoch = job.epoch, !.status = job.status, !.pc = next]
  <1>1. run[w].pc = "claimed" /\ UNCHANGED <<job, work, due, outside>>
    BY DEF execute_job
  <1>2. /\ job \in JobRow /\ JobOK /\ run \in [Workers -> Pass] /\ run[w] \in Pass
        /\ due' \in BOOLEAN
    BY <1>1 DEF CustodyInv, CustodyTypeOK
  <1>3. observe \in {"initial", "poll"} /\ (observe = "poll" => job.initial = 1)
    BY <1>2 DEF observe, JobRow
  <1>4. /\ next \in {"capture", "commit", "initial", "poll", "finish"}
        /\ next \in {"capture", "commit"} => job.status \in {"accepted", "data_ready"}
        /\ next \in {"initial", "poll"} => job.status \in {"rendering", "archiving"}
        /\ next = "poll" => job.initial = 1
        /\ next = "finish" => job.status \notin {"accepted", "data_ready", "rendering", "archiving"}
    BY <1>3
  <1> HIDE DEF next
  <1>5. row \in Pass /\ row.pc = next /\ row.token = run[w].token
    BY <1>2, <1>4 DEF Pass, PassStages, OwnerStages, EndStages, JobRow
  <1>6. run' = [run EXCEPT ![w] = row]
    BY <1>2 DEF execute_job, next
  <1> HIDE DEF row
  <1>7. /\ run' \in [Workers -> Pass]
        /\ \A v \in Workers \ {w} : run'[v] = run[v]
        /\ run'[w].pc = next /\ run'[w].token = run[w].token
    BY <1>2, <1>5, <1>6
  <1>8. RowsOK /\ NoNews
    BY <1>1, RowsSame
  <1>9. /\ next \in OwnerStages \cup {"initial"} => job.offer
        /\ next \in OwnerStages => job.initial = 1
        /\ next \notin AnsweredStages
        /\ next = "finish" => job.status \in Terminal
        /\ next \in {"capture", "commit"} => ~job.offer
        /\ next \in WorkingStages => job.state # "verified"
    BY <1>2, <1>4 DEF JobOK, JobRow, OwnerStages, AnsweredStages, Terminal, WorkingStages,
                      OfferedStatuses, EarlyStatuses, EndStages
  <1>10. /\ next \in OwnerStages \cup {"initial"} => job'.offer
         /\ next \in OwnerStages => job'.initial = 1
         /\ next = "finish" => job'.status \in Terminal
         /\ next \in {"capture", "commit"} => ~job'.offer
         /\ next \in WorkingStages => job'.state # "verified"
         /\ job'.dispatch = job.dispatch
         /\ next \notin {"idle", "send"} /\ run[w].pc # "idle"
    BY <1>1, <1>4, <1>9
  <1>11. UNCHANGED outside
    BY <1>1
  <1>12. QED
    BY <1>2, <1>7, <1>8, <1>9, <1>10, <1>11, MoveStep

\* Capture ends in the job row before the offer exists.
LEMMA CaptureStep ==
    ASSUME CustodyInv, NEW w \in Workers, NEW captured \in BOOLEAN, capture_for_job(w, captured)
    PROVE  CustodyInv'
  <1>1. run[w].pc = "capture" /\ UNCHANGED <<work, due, outside>>
    BY DEF capture_for_job
  <1>2. CASE leased(w) /\ job.status = "accepted"
    <2> DEFINE status == IF captured THEN "data_ready" ELSE "failed"
               next == IF captured THEN "commit" ELSE "finish"
               row == [run[w] EXCEPT !.epoch = job.epoch, !.status = status, !.pc = next]
    <2>1. /\ job \in JobRow /\ JobOK /\ run \in [Workers -> Pass] /\ run[w] \in Pass
          /\ work \in WorkRow /\ due' \in BOOLEAN /\ ParkedTogether
      BY <1>1 DEF CustodyInv, CustodyTypeOK
    <2>2. ~job.offer /\ job.state = None /\ work.status = "leased"
      BY <1>2, <2>1 DEF JobOK, OfferedStatuses, leased
    <2>3. job' = [job EXCEPT !.status = status]
      BY <1>2 DEF capture_for_job
    <2>4. /\ status \in {"data_ready", "failed"} /\ next \in {"commit", "finish"}
          /\ next = "finish" => status = "failed"
      OBVIOUS
    <2> HIDE DEF status
    <2>5. /\ job' \in JobRow
          /\ job'.status = status /\ job'.offer = job.offer /\ job'.state = job.state
          /\ job'.epoch = job.epoch /\ job'.initial = job.initial
          /\ job'.dispatch = job.dispatch /\ job'.request = job.request
      BY <2>1, <2>3, <2>4 DEF JobRow, EarlyStatuses
    <2>6. JobOK' /\ ParkedTogether'
      BY <1>1, <2>1, <2>2, <2>4, <2>5 DEF JobOK, ParkedTogether, EarlyStatuses, OfferedStatuses
    <2>7. JobKept /\ LeaseKept
      BY <1>1, <1>2, <2>1, <2>5 DEF JobKept, LeaseKept, JobRow, Terminal
    <2>8. RowsOK /\ NoNews
      BY <1>1, <2>1, <2>5, <2>6, <2>7 DEF RowsOK, NoNews
    <2>9. run' = [run EXCEPT ![w] = row]
      <3>1. job'.status = status
        BY <2>5
      <3>2. QED
        BY <1>2, <2>1, <3>1 DEF capture_for_job
    <2> HIDE DEF next
    <2>10. row \in Pass /\ row.pc = next /\ row.token = run[w].token
      BY <2>1, <2>4 DEF Pass, PassStages, OwnerStages, EndStages, JobRow, EarlyStatuses
    <2> HIDE DEF row
    <2>11. /\ run' \in [Workers -> Pass]
           /\ \A v \in Workers \ {w} : run'[v] = run[v]
           /\ run'[w].pc = next /\ run'[w].token = run[w].token
      BY <2>1, <2>9, <2>10
    <2>12. /\ next \notin OwnerStages \cup AnsweredStages \cup {"initial", "idle", "send"}
           /\ next = "finish" => job'.status \in Terminal
           /\ ~job'.offer /\ job'.state # "verified"
      BY <2>2, <2>4, <2>5, CustodyAssumption DEF OwnerStages, AnsweredStages, Terminal
    <2>13. UNCHANGED outside /\ run[w].pc # "idle"
      BY <1>1
    <2>14. QED
      BY <2>1, <2>5, <2>8, <2>11, <2>12, <2>13, MoveStep
  <1>3. CASE goto(w, "error") /\ UNCHANGED job
    BY <1>1, <1>3, RowsSame, DueType, EndStep DEF EndStages
  <1>4. QED
    BY <1>2, <1>3 DEF capture_for_job

\* goto to a working stage.
LEMMA GotoStep ==
    ASSUME CustodyInv, NEW w \in Workers, run[w].pc # "idle",
           NEW pc \in WorkingStages \ {"send"}, goto(w, pc), RowsOK, owns(w) \/ NoNews,
           job'.dispatch = job.dispatch, due' \in BOOLEAN, UNCHANGED outside,
           pc \in OwnerStages \cup {"initial"} => job'.offer,
           pc \in OwnerStages => job'.initial = 1,
           pc \in AnsweredStages => run[w].response \in Responses,
           owns(w) /\ pc \in {"capture", "commit"} => ~job'.offer,
           owns(w) => job'.state # "verified"
    PROVE  CustodyInv'
  <1>1. pc \in PassStages /\ pc \notin EndStages \cup {"idle", "send", "finish"}
    BY DEF WorkingStages, EndStages
  <1>2. /\ run' \in [Workers -> Pass]
        /\ \A v \in Workers \ {w} : run'[v] = run[v]
        /\ run'[w].pc = pc /\ run'[w].token = run[w].token
        /\ run'[w].response = run[w].response
    BY <1>1, GotoPass
  <1>3. QED
    BY <1>1, <1>2, MoveStep

\* The offer is retained by the pass that owns the lease, for a job that was never sent.
LEMMA CommitStep ==
    ASSUME CustodyInv, NEW w \in Workers, NEW fits \in BOOLEAN, commit_offer(w, fits)
    PROVE  CustodyInv'
  <1>1. run[w].pc = "commit" /\ UNCHANGED outside
    BY DEF commit_offer
  <1>2. CASE stale(w)
    BY <1>1, <1>2, StaleStep
  <1>3. CASE lease(w) /\ goto(w, "error") /\ UNCHANGED <<job, work, due>>
    BY <1>1, <1>3, RowsSame, DueType, EndStep DEF EndStages
  <1>4. CASE /\ lease(w) /\ ~job.offer /\ job.status = "data_ready" /\ goto(w, observe)
             /\ job' = [job EXCEPT !.offer = TRUE, !.status = "rendering", !.state = "ready"]
             /\ UNCHANGED <<work, due>>
    <2>1. /\ job \in JobRow /\ JobOK /\ work \in WorkRow /\ due' \in BOOLEAN /\ ParkedTogether
      BY <1>4 DEF CustodyInv, CustodyTypeOK
    <2>2. owns(w) /\ work.status = "leased"
      BY <1>4, LeaseOwns DEF lease
    <2>3. job.initial = 0 /\ observe = "initial"
      BY <1>4, <2>1 DEF JobOK, observe
    <2>4. /\ job' \in JobRow
          /\ job'.status = "rendering" /\ job'.offer /\ job'.state = "ready"
          /\ job'.epoch = job.epoch /\ job'.initial = job.initial
          /\ job'.dispatch = job.dispatch /\ job'.request = job.request
      BY <1>4, <2>1 DEF JobRow, OfferedStatuses, States
    <2>5. JobOK' /\ ParkedTogether'
      BY <1>4, <2>2, <2>4 DEF JobOK, ParkedTogether, OfferedStatuses, States
    <2>6. JobKept /\ LeaseKept
      BY <1>4, <2>1, <2>4 DEF JobKept, LeaseKept, JobRow, Terminal
    <2>7. RowsOK
      BY <1>4, <2>1, <2>4, <2>5, <2>6 DEF RowsOK
    <2>8. "initial" \in WorkingStages \ {"send"} /\ "initial" \notin OwnerStages \cup AnsweredStages
      BY DEF WorkingStages, PassStages, EndStages, OwnerStages, AnsweredStages
    <2>9. goto(w, "initial") /\ run[w].pc # "idle" /\ job'.state # "verified"
      BY <1>1, <1>4, <2>3, <2>4
    <2>10. QED
      BY <1>1, <2>1, <2>2, <2>4, <2>7, <2>8, <2>9, GotoStep
  <1>5. ~(lease(w) /\ job.offer)
    BY <1>1, LeaseOwns DEF lease, CustodyInv, PassOK
  <1>6. QED
    BY <1>2, <1>3, <1>4, <1>5 DEF commit_offer

\* The facts of a pass that deals with the owner.
LEMMA OwnerFacts ==
    ASSUME CustodyInv, NEW w \in Workers, run[w].pc \in OwnerStages \cup {"initial"}
    PROVE  /\ run[w].pc # "idle" /\ job.offer
           /\ run[w].pc \in OwnerStages => job.initial = 1
           /\ lease(w) => owns(w) /\ work.status = "leased" /\ job.state # "verified"
                            /\ job.state \notin {"blocked", "refused"}
  <1>1. run[w].pc \in WorkingStages
    BY DEF WorkingStages, PassStages, OwnerStages, EndStages
  <1>2. lease(w) => owns(w) /\ work.status = "leased"
    BY LeaseOwns DEF lease
  <1>3. owns(w) => job.state # "verified"
    BY <1>1, NotVerified
  <1>4. work.status = "leased" => job.state \notin {"blocked", "refused"}
    BY DEF CustodyInv, ParkedTogether
  <1>5. QED
    BY <1>2, <1>3, <1>4 DEF CustodyInv, PassOK, OwnerStages

\* A pass that deals with the owner parks the job, or leaves it, and ends.
LEMMA OwnerEndStep ==
    ASSUME CustodyInv, NEW w \in Workers, run[w].pc \in OwnerStages \cup {"initial"},
           NEW pc \in EndStages \cup {"idle"}, pc # "finish", goto(w, pc), UNCHANGED <<due, outside>>,
           UNCHANGED <<job, work>> \/ \E reason \in Reasons : park(reason)
    PROVE  CustodyInv'
  <1>1. run[w].pc # "idle" /\ job.offer /\ due' \in BOOLEAN /\ UNCHANGED outside
    BY OwnerFacts, DueType
  <1>2. RowsOK /\ NoNews /\ job'.dispatch = job.dispatch
    BY <1>1, RowsSame, ParkRows
  <1>3. QED
    BY <1>1, <1>2, EndStep

\* The job row after a reservation: only a counter moved, and within its limit.
LEMMA ReservedRows ==
    ASSUME CustodyInv, NEW op \in {"initial", "retry", "poll"},
           job.offer, job.state # "verified", work.status = "leased",
           op # "initial" => job.initial = 1,
           ~(count_of(op) >= limit_of(op)), job' = reserved(op), UNCHANGED work
    PROVE  /\ RowsOK /\ NoNews /\ job'.offer /\ job'.state # "verified" /\ job'.initial = 1
           /\ op = "initial" => job.initial = 0
           /\ job'.dispatch = IF op = "retry" THEN job.dispatch + 1 ELSE job.dispatch
  <1>1. job \in JobRow /\ JobOK /\ work \in WorkRow /\ ParkedTogether
    BY DEF CustodyInv, CustodyTypeOK
  <1>2. /\ job.initial \in 0..1 /\ job.dispatch \in 0..DispatchLimit /\ job.poll \in Nat
        /\ job.epoch \in Nat
    BY <1>1 DEF JobRow
  <1>3. /\ job' \in JobRow
        /\ job'.status = job.status /\ job'.offer = job.offer /\ job'.state = job.state
        /\ job'.epoch = job.epoch /\ job'.request = job.request
        /\ job'.initial = 1
        /\ op = "initial" => job.initial = 0
        /\ job'.dispatch = IF op = "retry" THEN job.dispatch + 1 ELSE job.dispatch
    <2>1. CASE op = "initial"
      <3>1. job' = [job EXCEPT !.initial = job.initial + 1] /\ job.initial = 0
        BY <1>2, <2>1 DEF reserved, count_of, limit_of
      <3>2. job' = [job EXCEPT !.initial = 1]
        BY <3>1
      <3>3. job.initial = 0 /\ 1 \in 0..1
        BY <3>1
      <3>4. /\ job' \in JobRow
            /\ job'.status = job.status /\ job'.offer = job.offer /\ job'.state = job.state
            /\ job'.epoch = job.epoch /\ job'.request = job.request
            /\ job'.initial = 1 /\ job'.dispatch = job.dispatch
        BY <1>1, <3>2, <3>3 DEF JobRow
      <3>5. QED
        BY <2>1, <3>3, <3>4
    <2>2. CASE op = "retry"
      <3>1. job' = [job EXCEPT !.dispatch = job.dispatch + 1] /\ job.initial = 1
        BY <1>2, <2>2 DEF reserved
      <3>2. job.dispatch + 1 \in 0..DispatchLimit
        BY <1>2, <2>2, CustodyAssumption DEF count_of, limit_of
      <3>3. QED
        BY <1>1, <2>2, <3>1, <3>2 DEF JobRow
    <2>3. CASE op = "poll"
      <3>1. job' = [job EXCEPT !.poll = job.poll + 1] /\ job.initial = 1
        BY <1>2, <2>3 DEF reserved
      <3>2. job.poll + 1 \in Nat
        BY <1>2
      <3>3. QED
        BY <1>1, <2>3, <3>1, <3>2 DEF JobRow
    <2>4. QED
      BY <2>1, <2>2, <2>3
  <1>4. JobOK' /\ ParkedTogether'
    BY <1>1, <1>3 DEF JobOK, ParkedTogether
  <1>5. JobKept /\ LeaseKept
    BY <1>2, <1>3 DEF JobKept, LeaseKept
  <1>6. QED
    BY <1>1, <1>3, <1>4, <1>5 DEF RowsOK, NoNews

\* A reservation is counted before its effect; none left, or a closed window, parks.
LEMMA ReserveStep ==
    ASSUME CustodyInv, NEW w \in Workers, NEW op \in {"initial", "retry", "poll"},
           NEW over \in BOOLEAN, reserve(w, op, over)
    PROVE  CustodyInv'
  <1>1. run[w].pc = op /\ UNCHANGED outside
    BY DEF reserve
  <1>2. run[w].pc \in OwnerStages \cup {"initial"} /\ (op # "initial" => op \in OwnerStages)
    BY <1>1 DEF OwnerStages
  <1>3. CASE stale(w)
    BY <1>1, <1>2, <1>3, OwnerFacts, StaleStep
  <1>4. CASE goto(w, "waiting") /\ UNCHANGED <<job, work, due>>
    BY <1>1, <1>2, <1>4, OwnerEndStep DEF EndStages
  <1>5. CASE goto(w, "waiting") /\ park("retry_budget_exhausted") /\ UNCHANGED due
    BY <1>1, <1>2, <1>5, OwnerEndStep DEF EndStages, Reasons
  <1>6. CASE /\ lease(w) /\ ~(count_of(op) >= limit_of(op)) /\ job' = reserved(op)
             /\ due' = (op = "poll") /\ UNCHANGED work
             /\ run' = [run EXCEPT ![w].pc = IF op = "poll" THEN "read" ELSE "send",
                                   ![w].action = op]
    <2> DEFINE next == IF op = "poll" THEN "read" ELSE "send"
               row == [run[w] EXCEPT !.pc = next, !.action = op]
    <2>1. /\ run[w].pc # "idle" /\ job.offer /\ (op # "initial" => job.initial = 1)
          /\ owns(w) /\ work.status = "leased" /\ job.state # "verified"
      BY <1>1, <1>2, <1>6, OwnerFacts
    <2>2. /\ RowsOK /\ NoNews /\ job'.offer /\ job'.state # "verified" /\ job'.initial = 1
          /\ op = "initial" => job.initial = 0
          /\ job'.dispatch = IF op = "retry" THEN job.dispatch + 1 ELSE job.dispatch
      BY <1>6, <2>1, ReservedRows
    <2>3. run \in [Workers -> Pass] /\ run[w] \in Pass /\ job \in JobRow /\ job' \in JobRow
      BY <2>2 DEF CustodyInv, CustodyTypeOK, RowsOK
    <2>4. /\ row \in Pass /\ row.pc = next /\ row.token = run[w].token /\ row.action = op
      BY <2>3 DEF Pass, PassStages, OwnerStages
    <2>5. run' = [run EXCEPT ![w] = row]
      BY <1>6, <2>3
    <2> HIDE DEF row
    <2>6. /\ run' \in [Workers -> Pass]
          /\ \A v \in Workers \ {w} : run'[v] = run[v]
          /\ run'[w].pc = next /\ run'[w].token = run[w].token /\ run'[w].action = op
      BY <2>3, <2>4, <2>5
    <2>7. due' \in BOOLEAN
      BY <1>6
    <2>8. CASE op = "poll"
      <3>1. /\ run'[w].pc = "read" /\ "read" \in OwnerStages /\ "read" \notin AnsweredStages
            /\ job'.dispatch = job.dispatch
        BY <2>2, <2>6, <2>8 DEF OwnerStages, AnsweredStages
      <3>2. QED
        BY <1>1, <2>1, <2>2, <2>6, <2>7, <3>1, MoveStep
    <2>9. CASE op # "poll"
      <3>1. run'[w].pc = "send" /\ op \in {"initial", "retry"}
        BY <2>6, <2>9
      <3>2. UNCHANGED <<received, sent, ticket, resumes>>
        BY <1>1 DEF outside
      <3>3. sent \in [initial : Nat, again : Nat] /\ received \in BOOLEAN /\ resumes \in Nat
        BY DEF CustodyInv, CustodyTypeOK
      <3>4. op = "initial" => /\ sent.initial = 0
                              /\ \A v \in Workers : run[v].pc # "send"
        BY <2>2, <3>3 DEF CustodyInv, FirstSendOK, PassOK, OwnerStages
      <3>5. FirstSendOK'
        <4>1. sent'.initial <= job'.initial
          BY <2>2, <2>3, <3>2, <3>3 DEF CustodyInv, FirstSendOK, JobRow
        <4>2. QED
          BY <2>6, <3>1, <3>4, <4>1 DEF CustodyInv, FirstSendOK
      <3>6. RepeatsOK'
        <4>1. retrying \in SUBSET Workers
          BY DEF retrying
        <4>2. IsFiniteSet(retrying) /\ Cardinality(retrying) \in Nat
          BY <4>1, CustodyAssumption, FS_Subset, FS_CardinalityType
        <4>3. /\ sent.again \in Nat /\ job.dispatch \in Nat
              /\ DispatchLimit * resumes \in Nat
          BY <2>3, <3>3, CustodyAssumption DEF JobRow
        <4>4. CASE op = "retry"
          <5>1. retrying' = retrying \cup {w}
            BY <2>6, <3>1, <4>4 DEF retrying
          <5>2. /\ Cardinality(retrying') <= Cardinality(retrying) + 1
                /\ Cardinality(retrying') \in Nat
            <6>1. Cardinality(retrying \cup {w}) =
                    IF w \in retrying THEN Cardinality(retrying) ELSE Cardinality(retrying) + 1
              BY <4>2, FS_AddElement
            <6>2. QED
              BY <4>2, <5>1, <6>1
          <5>3. job'.dispatch = job.dispatch + 1
            BY <2>2, <4>4
          <5>4. sent.again + Cardinality(retrying')
                  <= DispatchLimit * resumes + (job.dispatch + 1)
            BY <4>2, <4>3, <5>2 DEF CustodyInv, RepeatsOK
          <5>5. QED
            BY <3>2, <5>3, <5>4 DEF RepeatsOK
        <4>5. CASE op = "initial"
          <5>1. retrying' = retrying
            BY <2>6, <3>4, <4>5 DEF retrying
          <5>2. job'.dispatch = job.dispatch
            BY <2>2, <4>5
          <5>3. QED
            BY <3>2, <5>1, <5>2 DEF CustodyInv, RepeatsOK
        <4>6. QED
          BY <3>1, <4>4, <4>5
      <3>7. PassOK(w)'
        <4>1. run[w].token \in 1..job'.epoch
          BY <2>1, <2>2, <2>3 DEF CustodyInv, PassOK, RowsOK, JobKept, JobRow, Pass
        <4>2. QED
          BY <2>2, <2>6, <3>1, <3>2, <3>4, <4>1 DEF PassOK, AnsweredStages
      <3>8. sent' \in [initial : Nat, again : Nat] /\ received' \in BOOLEAN
            /\ UNCHANGED <<ticket, resumes>> /\ sent' = sent
        BY <3>2, <3>3
      <3>9. QED
        BY <2>1, <2>2, <2>6, <2>7, <3>5, <3>6, <3>7, <3>8, PassStep
    <2>10. QED
      BY <2>8, <2>9
  <1>7. QED
    BY <1>3, <1>4, <1>5, <1>6 DEF reserve

\* A reserved send leaves this service, once per reservation.
LEMMA SendStep ==
    ASSUME CustodyInv, NEW w \in Workers, NEW arrives \in BOOLEAN,
           NEW response \in Responses \cup {None}, send(w, arrives, response)
    PROVE  CustodyInv'
  <1> DEFINE answered == arrives /\ response # None
             row == IF answered
                    THEN [run[w] EXCEPT !.pc = "record", !.action = None, !.response = response]
                    ELSE [Idle EXCEPT !.pc = "error", !.token = run[w].token]
  <1>1. run[w].pc = "send" /\ UNCHANGED <<job, work, due, ticket, resumes>>
    BY DEF send
  <1>2. /\ run[w].pc # "idle" /\ job.offer /\ job.initial = 1
        /\ owns(w) => job.state # "verified"
    BY <1>1, OwnerFacts, NotVerified DEF OwnerStages, WorkingStages, PassStages, EndStages
  <1>3. /\ run \in [Workers -> Pass] /\ run[w] \in Pass /\ job \in JobRow
        /\ sent \in [initial : Nat, again : Nat] /\ due' \in BOOLEAN
        /\ received \in BOOLEAN /\ resumes \in Nat /\ PassOK(w)
    BY <1>1 DEF CustodyInv, CustodyTypeOK
  <1>4. RowsOK /\ NoNews
    BY <1>1, RowsSame
  <1>5. /\ row \in Pass /\ row.pc = (IF answered THEN "record" ELSE "error")
        /\ row.token = run[w].token /\ (answered => row.response = response)
    <2>1. CASE answered
      BY <1>3, <2>1 DEF Pass, PassStages, OwnerStages
    <2>2. CASE ~answered
      BY <1>3, <2>2 DEF Pass, PassStages, EndStages, Idle
    <2>3. QED
      BY <2>1, <2>2
  <1>6. run' = [run EXCEPT ![w] = row]
    BY <1>3 DEF send
  <1>7. answered => response \in Responses
    OBVIOUS
  <1> HIDE DEF row, answered
  <1>8. /\ run' \in [Workers -> Pass]
        /\ \A v \in Workers \ {w} : run'[v] = run[v]
        /\ run'[w].pc = (IF answered THEN "record" ELSE "error")
        /\ run'[w].token = run[w].token /\ (answered => run'[w].response = response)
    BY <1>3, <1>5, <1>6
  <1>9. PassOK(w)'
    BY <1>1, <1>2, <1>3, <1>7, <1>8 DEF PassOK, owns, OwnerStages, AnsweredStages, EndStages
  <1>10. retrying \in SUBSET Workers
    BY DEF retrying
  <1>11. IsFiniteSet(retrying) /\ Cardinality(retrying) \in Nat
    BY <1>10, CustodyAssumption, FS_Subset, FS_CardinalityType
  <1>12. /\ sent.again \in Nat /\ job.dispatch \in Nat /\ sent.initial \in Nat
         /\ DispatchLimit * resumes \in Nat
    BY <1>3, CustodyAssumption DEF JobRow
  <1>13. received' \in BOOLEAN
    BY <1>3 DEF send
  <1>14. CASE run[w].action = "initial"
    <2>1. /\ sent.initial = 0
          /\ \A v \in Workers \ {w} : ~(run[v].pc = "send" /\ run[v].action = "initial")
      BY <1>1, <1>3, <1>14 DEF CustodyInv, FirstSendOK, PassOK
    <2>2. sent' = [sent EXCEPT !.initial = sent.initial + 1]
      BY <1>14 DEF send
    <2>3. sent' \in [initial : Nat, again : Nat] /\ sent'.initial = 1 /\ sent'.again = sent.again
      BY <1>3, <2>1, <2>2
    <2>4. FirstSendOK'
      BY <1>1, <1>2, <1>8, <2>1, <2>3 DEF FirstSendOK
    <2>5. retrying' = retrying
      BY <1>1, <1>8, <1>14 DEF retrying
    <2>6. RepeatsOK'
      BY <1>1, <2>3, <2>5 DEF CustodyInv, RepeatsOK
    <2>7. QED
      BY <1>1, <1>2, <1>3, <1>4, <1>8, <1>9, <1>13, <2>1, <2>3, <2>4, <2>6, PassStep
  <1>15. CASE run[w].action = "retry"
    <2>1. sent' = [sent EXCEPT !.again = sent.again + 1]
      BY <1>15 DEF send
    <2>2. sent' \in [initial : Nat, again : Nat] /\ sent'.initial = sent.initial
            /\ sent'.again = sent.again + 1
      BY <1>3, <2>1
    <2>3. FirstSendOK'
      BY <1>1, <1>8, <2>2 DEF CustodyInv, FirstSendOK
    <2>4. retrying' = retrying \ {w} /\ w \in retrying
      BY <1>1, <1>8, <1>15 DEF retrying
    <2>5. Cardinality(retrying') = Cardinality(retrying) - 1
      BY <1>11, <2>4, FS_RemoveElement
    <2>6. (sent.again + 1) + Cardinality(retrying') <= DispatchLimit * resumes + job.dispatch
      BY <1>11, <1>12, <2>5 DEF CustodyInv, RepeatsOK
    <2>7. RepeatsOK'
      BY <1>1, <2>2, <2>6 DEF RepeatsOK
    <2>8. QED
      BY <1>1, <1>2, <1>3, <1>4, <1>8, <1>9, <1>13, <2>2, <2>3, <2>7, PassStep
  <1>16. QED
    BY <1>1, <1>3, <1>14, <1>15 DEF PassOK

\* An answer is read: the pass goes on, with the answer where it will be recorded.
LEMMA ReadStep ==
    ASSUME CustodyInv, NEW w \in Workers,
           NEW next \in {"retry", "record", "due_inside", "due_outside"},
           NEW action \in {None, "wait", "retry", "verify", "blocked"},
           NEW response \in Responses,
           run[w].pc = "read", UNCHANGED <<job, work, due, outside>>,
           run' = [run EXCEPT ![w].pc = next, ![w].action = action, ![w].response = response]
    PROVE  CustodyInv'
  <1> DEFINE row == [run[w] EXCEPT !.pc = next, !.action = action, !.response = response]
  <1>1. run[w].pc # "idle" /\ job.offer /\ job.initial = 1
    BY OwnerFacts DEF OwnerStages
  <1>2. owns(w) => job.state # "verified"
    BY NotVerified DEF OwnerStages, WorkingStages, PassStages, EndStages
  <1>3. run \in [Workers -> Pass] /\ run[w] \in Pass
    BY DEF CustodyInv, CustodyTypeOK
  <1>4. row \in Pass /\ row.pc = next /\ row.token = run[w].token /\ row.response = response
    BY <1>3 DEF Pass, PassStages, OwnerStages
  <1>5. run' = [run EXCEPT ![w] = row]
    BY <1>3
  <1> HIDE DEF row
  <1>6. /\ run' \in [Workers -> Pass]
        /\ \A v \in Workers \ {w} : run'[v] = run[v]
        /\ run'[w].pc = next /\ run'[w].token = run[w].token /\ run'[w].response = response
    <2>1. run' \in [Workers -> Pass]
      BY <1>3, <1>4, <1>5, Zenon
    <2>2. run'[w] = row /\ \A v \in Workers \ {w} : run'[v] = run[v]
      BY <1>3, <1>5, Zenon
    <2>3. QED
      BY <1>4, <2>1, <2>2
  <1>7. RowsOK /\ NoNews /\ due' \in BOOLEAN /\ UNCHANGED outside
    BY RowsSame, DueType
  <1>8. /\ job'.offer /\ job'.initial = 1 /\ job'.dispatch = job.dispatch
        /\ owns(w) => job'.state # "verified"
    BY <1>1, <1>2
  <1>9. next \notin {"idle", "send", "finish", "capture", "commit"}
    OBVIOUS
  <1>10. QED
    BY <1>1, <1>6, <1>7, <1>8, <1>9, MoveStep

\* The three outcomes of a status read.
LEMMA ReadsStep ==
    ASSUME CustodyInv, NEW w \in Workers,
           \/ read_absent(w)
           \/ \E response \in Responses \cup {None} : read_status(w, response)
           \/ \E response \in Responses, action \in {"wait", "retry", "verify", "blocked"},
                 next \in {None, "due_inside", "due_outside"} :
                    read_rendered(w, response, action, next)
    PROVE  CustodyInv'
  <1>1. run[w].pc = "read" /\ UNCHANGED <<job, work, due, outside>>
    BY DEF read_absent, read_status, read_rendered
  <1>2. run \in [Workers -> Pass] /\ run[w] \in Pass
    BY DEF CustodyInv, CustodyTypeOK
  <1>3. CASE read_absent(w)
    <2> DEFINE refusal == [refused |-> TRUE, same |-> TRUE, request |-> None]
    <2>1. refusal \in Responses
      BY DEF Responses
    <2>2. run' = [run EXCEPT ![w].pc = IF run[w].status = "rendering" THEN "retry" ELSE "record",
                             ![w].action = None, ![w].response = refusal]
      BY <1>3 DEF read_absent
    <2> HIDE DEF refusal
    <2>3. QED
      BY <1>1, <2>1, <2>2, ReadStep
  <1>4. ASSUME NEW response \in Responses \cup {None}, read_status(w, response)
        PROVE  CustodyInv'
    <2>1. CASE response = None
      <3>1. run' = [run EXCEPT ![w] = [Idle EXCEPT !.pc = "error", !.token = run[w].token]]
        BY <1>4, <2>1 DEF read_status
      <3>2. goto(w, "error")
        BY <3>1 DEF goto
      <3>3. QED
        BY <1>1, <3>2, OwnerEndStep DEF OwnerStages, EndStages
    <2>2. CASE response # None
      <3>1. run' = [run EXCEPT ![w] = [run[w] EXCEPT !.pc = "record", !.action = None,
                                                     !.response = response]]
        BY <1>4, <2>2 DEF read_status
      <3>2. run' = [run EXCEPT ![w].pc = "record", ![w].action = None, ![w].response = response]
        BY <1>2, <3>1
      <3>3. QED
        BY <1>1, <2>2, <3>2, ReadStep
    <2>3. QED
      BY <2>1, <2>2
  <1>5. ASSUME NEW response \in Responses, NEW action \in {"wait", "retry", "verify", "blocked"},
               NEW next \in {None, "due_inside", "due_outside"},
               read_rendered(w, response, action, next)
        PROVE  CustodyInv'
    <2> DEFINE pc == IF action \in {"wait", "retry"} /\ next # None THEN next
                     ELSE IF action = "retry" THEN "retry" ELSE "record"
    <2>1. pc \in {"retry", "record", "due_inside", "due_outside"}
      BY <1>5
    <2>2. run' = [run EXCEPT ![w].pc = pc, ![w].action = action, ![w].response = response]
      BY <1>5 DEF read_rendered
    <2> HIDE DEF pc
    <2>3. QED
      BY <1>1, <2>1, <2>2, ReadStep
  <1>6. QED
    BY <1>3, <1>4, <1>5

\* An answer's due time is kept, or parks the job.
LEMMA OwnerDueStep ==
    ASSUME CustodyInv, NEW w \in Workers, record_owner_due(w)
    PROVE  CustodyInv'
  <1>1. run[w].pc \in {"due_inside", "due_outside"} /\ UNCHANGED outside
    BY DEF record_owner_due
  <1>2. run[w].pc \in OwnerStages /\ run[w].pc \in AnsweredStages
    BY <1>1 DEF OwnerStages, AnsweredStages
  <1>3. CASE stale(w)
    BY <1>1, <1>2, <1>3, OwnerFacts, StaleStep
  <1>4. CASE goto(w, "waiting") /\ park("owner_schedule_exhausted") /\ UNCHANGED due
    BY <1>1, <1>2, <1>4, OwnerEndStep DEF EndStages, Reasons
  <1>5. CASE /\ lease(w) /\ due' = FALSE /\ UNCHANGED <<job, work>>
             /\ goto(w, IF run[w].action = "retry" THEN "retry" ELSE "record")
    <2>1. /\ run[w].pc # "idle" /\ job'.offer /\ job'.initial = 1 /\ job'.state # "verified"
          /\ due' \in BOOLEAN /\ run[w].response \in Responses
      BY <1>2, <1>5, OwnerFacts DEF CustodyInv, PassOK
    <2>2. RowsOK /\ NoNews /\ job'.dispatch = job.dispatch
      BY <1>5, RowsSame
    <2>3. ASSUME NEW pc \in {"retry", "record"}, goto(w, pc)
          PROVE  CustodyInv'
      <3>1. pc \in WorkingStages \ {"send"} /\ pc \notin {"capture", "commit"}
        BY DEF WorkingStages, PassStages, OwnerStages, EndStages
      <3>2. QED
        BY <1>1, <2>1, <2>2, <2>3, <3>1, GotoStep
    <2>4. QED
      BY <1>5, <2>3
  <1>6. QED
    BY <1>3, <1>4, <1>5 DEF record_owner_due

\* The owner blocks the job.
LEMMA BlockStep ==
    ASSUME CustodyInv, NEW w \in Workers, block(w)
    PROVE  CustodyInv'
  <1>1. run[w].pc = "blocked" /\ UNCHANGED outside /\ run[w].pc \in OwnerStages
    BY DEF block, OwnerStages
  <1>2. CASE stale(w)
    BY <1>1, <1>2, OwnerFacts, StaleStep
  <1>3. CASE goto(w, "waiting") /\ park("owner_blocked") /\ UNCHANGED due
    BY <1>1, <1>3, OwnerEndStep DEF EndStages, Reasons
  <1>4. QED
    BY <1>2, <1>3 DEF block

\* What disposition writes: it parks, refuses, or records what the owner answered.
LEMMA DispositionRows ==
    ASSUME CustodyInv, NEW response \in Responses, job.offer, job.state # "verified",
           work.status = "leased",
           \/ park("identity_conflict")
           \/ /\ job' = [parked_job("refused") EXCEPT !.state = "refused"]
              /\ work' = parked_work
           \/ /\ job' = IF response.request = None THEN [job EXCEPT !.state = "waiting"]
                        ELSE [job EXCEPT !.state = "waiting", !.status = "archiving",
                                         !.request = response.request]
              /\ UNCHANGED work
    PROVE  /\ RowsOK /\ NoNews /\ job'.dispatch = job.dispatch
           /\ job'.offer /\ job'.initial = job.initial /\ job'.state # "verified"
  <1>1. job \in JobRow /\ JobOK /\ work \in WorkRow /\ ParkedTogether
    BY DEF CustodyInv, CustodyTypeOK
  <1>2. CASE park("identity_conflict")
    <2>1. RowsOK /\ NoNews /\ job'.dispatch = job.dispatch
      BY <1>2, ParkRows DEF Reasons
    <2>2. job' = [job EXCEPT !.state = "blocked", !.reason = "identity_conflict",
                             !.epoch = job.epoch + 1]
      BY <1>2 DEF park, parked_job
    <2>3. job'.offer /\ job'.initial = job.initial /\ job'.state # "verified"
      BY <1>1, <2>2 DEF JobRow
    <2>4. QED
      BY <2>1, <2>3
  <1>3. CASE /\ job' = [parked_job("refused") EXCEPT !.state = "refused"]
             /\ work' = parked_work
    <2>1. job.epoch \in Nat /\ job.epoch + 1 \in Nat
      BY <1>1 DEF JobRow
    <2>2. job' = [[job EXCEPT !.state = "blocked", !.reason = "refused",
                              !.epoch = job.epoch + 1] EXCEPT !.state = "refused"]
      BY <1>3 DEF parked_job
    <2>3. job' = [job EXCEPT !.state = "refused", !.reason = "refused",
                             !.epoch = job.epoch + 1]
      BY <1>1, <2>2 DEF JobRow
    <2>4. /\ job' \in JobRow
          /\ job'.status = job.status /\ job'.offer = job.offer /\ job'.state = "refused"
          /\ job'.epoch = job.epoch + 1 /\ job'.initial = job.initial
          /\ job'.dispatch = job.dispatch /\ job'.request = job.request
      BY <1>1, <2>1, <2>3 DEF JobRow, States, Reasons
    <2>5. work' \in WorkRow /\ work'.status = "failed"
      BY <1>1, <1>3 DEF parked_work, WorkRow
    <2>6. JobOK' /\ ParkedTogether'
      BY <1>1, <2>4, <2>5 DEF JobOK, ParkedTogether, States
    <2>7. JobKept /\ LeaseKept
      BY <1>1, <2>1, <2>4, <2>5 DEF JobKept, LeaseKept, JobRow
    <2>8. QED
      BY <2>4, <2>5, <2>6, <2>7 DEF RowsOK, NoNews
  <1>4. CASE /\ job' = IF response.request = None THEN [job EXCEPT !.state = "waiting"]
                       ELSE [job EXCEPT !.state = "waiting", !.status = "archiving",
                                        !.request = response.request]
             /\ UNCHANGED work
    <2>1. response.request \in RequestIds \cup {None}
      BY DEF Responses
    <2>2. /\ job' \in JobRow
          /\ job'.status \in {job.status, "archiving"} /\ job'.offer = job.offer
          /\ job'.state = "waiting"
          /\ job'.epoch = job.epoch /\ job'.initial = job.initial
          /\ job'.dispatch = job.dispatch
      <3>1. CASE response.request = None
        <4>1. job' = [job EXCEPT !.state = "waiting"]
          BY <1>4, <3>1
        <4>2. QED
          BY <1>1, <4>1 DEF JobRow, States
      <3>2. CASE response.request # None
        <4>1. job' = [job EXCEPT !.state = "waiting", !.status = "archiving",
                                 !.request = response.request]
          BY <1>4, <3>2
        <4>2. QED
          BY <1>1, <2>1, <4>1 DEF JobRow, States, OfferedStatuses
      <3>3. QED
        BY <3>1, <3>2
    <2>3. job.status \in {"rendering", "archiving"}
      BY <1>1 DEF JobOK, OfferedStatuses
    <2>4. JobOK' /\ ParkedTogether'
      BY <1>1, <1>4, <2>2, <2>3 DEF JobOK, ParkedTogether, States, OfferedStatuses
    <2>5. JobKept /\ LeaseKept
      BY <1>1, <1>4, <2>2, <2>3 DEF JobKept, LeaseKept, JobRow, Terminal
    <2>6. QED
      BY <1>1, <1>4, <2>2, <2>4, <2>5 DEF RowsOK, NoNews
  <1>5. QED
    BY <1>2, <1>3, <1>4

\* An answer is recorded and decides where the pass goes.
LEMMA DispositionStep ==
    ASSUME CustodyInv, NEW w \in Workers, disposition(w)
    PROVE  CustodyInv'
  <1>1. run[w].pc = "record" /\ UNCHANGED outside
    BY DEF disposition
  <1>2. run[w].pc \in OwnerStages /\ run[w].pc \in AnsweredStages
    BY <1>1 DEF OwnerStages, AnsweredStages
  <1>3. CASE stale(w)
    BY <1>1, <1>2, <1>3, OwnerFacts, StaleStep
  <1>4. CASE lease(w) /\ ~stale(w)
    <2>1. /\ run[w].pc # "idle" /\ job.offer /\ job.initial = 1 /\ owns(w)
          /\ work.status = "leased" /\ job.state # "verified"
      BY <1>2, <1>4, OwnerFacts
    <2>2. run[w].response \in Responses /\ due' \in BOOLEAN /\ goto(w, after_record(w))
      BY <1>2, <1>4, DueType DEF CustodyInv, PassOK, disposition
    <2>3. /\ RowsOK /\ NoNews /\ job'.dispatch = job.dispatch
          /\ job'.offer /\ job'.initial = job.initial /\ job'.state # "verified"
      <3>1. \/ park("identity_conflict")
            \/ /\ job' = [parked_job("refused") EXCEPT !.state = "refused"]
               /\ work' = parked_work
            \/ /\ job' = IF run[w].response.request = None THEN [job EXCEPT !.state = "waiting"]
                         ELSE [job EXCEPT !.state = "waiting", !.status = "archiving",
                                          !.request = run[w].response.request]
               /\ UNCHANGED work
        BY <1>4 DEF disposition
      <3>2. QED
        BY <2>1, <2>2, <3>1, DispositionRows
    <2>4. CASE after_record(w) = "waiting"
      BY <1>1, <2>1, <2>2, <2>3, <2>4, EndStep DEF EndStages
    <2>5. CASE after_record(w) \in {"verify", "blocked"}
      <3>1. /\ after_record(w) \in WorkingStages \ {"send"}
            /\ after_record(w) \notin AnsweredStages \cup {"capture", "commit"}
        BY <2>5 DEF WorkingStages, PassStages, OwnerStages, EndStages, AnsweredStages
      <3>2. QED
        BY <1>1, <2>1, <2>2, <2>3, <3>1, GotoStep
    <2>6. QED
      BY <2>4, <2>5 DEF after_record
  <1>5. QED
    BY <1>3, <1>4 DEF disposition

\* The archive is asked about the request of the answer.
LEMMA VerifyStep ==
    ASSUME CustodyInv, NEW w \in Workers, NEW holds \in BOOLEAN, verify_final_custody(w, holds)
    PROVE  CustodyInv'
  <1>1. /\ run[w].pc = "verify" /\ run[w].pc \in OwnerStages
        /\ UNCHANGED <<job, work, due, outside>>
    BY DEF verify_final_custody, OwnerStages
  <1>2. CASE goto(w, "error")
    BY <1>1, <1>2, OwnerEndStep DEF EndStages
  <1>3. CASE goto(w, "confirm")
    <2>1. /\ run[w].pc # "idle" /\ job'.offer /\ job'.initial = 1 /\ due' \in BOOLEAN
      BY <1>1, OwnerFacts, DueType
    <2>2. owns(w) => job'.state # "verified"
      BY <1>1, NotVerified DEF WorkingStages, PassStages, OwnerStages, EndStages
    <2>3. RowsOK /\ NoNews /\ job'.dispatch = job.dispatch
      BY <1>1, RowsSame
    <2>4. "confirm" \in WorkingStages \ {"send"} /\ "confirm" \notin AnsweredStages
      BY DEF WorkingStages, PassStages, OwnerStages, EndStages, AnsweredStages
    <2>5. QED
      BY <1>1, <1>3, <2>1, <2>2, <2>3, <2>4, GotoStep
  <1>4. QED
    BY <1>2, <1>3 DEF verify_final_custody

\* The delivery is confirmed under the fence that was read before the await.
LEMMA ConfirmStep ==
    ASSUME CustodyInv, NEW w \in Workers, confirm_final(w)
    PROVE  CustodyInv'
  <1>1. run[w].pc = "confirm" /\ run[w].pc \in OwnerStages /\ UNCHANGED outside
    BY DEF confirm_final, OwnerStages
  <1>2. CASE stale(w)
    BY <1>1, <1>2, OwnerFacts, StaleStep
  <1>3. CASE goto(w, "error") /\ UNCHANGED <<job, work, due>>
    BY <1>1, <1>3, OwnerEndStep DEF EndStages
  <1>4. CASE /\ lease(w) /\ job' = [job EXCEPT !.state = "verified", !.status = "archived"]
             /\ goto(w, "finish") /\ UNCHANGED <<work, due>>
    <2>1. /\ run[w].pc # "idle" /\ job.offer /\ job.initial = 1 /\ owns(w)
          /\ work.status = "leased" /\ due' \in BOOLEAN
      BY <1>1, <1>4, OwnerFacts, DueType
    <2>2. job \in JobRow /\ work \in WorkRow
      BY DEF CustodyInv, CustodyTypeOK
    <2>3. /\ job' \in JobRow
          /\ job'.status = "archived" /\ job'.offer = job.offer /\ job'.state = "verified"
          /\ job'.epoch = job.epoch /\ job'.initial = job.initial
          /\ job'.dispatch = job.dispatch
      BY <1>4, <2>2 DEF JobRow, States, OfferedStatuses
    <2>4. JobOK' /\ ParkedTogether'
      BY <1>4, <2>1, <2>3 DEF JobOK, ParkedTogether, States, OfferedStatuses
    <2>5. JobKept /\ LeaseKept
      BY <1>4, <2>2, <2>3 DEF JobKept, LeaseKept, JobRow, Terminal
    <2>6. RowsOK /\ job'.status \in Terminal
      BY <1>4, <2>2, <2>3, <2>4, <2>5 DEF RowsOK, Terminal
    <2>7. QED
      BY <1>1, <1>4, <2>1, <2>3, <2>6, EndStep DEF EndStages
  <1>5. QED
    BY <1>2, <1>3, <1>4 DEF confirm_final

\* The process of a worker ends: its pass is forgotten.
LEMMA DiesStep ==
    ASSUME CustodyInv, NEW w \in Workers, worker_dies(w)
    PROVE  CustodyInv'
  <1>1. run[w].pc # "idle" /\ UNCHANGED <<job, work, due, outside>> /\ goto(w, "idle")
    BY DEF worker_dies, goto
  <1>2. QED
    BY <1>1, RowsSame, DueType, EndStep

\* A claim takes a new lease under a new epoch: no other pass has its token.
LEMMA ClaimStep ==
    ASSUME CustodyInv, NEW w \in Workers, claim_work_items(w)
    PROVE  CustodyInv'
  <1> DEFINE token == job.epoch + 1
             row == [Idle EXCEPT !.pc = "claimed", !.token = token]
  <1>1. /\ run[w].pc = "idle" /\ work.status \in {"pending", "retry_pending"}
        /\ job' = [job EXCEPT !.epoch = token]
        /\ work' = [work EXCEPT !.status = "leased", !.token = token,
                                !.attempts = work.attempts + 1]
        /\ run' = [run EXCEPT ![w] = row]
        /\ UNCHANGED <<due, received, sent, ticket, resumes>>
    BY DEF claim_work_items, outside
  <1>2. /\ job \in JobRow /\ work \in WorkRow /\ run \in [Workers -> Pass]
        /\ JobOK /\ LeaseOK /\ FirstSendOK /\ RepeatsOK /\ ParkedTogether
        /\ \A v \in Workers : PassOK(v)
    BY DEF CustodyInv, CustodyTypeOK
  <1>3. /\ job.epoch \in Nat /\ token \in Nat /\ token = job.epoch + 1
        /\ work.attempts \in Nat /\ work.attempts + 1 \in Nat
    BY <1>2 DEF JobRow, WorkRow
  <1> HIDE DEF token
  <1>4. /\ job' \in JobRow
        /\ job'.status = job.status /\ job'.offer = job.offer /\ job'.state = job.state
        /\ job'.epoch = token /\ job'.initial = job.initial
        /\ job'.dispatch = job.dispatch /\ job'.request = job.request
    BY <1>1, <1>2, <1>3 DEF JobRow
  <1>5. /\ work' \in WorkRow
        /\ work'.status = "leased" /\ work'.token = token /\ work'.attempts = work.attempts + 1
    BY <1>1, <1>2, <1>3 DEF WorkRow
  <1>6. row \in Pass /\ row.pc = "claimed" /\ row.token = token
    BY <1>3 DEF Pass, Idle, PassStages
  <1> HIDE DEF row
  <1>7. /\ run' \in [Workers -> Pass]
        /\ \A v \in Workers \ {w} : run'[v] = run[v]
        /\ run'[w].pc = "claimed" /\ run'[w].token = token
    BY <1>1, <1>2, <1>6
  <1>8. CustodyTypeOK'
    BY <1>1, <1>4, <1>5, <1>7 DEF CustodyInv, CustodyTypeOK
  <1>9. JobOK' /\ ParkedTogether'
    BY <1>1, <1>2, <1>4, <1>5 DEF JobOK, ParkedTogether
  <1>10. JobKept
    BY <1>2, <1>3, <1>4 DEF JobKept, JobRow
  <1>11. \A v \in Workers \ {w} : run[v].pc # "idle" => run[v].token \in 1..job.epoch
    BY <1>2 DEF PassOK
  <1>12. LeaseOK'
    BY <1>2, <1>3, <1>4, <1>5, <1>7, <1>11 DEF LeaseOK
  <1>13. \A v \in Workers : PassOK(v)'
    <2>1. ASSUME NEW v \in Workers \ {w}
          PROVE  PassOK(v)'
      <3>1. run'[v] = run[v] /\ PassOK(v) /\ run[v] \in Pass
        BY <1>2, <1>7
      <3>2. run[v].token # token
        BY <1>3, <3>1 DEF PassOK, Pass
      <3>3. ~(owns(v)')
        BY <1>5, <3>1, <3>2 DEF owns
      <3>4. QED
        BY <1>1, <1>4, <1>10, <3>1, <3>3, PassKept
    <2>2. PassOK(w)'
      <3>1. token \in 1..job'.epoch
        BY <1>3, <1>4
      <3>2. QED
        BY <1>7, <3>1 DEF PassOK, OwnerStages, AnsweredStages, EndStages
    <2>3. QED
      BY <2>1, <2>2
  <1>14. FirstSendOK' /\ RepeatsOK'
    BY <1>1, <1>4, <1>7, <1>10, CountsKept
  <1>15. QED
    BY <1>8, <1>9, <1>12, <1>13, <1>14 DEF CustodyInv

---------------------------------------------------------------------------
(* Callers, operators and time *)

\* A step of the outside: no pass moves, and nothing is news to one.
LEMMA OutsideStep ==
    ASSUME CustodyInv, RowsOK, NoNews, UNCHANGED <<run, sent>>,
           due' \in BOOLEAN, received' \in BOOLEAN, ticket' \in Nat \cup {None},
           resumes' \in Nat, RepeatsOK'
    PROVE  CustodyInv'
  <1>1. CustodyTypeOK'
    BY DEF CustodyInv, CustodyTypeOK, RowsOK
  <1>2. job \in JobRow /\ job' \in JobRow
    BY DEF CustodyInv, CustodyTypeOK, RowsOK
  <1>3. LeaseOK'
    BY <1>2 DEF CustodyInv, LeaseOK, RowsOK, LeaseKept, JobKept, JobRow
  <1>4. ASSUME NEW v \in Workers
        PROVE  PassOK(v)'
    <2>1. PassOK(v) /\ run'[v] = run[v] /\ sent'.initial = sent.initial
      BY DEF CustodyInv
    <2>2. owns(v)' => owns(v)
      BY DEF owns, RowsOK, LeaseKept
    <2>3. QED
      BY <1>2, <2>1, <2>2, PassKept DEF RowsOK
  <1>5. FirstSendOK'
    BY <1>2 DEF CustodyInv, CustodyTypeOK, FirstSendOK, RowsOK, JobKept, JobRow
  <1>6. QED
    BY <1>1, <1>3, <1>4, <1>5 DEF CustodyInv, RowsOK

\* Repeats stay covered while no counter moves.
LEMMA RepeatsKept ==
    ASSUME CustodyInv, UNCHANGED <<run, sent, resumes>>, job'.dispatch = job.dispatch
    PROVE  RepeatsOK'
  BY DEF CustodyInv, RepeatsOK, retrying

\* A step of the outside that moves no counter.
LEMMA RowStep ==
    ASSUME CustodyInv, RowsOK, NoNews, job'.dispatch = job.dispatch,
           due' \in BOOLEAN, UNCHANGED <<run, outside>>
    PROVE  CustodyInv'
  <1>1. UNCHANGED <<run, received, sent, ticket, resumes>>
    BY DEF outside
  <1>2. received' \in BOOLEAN /\ ticket' \in Nat \cup {None} /\ resumes' \in Nat
    BY <1>1 DEF CustodyInv, CustodyTypeOK
  <1>3. RepeatsOK'
    BY <1>1, RepeatsKept
  <1>4. QED
    BY <1>1, <1>2, <1>3, OutsideStep

\* The sweep of an expired lease.
LEMMA RecoverStep ==
    ASSUME CustodyInv, recover_expired_work_items
    PROVE  CustodyInv'
  <1>1. work.status = "leased" /\ UNCHANGED <<due, run, outside>>
    BY DEF recover_expired_work_items
  <1>2. RowsOK /\ NoNews /\ job'.dispatch = job.dispatch
    <2>1. CASE exhausted(FALSE)
      BY <1>1, <2>1, ExhaustedRows
    <2>2. CASE work' = released("retry_pending", "delay") /\ UNCHANGED job
      BY <1>1, <2>2, ReleasedType, ReleaseRows
    <2>3. QED
      BY <2>1, <2>2 DEF recover_expired_work_items
  <1>3. QED
    BY <1>1, <1>2, DueType, RowStep

\* A cancel ends a job that was not offered and parks one that was.
LEMMA CancelStep ==
    ASSUME CustodyInv, cancel_job
    PROVE  CustodyInv'
  <1>1. UNCHANGED <<due, run, outside>> /\ due' \in BOOLEAN
    BY DueType DEF cancel_job
  <1>2. job \in JobRow /\ JobOK /\ work \in WorkRow /\ ParkedTogether
    BY DEF CustodyInv, CustodyTypeOK
  <1>3. RowsOK /\ NoNews /\ job'.dispatch = job.dispatch
    <2>1. CASE UNCHANGED <<job, work>>
      BY <2>1, RowsSame
    <2>2. CASE custody_protected(job) /\ park("transition_blocked")
      <3>1. job.offer
        BY <1>2, <2>2 DEF JobOK, custody_protected, EarlyStatuses
      <3>2. QED
        BY <2>2, <3>1, ParkRows DEF Reasons
    <2>3. CASE /\ job.state # "verified" /\ ~custody_protected(job)
               /\ job.status \in {"accepted", "data_ready", "failed"}
               /\ job' = [job EXCEPT !.status = "cancelled"] /\ UNCHANGED work
      <3>1. /\ job' \in JobRow
            /\ job'.status = "cancelled" /\ job'.offer = job.offer /\ job'.state = job.state
            /\ job'.epoch = job.epoch /\ job'.initial = job.initial
            /\ job'.dispatch = job.dispatch /\ job'.request = job.request
        BY <1>2, <2>3 DEF JobRow, EarlyStatuses
      <3>2. ~job.offer
        BY <2>3 DEF custody_protected
      <3>3. JobOK' /\ ParkedTogether'
        BY <1>2, <2>3, <3>1, <3>2 DEF JobOK, ParkedTogether, EarlyStatuses, Terminal
      <3>4. JobKept /\ LeaseKept
        BY <1>2, <2>3, <3>1 DEF JobKept, LeaseKept, JobRow, Terminal
      <3>5. QED
        BY <1>2, <2>3, <3>1, <3>3, <3>4 DEF RowsOK, NoNews
    <2>4. QED
      BY <2>1, <2>2, <2>3 DEF cancel_job
  <1>4. QED
    BY <1>1, <1>3, RowStep

\* The rows after an operator's approval.
LEMMA ResumeRows ==
    ASSUME CustodyInv, resume
    PROVE  /\ RowsOK /\ NoNews
           /\ job.offer /\ job.state = "blocked" /\ job.reason \in Resumable
           /\ job'.offer /\ job'.state = "ready" /\ job'.dispatch = 0
           /\ job'.initial = job.initial
  <1>1. /\ job \in JobRow /\ JobOK /\ work \in WorkRow /\ ParkedTogether
    BY DEF CustodyInv, CustodyTypeOK
  <1>2. /\ work.status = "failed" /\ job.state = "blocked" /\ job.reason \in Resumable
        /\ job' = [job EXCEPT !.state = "ready", !.epoch = job.epoch + 1, !.dispatch = 0,
                              !.poll = 0]
        /\ work' = [work EXCEPT !.status = "retry_pending", !.attempts = 0, !.wait = "none"]
    BY DEF resume, resumable
  <1>3. job.epoch \in Nat /\ job.epoch + 1 \in Nat /\ 0 \in 0..DispatchLimit
    BY <1>1, CustodyAssumption DEF JobRow
  <1>4. /\ job' \in JobRow
        /\ job'.status = job.status /\ job'.offer = job.offer /\ job'.state = "ready"
        /\ job'.epoch = job.epoch + 1 /\ job'.initial = job.initial
        /\ job'.dispatch = 0 /\ job'.request = job.request
    BY <1>1, <1>2, <1>3 DEF JobRow, States
  <1>5. work' \in WorkRow /\ work'.status = "retry_pending"
    BY <1>1, <1>2 DEF WorkRow
  <1>6. job.offer
    BY <1>1, <1>2, CustodyAssumption DEF JobOK
  <1>7. JobOK' /\ ParkedTogether'
    BY <1>1, <1>2, <1>4, <1>5, <1>6 DEF JobOK, ParkedTogether, States
  <1>8. JobKept /\ LeaseKept
    BY <1>1, <1>3, <1>4, <1>5 DEF JobKept, LeaseKept, JobRow
  <1>9. QED
    BY <1>2, <1>4, <1>5, <1>6, <1>7, <1>8 DEF RowsOK, NoNews

\* An approval opens a new window: what the old one left unsent is given up.
LEMMA ResumeStep ==
    ASSUME CustodyInv, resume
    PROVE  CustodyInv'
  <1>1. RowsOK /\ NoNews /\ job'.dispatch = 0
    BY ResumeRows
  <1>2. /\ due' = TRUE /\ resumes' = resumes + 1 /\ ticket' = None
        /\ UNCHANGED <<run, received, sent>>
    BY DEF resume
  <1>3. /\ job \in JobRow /\ resumes \in Nat /\ received \in BOOLEAN
        /\ sent \in [initial : Nat, again : Nat]
    BY DEF CustodyInv, CustodyTypeOK
  <1>4. retrying' = retrying
    BY <1>2 DEF retrying
  <1>5. IsFiniteSet(retrying) /\ Cardinality(retrying) \in Nat
    <2>1. retrying \in SUBSET Workers
      BY DEF retrying
    <2>2. QED
      BY <2>1, CustodyAssumption, FS_Subset, FS_CardinalityType
  <1>6. /\ DispatchLimit * resumes \in Nat /\ DispatchLimit \in Nat
        /\ DispatchLimit * (resumes + 1) = DispatchLimit * resumes + DispatchLimit
    BY <1>3, CustodyAssumption
  <1>7. job.dispatch \in 0..DispatchLimit /\ sent.again \in Nat
    BY <1>3 DEF JobRow
  <1>8. sent.again + Cardinality(retrying) <= DispatchLimit * (resumes + 1) + 0
    BY <1>5, <1>6, <1>7 DEF CustodyInv, RepeatsOK
  <1>9. RepeatsOK'
    BY <1>1, <1>2, <1>4, <1>8 DEF RepeatsOK
  <1>10. resumes' \in Nat /\ due' \in BOOLEAN /\ received' \in BOOLEAN
    BY <1>2, <1>3
  <1>11. QED
    BY <1>1, <1>2, <1>9, <1>10, OutsideStep

\* An operator reads the epoch to approve; time passes.
LEMMA QuietOutsideStep ==
    ASSUME CustodyInv, operator_reads \/ lease_expires \/ due_arrives \/ delay_elapses \/ settled
    PROVE  CustodyInv'
  <1>1. job \in JobRow /\ work \in WorkRow /\ JobOK /\ ParkedTogether
    BY DEF CustodyInv, CustodyTypeOK
  <1>2. CASE operator_reads
    <2>1. /\ UNCHANGED <<job, work, due, run, received, sent, resumes>> /\ ticket' = job.epoch
      BY <1>2 DEF operator_reads
    <2>2. /\ ticket' \in Nat \cup {None} /\ due' \in BOOLEAN /\ received' \in BOOLEAN
          /\ resumes' \in Nat
      BY <1>1, <2>1 DEF CustodyInv, CustodyTypeOK, JobRow
    <2>3. RowsOK /\ NoNews /\ job'.dispatch = job.dispatch
      BY <2>1, RowsSame
    <2>4. QED
      BY <2>1, <2>2, <2>3, RepeatsKept, OutsideStep
  <1>3. CASE due_arrives \/ settled
    <2>1. UNCHANGED <<job, work, run, outside>> /\ due' \in BOOLEAN
      BY <1>3, DueType DEF due_arrives, settled, custody_vars, outside
    <2>2. QED
      BY <2>1, RowsSame, RowStep
  <1>4. CASE lease_expires \/ delay_elapses
    <2>1. UNCHANGED <<job, due, run, outside>> /\ due' \in BOOLEAN
      BY <1>4, DueType DEF lease_expires, delay_elapses
    <2>2. /\ work' \in WorkRow /\ work'.status = work.status /\ work'.token = work.token
          /\ work'.attempts = work.attempts
      BY <1>1, <1>4 DEF lease_expires, delay_elapses, WorkRow
    <2>3. JobOK' /\ ParkedTogether' /\ JobKept /\ LeaseKept
      BY <1>1, <2>1, <2>2 DEF JobOK, ParkedTogether, JobKept, LeaseKept, JobRow
    <2>4. QED
      BY <1>1, <2>1, <2>2, <2>3, RowStep DEF RowsOK, NoNews
  <1>5. QED
    BY <1>2, <1>3, <1>4

---------------------------------------------------------------------------
(* The invariant *)

\* The initial state satisfies the invariant.
LEMMA CustodyInitInvariant == CustodyInit => CustodyInv
  <1> SUFFICES ASSUME CustodyInit PROVE CustodyInv
    OBVIOUS
  <1>1. CustodyTypeOK
    <2>1. 0 \in 0..1 /\ 0 \in 0..DispatchLimit /\ 0 \in Nat
      BY CustodyAssumption
    <2>2. job \in JobRow
      BY <2>1 DEF CustodyInit, JobRow, EarlyStatuses
    <2>3. work \in WorkRow
      BY <2>1 DEF CustodyInit, WorkRow
    <2>4. Idle \in Pass
      BY <2>1 DEF Idle, Pass, PassStages
    <2>5. run \in [Workers -> Pass]
      BY <2>4 DEF CustodyInit
    <2>6. QED
      BY <2>1, <2>2, <2>3, <2>5 DEF CustodyInit, CustodyTypeOK
  <1>2. JobOK /\ LeaseOK /\ ParkedTogether
    BY CustodyAssumption DEF CustodyInit, JobOK, LeaseOK, ParkedTogether, EarlyStatuses, Idle
  <1>3. \A w \in Workers : PassOK(w)
    BY DEF CustodyInit, PassOK, owns, Idle, OwnerStages, AnsweredStages
  <1>4. FirstSendOK
    BY DEF CustodyInit, FirstSendOK, Idle
  <1>5. retrying = {}
    BY DEF CustodyInit, retrying, Idle
  <1>6. RepeatsOK
    BY <1>5, FS_EmptySet, CustodyAssumption DEF CustodyInit, RepeatsOK
  <1>7. QED
    BY <1>1, <1>2, <1>3, <1>4, <1>6 DEF CustodyInv

\* Every step preserves the invariant.
LEMMA CustodyStepInvariant == CustodyInv /\ [CustodyNext]_custody_vars => CustodyInv'
  <1> SUFFICES ASSUME CustodyInv, [CustodyNext]_custody_vars PROVE CustodyInv'
    OBVIOUS
  <1>1. CASE UNCHANGED custody_vars
    <2>1. UNCHANGED <<job, work, due, run, outside>>
      BY <1>1 DEF custody_vars, outside
    <2>2. QED
      BY <2>1, RowsSame, DueType, RowStep
  <1>2. ASSUME NEW w \in Workers, WorkerStep(w)
        PROVE  CustodyInv'
    BY <1>2, ExecuteStep, CaptureStep, CommitStep, ReserveStep, SendStep, ReadsStep,
       OwnerDueStep, DispositionStep, BlockStep, VerifyStep, ConfirmStep, DeferStep, FailStep,
       CompleteStep DEF WorkerStep
  <1>3. ASSUME NEW w \in Workers, claim_work_items(w) \/ worker_dies(w)
        PROVE  CustodyInv'
    BY <1>3, ClaimStep, DiesStep
  <1>4. QED
    BY <1>1, <1>2, <1>3, RecoverStep, CancelStep, ResumeStep, QuietOutsideStep DEF CustodyNext

\* The invariant holds in every reachable state, whatever leases are lost and whoever dies.
THEOREM CustodyInvariant == CustodySpec => []CustodyInv
  BY CustodyInitInvariant, CustodyStepInvariant, PTL DEF CustodySpec

\* reserve counts before the effect, so no loss of a lease between reserve and send, and no
\* repeated pass, sends more than the first offer and DispatchLimit repeats per approval.
THEOREM CustodySendsWithinBudget == CustodySpec => []SendsWithinBudget
  <1>1. CustodyInv => SendsWithinBudget
    <2> SUFFICES ASSUME CustodyInv PROVE SendsWithinBudget
      OBVIOUS
    <2>1. /\ job \in JobRow /\ resumes \in Nat /\ sent \in [initial : Nat, again : Nat]
      BY DEF CustodyInv, CustodyTypeOK
    <2>2. sent.initial <= 1
      BY <2>1 DEF CustodyInv, FirstSendOK, JobRow
    <2>3. Cardinality(retrying) \in Nat
      <3>1. retrying \in SUBSET Workers
        BY DEF retrying
      <3>2. QED
        BY <3>1, CustodyAssumption, FS_Subset, FS_CardinalityType
    <2>4. /\ DispatchLimit * resumes \in Nat /\ DispatchLimit \in Nat
          /\ DispatchLimit * (resumes + 1) = DispatchLimit * resumes + DispatchLimit
      BY <2>1, CustodyAssumption
    <2>5. job.dispatch \in 0..DispatchLimit /\ sent.again \in Nat
      BY <2>1 DEF JobRow
    <2>6. sent.again <= DispatchLimit * (resumes + 1)
      BY <2>3, <2>4, <2>5 DEF CustodyInv, RepeatsOK
    <2>7. QED
      BY <2>2, <2>6 DEF SendsWithinBudget
  <1>2. QED
    BY <1>1, CustodyInvariant, PTL

\* park, protect_work and resume keep the custody state and the work item together.
THEOREM CustodyParkedTogether == CustodySpec => []ParkedTogether
  <1>1. CustodyInv => ParkedTogether
    BY DEF CustodyInv
  <1>2. QED
    BY <1>1, CustodyInvariant, PTL

---------------------------------------------------------------------------
(* Refinement: every step of the ledger is a step of the abstract delivery, or none *)

DeliveryStep == [Delivery!DeliveryNext]_(Delivery!delivery_vars)

\* A step that leaves the phase and the counters alone is no step of the delivery.
LEMMA DeliveryStutter ==
    ASSUME delivery_phase' = delivery_phase,
           job'.initial = job.initial, job'.dispatch = job.dispatch, resumes' = resumes
    PROVE  DeliveryStep
  BY DEF DeliveryStep, Delivery!delivery_vars

\* In particular one that does not write the job row.
LEMMA JobUntouched ==
    ASSUME UNCHANGED <<job, resumes>>
    PROVE  DeliveryStep
  BY DeliveryStutter DEF delivery_phase

\* park while the work is leased parks the delivery or stops it; parking a parked job again
\* under another reason stops it.
LEMMA ParkDelivers ==
    ASSUME CustodyInv, NEW reason \in Reasons, park(reason), job.offer, UNCHANGED resumes,
           work.status = "leased" \/ reason \notin Resumable
    PROVE  DeliveryStep
  <1>1. job \in JobRow /\ JobOK /\ ParkedTogether
    BY DEF CustodyInv, CustodyTypeOK
  <1>2. CASE job.state = "verified"
    BY <1>2, JobUntouched DEF park
  <1>3. CASE job.state # "verified"
    <2>1. job' = parked_job(reason)
      BY <1>3 DEF park
    <2>2. /\ job'.state = "blocked" /\ job'.reason = reason /\ job'.initial = job.initial
          /\ job'.dispatch = job.dispatch /\ job'.offer = job.offer
      BY <1>1, <2>1 DEF parked_job, JobRow
    <2>3. delivery_phase' = IF reason \in Resumable THEN "parked" ELSE "stopped"
      BY <2>2 DEF delivery_phase
    <2>4. delivery_phase \in {"offered", "parked", "stopped"}
      BY <1>3 DEF delivery_phase
    <2>5. work.status = "leased" => delivery_phase = "offered"
      BY <1>1, <1>3 DEF delivery_phase, ParkedTogether
    <2>6. CASE reason \in Resumable
      <3>1. Delivery!Park
        BY <2>2, <2>3, <2>5, <2>6 DEF Delivery!Park
      <3>2. QED
        BY <3>1 DEF DeliveryStep, Delivery!DeliveryNext
    <2>7. CASE reason \notin Resumable /\ delivery_phase # "stopped"
      <3>1. Delivery!Stop
        BY <2>2, <2>3, <2>4, <2>7 DEF Delivery!Stop
      <3>2. QED
        BY <3>1 DEF DeliveryStep, Delivery!DeliveryNext
    <2>8. CASE reason \notin Resumable /\ delivery_phase = "stopped"
      BY <2>2, <2>3, <2>8 DEF DeliveryStep, Delivery!delivery_vars
    <2>9. QED
      BY <2>6, <2>7, <2>8
  <1>4. QED
    BY <1>2, <1>3

\* A job that ends before its offer is retained is withdrawn.
LEMMA EarlyEndDelivers ==
    ASSUME CustodyInv, ~job.offer, NEW status \in EarlyStatuses,
           job.status \notin Terminal,
           job' = [job EXCEPT !.status = status], UNCHANGED resumes
    PROVE  DeliveryStep
  <1>1. job \in JobRow /\ JobOK
    BY DEF CustodyInv, CustodyTypeOK
  <1>2. /\ job'.state = job.state /\ job'.reason = job.reason /\ job'.offer = job.offer
        /\ job'.initial = job.initial /\ job'.dispatch = job.dispatch /\ job'.status = status
    BY <1>1 DEF JobRow
  <1>3. job.state = None /\ job'.state = None /\ None \notin {"verified", "blocked", "refused"}
    BY <1>1, <1>2, CustodyAssumption DEF JobOK
  <1>4. delivery_phase = "held"
    BY <1>3 DEF delivery_phase, Terminal
  <1>5. delivery_phase' = IF status \in {"failed", "cancelled"} THEN "withdrawn" ELSE "held"
    BY <1>2, <1>3 DEF delivery_phase
  <1>6. CASE status \in {"failed", "cancelled"}
    <2>1. Delivery!Withdraw
      BY <1>2, <1>4, <1>5, <1>6 DEF Delivery!Withdraw
    <2>2. QED
      BY <2>1 DEF DeliveryStep, Delivery!DeliveryNext
  <1>7. CASE status \notin {"failed", "cancelled"}
    BY <1>2, <1>4, <1>5, <1>7 DEF DeliveryStep, Delivery!delivery_vars
  <1>8. QED
    BY <1>6, <1>7

\* A protected job has its offer retained: nothing else protects a job that was never offered.
LEMMA ProtectedIsOffered ==
    ASSUME CustodyInv
    PROVE  custody_protected(job) => job.offer
  <1>1. job \in JobRow /\ JobOK
    BY DEF CustodyInv, CustodyTypeOK
  <1>2. QED
    BY <1>1 DEF JobOK, custody_protected, EarlyStatuses, JobRow

\* exhausted parks a protected job and withdraws one that was not offered.
LEMMA ExhaustedDelivers ==
    ASSUME CustodyInv, work.status = "leased", NEW completing \in BOOLEAN,
           exhausted(completing), UNCHANGED resumes
    PROVE  DeliveryStep
  <1>1. CASE UNCHANGED job
    BY <1>1, JobUntouched
  <1>2. CASE job.state # "verified" /\ custody_protected(job)
    <2>1. job.offer
      BY <1>2, ProtectedIsOffered
    <2>2. PICK reason \in {"completion_blocked", "retry_exhausted"} : park(reason)
      BY <1>2 DEF exhausted
    <2>3. QED
      BY <2>1, <2>2, ParkDelivers DEF Reasons
  <1>3. CASE job.state # "verified" /\ ~custody_protected(job)
    <2>1. \/ UNCHANGED job
          \/ job.status \notin Terminal /\ job' = [job EXCEPT !.status = "failed"]
      BY <1>3 DEF exhausted
    <2>2. ~job.offer
      BY <1>3 DEF custody_protected
    <2>3. QED
      BY <1>1, <2>1, <2>2, EarlyEndDelivers DEF EarlyStatuses
  <1>4. CASE job.state = "verified"
    BY <1>1, <1>4 DEF exhausted
  <1>5. QED
    BY <1>2, <1>3, <1>4

\* The three ways a lease comes to its end.
LEMMA EndOfLeaseDelivers ==
    ASSUME CustodyInv,
           \/ \E w \in Workers : \/ complete_work_item(w) \/ defer_work_item(w)
                                 \/ fail_work_item(w)
           \/ recover_expired_work_items
    PROVE  DeliveryStep
  <1>1. UNCHANGED resumes
    BY DEF complete_work_item, defer_work_item, fail_work_item, recover_expired_work_items,
           outside
  <1>2. \/ UNCHANGED job
        \/ work.status = "leased" /\ (exhausted(TRUE) \/ exhausted(FALSE))
    BY DEF complete_work_item, defer_work_item, fail_work_item, recover_expired_work_items,
           leased
  <1>3. QED
    BY <1>1, <1>2, JobUntouched, ExhaustedDelivers

\* Capture moves the status of a job that was not offered.
LEMMA CaptureDelivers ==
    ASSUME CustodyInv, NEW w \in Workers, NEW captured \in BOOLEAN, capture_for_job(w, captured)
    PROVE  DeliveryStep
  <1>1. UNCHANGED resumes
    BY DEF capture_for_job, outside
  <1>2. CASE leased(w) /\ job.status = "accepted"
    <2>1. PICK status \in EarlyStatuses : job' = [job EXCEPT !.status = status]
      BY <1>2 DEF capture_for_job, EarlyStatuses
    <2>2. ~job.offer /\ job.status \notin Terminal
      BY <1>2 DEF CustodyInv, JobOK, OfferedStatuses, Terminal
    <2>3. QED
      BY <1>1, <2>1, <2>2, EarlyEndDelivers
  <1>3. CASE ~(leased(w) /\ job.status = "accepted")
    BY <1>1, <1>3, JobUntouched DEF capture_for_job
  <1>4. QED
    BY <1>2, <1>3

\* commit_offer retains the offer of a job that was held.
LEMMA CommitDelivers ==
    ASSUME CustodyInv, NEW w \in Workers, NEW fits \in BOOLEAN, commit_offer(w, fits)
    PROVE  DeliveryStep
  <1>1. UNCHANGED resumes
    BY DEF commit_offer, outside
  <1>2. \/ UNCHANGED job
        \/ /\ ~job.offer /\ job.status = "data_ready"
           /\ job' = [job EXCEPT !.offer = TRUE, !.status = "rendering", !.state = "ready"]
    BY DEF commit_offer, stale
  <1>3. CASE /\ ~job.offer /\ job.status = "data_ready"
             /\ job' = [job EXCEPT !.offer = TRUE, !.status = "rendering", !.state = "ready"]
    <2>1. job \in JobRow /\ JobOK
      BY DEF CustodyInv, CustodyTypeOK
    <2>2. /\ job'.state = "ready" /\ job'.offer /\ job'.initial = job.initial
          /\ job'.dispatch = job.dispatch
      BY <1>3, <2>1 DEF JobRow
    <2>3. job.state = None /\ None \notin {"verified", "blocked", "refused"}
      BY <1>3, <2>1, CustodyAssumption DEF JobOK
    <2>4. delivery_phase = "held" /\ delivery_phase' = "offered"
      BY <1>3, <2>2, <2>3 DEF delivery_phase
    <2>5. Delivery!Retain
      BY <1>1, <2>2, <2>4 DEF Delivery!Retain
    <2>6. QED
      BY <2>5 DEF DeliveryStep, Delivery!DeliveryNext
  <1>4. QED
    BY <1>1, <1>2, <1>3, JobUntouched

\* A reservation of a send is the send of the abstract delivery: it is counted before the effect.
LEMMA ReserveDelivers ==
    ASSUME CustodyInv, NEW w \in Workers, NEW op \in {"initial", "retry", "poll"},
           NEW over \in BOOLEAN, reserve(w, op, over)
    PROVE  DeliveryStep
  <1>1. UNCHANGED resumes /\ run[w].pc \in OwnerStages \cup {"initial"} /\ run[w].pc = op
    BY DEF reserve, outside, OwnerStages
  <1>2. job \in JobRow /\ JobOK
    BY DEF CustodyInv, CustodyTypeOK
  <1>3. CASE UNCHANGED job
    BY <1>1, <1>3, JobUntouched
  <1>4. CASE lease(w) /\ park("retry_budget_exhausted")
    <2>1. job.offer /\ work.status = "leased"
      BY <1>1, <1>4, OwnerFacts
    <2>2. QED
      BY <1>1, <1>4, <2>1, ParkDelivers DEF Reasons
  <1>5. CASE lease(w) /\ ~(count_of(op) >= limit_of(op)) /\ job' = reserved(op)
    <2>1. /\ job.offer /\ job.state \notin {"verified", "blocked", "refused"}
          /\ op # "initial" => job.initial = 1
      BY <1>1, <1>5, OwnerFacts DEF OwnerStages
    <2>2. delivery_phase = "offered"
      BY <2>1 DEF delivery_phase
    <2>3. CASE op = "initial"
      <3>1. job' = [job EXCEPT !.initial = job.initial + 1] /\ job.initial = 0
        BY <1>2, <1>5, <2>3 DEF reserved, count_of, limit_of, JobRow
      <3>2. job' = [job EXCEPT !.initial = 1]
        BY <3>1
      <3>3. /\ job'.initial = 1 /\ job'.dispatch = job.dispatch /\ job'.state = job.state
            /\ job'.offer = job.offer /\ job'.reason = job.reason
        BY <1>2, <3>2 DEF JobRow
      <3>4. delivery_phase' = "offered"
        BY <2>1, <3>3 DEF delivery_phase
      <3>5. Delivery!SendFirst
        BY <1>1, <2>2, <3>1, <3>3, <3>4 DEF Delivery!SendFirst
      <3>6. QED
        BY <3>5 DEF DeliveryStep, Delivery!DeliveryNext
    <2>4. CASE op = "retry"
      <3>1. job' = [job EXCEPT !.dispatch = job.dispatch + 1]
        BY <1>5, <2>4 DEF reserved
      <3>2. /\ job'.dispatch = job.dispatch + 1 /\ job'.initial = job.initial
            /\ job'.state = job.state /\ job'.offer = job.offer /\ job'.reason = job.reason
        BY <1>2, <3>1 DEF JobRow
      <3>3. job.dispatch < DispatchLimit
        BY <1>2, <1>5, <2>4, CustodyAssumption DEF count_of, limit_of, JobRow
      <3>4. delivery_phase' = "offered"
        BY <2>1, <3>2 DEF delivery_phase
      <3>5. Delivery!SendAgain
        BY <1>1, <2>1, <2>2, <2>4, <3>2, <3>3, <3>4 DEF Delivery!SendAgain
      <3>6. QED
        BY <3>5 DEF DeliveryStep, Delivery!DeliveryNext
    <2>5. CASE op = "poll"
      <3>1. job' = [job EXCEPT !.poll = job.poll + 1]
        BY <1>5, <2>5 DEF reserved
      <3>2. /\ job'.dispatch = job.dispatch /\ job'.initial = job.initial
            /\ job'.state = job.state /\ job'.offer = job.offer
        BY <1>2, <3>1 DEF JobRow
      <3>3. delivery_phase' = "offered"
        BY <2>1, <3>2 DEF delivery_phase
      <3>4. QED
        BY <1>1, <2>2, <3>2, <3>3, DeliveryStutter
    <2>6. QED
      BY <2>3, <2>4, <2>5
  <1>6. QED
    BY <1>3, <1>4, <1>5 DEF reserve, stale

\* What the owner answers, or leaves unanswered, parks, stops or changes nothing.
LEMMA OwnerAnswerDelivers ==
    ASSUME CustodyInv, NEW w \in Workers, record_owner_due(w) \/ block(w)
    PROVE  DeliveryStep
  <1>1. UNCHANGED resumes /\ run[w].pc \in OwnerStages
    BY DEF record_owner_due, block, outside, OwnerStages
  <1>2. \/ UNCHANGED job
        \/ park("owner_schedule_exhausted") \/ park("owner_blocked")
    BY DEF record_owner_due, block, stale
  <1>3. job.offer
    BY <1>1, OwnerFacts
  <1>4. QED
    BY <1>1, <1>2, <1>3, JobUntouched, ParkDelivers DEF Reasons, Resumable

\* disposition keeps an accepted answer without a step, and stops on a refusal or a conflict.
LEMMA DispositionDelivers ==
    ASSUME CustodyInv, NEW w \in Workers, disposition(w)
    PROVE  DeliveryStep
  <1>1. UNCHANGED resumes /\ run[w].pc \in OwnerStages
    BY DEF disposition, outside, OwnerStages
  <1>2. job \in JobRow /\ JobOK /\ job.offer
    BY <1>1, OwnerFacts DEF CustodyInv, CustodyTypeOK
  <1>3. CASE UNCHANGED job
    BY <1>1, <1>3, JobUntouched
  <1>4. CASE lease(w) /\ park("identity_conflict")
    BY <1>1, <1>2, <1>4, ParkDelivers DEF Reasons, Resumable
  <1>5. CASE lease(w) /\ job' = [parked_job("refused") EXCEPT !.state = "refused"]
    <2>1. job.state \notin {"verified", "blocked", "refused"}
      BY <1>1, <1>5, OwnerFacts
    <2>2. /\ job'.state = "refused" /\ job'.initial = job.initial /\ job'.dispatch = job.dispatch
      BY <1>2, <1>5 DEF parked_job, JobRow
    <2>3. delivery_phase = "offered" /\ delivery_phase' = "stopped"
      BY <1>2, <2>1, <2>2 DEF delivery_phase
    <2>4. Delivery!Stop
      BY <1>1, <2>2, <2>3 DEF Delivery!Stop
    <2>5. QED
      BY <2>4 DEF DeliveryStep, Delivery!DeliveryNext
  <1>6. CASE /\ lease(w)
             /\ \/ job' = [job EXCEPT !.state = "waiting"]
                \/ job' = [job EXCEPT !.state = "waiting", !.status = "archiving",
                                      !.request = run[w].response.request]
    <2>1. job.state \notin {"verified", "blocked", "refused"}
      BY <1>1, <1>6, OwnerFacts
    <2>2. /\ job'.state = "waiting" /\ job'.initial = job.initial /\ job'.offer = job.offer
          /\ job'.dispatch = job.dispatch
      BY <1>2, <1>6 DEF JobRow
    <2>3. delivery_phase = "offered" /\ delivery_phase' = "offered"
      BY <1>2, <2>1, <2>2 DEF delivery_phase
    <2>4. QED
      BY <1>1, <2>2, <2>3, DeliveryStutter
  <1>7. QED
    BY <1>3, <1>4, <1>5, <1>6 DEF disposition, stale

\* confirm_final delivers: after the first send, and while the lease is held.
LEMMA ConfirmDelivers ==
    ASSUME CustodyInv, NEW w \in Workers, confirm_final(w)
    PROVE  DeliveryStep
  <1>1. UNCHANGED resumes /\ run[w].pc \in OwnerStages
    BY DEF confirm_final, outside, OwnerStages
  <1>2. CASE UNCHANGED job
    BY <1>1, <1>2, JobUntouched
  <1>3. CASE lease(w) /\ job' = [job EXCEPT !.state = "verified", !.status = "archived"]
    <2>1. job.offer /\ job.initial = 1 /\ job.state \notin {"verified", "blocked", "refused"}
      BY <1>1, <1>3, OwnerFacts
    <2>2. job'.state = "verified" /\ job'.initial = job.initial /\ job'.dispatch = job.dispatch
      BY <1>3 DEF CustodyInv, CustodyTypeOK, JobRow
    <2>3. delivery_phase = "offered" /\ delivery_phase' = "delivered"
      BY <2>1, <2>2 DEF delivery_phase
    <2>4. Delivery!Deliver
      BY <1>1, <2>1, <2>2, <2>3 DEF Delivery!Deliver
    <2>5. QED
      BY <2>4 DEF DeliveryStep, Delivery!DeliveryNext
  <1>4. QED
    BY <1>2, <1>3 DEF confirm_final, stale

\* A cancel stops an offered job, whether or not it was parked, and withdraws one that is held; a
\* failed one stays withdrawn.
LEMMA CancelDelivers ==
    ASSUME CustodyInv, cancel_job
    PROVE  DeliveryStep
  <1>1. UNCHANGED resumes
    BY DEF cancel_job, outside
  <1>2. CASE job.state = "verified"
    BY <1>1, <1>2, JobUntouched DEF cancel_job
  <1>3. CASE job.state # "verified" /\ custody_protected(job)
    <2>1. park("transition_blocked") /\ job.offer
      BY <1>3, ProtectedIsOffered DEF cancel_job
    <2>2. QED
      BY <1>1, <2>1, ParkDelivers DEF Reasons, Resumable
  <1>4. CASE job.state # "verified" /\ ~custody_protected(job)
    <2>1. /\ job.status \in {"accepted", "data_ready", "failed"} /\ ~job.offer
          /\ job' = [job EXCEPT !.status = "cancelled"]
      BY <1>4 DEF cancel_job, custody_protected
    <2>2. CASE job.status # "failed"
      BY <1>1, <2>1, <2>2, EarlyEndDelivers DEF EarlyStatuses, Terminal
    <2>3. CASE job.status = "failed"
      <3>1. job \in JobRow /\ JobOK
        BY DEF CustodyInv, CustodyTypeOK
      <3>2. /\ job'.state = job.state /\ job'.reason = job.reason /\ job'.offer = job.offer
            /\ job'.initial = job.initial /\ job'.dispatch = job.dispatch
            /\ job'.status = "cancelled"
        BY <2>1, <3>1 DEF JobRow
      <3>3. delivery_phase' = delivery_phase
        BY <2>1, <2>3, <3>2 DEF delivery_phase
      <3>4. QED
        BY <1>1, <3>2, <3>3, DeliveryStutter
    <2>4. QED
      BY <2>1, <2>2, <2>3
  <1>5. QED
    BY <1>2, <1>3, <1>4

\* resume is the approval of a parked delivery.
LEMMA ResumeDelivers ==
    ASSUME CustodyInv, resume
    PROVE  DeliveryStep
  <1>1. job \in JobRow /\ JobOK
    BY DEF CustodyInv, CustodyTypeOK
  <1>2. /\ job.state = "blocked" /\ job.reason \in Resumable /\ resumes' = resumes + 1
        /\ job' = [job EXCEPT !.state = "ready", !.epoch = job.epoch + 1, !.dispatch = 0,
                              !.poll = 0]
    BY DEF resume, resumable
  <1>3. job.offer
    BY <1>1, <1>2, CustodyAssumption DEF JobOK
  <1>4. /\ job'.state = "ready" /\ job'.offer = job.offer /\ job'.initial = job.initial
        /\ job'.dispatch = 0
    BY <1>1, <1>2 DEF JobRow
  <1>5. delivery_phase = "parked" /\ delivery_phase' = "offered"
    BY <1>2, <1>3, <1>4 DEF delivery_phase
  <1>6. Delivery!Approve
    BY <1>2, <1>4, <1>5 DEF Delivery!Approve
  <1>7. QED
    BY <1>6 DEF DeliveryStep, Delivery!DeliveryNext

\* A claim moves the epoch only.
LEMMA ClaimDelivers ==
    ASSUME CustodyInv, NEW w \in Workers, claim_work_items(w)
    PROVE  DeliveryStep
  <1>1. UNCHANGED resumes /\ job' = [job EXCEPT !.epoch = job.epoch + 1]
    BY DEF claim_work_items, outside
  <1>2. /\ job'.state = job.state /\ job'.offer = job.offer /\ job'.reason = job.reason
        /\ job'.status = job.status /\ job'.initial = job.initial
        /\ job'.dispatch = job.dispatch
    BY <1>1 DEF CustodyInv, CustodyTypeOK, JobRow
  <1>3. QED
    BY <1>1, <1>2, DeliveryStutter DEF delivery_phase

\* The reads of a pass, its sends, and time write neither the job row nor the approvals.
LEMMA ReadsDeliver ==
    ASSUME NEW w,
           \/ execute_job(w) \/ worker_dies(w) \/ read_absent(w)
           \/ \E arrives \in BOOLEAN, response \in Responses \cup {None} :
                  send(w, arrives, response)
           \/ \E response \in Responses \cup {None} : read_status(w, response)
           \/ \E response \in Responses, action \in {"wait", "retry", "verify", "blocked"},
                 next \in {None, "due_inside", "due_outside"} :
                    read_rendered(w, response, action, next)
           \/ \E holds \in BOOLEAN : verify_final_custody(w, holds)
    PROVE  DeliveryStep
  <1>1. UNCHANGED <<job, resumes>>
    BY DEF execute_job, worker_dies, read_absent, send, read_status, read_rendered,
           verify_final_custody, outside
  <1>2. QED
    BY <1>1, JobUntouched

\* Every step of the ledger is a step of the abstract delivery or leaves it unchanged.
LEMMA CustodyStepDelivers == CustodyInv /\ [CustodyNext]_custody_vars => DeliveryStep
  <1> SUFFICES ASSUME CustodyInv, [CustodyNext]_custody_vars PROVE DeliveryStep
    OBVIOUS
  <1>1. CASE \/ UNCHANGED custody_vars \/ settled \/ operator_reads
             \/ lease_expires \/ due_arrives \/ delay_elapses
    <2>1. UNCHANGED <<job, resumes>>
      BY <1>1 DEF custody_vars, settled, operator_reads, lease_expires, due_arrives,
                  delay_elapses, outside
    <2>2. QED
      BY <2>1, JobUntouched
  <1>2. ASSUME NEW w \in Workers, WorkerStep(w)
        PROVE  DeliveryStep
    BY <1>2, ReadsDeliver, CaptureDelivers, CommitDelivers, ReserveDelivers,
       OwnerAnswerDelivers, DispositionDelivers, ConfirmDelivers, EndOfLeaseDelivers
       DEF WorkerStep
  <1>3. ASSUME NEW w \in Workers, claim_work_items(w) \/ worker_dies(w)
        PROVE  DeliveryStep
    BY <1>3, ClaimDelivers, ReadsDeliver
  <1>4. QED
    BY <1>1, <1>2, <1>3, EndOfLeaseDelivers, CancelDelivers, ResumeDelivers DEF CustodyNext

\* The retained-offer ledger, with its workers, leases, crashes, cancels and approvals, implements
\* the abstract delivery: once an offer is retained the job is delivered, parked or stopped and
\* never given up, and nothing is sent beyond the budget of the approval in force.
THEOREM CustodyImplementsDelivery == CustodySpec => DeliverySpec
  <1>1. CustodyInit => Delivery!DeliveryInit
    BY CustodyAssumption DEF CustodyInit, Delivery!DeliveryInit, delivery_phase
  <1>2. QED
    BY <1>1, CustodyInvariant, CustodyStepDelivers, PTL
       DEF CustodySpec, DeliverySpec, Delivery!DeliverySpec, DeliveryStep
=============================================================================
