--------------------- MODULE SqliteReportJobLedgerProofs ---------------------
(***************************************************************************)
(* Proofs about the SQLite job ledger, for every set of keys, of threads   *)
(* and of retained requests: replays of a lineage never compete, a job     *)
(* that was replayed stays at rest, an event is stored once, and no crash  *)
(* of the rebuild loses a request.                                         *)
(***************************************************************************)
EXTENDS SqliteReportJobLedger, TLAPS

---------------------------------------------------------------------------
(* The inductive invariant *)

\* No replay starts from the job or leads to it.
Alone(k) == \A m \in JobKeys : ~replays(k, m) /\ ~replays(m, k)

\* Rows are keyed by the job's key.
TablesOK ==
    /\ report_request \in [JobKeys -> Contents \cup {None}]
    /\ DOMAIN report_job = JobKeys
    /\ DOMAIN work = JobKeys
    /\ noted \in [JobKeys -> Nat]
    /\ DOMAIN op = Threads
    /\ DOMAIN holding = Threads

\* What a thread selected and has not yet written, it selected under the lock it still holds.
LockOK == \A t \in Threads : op[t] # None => lock = t

\* A key without a request has no other row and takes part in no replay.
UnusedKeyOK ==
    \A k \in JobKeys : report_request[k] = None =>
        report_job[k] = None /\ work[k] = None /\ Alone(k)

\* Only submitted jobs are queued, and only other jobs are derived, each from one source.
QueueOK ==
    /\ \A k \in JobKeys : work[k] # None => k \in Submitted
    /\ \A t \in Threads : holding[t] # None =>
          holding[t].key \in Submitted /\ report_request[holding[t].key] # None
    /\ \A s, d \in JobKeys : replays(s, d) => d \notin Submitted
    /\ \A r, s, d \in JobKeys : replays(r, d) /\ replays(s, d) => r = s

\* A job that was replayed is at rest.
SourcesOK ==
    \A s, d \in JobKeys : replays(s, d) => report_job[s].status \in TerminalStatuses

\* What a thread read about the key it is about to insert.
CreateOK(o) ==
    /\ o.key \in JobKeys /\ o.content \in Contents
    /\ o.found => report_request[o.key] # None
    /\ o.enqueue => o.key \in Submitted
    /\ ~o.found /\ o.source # None =>
          o.source \in JobKeys /\ o.key \notin Submitted /\ replay_admitted(o.source)

\* What a thread read about the job it is about to move still holds, except that the queue
\* may have settled the job meanwhile, and then it takes part in no replay.
TransitionOK(o) ==
    /\ o.key \in JobKeys
    /\ report_request[o.key] # None
    /\ o.to \in DOMAIN AllowedFrom
    /\ \/ Alone(o.key)
       \/ /\ report_job[o.key] # None
          /\ report_job[o.key].status \in AllowedFrom[o.to]
          /\ o.to = "archived" /\ report_job[o.key].status = "failed"
                => report_job[o.key].category = "archive_outcome_unknown"

NoteOK(o) == o.key \in JobKeys /\ noted[o.key] = 0

ReadOK(o) ==
    /\ o.call = "create" => CreateOK(o)
    /\ o.call = "transition" => TransitionOK(o)
    /\ o.call = "note" => NoteOK(o)

SelectedOK == \A t \in Threads : op[t] # None => ReadOK(op[t])

\* The rebuild moves the retained rows aside, into the new table and away from the old one.
FilesOK ==
    /\ disk.aside = None
    /\ disk.live \in [shape : {"single", "tenant"}, rows : {Retained}]
    /\ phase = "migrating" =>
          \/ image = disk /\ disk.live.shape = "single"
          \/ image = [live |-> None, aside |-> Retained]
          \/ image = [live |-> [shape |-> "tenant", rows |-> {}], aside |-> Retained]
          \/ image = [live |-> [shape |-> "tenant", rows |-> Retained], aside |-> Retained]

SqliteInv ==
    /\ TablesOK /\ LockOK /\ UnusedKeyOK /\ QueueOK /\ SourcesOK /\ SelectedOK
    /\ OneLiveReplacement /\ FilesOK /\ EventStoredOnce

---------------------------------------------------------------------------
(* Lineages *)

\* A lineage holds its job, and a job outside of every replay is a lineage of its own.
LEMMA LineageOfOne ==
    /\ \A s \in JobKeys : s \in replay_lineage(s)
    /\ \A s, m \in JobKeys : m \in replay_lineage(s) /\ (Alone(s) \/ Alone(m)) => m = s
  <1>1. \A s \in JobKeys : s \in replay_lineage(s)
    BY DEF replay_lineage
  <1>2. ASSUME NEW s \in JobKeys, NEW m \in JobKeys, m \in replay_lineage(s), Alone(s)
        PROVE  m = s
    <2>1. closed_under_replay({s}) /\ {s} \in SUBSET JobKeys
      BY <1>2 DEF closed_under_replay, Alone
    <2> QED  BY <1>2, <2>1 DEF replay_lineage
  <1>3. ASSUME NEW s \in JobKeys, NEW m \in JobKeys, m \in replay_lineage(s), Alone(m), m # s
        PROVE  FALSE
    <2> DEFINE S == JobKeys \ {m}
    <2>1. closed_under_replay(S) /\ S \in SUBSET JobKeys /\ s \in S
      BY <1>3 DEF closed_under_replay, Alone
    <2> QED  BY <1>3, <2>1 DEF replay_lineage
  <1> QED  BY <1>1, <1>2, <1>3

\* Two members of one lineage are members of each other's.
LEMMA LineageShared ==
    ASSUME NEW s \in JobKeys, NEW m \in replay_lineage(s), NEW n \in replay_lineage(s)
    PROVE  m \in replay_lineage(n)
  <1>1. SUFFICES ASSUME NEW S \in SUBSET JobKeys, n \in S, closed_under_replay(S), m \notin S
                 PROVE  FALSE
    BY DEF replay_lineage
  <1>2. CASE s \in S
    BY <1>1, <1>2 DEF replay_lineage
  <1>3. CASE s \notin S
    <2> DEFINE T == JobKeys \ S
    <2>1. closed_under_replay(T) /\ T \in SUBSET JobKeys /\ s \in T
      BY <1>1, <1>3 DEF closed_under_replay
    <2>2. n \in T
      BY <2>1 DEF replay_lineage
    <2> QED  BY <1>1, <2>2
  <1> QED  BY <1>2, <1>3

\* Where the replays stay the same, so do the lineages.
LEMMA LineageKept ==
    ASSUME \A a, b \in JobKeys : replays(a, b)' <=> replays(a, b)
    PROVE  /\ \A s \in JobKeys : replay_lineage(s)' = replay_lineage(s)
           /\ \A s \in JobKeys : replayed(s)' <=> replayed(s)
           /\ \A s \in JobKeys : Alone(s)' <=> Alone(s)
  <1>1. \A S \in SUBSET JobKeys : closed_under_replay(S)' <=> closed_under_replay(S)
    BY DEF closed_under_replay
  <1> QED  BY <1>1 DEF replay_lineage, replayed, Alone

\* A replay adds the derived job to the lineage of its source and joins no others.
LEMMA LineageExtended ==
    ASSUME NEW s \in JobKeys, NEW k \in JobKeys, Alone(k), s # k,
           \A a, b \in JobKeys : replays(a, b)' <=> (replays(a, b) \/ (a = s /\ b = k))
    PROVE  /\ \A d, e \in JobKeys \ {k} : e \in replay_lineage(d)' => e \in replay_lineage(d)
           /\ \A d \in JobKeys \ {k} : k \in replay_lineage(d)' => s \in replay_lineage(d)
           /\ \A e \in JobKeys \ {k} : e \in replay_lineage(k)' => e \in replay_lineage(s)
  <1>1. ASSUME NEW S \in SUBSET JobKeys, closed_under_replay(S), s \in S
        PROVE  closed_under_replay(S \cup {k})'
    BY <1>1 DEF closed_under_replay, Alone
  <1>2. ASSUME NEW S \in SUBSET JobKeys, closed_under_replay(S), s \notin S
        PROVE  closed_under_replay(S \ {k})'
    BY <1>2 DEF closed_under_replay, Alone
  <1>3. ASSUME NEW d \in JobKeys \ {k}, NEW e \in JobKeys \ {k}, e \in replay_lineage(d)'
        PROVE  e \in replay_lineage(d)
    <2>1. SUFFICES ASSUME NEW S \in SUBSET JobKeys, d \in S, closed_under_replay(S)
                   PROVE  e \in S
      BY DEF replay_lineage
    <2> DEFINE T == IF s \in S THEN S \cup {k} ELSE S \ {k}
    <2>2. closed_under_replay(T)' /\ T \in SUBSET JobKeys /\ d \in T
      BY <1>1, <1>2, <2>1
    <2>3. e \in T
      BY <1>3, <2>2 DEF replay_lineage
    <2> QED  BY <2>3
  <1>4. ASSUME NEW d \in JobKeys \ {k}, k \in replay_lineage(d)'
        PROVE  s \in replay_lineage(d)
    <2>1. SUFFICES ASSUME NEW S \in SUBSET JobKeys, d \in S, closed_under_replay(S), s \notin S
                   PROVE  FALSE
      BY DEF replay_lineage
    <2> DEFINE T == S \ {k}
    <2>2. closed_under_replay(T)' /\ T \in SUBSET JobKeys /\ d \in T
      BY <1>2, <2>1
    <2> QED  BY <1>4, <2>2 DEF replay_lineage
  <1>5. ASSUME NEW e \in JobKeys \ {k}, e \in replay_lineage(k)'
        PROVE  e \in replay_lineage(s)
    <2>1. SUFFICES ASSUME NEW S \in SUBSET JobKeys, s \in S, closed_under_replay(S)
                   PROVE  e \in S
      BY DEF replay_lineage
    <2> DEFINE T == S \cup {k}
    <2>2. closed_under_replay(T)' /\ T \in SUBSET JobKeys /\ k \in T
      BY <1>1, <2>1
    <2>3. e \in T
      BY <1>5, <2>2 DEF replay_lineage
    <2> QED  BY <2>3
  <1> QED  BY <1>3, <1>4, <1>5

\* A job the queue settles was submitted, and under way: it takes part in no replay.
Settled(k) ==
    /\ k \in Submitted /\ report_request[k] # None
    /\ report_job[k].status \notin TerminalStatuses
    /\ report_job'[k].status = "failed"
    /\ report_job'[k].category # "archive_outcome_unknown"

JobsKeptOrSettled == \A k \in JobKeys : report_job'[k] = report_job[k] \/ Settled(k)

LEMMA SettledIsAlone ==
    ASSUME SqliteInv, NEW k \in JobKeys, Settled(k)
    PROVE  Alone(k)
  BY DEF SqliteInv, QueueOK, SourcesOK, Settled, Alone

LEMMA QueuedIsSubmitted ==
    ASSUME SqliteInv
    PROVE  \A k \in JobKeys : work[k] # None => k \in Submitted /\ report_request[k] # None
  BY DEF SqliteInv, QueueOK, UnusedKeyOK

\* Where no replay is added, and whoever becomes live takes part in none, replays of a
\* lineage still do not compete.
LEMMA NoNewRival ==
    ASSUME OneLiveReplacement,
           \A a, b \in JobKeys : replays(a, b)' <=> replays(a, b),
           \A m \in JobKeys : live_member(m)' /\ ~replayed(m)' => live_member(m) \/ Alone(m)
    PROVE  OneLiveReplacement'
  <1>1. SUFFICES ASSUME NEW s \in JobKeys, NEW m \in replay_lineage(s)', NEW n \in replay_lineage(s)',
                        live_member(m)', live_member(n)', ~replayed(m)', ~replayed(n)'
                 PROVE  m = n
    BY DEF OneLiveReplacement
  <1>2. /\ m \in replay_lineage(s) /\ n \in replay_lineage(s) /\ m \in JobKeys /\ n \in JobKeys
        /\ ~replayed(m) /\ ~replayed(n)
    BY <1>1, LineageKept DEF replay_lineage
  <1>3. CASE live_member(m) /\ live_member(n)
    BY <1>2, <1>3 DEF OneLiveReplacement
  <1>4. CASE Alone(m) \/ Alone(n)
    BY <1>2, <1>4, LineageShared, LineageOfOne
  <1> QED  BY <1>1, <1>2, <1>3, <1>4

\* A guard of a replay that was read under the lock still holds when the queue has settled
\* jobs meanwhile.
LEMMA AdmissionKept ==
    ASSUME SqliteInv, JobsKeptOrSettled, NEW s \in JobKeys, replay_admitted(s),
           \A a, b \in JobKeys : replays(a, b)' <=> replays(a, b)
    PROVE  replay_admitted(s)'
  <1>1. report_job'[s] = report_job[s]
    BY DEF JobsKeptOrSettled, Settled, replay_admitted, TerminalStatuses
  <1>2. ASSUME NEW m \in replay_lineage(s)', m # s, live_member(m)'
        PROVE  FALSE
    <2>1. m \in replay_lineage(s) /\ m \in JobKeys /\ (replayed(m)' <=> replayed(m))
      BY <1>2, LineageKept DEF replay_lineage
    <2>2. report_job'[m] = report_job[m]
      BY <1>2, <2>1 DEF JobsKeptOrSettled, Settled, live_member
    <2>3. live_member(m)
      BY <1>2, <2>1, <2>2 DEF live_member
    <2> QED  BY <1>2, <2>1, <2>3 DEF replay_admitted
  <1> QED  BY <1>1, <1>2 DEF replay_admitted

LEMMA ReadKept ==
    ASSUME SqliteInv, JobsKeptOrSettled, UNCHANGED <<report_request, noted>>,
           \A a, b \in JobKeys : replays(a, b)' <=> replays(a, b),
           NEW o, ReadOK(o)
    PROVE  ReadOK(o)'
  <1>1. ASSUME o.call = "create"
        PROVE  CreateOK(o)'
    BY <1>1, AdmissionKept DEF ReadOK, CreateOK
  <1>2. ASSUME o.call = "transition"
        PROVE  TransitionOK(o)'
    <2>1. TransitionOK(o) /\ o.key \in JobKeys
      BY <1>2 DEF ReadOK, TransitionOK
    <2>2. CASE Alone(o.key)
      BY <2>1, <2>2, LineageKept DEF TransitionOK
    <2>3. CASE Settled(o.key)
      BY <2>1, <2>3, LineageKept, SettledIsAlone DEF TransitionOK
    <2>4. CASE report_job'[o.key] = report_job[o.key] /\ ~Alone(o.key)
      BY <2>1, <2>4 DEF TransitionOK
    <2> QED  BY <2>1, <2>2, <2>3, <2>4 DEF JobsKeptOrSettled
  <1>3. ASSUME o.call = "note"
        PROVE  NoteOK(o)'
    BY <1>3 DEF ReadOK, NoteOK
  <1> QED  BY <1>1, <1>2, <1>3 DEF ReadOK

\* A step that inserts no job, and changes the job rows only where the queue settles them,
\* keeps the invariant once what the threads then hold as read is right.
LEMMA QuietStep ==
    ASSUME SqliteInv, JobsKeptOrSettled, UNCHANGED report_request,
           \A a, b \in JobKeys : replays(a, b)' <=> replays(a, b),
           DOMAIN report_job' = JobKeys, DOMAIN work' = JobKeys,
           \A k \in JobKeys : work'[k] # None => k \in Submitted /\ report_request[k] # None,
           DOMAIN holding' = Threads,
           \A t \in Threads : holding'[t] # None =>
               holding'[t].key \in Submitted /\ report_request[holding'[t].key] # None,
           DOMAIN op' = Threads,
           \A t \in Threads : op'[t] # None =>
               /\ lock' = t
               /\ (op'[t] = op[t] /\ op[t] # None /\ UNCHANGED noted) \/ ReadOK(op[t])',
           noted' \in [JobKeys -> Nat], EventStoredOnce', FilesOK'
    PROVE  SqliteInv'
  <1>1. TablesOK' /\ LockOK'
    BY DEF SqliteInv, TablesOK, LockOK
  <1>2. UnusedKeyOK'
    BY LineageKept DEF SqliteInv, UnusedKeyOK, JobsKeptOrSettled, Settled
  <1>3. QueueOK'
    BY DEF SqliteInv, QueueOK
  <1>4. SourcesOK'
    BY DEF SqliteInv, SourcesOK, JobsKeptOrSettled, Settled, TerminalStatuses
  <1>5. SelectedOK'
    <2>1. SUFFICES ASSUME NEW t \in Threads, op'[t] # None
                   PROVE  ReadOK(op[t])'
      BY DEF SelectedOK
    <2>2. CASE op'[t] = op[t] /\ op[t] # None /\ UNCHANGED noted
      <3>1. ReadOK(op[t])
        BY <2>2 DEF SqliteInv, SelectedOK
      <3>2. PICK r : r = op[t]
        OBVIOUS
      <3>3. ReadOK(r)'
        BY <2>2, <3>1, <3>2, ReadKept
      <3> QED  BY <2>2, <3>2, <3>3
    <2> QED  BY <2>1, <2>2
  <1>6. OneLiveReplacement'
    <2>1. ASSUME NEW m \in JobKeys, live_member(m)', ~replayed(m)'
          PROVE  live_member(m) \/ Alone(m)
      BY <2>1, LineageKept, SettledIsAlone DEF JobsKeptOrSettled, live_member
    <2> QED  BY <2>1, NoNewRival DEF SqliteInv
  <1> QED  BY <1>1, <1>2, <1>3, <1>4, <1>5, <1>6 DEF SqliteInv

---------------------------------------------------------------------------
(* Opening the database *)

LEMMA FilesSteps ==
    ASSUME SqliteInv, ensure_schema \/ rebuild_step \/ Crash
    PROVE  FilesOK'
  <1>1. CASE ensure_schema
    <2>1. disk.live # None /\ disk' = disk /\ image' = disk
      BY <1>1, SqliteLedgerAssumption DEF SqliteInv, FilesOK, ensure_schema
    <2> QED  BY <1>1, <2>1 DEF SqliteInv, FilesOK, ensure_schema
  <1>2. CASE rebuild_step
    <2> USE SqliteLedgerAssumption DEF SqliteInv, FilesOK, rebuild_step, rebuilt_next
    <2>1. CASE image = disk /\ disk.live.shape = "single"
      <3>1. image' = [live |-> None, aside |-> Retained]
        BY <1>2, <2>1
      <3> QED  BY <1>2, <3>1
    <2>2. CASE image = [live |-> None, aside |-> Retained]
      <3>1. image' = [live |-> [shape |-> "tenant", rows |-> {}], aside |-> Retained]
        BY <1>2, <2>2
      <3> QED  BY <1>2, <3>1
    <2>3. CASE image = [live |-> [shape |-> "tenant", rows |-> {}], aside |-> Retained] /\ Retained # {}
      <3>1. image' = [live |-> [shape |-> "tenant", rows |-> Retained], aside |-> Retained]
        BY <1>2, <2>3
      <3> QED  BY <1>2, <3>1
    <2>4. CASE image = [live |-> [shape |-> "tenant", rows |-> Retained], aside |-> Retained]
      <3>1. image' = [live |-> [shape |-> "tenant", rows |-> Retained], aside |-> None]
        BY <1>2, <2>4
      <3> QED  BY <1>2, <3>1
    <2> QED  BY <1>2, <2>1, <2>2, <2>3, <2>4
  <1>3. CASE Crash
    BY <1>3 DEF SqliteInv, FilesOK, Crash
  <1> QED  BY <1>1, <1>2, <1>3

LEMMA OpeningKeepsInv ==
    ASSUME SqliteInv, ensure_schema \/ rebuild_step \/ Crash
    PROVE  SqliteInv'
  <1>1. UNCHANGED tables
    BY DEF ensure_schema, rebuild_step, Crash
  <1>2. /\ DOMAIN op' = Threads /\ DOMAIN holding' = Threads
        /\ \A t \in Threads : op'[t] # None => op'[t] = op[t] /\ lock' = lock
        /\ \A t \in Threads : holding'[t] # None => holding'[t] = holding[t]
    BY DEF SqliteInv, TablesOK, ensure_schema, rebuild_step, Crash, threads
  <1>3. /\ JobsKeptOrSettled /\ UNCHANGED <<report_request, noted>>
        /\ \A a, b \in JobKeys : replays(a, b)' <=> replays(a, b)
        /\ EventStoredOnce'
    BY <1>1 DEF tables, JobsKeptOrSettled, replays, SqliteInv, EventStoredOnce
  <1>4. \A t \in Threads : op'[t] # None =>
            lock' = t /\ op'[t] = op[t] /\ op[t] # None
    BY <1>2 DEF SqliteInv, LockOK
  <1>5. \A t \in Threads : holding'[t] # None =>
            holding'[t].key \in Submitted /\ report_request[holding'[t].key] # None
    BY <1>2 DEF SqliteInv, QueueOK
  <1>6. /\ DOMAIN report_job' = JobKeys /\ DOMAIN work' = JobKeys
        /\ \A k \in JobKeys : work'[k] # None => k \in Submitted /\ report_request[k] # None
        /\ noted' \in [JobKeys -> Nat]
    BY <1>1, QueuedIsSubmitted DEF tables, SqliteInv, TablesOK
  <1> QED  BY <1>2, <1>3, <1>4, <1>5, <1>6, FilesSteps, QuietStep

---------------------------------------------------------------------------
(* Calls that read *)

\* Nobody holds anything as read while the lock is free.
LEMMA SelectKeepsInv ==
    ASSUME SqliteInv, NEW t \in Threads, lock = None, lock' = t,
           op' = [op EXCEPT ![t] = op'[t]], UNCHANGED <<files, tables, holding, leases>>,
           ReadOK(op[t])'
    PROVE  SqliteInv'
  <1>1. \A u \in Threads : op[u] = None
    BY SqliteLedgerAssumption DEF SqliteInv, LockOK
  <1>2. \A u \in Threads : op'[u] # None => u = t
    BY <1>1 DEF SqliteInv, TablesOK
  <1>3. /\ JobsKeptOrSettled /\ UNCHANGED <<report_request, noted>>
        /\ \A a, b \in JobKeys : replays(a, b)' <=> replays(a, b)
        /\ EventStoredOnce' /\ FilesOK'
    BY DEF tables, files, JobsKeptOrSettled, replays, SqliteInv, EventStoredOnce, FilesOK
  <1>4. /\ DOMAIN report_job' = JobKeys /\ DOMAIN work' = JobKeys /\ DOMAIN op' = Threads
        /\ DOMAIN holding' = Threads /\ noted' \in [JobKeys -> Nat]
        /\ \A k \in JobKeys : work'[k] # None => k \in Submitted /\ report_request[k] # None
        /\ \A u \in Threads : holding'[u] # None =>
               holding'[u].key \in Submitted /\ report_request[holding'[u].key] # None
    BY QueuedIsSubmitted DEF tables, SqliteInv, TablesOK, QueueOK
  <1>5. \A u \in Threads : op'[u] # None => lock' = u /\ ReadOK(op[u])'
    BY <1>2
  <1> QED  BY <1>3, <1>4, <1>5, QuietStep

\* _transition_job reads the row it will update.
LEMMA TransitionRead ==
    ASSUME SqliteInv, NEW t \in Threads, NEW k \in JobKeys, NEW to \in DOMAIN AllowedFrom,
           NEW category, NEW retry, NEW document, _transition_job(t, k, to, category, retry, document),
           to = "archived" /\ report_job[k].status = "failed"
               => report_job[k].category = "archive_outcome_unknown"
    PROVE  SqliteInv'
  <1>1. op' = [op EXCEPT ![t] = op'[t]] /\ op'[t] = [call |-> "transition", key |-> k, to |-> to,
            category |-> category, retry |-> retry, document |-> document]
    BY DEF _transition_job, select, SqliteInv, TablesOK
  <1>2. report_request[k] # None
    BY DEF _transition_job, SqliteInv, UnusedKeyOK
  <1>3. TransitionOK(op[t])'
    BY <1>1, <1>2 DEF TransitionOK, _transition_job, select, tables
  <1>4. ReadOK(op[t])'
    BY <1>1, <1>3 DEF ReadOK
  <1> QED  BY <1>1, <1>4, SelectKeepsInv DEF _transition_job, select

LEMMA MovesKeepInv ==
    ASSUME SqliteInv, NEW t \in Threads, NEW k \in JobKeys,
           \/ mark_collecting_data(t, k) \/ mark_data_ready(t, k) \/ mark_rendering(t, k)
           \/ mark_completed(t, k) \/ mark_archiving(t, k) \/ mark_archived(t, k)
           \/ mark_failed(t, k) \/ cancel_job(t, k)
    PROVE  SqliteInv'
  <1>1. \A to \in {"collecting_data", "data_ready", "rendering", "completed", "archiving", "archived",
                   "failed", "cancelled"} : to \in DOMAIN AllowedFrom
    BY DEF AllowedFrom
  <1>2. CASE mark_archived(t, k)
    BY <1>1, <1>2, TransitionRead DEF mark_archived, _transition_job
  <1>3. CASE mark_failed(t, k)
    BY <1>1, <1>3, TransitionRead DEF mark_failed
  <1>4. CASE \/ mark_collecting_data(t, k) \/ mark_data_ready(t, k) \/ mark_rendering(t, k)
             \/ mark_completed(t, k) \/ mark_archiving(t, k) \/ cancel_job(t, k)
    BY <1>1, <1>4, TransitionRead DEF mark_collecting_data, mark_data_ready, mark_rendering,
        mark_completed, mark_archiving, cancel_job
  <1> QED  BY <1>2, <1>3, <1>4

\* _create_report_job reads the request under the key and, for a replay, the guards.
LEMMA CreateRead ==
    ASSUME SqliteInv, NEW t \in Threads, NEW k \in JobKeys, NEW content \in Contents,
           NEW enqueue \in BOOLEAN, NEW source,
           _create_report_job(t, k, content, enqueue, source),
           enqueue => k \in Submitted,
           source # None => source \in JobKeys /\ k \notin Submitted
    PROVE  SqliteInv'
  <1>1. /\ op' = [op EXCEPT ![t] = op'[t]]
        /\ op'[t].call = "create" /\ op'[t].key = k /\ op'[t].content = content
        /\ op'[t].enqueue = enqueue /\ op'[t].source = source
        /\ op'[t].found = (report_request[k] # None)
    BY DEF _create_report_job, select, SqliteInv, TablesOK
  <1>2. UNCHANGED tables
    BY DEF _create_report_job, select
  <1>3. ASSUME report_request[k] = None, source # None
        PROVE  replay_admitted(source)'
    <2>1. replay_admitted(source) /\ source \in JobKeys
      BY <1>3 DEF _create_report_job
    <2>2. JobsKeptOrSettled /\ \A a, b \in JobKeys : replays(a, b)' <=> replays(a, b)
      BY <1>2 DEF tables, JobsKeptOrSettled, replays
    <2> QED  BY <2>1, <2>2, AdmissionKept
  <1>4. CreateOK(op[t])'
    BY <1>1, <1>2, <1>3 DEF CreateOK, tables
  <1>5. ReadOK(op[t])'
    BY <1>1, <1>4 DEF ReadOK
  <1> QED  BY <1>1, <1>5, SelectKeepsInv DEF _create_report_job, select

LEMMA CreatesKeepInv ==
    ASSUME SqliteInv, NEW t \in Threads, NEW s \in JobKeys, NEW k \in JobKeys, NEW c \in Contents,
           submit_portfolio_review_job(t, k, c) \/ create_replay_derived_job(t, s, k, c)
    PROVE  SqliteInv'
  BY CreateRead DEF submit_portfolio_review_job, create_replay_derived_job

\* The other calls read nothing that their writes rely on, save the event's key.
LEMMA OtherReadsKeepInv ==
    ASSUME SqliteInv, NEW t \in Threads,
           \/ \E s, k \in JobKeys : upsert_job_relationship(t, s, k)
           \/ \E k \in JobKeys : append_job_event(t, k)
           \/ \E a \in RerenderKeys : RerenderCalls(t, a)
    PROVE  SqliteInv'
  <1>1. CASE \E s, k \in JobKeys : upsert_job_relationship(t, s, k)
    <2>1. op' = [op EXCEPT ![t] = op'[t]] /\ op'[t].call = "relate"
      BY <1>1 DEF upsert_job_relationship, select, SqliteInv, TablesOK
    <2> QED  BY <1>1, <2>1, SelectKeepsInv DEF upsert_job_relationship, select, ReadOK
  <1>2. CASE \E k \in JobKeys : append_job_event(t, k)
    <2>1. PICK k \in JobKeys : append_job_event(t, k)
      BY <1>2
    <2>2. op' = [op EXCEPT ![t] = op'[t]] /\ op'[t] = [call |-> "note", key |-> k]
      BY <2>1 DEF append_job_event, select, SqliteInv, TablesOK
    <2>3. ReadOK(op[t])'
      BY <2>1, <2>2 DEF append_job_event, select, tables, ReadOK, NoteOK
    <2> QED  BY <2>1, <2>2, <2>3, SelectKeepsInv DEF append_job_event, select
  <1>3. CASE \E a \in RerenderKeys : RerenderCalls(t, a)
    <2>1. PICK a \in RerenderKeys : RerenderCalls(t, a)
      BY <1>3
    <2>2. CASE create_rerender_attempt(t, a) \/ \E from \in RerenderKeys : record_adopted_rerender_outcome(t, a, from)
      <3>1. op' = [op EXCEPT ![t] = op'[t]] /\ op'[t].call = "attempt"
        BY <2>2 DEF create_rerender_attempt, record_adopted_rerender_outcome, select, SqliteInv, TablesOK
      <3> QED  BY <2>2, <3>1, SelectKeepsInv
               DEF create_rerender_attempt, record_adopted_rerender_outcome, select, ReadOK
    <2>3. ASSUME NEW from, NEW to, NEW ambiguous, _update_rerender_attempt(t, a, from, to, ambiguous)
          PROVE  SqliteInv'
      <3>1. op' = [op EXCEPT ![t] = op'[t]] /\ op'[t].call = "outcome"
        BY <2>3 DEF _update_rerender_attempt, select, SqliteInv, TablesOK
      <3> QED  BY <2>3, <3>1, SelectKeepsInv DEF _update_rerender_attempt, select, ReadOK
    <2> QED  BY <2>1, <2>2, <2>3 DEF RerenderCalls, mark_rerender_rendered, mark_rerender_archiving,
                mark_rerender_archived, mark_rerender_failed
  <1> QED  BY <1>1, <1>2, <1>3

---------------------------------------------------------------------------
(* The queue *)

\* A step of the queue: it touches items of submitted jobs and settles jobs, and whoever
\* holds the lock does not notice.
LEMMA QueueStep ==
    ASSUME SqliteInv, JobsKeptOrSettled, DOMAIN report_job' = JobKeys, DOMAIN work' = JobKeys,
           \A k \in JobKeys : work'[k] # None => k \in Submitted /\ report_request[k] # None,
           DOMAIN holding' = Threads,
           \A t \in Threads : holding'[t] # None => holding'[t] = holding[t] \/
               (holding'[t].key \in Submitted /\ report_request[holding'[t].key] # None),
           UNCHANGED <<files, report_request, relationship, noted, lock, op>>
    PROVE  SqliteInv'
  <1>1. /\ \A a, b \in JobKeys : replays(a, b)' <=> replays(a, b)
        /\ EventStoredOnce' /\ FilesOK' /\ noted' \in [JobKeys -> Nat] /\ DOMAIN op' = Threads
    BY DEF replays, SqliteInv, TablesOK, EventStoredOnce, FilesOK, files
  <1>2. \A t \in Threads : op'[t] # None => lock' = t /\ op'[t] = op[t] /\ op[t] # None
    BY DEF SqliteInv, LockOK
  <1>3. \A t \in Threads : holding'[t] # None =>
               holding'[t].key \in Submitted /\ report_request[holding'[t].key] # None
    BY DEF SqliteInv, QueueOK
  <1> QED  BY <1>1, <1>2, <1>3, QuietStep

\* _recover_expired_work_items settles jobs of expired leases and nothing else.
LEMMA RecoverySettles ==
    ASSUME SqliteInv, report_job' = _recover_expired_work_items
    PROVE  /\ JobsKeptOrSettled /\ DOMAIN report_job' = JobKeys
           /\ DOMAIN recovered_work = JobKeys
           /\ \A k \in JobKeys : recovered_work[k] # None =>
                 k \in Submitted /\ report_request[k] # None
  <1>1. \A k \in JobKeys : work[k] # None => k \in Submitted /\ report_request[k] # None
    BY QueuedIsSubmitted
  <1>2. ASSUME NEW k \in JobKeys, k \in expired_work, recovered_work[k].status = "failed"
        PROVE  report_job'[k] = report_job[k] \/ Settled(k)
    <2>1. report_job'[k] = _terminalize_report_job_from_work(k, "timeout") /\ work[k] # None
      BY <1>2 DEF _recover_expired_work_items, expired_work
    <2> QED  BY <1>1, <2>1 DEF _terminalize_report_job_from_work, Settled, Row
  <1>3. JobsKeptOrSettled /\ DOMAIN report_job' = JobKeys
    BY <1>2 DEF JobsKeptOrSettled, _recover_expired_work_items
  <1>4. \A k \in JobKeys : recovered_work[k] # None => work[k] # None
    BY DEF recovered_work, expired_work
  <1> QED  BY <1>1, <1>3, <1>4 DEF recovered_work

LEMMA WorkKeepsInv ==
    ASSUME SqliteInv, NEW t \in Threads, WorkCalls(t)
    PROVE  SqliteInv'
  <1>1. ASSUME NEW k \in JobKeys, claim_work_items(t, k)
        PROVE  SqliteInv'
    <2>1. /\ report_job' = _recover_expired_work_items /\ recovered_work[k] # None
          /\ work' = [recovered_work EXCEPT ![k] = work'[k]]
          /\ holding' = [holding EXCEPT ![t] = [key |-> k, token |-> leases + 1]]
          /\ UNCHANGED <<files, report_request, relationship, noted, lock, op>>
      BY <1>1, RecoverySettles DEF claim_work_items
    <2>2. DOMAIN work' = JobKeys /\ \A j \in JobKeys : work'[j] # None => j \in Submitted /\ report_request[j] # None
      BY <2>1, RecoverySettles
    <2>3. /\ DOMAIN holding' = Threads
          /\ \A u \in Threads : holding'[u] # None => holding'[u] = holding[u] \/
                (holding'[u].key \in Submitted /\ report_request[holding'[u].key] # None)
      BY <2>1, RecoverySettles DEF SqliteInv, TablesOK
    <2> QED  BY <2>1, <2>2, <2>3, RecoverySettles, QueueStep
  <1>2. CASE claim_recovers_only(t)
    BY <1>2, RecoverySettles, QueueStep DEF claim_recovers_only, threads, SqliteInv, TablesOK
  <1>3. ASSUME lease_owned(t), settled(t), NEW k, k = holding[t].key,
               work' = [work EXCEPT ![k] = work'[k]],
               report_job' = report_job
                  \/ report_job' = [report_job EXCEPT ![k] = _terminalize_report_job_from_work(
                                                             k, "operator_intervention_required")]
        PROVE  SqliteInv'
    <2>1. k \in Submitted /\ k \in JobKeys /\ report_request[k] # None
      BY <1>3, SqliteLedgerAssumption DEF lease_owned, SqliteInv, QueueOK
    <2>2. JobsKeptOrSettled /\ DOMAIN report_job' = JobKeys
      BY <1>3, <2>1 DEF JobsKeptOrSettled, Settled, _terminalize_report_job_from_work, Row, SqliteInv, TablesOK
    <2>3. DOMAIN work' = JobKeys /\ DOMAIN holding' = Threads
      BY <1>3 DEF settled, SqliteInv, TablesOK
    <2>4. \A j \in JobKeys : work'[j] # None => j \in Submitted /\ report_request[j] # None
      BY <1>3, <2>1, QueuedIsSubmitted DEF SqliteInv, TablesOK
    <2>5. \A u \in Threads : holding'[u] # None => holding'[u] = holding[u]
      BY <1>3 DEF settled, SqliteInv, TablesOK
    <2> QED  BY <1>3, <2>2, <2>3, <2>4, <2>5, QueueStep DEF settled
  <1>4. CASE complete_work_item(t) \/ defer_work_item(t) \/ fail_work_item(t)
    <2>1. PICK k : k = holding[t].key
      OBVIOUS
    <2>2. work' = [work EXCEPT ![k] = work'[k]]
      BY <1>4, <2>1 DEF complete_work_item, defer_work_item, fail_work_item, SqliteInv, TablesOK
    <2> QED  BY <1>3, <1>4, <2>1, <2>2 DEF complete_work_item, defer_work_item, fail_work_item
  <1>5. CASE LeaseLost(t)
    BY <1>5, QueuedIsSubmitted, QueueStep
       DEF LeaseLost, tables, SqliteInv, TablesOK, JobsKeptOrSettled
  <1> QED  BY <1>1, <1>2, <1>4, <1>5 DEF WorkCalls

LEMMA ExpiryKeepsInv ==
    ASSUME SqliteInv, NEW k \in JobKeys, LeaseExpires(k)
    PROVE  SqliteInv'
  <1>1. /\ DOMAIN work' = JobKeys
        /\ \A j \in JobKeys : work'[j] # None => j \in Submitted /\ report_request[j] # None
    BY QueuedIsSubmitted DEF LeaseExpires, SqliteInv, TablesOK
  <1> QED  BY <1>1, QueueStep DEF LeaseExpires, threads, SqliteInv, TablesOK, JobsKeptOrSettled

---------------------------------------------------------------------------
(* Calls that write *)

\* Once a thread has written, nobody holds anything as read.
LEMMA WrittenFreesAll ==
    ASSUME SqliteInv, NEW t \in Threads, op[t] # None, written(t)
    PROVE  /\ LockOK' /\ SelectedOK' /\ \A u \in Threads : op'[u] = None
           /\ DOMAIN op' = Threads /\ FilesOK'
           /\ DOMAIN holding' = Threads /\ UNCHANGED holding
  <1>1. /\ op' = [op EXCEPT ![t] = None] /\ UNCHANGED holding
        /\ UNCHANGED <<service, phase, disk, image>>
    BY DEF written, files
  <1>2. \A u \in Threads : op'[u] = None
    BY <1>1 DEF SqliteInv, LockOK, TablesOK
  <1> QED  BY <1>1, <1>2 DEF LockOK, SelectedOK, SqliteInv, TablesOK, FilesOK

\* The UPDATE of _transition_job.
LEMMA UpdateKeepsInv ==
    ASSUME SqliteInv, NEW t \in Threads, update_report_job(t)
    PROVE  SqliteInv'
  <1> DEFINE o == op[t]
  <1>1. /\ op[t] # None /\ TransitionOK(op[t]) /\ o.key \in JobKeys /\ report_request[o.key] # None
        /\ UNCHANGED <<report_request, work, relationship, noted>> /\ written(t)
        /\ \A m \in JobKeys \ {o.key} : report_job'[m] = report_job[m]
        /\ report_job'[o.key].status = o.to
        /\ DOMAIN report_job' = JobKeys
    BY DEF update_report_job, called, SqliteInv, SelectedOK, ReadOK, TransitionOK, TablesOK, Row
  <1>2. \A a, b \in JobKeys : replays(a, b)' <=> replays(a, b)
    BY <1>1 DEF replays
  <1>3. TablesOK' /\ LockOK' /\ SelectedOK' /\ FilesOK' /\ EventStoredOnce' /\ UNCHANGED holding
    BY <1>1, WrittenFreesAll DEF SqliteInv, TablesOK, EventStoredOnce
  <1>4. UnusedKeyOK'
    BY <1>1, <1>2, LineageKept DEF SqliteInv, UnusedKeyOK
  <1>5. QueueOK'
    BY <1>1, <1>2, <1>3 DEF SqliteInv, QueueOK
  <1>6. \/ Alone(o.key)
        \/ /\ report_job[o.key] # None /\ report_job[o.key].status \in AllowedFrom[o.to]
           /\ o.to = "archived" /\ report_job[o.key].status = "failed"
                 => report_job[o.key].category = "archive_outcome_unknown"
    BY <1>1 DEF TransitionOK
  <1>7. /\ report_job[o.key].status \in AllowedFrom[o.to] /\ report_job[o.key].status \in TerminalStatuses
               => o.to \in {"archived", "cancelled"} /\ report_job[o.key].status = "failed"
        /\ o.to = "failed" /\ report_job[o.key].status \in AllowedFrom[o.to]
               => report_job[o.key].status \notin TerminalStatuses
    BY <1>1 DEF TransitionOK, AllowedFrom, TerminalStatuses
  <1>8. SourcesOK'
    <2>1. SUFFICES ASSUME NEW s \in JobKeys, NEW d \in JobKeys, replays(s, d)
                   PROVE  report_job'[s].status \in TerminalStatuses
      BY <1>2 DEF SourcesOK
    <2>2. report_job[s].status \in TerminalStatuses /\ ~Alone(s)
      BY <2>1 DEF SqliteInv, SourcesOK, Alone
    <2>3. CASE s = o.key
      BY <1>1, <1>6, <1>7, <2>2, <2>3 DEF TerminalStatuses
    <2> QED  BY <1>1, <2>2, <2>3
  <1>9. OneLiveReplacement'
    <2>1. ASSUME NEW m \in JobKeys, live_member(m)', ~replayed(m)'
          PROVE  live_member(m) \/ Alone(m)
      <3>1. CASE m # o.key
        BY <1>1, <1>2, <2>1, <3>1, LineageKept DEF live_member
      <3>2. CASE m = o.key /\ ~Alone(m)
        <4>1. ~replayed(m) /\ o.to # "cancelled"
          BY <1>1, <1>2, <2>1, <3>2, LineageKept DEF live_member
        <4>2. CASE report_job[m].status \in TerminalStatuses
          BY <1>6, <1>7, <3>2, <4>1, <4>2 DEF live_member
        <4>3. CASE report_job[m].status \notin TerminalStatuses
          BY <1>6, <3>2, <4>1, <4>3 DEF live_member, TerminalStatuses
        <4> QED  BY <4>2, <4>3
      <3> QED  BY <3>1, <3>2
    <2> QED  BY <1>2, <2>1, NoNewRival DEF SqliteInv
  <1> QED  BY <1>3, <1>4, <1>5, <1>8, <1>9 DEF SqliteInv

\* The INSERT of a new job: under a key nobody used, and for a replay with no rival.
LEMMA InsertNewKeepsInv ==
    ASSUME SqliteInv, NEW t \in Threads, insert_report_job(t), op[t] # None, CreateOK(op[t]),
           ~op[t].found, report_request[op[t].key] = None
    PROVE  SqliteInv'
  <1>1. PICK k \in JobKeys : k = op[t].key
    BY DEF CreateOK
  <1>2. PICK s : s = op[t].source
    OBVIOUS
  <1>3. /\ report_request' = [report_request EXCEPT ![k] = op[t].content] /\ op[t].content \in Contents
        /\ report_job' = [report_job EXCEPT ![k] = Row("accepted", "none", FALSE, FALSE)]
        /\ relationship' = IF s = None THEN relationship
                           ELSE relationship \cup {<<s, k, "failed_work_replay">>}
        /\ IF op[t].enqueue THEN _ensure_work_item(k, "accepted") ELSE UNCHANGED work
        /\ written(t) /\ UNCHANGED noted
    BY <1>1, <1>2 DEF insert_report_job, CreateOK
  <1>4. report_job[k] = None /\ work[k] = None /\ Alone(k)
    BY <1>1 DEF SqliteInv, UnusedKeyOK
  <1>5. s # None => s \in JobKeys /\ s # k /\ k \notin Submitted /\ replay_admitted(s)
    BY <1>1, <1>2, <1>4 DEF CreateOK, replay_admitted
  <1>6. \A a, b \in JobKeys : replays(a, b)' <=> (replays(a, b) \/ (s # None /\ a = s /\ b = k))
    BY <1>3 DEF replays
  <1>7. /\ report_request'[k] # None
        /\ \A m \in JobKeys \ {k} : report_request'[m] = report_request[m] /\ report_job'[m] = report_job[m]
                                    /\ work'[m] = work[m]
        /\ work'[k] # None => k \in Submitted
        /\ DOMAIN work' = JobKeys /\ DOMAIN report_job' = JobKeys
        /\ report_request' \in [JobKeys -> Contents \cup {None}]
    <2>1. /\ report_request'[k] # None
          /\ \A m \in JobKeys \ {k} : report_request'[m] = report_request[m] /\ report_job'[m] = report_job[m]
          /\ DOMAIN report_job' = JobKeys
          /\ report_request' \in [JobKeys -> Contents \cup {None}]
      BY <1>3, SqliteLedgerAssumption DEF SqliteInv, TablesOK
    <2>2. /\ \A m \in JobKeys \ {k} : work'[m] = work[m]
          /\ work'[k] # None => k \in Submitted
          /\ DOMAIN work' = JobKeys
      BY <1>1, <1>3, <1>4 DEF _ensure_work_item, SqliteInv, TablesOK, CreateOK
    <2> QED  BY <2>1, <2>2
  <1>8. TablesOK' /\ LockOK' /\ SelectedOK' /\ FilesOK' /\ EventStoredOnce' /\ UNCHANGED holding
    BY <1>3, <1>7, WrittenFreesAll DEF SqliteInv, TablesOK, EventStoredOnce
  <1>9. UnusedKeyOK'
    <2>1. SUFFICES ASSUME NEW m \in JobKeys, report_request'[m] = None
                   PROVE  report_job'[m] = None /\ work'[m] = None /\ Alone(m)'
      BY DEF UnusedKeyOK
    <2>2. m # k /\ report_job[m] = None /\ work[m] = None /\ Alone(m)
      BY <1>7, <2>1 DEF SqliteInv, UnusedKeyOK
    <2>3. m # s \/ s = None
      BY <1>5, <2>2 DEF replay_admitted
    <2> QED  BY <1>6, <1>7, <2>2, <2>3 DEF Alone
  <1>10. QueueOK'
    <2>1. \A u \in Threads : holding'[u] # None =>
              holding'[u].key \in Submitted /\ report_request'[holding'[u].key] # None
      BY <1>7, <1>8, SqliteLedgerAssumption DEF SqliteInv, QueueOK
    <2>2. \A a, b, d \in JobKeys : replays(a, d)' /\ replays(b, d)' => a = b
      BY <1>4, <1>6 DEF SqliteInv, QueueOK, Alone
    <2> QED  BY <1>5, <1>6, <1>7, <2>1, <2>2 DEF SqliteInv, QueueOK
  <1>11. SourcesOK'
    <2>1. SUFFICES ASSUME NEW a \in JobKeys, NEW b \in JobKeys, replays(a, b)'
                   PROVE  report_job'[a].status \in TerminalStatuses
      BY DEF SourcesOK
    <2>2. CASE replays(a, b)
      BY <1>4, <1>7, <2>2 DEF SqliteInv, SourcesOK, Alone
    <2>3. CASE s # None /\ a = s
      BY <1>5, <1>7, <2>3 DEF replay_admitted, TerminalStatuses
    <2> QED  BY <1>6, <2>1, <2>2, <2>3
  <1>12. OneLiveReplacement'
    <2>1. CASE s = None
      <3>1. ASSUME NEW m \in JobKeys, live_member(m)', ~replayed(m)'
            PROVE  live_member(m) \/ Alone(m)
        BY <1>4, <1>6, <1>7, <2>1, <3>1, LineageKept DEF live_member
      <3> QED  BY <1>6, <2>1, <3>1, NoNewRival DEF SqliteInv
    <2>2. CASE s # None
      <3>1. SUFFICES ASSUME NEW r \in JobKeys, NEW m \in replay_lineage(r)', NEW n \in replay_lineage(r)',
                            live_member(m)', live_member(n)', ~replayed(m)', ~replayed(n)', m # n
                     PROVE  FALSE
        BY DEF OneLiveReplacement
      <3>2. m \in JobKeys /\ n \in JobKeys
        BY <3>1 DEF replay_lineage
      <3>3. /\ \A d, e \in JobKeys \ {k} : e \in replay_lineage(d)' => e \in replay_lineage(d)
            /\ \A d \in JobKeys \ {k} : k \in replay_lineage(d)' => s \in replay_lineage(d)
            /\ \A e \in JobKeys \ {k} : e \in replay_lineage(k)' => e \in replay_lineage(s)
        BY <1>4, <1>5, <1>6, <2>2, LineageExtended
      <3>4. ASSUME NEW j \in JobKeys, j # k, ~replayed(j)', live_member(j)'
            PROVE  live_member(j) /\ ~replayed(j) /\ j # s
        BY <1>5, <1>6, <1>7, <2>2, <3>4 DEF live_member, replayed
      <3>5. \A j \in JobKeys : j # k /\ j \in replay_lineage(s) /\ ~replayed(j)' => ~live_member(j)'
        BY <1>5, <2>2, <3>4 DEF replay_admitted
      <3>6. CASE m # k /\ n # k
        <4>1. PICK q \in JobKeys : m \in replay_lineage(q) /\ n \in replay_lineage(q)
          BY <1>5, <2>2, <3>1, <3>2, <3>3, <3>6
        <4> QED  BY <3>1, <3>2, <3>4, <3>6, <4>1 DEF SqliteInv, OneLiveReplacement
      <3>7. ASSUME NEW j \in replay_lineage(r)', j # k, k \in replay_lineage(r)'
            PROVE  j \in replay_lineage(s) /\ j \in JobKeys
        <4>1. j \in JobKeys
          BY DEF replay_lineage
        <4>2. CASE r = k
          BY <3>3, <3>7, <4>1, <4>2
        <4>3. CASE r # k
          <5>1. j \in replay_lineage(r) /\ s \in replay_lineage(r)
            BY <3>3, <3>7, <4>1, <4>3
          <5> QED  BY <4>1, <5>1, LineageShared
        <4> QED  BY <4>1, <4>2, <4>3
      <3> QED  BY <3>1, <3>5, <3>6, <3>7
    <2> QED  BY <2>1, <2>2
  <1> QED  BY <1>8, <1>9, <1>10, <1>11, <1>12 DEF SqliteInv

\* A known key at most repairs its work item; a lost race for a key writes nothing.
LEMMA InsertKeepsInv ==
    ASSUME SqliteInv, NEW t \in Threads, insert_report_job(t)
    PROVE  SqliteInv'
  <1>1. op[t] # None /\ CreateOK(op[t]) /\ written(t) /\ UNCHANGED noted
    BY DEF insert_report_job, called, SqliteInv, SelectedOK, ReadOK
  <1>2. CASE ~op[t].found /\ report_request[op[t].key] = None
    BY <1>1, <1>2, InsertNewKeepsInv
  <1>3. CASE op[t].found \/ report_request[op[t].key] # None
    <2>1. UNCHANGED <<report_request, report_job, relationship>>
      BY <1>3 DEF insert_report_job
    <2>2. /\ DOMAIN work' = JobKeys
          /\ \A k \in JobKeys : work'[k] # None => k \in Submitted /\ report_request[k] # None
      BY <1>1, <1>3, QueuedIsSubmitted DEF insert_report_job, CreateOK, _ensure_work_item, SqliteInv, TablesOK
    <2>3. JobsKeptOrSettled /\ (\A a, b \in JobKeys : replays(a, b)' <=> replays(a, b)) /\ EventStoredOnce'
      BY <1>1, <2>1 DEF JobsKeptOrSettled, replays, EventStoredOnce, SqliteInv
    <2> QED  BY <1>1, <2>1, <2>2, <2>3, WrittenFreesAll, QuietStep DEF SqliteInv, TablesOK, QueueOK
  <1> QED  BY <1>2, <1>3

LEMMA OtherWritesKeepInv ==
    ASSUME SqliteInv, NEW t \in Threads,
           \/ insert_relationship(t) \/ _append_status_event(t)
           \/ insert_rerender_attempt(t) \/ update_rerender_attempt_row(t)
    PROVE  SqliteInv'
  <1>1. op[t] # None /\ written(t) /\ UNCHANGED <<report_request, report_job, work>>
    BY DEF insert_relationship, _append_status_event, insert_rerender_attempt,
           update_rerender_attempt_row, called
  <1>2. \A a, b \in JobKeys : replays(a, b)' <=> replays(a, b)
    BY DEF replays, insert_relationship, _append_status_event, insert_rerender_attempt,
           update_rerender_attempt_row
  <1>3. noted' \in [JobKeys -> Nat] /\ EventStoredOnce'
    <2>1. CASE _append_status_event(t)
      <3>1. NoteOK(op[t]) /\ noted' = [noted EXCEPT ![op[t].key] = @ + 1]
        BY <2>1 DEF _append_status_event, called, SqliteInv, SelectedOK, ReadOK
      <3> QED  BY <3>1 DEF NoteOK, SqliteInv, TablesOK, EventStoredOnce
    <2>2. CASE insert_relationship(t) \/ insert_rerender_attempt(t) \/ update_rerender_attempt_row(t)
      BY <2>2 DEF insert_relationship, insert_rerender_attempt, update_rerender_attempt_row,
                  SqliteInv, TablesOK, EventStoredOnce
    <2> QED  BY <2>1, <2>2
  <1>4. JobsKeptOrSettled
    BY <1>1 DEF JobsKeptOrSettled
  <1> QED  BY <1>1, <1>2, <1>3, <1>4, WrittenFreesAll, QueuedIsSubmitted, QuietStep
           DEF SqliteInv, TablesOK, QueueOK

---------------------------------------------------------------------------

LEMMA SqliteInitInv == SqliteInit => SqliteInv
  <1>1. SUFFICES ASSUME SqliteInit PROVE SqliteInv
    OBVIOUS
  <1>2. TablesOK /\ LockOK /\ UnusedKeyOK /\ QueueOK /\ SourcesOK /\ SelectedOK /\ EventStoredOnce
    BY <1>1 DEF SqliteInit, TablesOK, LockOK, UnusedKeyOK, QueueOK, SourcesOK, SelectedOK, EventStoredOnce,
                Alone, replays
  <1>3. FilesOK
    BY <1>1 DEF SqliteInit, FilesOK
  <1>4. OneLiveReplacement
    BY <1>1 DEF SqliteInit, OneLiveReplacement, live_member, replay_lineage
  <1> QED  BY <1>2, <1>3, <1>4 DEF SqliteInv

LEMMA SqliteNextInv == SqliteInv /\ [SqliteNext]_sqlite_vars => SqliteInv'
  <1>1. SUFFICES ASSUME SqliteInv, [SqliteNext]_sqlite_vars PROVE SqliteInv'
    OBVIOUS
  <1>2. CASE ensure_schema \/ rebuild_step \/ Crash
    BY <1>1, <1>2, OpeningKeepsInv
  <1>3. CASE \E k \in JobKeys : LeaseExpires(k)
    BY <1>1, <1>3, ExpiryKeepsInv
  <1>4. ASSUME NEW t \in Threads, NEW k \in JobKeys, JobCalls(t, k)
        PROVE  SqliteInv'
    BY <1>1, <1>4, MovesKeepInv, CreatesKeepInv DEF JobCalls
  <1>5. ASSUME NEW t \in Threads, ReplayCalls(t)
        PROVE  SqliteInv'
    BY <1>1, <1>5, CreatesKeepInv, OtherReadsKeepInv DEF ReplayCalls
  <1>6. ASSUME NEW t \in Threads, Writes(t)
        PROVE  SqliteInv'
    BY <1>1, <1>6, UpdateKeepsInv, InsertKeepsInv, OtherWritesKeepInv DEF Writes
  <1>7. CASE UNCHANGED sqlite_vars
    <2>1. UNCHANGED <<files, report_request, report_job, work, relationship, noted, lock, op, holding>>
      BY <1>7 DEF sqlite_vars, tables, threads
    <2> QED  BY <1>1, <2>1, QueuedIsSubmitted, QueueStep DEF SqliteInv, TablesOK, JobsKeptOrSettled
  <1> QED  BY <1>1, <1>2, <1>3, <1>4, <1>5, <1>6, <1>7, WorkKeepsInv, OtherReadsKeepInv DEF SqliteNext

\* The invariant of the SQLite job ledger (reporting_jobs/ledger.py) holds in every state,
\* whatever the threads call, the queue settles and the process loses in a crash.
THEOREM SqliteInvariance == SqliteSpec => []SqliteInv
  BY SqliteInitInv, SqliteNextInv, PTL DEF SqliteSpec

\* However the threads of a process interleave their calls, and the queue settles jobs without
\* the lock, the replays of a lineage never compete: at most one member that was not itself
\* replayed is live.
THEOREM ReplaysNeverCompete == SqliteSpec => []OneLiveReplacement
  <1>1. SqliteInv => OneLiveReplacement
    BY DEF SqliteInv
  <1> QED  BY <1>1, SqliteInvariance, PTL

\* A process that dies at any statement of the rebuild of report_request loses none of the
\* requests the old table held.
THEOREM RebuildLosesNothing == SqliteSpec => []RetainedRequestsSurvive
  <1>1. SqliteInv => RetainedRequestsSurvive
    BY DEF SqliteInv, FilesOK, RetainedRequestsSurvive
  <1> QED  BY <1>1, SqliteInvariance, PTL

\* Concurrent retries of one append_job_event store one event.
THEOREM RetriedEventIsOne == SqliteSpec => []EventStoredOnce
  <1>1. SqliteInv => EventStoredOnce
    BY DEF SqliteInv
  <1> QED  BY <1>1, SqliteInvariance, PTL

\* A job that was replayed is never under way again, although _transition_job writes by
\* report_job_id alone and the queue settles jobs without the lock.
THEOREM ReplayedJobStaysAtRest ==
    SqliteSpec => [](\A s \in JobKeys : replayed(s) => report_job[s].status \in TerminalStatuses)
  <1>1. SqliteInv => \A s \in JobKeys : replayed(s) => report_job[s].status \in TerminalStatuses
    BY DEF SqliteInv, SourcesOK, replayed
  <1> QED  BY <1>1, SqliteInvariance, PTL

\* A derived job has one source, so the walk of _create_report_job up to the root meets no fork
\* and the lineage it then walks down is the least closed set around the job.
THEOREM ReplaysFormTrees ==
    SqliteSpec => [](\A r, s, d \in JobKeys : replays(r, d) /\ replays(s, d) => r = s)
  <1>1. SqliteInv => \A r, s, d \in JobKeys : replays(r, d) /\ replays(s, d) => r = s
    BY DEF SqliteInv, QueueOK
  <1> QED  BY <1>1, SqliteInvariance, PTL
==============================================================================
