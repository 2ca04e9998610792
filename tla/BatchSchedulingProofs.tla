--------------------------- MODULE BatchSchedulingProofs ---------------------------
(***************************************************************************)
(* Proofs about batch scheduling, for any number of schedules, editors,    *)
(* passes, portfolios and days: the audit trail explains each definition,  *)
(* a stored schedule has one batch per as-of date, and every stored pack   *)
(* was described by an audited revision and owed by it.                    *)
(***************************************************************************)
EXTENDS BatchScheduling, FiniteSetTheorems, WellFoundedInduction, TLAPS

---------------------------------------------------------------------------
(* The inductive invariant *)

EditState == {Idle} \cup [kind : {"create"}, row : ScheduleRow]
                    \cup [kind : {"update"}, schedule : Stored, row : ScheduleRow]

SchedulingTypeOK ==
    /\ schedule \in [Stored -> ScheduleRow \cup {None}]
    /\ audit \in [Stored -> Seq(ScheduleRow)]
    /\ edit \in [Editors -> EditState]
    /\ pass = [p \in Passes |-> pass[p]]
    /\ today \in Nat

\* What a caller has read stays true of the row: a new row starts at revision 1, and a row that
\* was read is never deleted.
EditsOK ==
    \A e \in Editors :
        /\ edit[e].kind = "create" => edit[e].row.revision = 1
        /\ edit[e].kind = "update" => schedule[edit[e].schedule] # None

\* A revision owes a pack of these portfolios for the period of that frequency and as-of date.
Owes(row, portfolios, frequency, as_of) ==
    /\ row.enabled
    /\ row.scope = SchedulerScope
    /\ row.pack.portfolios = portfolios
    /\ SCHEDULE_CADENCE_FREQUENCY[row.cadence] = frequency
    /\ row.cadence_effective_on <= as_of

\* A definition in the hands of a pass: a configured one, or a stored one that some audited
\* revision of its schedule owed, whatever was edited since.
DefinitionOK(d) ==
    /\ d.stable \in BOOLEAN
    /\ ~d.stable => d.schedule_id \notin Stored
    /\ d.stable => /\ d.schedule_id \in Stored
                   /\ IsFiniteSet(d.portfolios)
                   /\ \E n \in 1..Len(audit[d.schedule_id]) :
                         Owes(audit[d.schedule_id][n], d.portfolios, d.frequency, d.as_of_date)

\* What a pass holds; a stored pack that got past its resolution is complete.
PassOK(r) ==
    /\ r.kind \in {"idle", "resolve", "recognise", "create"}
    /\ r.kind # "idle" => \A d \in r.todo : DefinitionOK(d)
    /\ r.kind \in {"recognise", "create"} =>
          /\ r = [kind |-> r.kind, todo |-> r.todo, definition |-> r.definition,
                  candidates |-> r.candidates]
          /\ DefinitionOK(r.definition)
          /\ r.definition.stable => {c.portfolio : c \in r.candidates} = r.definition.portfolios

\* The key of a stored cycle is its schedule and as-of date, and keys are unique.
BatchesOK ==
    /\ \A b \in batches : b.schedule_id \in Stored =>
            b.key = <<"stored", b.schedule_id, b.cycle.as_of_date>>
    /\ \A b, c \in batches : b.key = c.key => b = c

SchedulingInv ==
    /\ SchedulingTypeOK
    /\ AuditExplainsDefinition
    /\ EditsOK
    /\ \A p \in Passes : PassOK(pass[p])
    /\ BatchesOK
    /\ EveryPackWasOwed

---------------------------------------------------------------------------
(* The audit trail only grows *)

AuditKept ==
    \A s \in Stored : /\ Len(audit[s]) <= Len(audit'[s])
                      /\ \A n \in 1..Len(audit[s]) : audit'[s][n] = audit[s][n]

\* What some audited revision owed it owes for good.
LEMMA OwedForGood ==
    ASSUME SchedulingInv, SchedulingTypeOK', AuditKept, NEW s \in Stored,
           NEW portfolios, NEW frequency, NEW as_of,
           \E n \in 1..Len(audit[s]) : Owes(audit[s][n], portfolios, frequency, as_of)
    PROVE  \E n \in 1..Len(audit'[s]) : Owes(audit'[s][n], portfolios, frequency, as_of)
  <1>1. PICK n \in 1..Len(audit[s]) : Owes(audit[s][n], portfolios, frequency, as_of)
    OBVIOUS
  <1>2. Len(audit[s]) \in Nat /\ Len(audit'[s]) \in Nat
    BY DEF SchedulingInv, SchedulingTypeOK
  <1>3. n \in 1..Len(audit'[s]) /\ audit'[s][n] = audit[s][n]
    BY <1>2 DEF AuditKept
  <1>4. QED
    BY <1>1, <1>3

\* A definition in the hands of a pass is untouched by edits.
LEMMA DefinitionKept ==
    ASSUME SchedulingInv, SchedulingTypeOK', AuditKept, NEW d, DefinitionOK(d)
    PROVE  DefinitionOK(d)'
  <1>1. CASE d.stable
    <2>1. /\ d.schedule_id \in Stored /\ IsFiniteSet(d.portfolios)
          /\ \E n \in 1..Len(audit[d.schedule_id]) :
                Owes(audit[d.schedule_id][n], d.portfolios, d.frequency, d.as_of_date)
      BY <1>1 DEF DefinitionOK
    <2>2. \E n \in 1..Len(audit'[d.schedule_id]) :
                Owes(audit'[d.schedule_id][n], d.portfolios, d.frequency, d.as_of_date)
      BY <2>1, OwedForGood
    <2>3. QED
      BY <1>1, <2>1, <2>2 DEF DefinitionOK, Owes
  <1>2. CASE ~d.stable
    BY <1>2 DEF DefinitionOK
  <1>3. QED
    BY <1>1, <1>2

\* So is what a pass holds.
LEMMA PassKept ==
    ASSUME SchedulingInv, SchedulingTypeOK', AuditKept, NEW r, PassOK(r)
    PROVE  PassOK(r)'
  <1>1. r.kind # "idle" => \A d \in r.todo : DefinitionOK(d)'
    BY DefinitionKept DEF PassOK
  <1>2. r.kind \in {"recognise", "create"} => DefinitionOK(r.definition)'
    BY DefinitionKept DEF PassOK
  <1>3. QED
    BY <1>1, <1>2 DEF PassOK

\* And every pack that was made.
LEMMA PacksKept ==
    ASSUME SchedulingInv, SchedulingTypeOK', AuditKept, UNCHANGED batches
    PROVE  EveryPackWasOwed'
  <1>1. ASSUME NEW b \in batches, b.schedule_id \in Stored
        PROVE  \E n \in 1..Len(audit'[b.schedule_id]) :
                  Owes(audit'[b.schedule_id][n], b.portfolios, b.cycle.frequency,
                       b.cycle.as_of_date)
    <2>1. \E n \in 1..Len(audit[b.schedule_id]) :
              Owes(audit[b.schedule_id][n], b.portfolios, b.cycle.frequency,
                   b.cycle.as_of_date)
      BY <1>1 DEF SchedulingInv, EveryPackWasOwed, Owes
    <2>2. QED
      BY <1>1, <2>1, OwedForGood
  <1>2. QED
    BY <1>1 DEF EveryPackWasOwed, Owes

\* A step that only edits definitions.
LEMMA EditorStep ==
    ASSUME SchedulingInv, SchedulingTypeOK', AuditKept, UNCHANGED <<batches, pass>>,
           AuditExplainsDefinition', EditsOK'
    PROVE  SchedulingInv'
  <1>1. \A p \in Passes : PassOK(pass[p])'
    <2>1. ASSUME NEW p \in Passes
          PROVE  PassOK(pass[p])'
      <3>1. PICK r : r = pass[p] /\ PassOK(r)
        BY DEF SchedulingInv
      <3>2. PassOK(r)' /\ pass'[p] = r
        BY <3>1, PassKept
      <3>3. QED
        BY <3>2
    <2>2. QED
      BY <2>1
  <1>2. EveryPackWasOwed'
    BY PacksKept
  <1>3. BatchesOK'
    BY DEF SchedulingInv, BatchesOK
  <1>4. QED
    BY <1>1, <1>2, <1>3 DEF SchedulingInv

---------------------------------------------------------------------------
(* The definition API *)

\* A caller that reads: its plan is well formed and nothing is written.
LEMMA ReadStep ==
    ASSUME SchedulingInv, NEW e \in Editors, NEW plan \in EditState,
           edit' = [edit EXCEPT ![e] = plan],
           UNCHANGED <<schedule, audit, batches, pass, today>>,
           plan.kind = "create" => plan.row.revision = 1,
           plan.kind = "update" => schedule[plan.schedule] # None
    PROVE  SchedulingInv'
  <1>1. SchedulingTypeOK'
    BY DEF SchedulingInv, SchedulingTypeOK
  <1>2. AuditKept
    BY DEF SchedulingInv, SchedulingTypeOK, AuditKept
  <1>3. AuditExplainsDefinition'
    BY DEF SchedulingInv, AuditExplainsDefinition
  <1>4. \A f \in Editors : edit'[f] = IF f = e THEN plan ELSE edit[f]
    BY DEF SchedulingInv, SchedulingTypeOK
  <1>5. EditsOK'
    BY <1>4 DEF SchedulingInv, EditsOK
  <1>6. QED
    BY <1>1, <1>2, <1>3, <1>5, EditorStep

\* A new definition starts at revision 1, effective today.
LEMMA CreateStep ==
    ASSUME SchedulingInv, NEW e \in Editors, NEW scope \in Scopes, NEW cadence \in Cadences,
           NEW pack \in Packs, create_schedule(e, scope, cadence, pack)
    PROVE  SchedulingInv'
  <1> DEFINE row == [scope |-> scope, enabled |-> TRUE, cadence |-> cadence, pack |-> pack,
                     cadence_effective_on |-> today, revision |-> 1]
             plan == [kind |-> "create", row |-> row]
  <1>1. /\ edit' = [edit EXCEPT ![e] = plan]
        /\ UNCHANGED <<schedule, audit, batches, pass, today>>
    BY DEF create_schedule
  <1>2. row \in ScheduleRow /\ row.revision = 1
    BY DEF SchedulingInv, SchedulingTypeOK, ScheduleRow
  <1>3. plan \in EditState /\ plan.kind = "create" /\ plan.row.revision = 1
    BY <1>2 DEF EditState
  <1> HIDE DEF plan
  <1>4. QED
    BY <1>1, <1>3, ReadStep

\* An update is the next revision of the row that was read.
LEMMA UpdateStep ==
    ASSUME SchedulingInv, NEW e \in Editors, NEW s \in Stored, NEW scope \in Scopes,
           NEW enabled \in BOOLEAN, NEW cadence \in Cadences, NEW pack \in Packs,
           update_schedule(e, s, scope, enabled, cadence, pack)
    PROVE  SchedulingInv'
  <1> DEFINE row == updated_row(schedule[s], enabled, cadence, pack)
             plan == [kind |-> "update", schedule |-> s, row |-> row]
  <1>1. /\ edit' = [edit EXCEPT ![e] = plan] /\ schedule[s] # None
        /\ UNCHANGED <<schedule, audit, batches, pass, today>>
    BY DEF update_schedule
  <1>2. schedule[s] \in ScheduleRow /\ today \in Nat
    BY <1>1 DEF SchedulingInv, SchedulingTypeOK
  <1>3. schedule[s].revision + 1 \in Nat \ {0} /\ schedule[s].cadence_effective_on \in Nat
    BY <1>2 DEF ScheduleRow
  <1>4. row \in ScheduleRow
    BY <1>2, <1>3 DEF updated_row, ScheduleRow
  <1> HIDE DEF row
  <1>5. plan \in EditState /\ plan.kind = "update" /\ plan.schedule = s
    BY <1>4 DEF EditState
  <1> HIDE DEF plan
  <1>6. QED
    BY <1>1, <1>5, ReadStep

\* A caller that is done writes one row with its audit record, the next revision of the row.
LEMMA WriteStep ==
    ASSUME SchedulingInv, NEW e \in Editors, NEW s \in Stored, NEW row \in ScheduleRow,
           row.revision = Len(audit[s]) + 1,
           edit' = [edit EXCEPT ![e] = Idle],
           schedule' = [schedule EXCEPT ![s] = row],
           audit' = [audit EXCEPT ![s] = Append(audit[s], row)],
           UNCHANGED <<batches, pass, today>>
    PROVE  SchedulingInv'
  <1>1. /\ schedule \in [Stored -> ScheduleRow \cup {None}] /\ audit \in [Stored -> Seq(ScheduleRow)]
        /\ edit \in [Editors -> EditState]
    BY DEF SchedulingInv, SchedulingTypeOK
  <1>2. /\ Append(audit[s], row) \in Seq(ScheduleRow)
        /\ Len(Append(audit[s], row)) = Len(audit[s]) + 1
        /\ \A n \in 1..Len(audit[s]) : Append(audit[s], row)[n] = audit[s][n]
        /\ Append(audit[s], row)[Len(audit[s]) + 1] = row
        /\ Len(audit[s]) \in Nat
    BY <1>1
  <1>3. Idle \in EditState
    BY DEF EditState
  <1>4. SchedulingTypeOK'
    BY <1>1, <1>2, <1>3 DEF SchedulingInv, SchedulingTypeOK
  <1>5. \A t \in Stored : /\ schedule'[t] = IF t = s THEN row ELSE schedule[t]
                          /\ audit'[t] = IF t = s THEN Append(audit[s], row) ELSE audit[t]
    BY <1>1
  <1>6. AuditKept
    <2>1. ASSUME NEW t \in Stored
          PROVE  /\ Len(audit[t]) <= Len(audit'[t])
                 /\ \A n \in 1..Len(audit[t]) : audit'[t][n] = audit[t][n]
      <3>1. Len(audit[t]) \in Nat
        BY <1>1
      <3>2. CASE t = s
        BY <1>2, <1>5, <3>1, <3>2
      <3>3. CASE t # s
        BY <1>5, <3>1, <3>3
      <3>4. QED
        BY <3>2, <3>3
    <2>2. QED
      BY <2>1 DEF AuditKept
  <1>7. AuditExplainsDefinition'
    <2>1. ASSUME NEW t \in Stored
          PROVE  IF schedule'[t] = None THEN audit'[t] = <<>>
                 ELSE /\ Len(audit'[t]) = schedule'[t].revision
                      /\ audit'[t][Len(audit'[t])] = schedule'[t]
      <3>1. CASE t = s
        BY <1>2, <1>5, <3>1, SchedulingAssumption
      <3>2. CASE t # s
        BY <1>5, <3>2 DEF SchedulingInv, AuditExplainsDefinition
      <3>3. QED
        BY <3>1, <3>2
    <2>2. QED
      BY <2>1 DEF AuditExplainsDefinition
  <1>8. EditsOK'
    <2>1. ASSUME NEW f \in Editors
          PROVE  /\ edit'[f].kind = "create" => edit'[f].row.revision = 1
                 /\ edit'[f].kind = "update" => schedule'[edit'[f].schedule] # None
      <3>1. CASE f = e
        <4>1. edit'[f].kind = "idle"
          BY <1>1, <3>1 DEF Idle
        <4>2. QED
          BY <4>1
      <3>2. CASE f # e
        <4>1. edit'[f] = edit[f]
          BY <1>1, <3>2
        <4>2. edit[f].kind = "update" => edit[f].schedule \in Stored
          BY <1>1 DEF EditState, Idle
        <4>3. row # None
          BY SchedulingAssumption
        <4>4. QED
          BY <1>5, <4>1, <4>2, <4>3 DEF SchedulingInv, EditsOK
      <3>3. QED
        BY <3>1, <3>2
    <2>2. QED
      BY <2>1 DEF EditsOK
  <1>9. QED
    BY <1>4, <1>6, <1>7, <1>8, EditorStep

\* A save that is refused writes nothing.
LEMMA RefusedStep ==
    ASSUME SchedulingInv, NEW e \in Editors, edit' = [edit EXCEPT ![e] = Idle],
           UNCHANGED <<schedule, audit, batches, pass, today>>
    PROVE  SchedulingInv'
  <1>1. Idle \in EditState /\ Idle.kind = "idle"
    BY DEF EditState, Idle
  <1>2. PICK plan \in EditState : plan = Idle /\ plan.kind = "idle"
    BY <1>1
  <1>3. edit' = [edit EXCEPT ![e] = plan]
    BY <1>2
  <1>4. QED
    BY <1>2, <1>3, ReadStep

\* The first save of a definition.
LEMMA SaveCreatedStep ==
    ASSUME SchedulingInv, NEW e \in Editors, save_created_schedule(e)
    PROVE  SchedulingInv'
  <1>1. /\ edit[e].kind = "create" /\ edit' = [edit EXCEPT ![e] = Idle]
        /\ UNCHANGED <<batches, pass, today>>
    BY DEF save_created_schedule
  <1>2. edit[e] \in EditState
    BY DEF SchedulingInv, SchedulingTypeOK
  <1>3. edit[e].row \in ScheduleRow /\ edit[e].row.revision = 1
    BY <1>1, <1>2 DEF EditState, Idle, SchedulingInv, EditsOK
  <1>4. CASE UNCHANGED <<schedule, audit>>
    BY <1>1, <1>4, RefusedStep
  <1>5. ASSUME NEW s \in Stored, next_schedule(s),
               schedule' = [schedule EXCEPT ![s] = edit[e].row],
               audit' = [audit EXCEPT ![s] = <<edit[e].row>>]
        PROVE  SchedulingInv'
    <2>1. audit[s] = <<>>
      BY <1>5 DEF SchedulingInv, AuditExplainsDefinition, next_schedule
    <2>2. Len(audit[s]) = 0 /\ Append(audit[s], edit[e].row) = <<edit[e].row>>
      BY <2>1
    <2>3. /\ edit[e].row.revision = Len(audit[s]) + 1
          /\ audit' = [audit EXCEPT ![s] = Append(audit[s], edit[e].row)]
      BY <1>3, <1>5, <2>2
    <2>4. QED
      BY <1>1, <1>3, <1>5, <2>3, WriteStep
  <1>6. QED
    BY <1>4, <1>5 DEF save_created_schedule

\* A later save: the revision that was read must still be the one stored.
LEMMA SaveUpdatedStep ==
    ASSUME SchedulingInv, NEW e \in Editors, save_updated_schedule(e)
    PROVE  SchedulingInv'
  <1>1. /\ edit[e].kind = "update" /\ edit' = [edit EXCEPT ![e] = Idle]
        /\ UNCHANGED <<batches, pass, today>>
    BY DEF save_updated_schedule
  <1>2. edit[e] \in EditState
    BY DEF SchedulingInv, SchedulingTypeOK
  <1>3. PICK s \in Stored : s = edit[e].schedule
    BY <1>1, <1>2 DEF EditState, Idle
  <1>4. edit[e].row \in ScheduleRow /\ schedule[s] # None
    BY <1>1, <1>2, <1>3 DEF EditState, Idle, SchedulingInv, EditsOK
  <1>5. CASE UNCHANGED <<schedule, audit>>
    BY <1>1, <1>5, RefusedStep
  <1>6. CASE /\ revision_matches(s, edit[e].row)
             /\ schedule' = [schedule EXCEPT ![s] = edit[e].row]
             /\ audit' = [audit EXCEPT ![s] = Append(audit[s], edit[e].row)]
    <2>1. Len(audit[s]) = schedule[s].revision
      BY <1>4 DEF SchedulingInv, AuditExplainsDefinition
    <2>2. edit[e].row.revision \in Nat
      BY <1>4 DEF ScheduleRow
    <2>3. edit[e].row.revision = Len(audit[s]) + 1
      BY <1>6, <2>1, <2>2 DEF revision_matches
    <2>4. QED
      BY <1>1, <1>4, <1>6, <2>3, WriteStep
  <1>7. QED
    BY <1>3, <1>5, <1>6 DEF save_updated_schedule

---------------------------------------------------------------------------
(* Scheduler passes *)

\* Nothing but passes and batches moves.
LEMMA TrailSame ==
    ASSUME SchedulingInv, UNCHANGED <<schedule, audit, edit>>, today' \in Nat,
           pass' = [q \in Passes |-> pass'[q]]
    PROVE  SchedulingTypeOK' /\ AuditKept /\ AuditExplainsDefinition' /\ EditsOK'
  <1>1. SchedulingTypeOK'
    BY DEF SchedulingInv, SchedulingTypeOK
  <1>2. AuditKept
    BY DEF SchedulingInv, SchedulingTypeOK, AuditKept
  <1>3. AuditExplainsDefinition' /\ EditsOK'
    BY DEF SchedulingInv, AuditExplainsDefinition, EditsOK
  <1>4. QED
    BY <1>1, <1>2, <1>3

\* A step of one pass.
LEMMA RunStep ==
    ASSUME SchedulingInv, NEW p \in Passes, NEW r, PassOK(r),
           pass' = [pass EXCEPT ![p] = r],
           UNCHANGED <<schedule, audit, edit, today>>,
           BatchesOK', EveryPackWasOwed'
    PROVE  SchedulingInv'
  <1>1. pass = [q \in Passes |-> pass[q]] /\ today \in Nat
    BY DEF SchedulingInv, SchedulingTypeOK
  <1>2. /\ pass' = [q \in Passes |-> pass'[q]]
        /\ \A q \in Passes : pass'[q] = IF q = p THEN r ELSE pass[q]
    BY <1>1
  <1>3. SchedulingTypeOK' /\ AuditKept /\ AuditExplainsDefinition' /\ EditsOK'
    BY <1>1, <1>2, TrailSame
  <1>4. ASSUME NEW q \in Passes
        PROVE  PassOK(pass[q])'
    <2>1. PICK t : t = pass'[q] /\ PassOK(t)
      BY <1>2 DEF SchedulingInv
    <2>2. PassOK(t)'
      BY <1>3, <2>1, PassKept
    <2>3. QED
      BY <2>1, <2>2
  <1>5. QED
    BY <1>3, <1>4 DEF SchedulingInv

\* A step of one pass that creates nothing.
LEMMA QuietRunStep ==
    ASSUME SchedulingInv, NEW p \in Passes, NEW r, PassOK(r),
           pass' = [pass EXCEPT ![p] = r],
           UNCHANGED <<schedule, audit, batches, edit, today>>
    PROVE  SchedulingInv'
  <1>1. BatchesOK' /\ EveryPackWasOwed'
    BY DEF SchedulingInv, BatchesOK, EveryPackWasOwed
  <1>2. QED
    BY <1>1, RunStep

\* A pass that gave up holds nothing.
LEMMA IdlePass == PassOK(Idle)
  BY DEF PassOK, Idle

\* What is left of a pass.
LEMMA AdvancedPass ==
    ASSUME NEW rest, \A d \in rest : DefinitionOK(d)
    PROVE  PassOK(advanced(rest))
  <1>1. CASE rest = {}
    BY <1>1, IdlePass DEF advanced
  <1>2. CASE rest # {}
    <2> DEFINE r == [kind |-> "resolve", todo |-> rest]
    <2>1. advanced(rest) = r
      BY <1>2 DEF advanced
    <2>2. r.kind = "resolve" /\ r.todo = rest
      OBVIOUS
    <2> HIDE DEF r
    <2>3. PassOK(r)
      BY <2>2 DEF PassOK
    <2>4. QED
      BY <2>1, <2>3
  <1>3. QED
    BY <1>1, <1>2

\* due_as_of_dates names no date before the cadence took effect.
LEMMA DueIsNotBefore ==
    ASSUME NEW cadence, NEW day \in Nat, NEW created_on \in Nat,
           NEW d \in due_as_of_dates(cadence, day, created_on)
    PROVE  created_on <= d
  <1>1. PICK cursor \in [1..BackfillLimit -> 0..day \cup {None}] :
               /\ walk_back(cursor, cadence, day, created_on)
               /\ \E n \in DOMAIN cursor : cursor[n] = d
    BY DEF due_as_of_dates
  <1>2. PICK n \in DOMAIN cursor : cursor[n] = d
    BY <1>1
  <1>3. d \in 0..day /\ d # None
    BY SchedulingAssumption DEF due_as_of_dates
  <1>4. PICK as_of : d = due_as_of_date(cadence, as_of, created_on)
    BY <1>1, <1>2, <1>3 DEF walk_back
  <1>5. QED
    BY <1>3, <1>4 DEF due_as_of_date

\* A definition read from an enabled row of the scheduler's scope is owed by its last revision.
LEMMA StoredDefinition ==
    ASSUME SchedulingInv, NEW day \in Nat, NEW d \in due_definitions_for_scheduler(day)
    PROVE  DefinitionOK(d)
  <1>1. PICK s \in Stored : /\ schedule[s] # None /\ schedule[s].enabled
                            /\ schedule[s].scope = SchedulerScope
                            /\ \E as_of \in due_as_of_dates(schedule[s].cadence, day,
                                                       schedule[s].cadence_effective_on) :
                                  d = stored_schedule_to_definition(s, schedule[s], as_of)
    BY DEF due_definitions_for_scheduler
  <1>2. PICK as_of \in due_as_of_dates(schedule[s].cadence, day,
                                       schedule[s].cadence_effective_on) :
               d = stored_schedule_to_definition(s, schedule[s], as_of)
    BY <1>1
  <1>3. /\ d.schedule_id = s /\ d.stable = TRUE /\ d.as_of_date = as_of
        /\ d.portfolios = schedule[s].pack.portfolios
        /\ d.frequency = SCHEDULE_CADENCE_FREQUENCY[schedule[s].cadence]
    BY <1>2 DEF stored_schedule_to_definition
  <1>4. schedule[s] \in ScheduleRow /\ audit[s] \in Seq(ScheduleRow)
    BY <1>1 DEF SchedulingInv, SchedulingTypeOK
  <1>5. schedule[s].cadence_effective_on <= as_of
    BY <1>4, DueIsNotBefore DEF ScheduleRow
  <1>6. IsFiniteSet(d.portfolios)
    BY <1>3, <1>4, SchedulingAssumption DEF ScheduleRow
  <1>7. Owes(schedule[s], d.portfolios, d.frequency, d.as_of_date)
    BY <1>1, <1>3, <1>5 DEF Owes
  <1>8. /\ Len(audit[s]) = schedule[s].revision /\ audit[s][Len(audit[s])] = schedule[s]
        /\ Len(audit[s]) \in 1..Len(audit[s])
    BY <1>1, <1>4 DEF SchedulingInv, AuditExplainsDefinition, ScheduleRow
  <1>9. QED
    BY <1>3, <1>6, <1>7, <1>8 DEF DefinitionOK

\* A pass starts with the configured schedules and the stored definitions that are due.
LEMMA RunDueStep ==
    ASSUME SchedulingInv, NEW p \in Passes, NEW scope \in Scopes,
           NEW configured \in Configurations, NEW day \in evaluation_dates,
           run_due_schedules(p, scope, configured, day)
    PROVE  SchedulingInv'
  <1> DEFINE todo == {d \in configured : d.enabled_schedule}
                        \cup due_definitions_for_scheduler(day)
             r == [kind |-> "resolve", todo |-> todo]
  <1>1. pass' = [pass EXCEPT ![p] = r] /\ UNCHANGED <<schedule, audit, batches, edit, today>>
    BY DEF run_due_schedules
  <1>2. day \in Nat
    BY SchedulingAssumption DEF evaluation_dates, SchedulingInv, SchedulingTypeOK
  <1>3. ASSUME NEW d \in todo
        PROVE  DefinitionOK(d)
    <2>1. CASE d \in configured
      BY <2>1, ConfigurationsAreValid DEF valid_configuration, DefinitionOK
    <2>2. CASE d \in due_definitions_for_scheduler(day)
      BY <1>2, <2>2, StoredDefinition
    <2>3. QED
      BY <2>1, <2>2
  <1> HIDE DEF todo
  <1>4. r.kind = "resolve" /\ r.todo = todo
    OBVIOUS
  <1> HIDE DEF r
  <1>5. PassOK(r)
    BY <1>3, <1>4 DEF PassOK
  <1>6. QED
    BY <1>1, <1>5, QuietRunStep

\* As many candidates as portfolios: each portfolio has its candidate.
LEMMA ResolvedWhole ==
    ASSUME NEW portfolios, IsFiniteSet(portfolios), NEW answers,
           Cardinality(resolve_candidates([q \in portfolios |-> answers[q]]))
              = Cardinality(portfolios)
    PROVE  {c.portfolio : c \in resolve_candidates([q \in portfolios |-> answers[q]])} = portfolios
  <1> DEFINE asked == [q \in portfolios |-> answers[q]]
             kept == {q \in DOMAIN asked : /\ asked[q] \notin {"refused", "other_portfolio"}
                                           /\ projected_tenant(asked[q]) # None}
             row(q) == [portfolio |-> q, active |-> asked[q] = "active"]
             candidates == resolve_candidates(asked)
  <1>1. candidates = {row(q) : q \in kept}
    BY DEF resolve_candidates
  <1>2. kept \in SUBSET portfolios
    OBVIOUS
  <1>3. \A q : row(q).portfolio = q
    OBVIOUS
  <1> HIDE DEF kept, row, asked, candidates
  <1>4. {c.portfolio : c \in candidates} = kept
    BY <1>1, <1>3
  <1>5. IsFiniteSet(kept) /\ Cardinality(kept) <= Cardinality(portfolios)
    BY <1>2, FS_Subset
  <1>6. Cardinality(candidates) = Cardinality(kept)
    <2> DEFINE f == [q \in kept |-> row(q)]
    <2>1. f \in Bijection(kept, candidates)
      <3>1. f \in [kept -> candidates]
        BY <1>1
      <3>2. \A a, b \in kept : f[a] = f[b] => a = b
        BY <1>3
      <3>3. \A c \in candidates : \E q \in kept : f[q] = c
        BY <1>1
      <3>4. QED
        BY <3>1, <3>2, <3>3 DEF Bijection, Injection, Surjection, IsInjective
    <2>2. ExistsBijection(kept, candidates)
      BY <2>1 DEF ExistsBijection
    <2>3. QED
      BY <1>5, <2>2, FS_Bijection
  <1>7. Cardinality(kept) = Cardinality(portfolios)
    BY <1>6 DEF candidates, asked
  <1>8. kept = portfolios
    BY <1>2, <1>7, FS_Subset
  <1>9. QED
    BY <1>4, <1>8 DEF candidates, asked

\* A stored pack goes on only when every portfolio resolved.
LEMMA ResolveStep ==
    ASSUME SchedulingInv, NEW p \in Passes, NEW answers \in [Portfolios -> Answers],
           resolve_schedule(p, answers)
    PROVE  SchedulingInv'
  <1>1. pass[p].kind = "resolve" /\ UNCHANGED <<schedule, audit, batches, edit, today>>
    BY DEF resolve_schedule
  <1>2. \A d \in pass[p].todo : DefinitionOK(d)
    BY <1>1 DEF SchedulingInv, PassOK
  <1>3. PICK d \in pass[p].todo :
            LET rest == pass[p].todo \ {d}
                candidates == resolve_candidates([q \in d.portfolios |-> answers[q]])
            IN  /\ current(pass[p].todo, d)
                /\ pass' = [pass EXCEPT ![p] =
                      IF tenant_attribution_is_a_stamp(d) \/ resolution_refused(d, candidates)
                      THEN advanced(rest)
                      ELSE IF ~valid_explicit_period(d) THEN Idle
                      ELSE [kind |-> IF d.stable THEN "create" ELSE "recognise",
                            todo |-> rest, definition |-> d, candidates |-> candidates]]
    BY DEF resolve_schedule
  <1> DEFINE rest == pass[p].todo \ {d}
             candidates == resolve_candidates([q \in d.portfolios |-> answers[q]])
             kind == IF d.stable THEN "create" ELSE "recognise"
             r == [kind |-> kind, todo |-> rest, definition |-> d, candidates |-> candidates]
  <1>4. /\ DefinitionOK(d)
        /\ \A e \in rest : DefinitionOK(e)
    BY <1>2
  <1>5. \/ pass' = [pass EXCEPT ![p] = advanced(rest)]
        \/ pass' = [pass EXCEPT ![p] = Idle]
        \/ ~resolution_refused(d, candidates) /\ pass' = [pass EXCEPT ![p] = r]
    BY <1>3
  <1>6. ~resolution_refused(d, candidates) /\ d.stable =>
            {c.portfolio : c \in candidates} = d.portfolios
    BY <1>4, ResolvedWhole DEF resolution_refused, DefinitionOK
  <1>7. kind \in {"recognise", "create"}
    OBVIOUS
  <1> HIDE DEF rest, candidates, kind
  <1>8. /\ r = [kind |-> r.kind, todo |-> r.todo, definition |-> r.definition,
               candidates |-> r.candidates]
        /\ r.kind = kind /\ r.todo = rest /\ r.definition = d /\ r.candidates = candidates
    OBVIOUS
  <1> HIDE DEF r
  <1>9. ~resolution_refused(d, candidates) => PassOK(r)
    BY <1>4, <1>6, <1>7, <1>8 DEF PassOK
  <1>10. QED
    BY <1>1, <1>4, <1>5, <1>9, AdvancedPass, IdlePass, QuietRunStep

\* A recognised cycle is skipped; any other goes on with what was resolved.
LEMMA RecogniseStep ==
    ASSUME SchedulingInv, NEW p \in Passes, recognise_cycle(p)
    PROVE  SchedulingInv'
  <1>1. pass[p].kind = "recognise" /\ UNCHANGED <<schedule, audit, batches, edit, today>>
    BY DEF recognise_cycle
  <1> DEFINE held == pass[p]
             r == [held EXCEPT !.kind = "create"]
  <1>2. PassOK(held)
    BY DEF SchedulingInv
  <1>3. \/ pass' = [pass EXCEPT ![p] = advanced(held.todo)]
        \/ pass' = [pass EXCEPT ![p] = r]
    BY DEF recognise_cycle
  <1>4. held.kind = "recognise"
    BY <1>1
  <1> HIDE DEF held
  <1>5. held = [kind |-> held.kind, todo |-> held.todo, definition |-> held.definition,
                candidates |-> held.candidates]
    BY <1>2, <1>4 DEF PassOK
  <1>6. /\ r = [kind |-> r.kind, todo |-> r.todo, definition |-> r.definition,
               candidates |-> r.candidates]
        /\ r.kind = "create" /\ r.todo = held.todo /\ r.definition = held.definition
        /\ r.candidates = held.candidates
    BY <1>5
  <1> HIDE DEF r
  <1>7. PassOK(r) /\ PassOK(advanced(held.todo))
    BY <1>2, <1>4, <1>6, AdvancedPass DEF PassOK
  <1>8. QED
    BY <1>1, <1>3, <1>7, QuietRunStep

\* A batch is created under a key that no batch has, for what a revision owed.
LEMMA CreateBatchStep ==
    ASSUME SchedulingInv, NEW p \in Passes, create_batch(p)
    PROVE  SchedulingInv'
  <1> DEFINE held == pass[p]
             d == held.definition
             portfolios == {c.portfolio : c \in held.candidates}
             row == [key |-> cycle_key(d, portfolios), schedule_id |-> d.schedule_id,
                     cycle |-> materialize_cycle(d), portfolios |-> portfolios]
  <1>1. pass[p].kind = "create" /\ UNCHANGED <<schedule, audit, edit, today>>
    BY DEF create_batch
  <1>2. PassOK(held)
    BY DEF SchedulingInv
  <1>3. /\ \/ pass' = [pass EXCEPT ![p] = advanced(held.todo)]
           \/ pass' = [pass EXCEPT ![p] = Idle]
        /\ \/ UNCHANGED batches
           \/ /\ ~\E b \in batches : b.key = row.key
              /\ batches' = batches \cup {row}
    BY DEF create_batch
  <1>4. held.kind = "create"
    BY <1>1
  <1> HIDE DEF held
  <1>5. /\ \A e \in held.todo : DefinitionOK(e)
        /\ DefinitionOK(d)
        /\ d.stable => portfolios = d.portfolios
    BY <1>2, <1>4 DEF PassOK
  <1>6. PassOK(advanced(held.todo)) /\ PassOK(Idle)
    BY <1>5, AdvancedPass, IdlePass
  <1>7. BatchesOK' /\ EveryPackWasOwed'
    <2>1. CASE UNCHANGED batches
      BY <1>1, <2>1 DEF SchedulingInv, BatchesOK, EveryPackWasOwed
    <2>2. CASE /\ ~\E b \in batches : b.key = row.key
               /\ batches' = batches \cup {row}
      <3>1. /\ materialize_cycle(d).as_of_date = d.as_of_date
            /\ materialize_cycle(d).frequency = d.frequency
        BY DEF materialize_cycle
      <3>2. /\ row.key = cycle_key(d, portfolios) /\ row.schedule_id = d.schedule_id
            /\ row.cycle = materialize_cycle(d) /\ row.portfolios = portfolios
        OBVIOUS
      <3> HIDE DEF d, portfolios, row
      <3>3. d.schedule_id \in Stored => d.stable
        BY <1>5 DEF DefinitionOK
      <3>4. row.schedule_id \in Stored =>
                row.key = <<"stored", row.schedule_id, row.cycle.as_of_date>>
        BY <3>1, <3>2, <3>3 DEF cycle_key, stored_schedule_cycle_idempotency_key
      <3>5. BatchesOK'
        BY <2>2, <3>4 DEF SchedulingInv, BatchesOK
      <3>6. row.schedule_id \in Stored =>
                \E n \in 1..Len(audit[row.schedule_id]) :
                    Owes(audit[row.schedule_id][n], row.portfolios, row.cycle.frequency,
                         row.cycle.as_of_date)
        BY <1>5, <3>1, <3>2, <3>3 DEF DefinitionOK
      <3>7. \A b \in batches' : b.schedule_id \in Stored =>
                \E n \in 1..Len(audit[b.schedule_id]) :
                    Owes(audit[b.schedule_id][n], b.portfolios, b.cycle.frequency,
                         b.cycle.as_of_date)
        BY <2>2, <3>6 DEF SchedulingInv, EveryPackWasOwed, Owes
      <3>8. EveryPackWasOwed'
        BY <1>1, <3>7 DEF EveryPackWasOwed, Owes
      <3>9. QED
        BY <3>5, <3>8
    <2>3. QED
      BY <1>3, <2>1, <2>2
  <1>8. QED
    BY <1>1, <1>3, <1>6, <1>7, RunStep

---------------------------------------------------------------------------
(* The invariant *)

\* The initial state satisfies the invariant.
LEMMA SchedulingInitInvariant == SchedulingInit => SchedulingInv
  <1> SUFFICES ASSUME SchedulingInit PROVE SchedulingInv
    OBVIOUS
  <1>1. SchedulingTypeOK
    BY DEF SchedulingInit, SchedulingTypeOK, EditState
  <1>2. AuditExplainsDefinition /\ BatchesOK /\ EveryPackWasOwed
    BY DEF SchedulingInit, AuditExplainsDefinition, BatchesOK, EveryPackWasOwed
  <1>3. EditsOK
    BY DEF SchedulingInit, EditsOK, Idle
  <1>4. \A p \in Passes : PassOK(pass[p])
    BY IdlePass DEF SchedulingInit
  <1>5. QED
    BY <1>1, <1>2, <1>3, <1>4 DEF SchedulingInv

\* Every step preserves the invariant.
LEMMA SchedulingStepInvariant ==
    SchedulingInv /\ [SchedulingNext]_scheduling_vars => SchedulingInv'
  <1> SUFFICES ASSUME SchedulingInv, [SchedulingNext]_scheduling_vars PROVE SchedulingInv'
    OBVIOUS
  <1>1. CASE tick \/ horizon \/ UNCHANGED scheduling_vars
    <2>1. UNCHANGED <<schedule, audit, batches, edit, pass>> /\ today' \in Nat
      BY <1>1 DEF tick, horizon, scheduling_vars, SchedulingInv, SchedulingTypeOK
    <2>2. pass' = [q \in Passes |-> pass'[q]]
      BY <2>1 DEF SchedulingInv, SchedulingTypeOK
    <2>3. QED
      BY <2>1, <2>2, TrailSame, EditorStep
  <1>2. ASSUME NEW e \in Editors, EditStep(e)
        PROVE  SchedulingInv'
    BY <1>2, CreateStep, SaveCreatedStep, UpdateStep, SaveUpdatedStep DEF EditStep
  <1>3. ASSUME NEW p \in Passes, PassStep(p)
        PROVE  SchedulingInv'
    BY <1>3, ResolveStep, RecogniseStep, CreateBatchStep DEF PassStep
  <1>4. ASSUME NEW p \in Passes, pass_dies(p)
        PROVE  SchedulingInv'
    BY <1>4, IdlePass, QuietRunStep DEF pass_dies
  <1>5. QED
    BY <1>1, <1>2, <1>3, <1>4, RunDueStep DEF SchedulingNext

\* The invariant holds in every reachable state, whatever edits and passes overlap.
THEOREM SchedulingInvariant == SchedulingSpec => []SchedulingInv
  BY SchedulingInitInvariant, SchedulingStepInvariant, PTL DEF SchedulingSpec

\* save_schedule_definition_with_audit under concurrent editors: one record per revision, in
\* order, and the last one is the definition.
THEOREM SchedulingAuditExplainsDefinition == SchedulingSpec => []AuditExplainsDefinition
  <1>1. SchedulingInv => AuditExplainsDefinition
    BY DEF SchedulingInv
  <1>2. QED
    BY <1>1, SchedulingInvariant, PTL

\* The identity of a stored cycle: one batch per schedule and as-of date, through content and
\* cadence changes, overlapping passes and repeated runs.
THEOREM SchedulingOneBatchPerStoredCycle == SchedulingSpec => []OneBatchPerStoredCycle
  <1>1. SchedulingInv => OneBatchPerStoredCycle
    BY DEF SchedulingInv, BatchesOK, OneBatchPerStoredCycle
  <1>2. QED
    BY <1>1, SchedulingInvariant, PTL

\* Every stored pack is one that an audited revision described and owed, complete, even when it
\* was made from a definition read before later edits.
THEOREM SchedulingEveryPackWasOwed == SchedulingSpec => []EveryPackWasOwed
  <1>1. SchedulingInv => EveryPackWasOwed
    BY DEF SchedulingInv
  <1>2. QED
    BY <1>1, SchedulingInvariant, PTL

---------------------------------------------------------------------------
(* The calendar *)

\* The months in a period of a cadence.
CadenceMonths(cadence) == IF cadence = "monthly_end" THEN 1 ELSE 3

Period(cadence) == DaysPerMonth * CadenceMonths(cadence)

\* The whole periods of a length that ended on or before a day.
Ended(q, len, day) == q \in Int /\ q * len <= day + 1 /\ day + 1 < q * len + len

LEMMA Division ==
    ASSUME NEW a \in Nat, NEW b \in Nat \ {0}, NEW m, m = a \div b
    PROVE  m \in Nat /\ m * b <= a /\ a < m * b + b
  <1>1. a = b * (a \div b) + (a % b) /\ a % b \in 0 .. b - 1 /\ a \div b \in Int
    OBVIOUS
  <1>2. m \in Int /\ b * m = m * b
    BY <1>1
  <1>3. m >= 0
    BY <1>1, <1>2
  <1>4. QED
    BY <1>1, <1>2, <1>3

LEMMA Multiples ==
    ASSUME NEW len \in Nat \ {0}, NEW j \in Int, NEW k \in Int
    PROVE  /\ j * len \in Int
           /\ j < k => j * len + len <= k * len
           /\ j <= k => j * len <= k * len
  <1>1. j * len \in Int /\ k * len \in Int
    OBVIOUS
  <1>2. ASSUME j < k PROVE j * len + len <= k * len
    <2>1. PICK e \in Nat : e = k - j - 1
      BY <1>2
    <2>2. e * len \in Nat
      BY <2>1
    <2>3. k * len = j * len + len + e * len
      BY <2>1
    <2>4. QED
      BY <1>1, <2>2, <2>3
  <1>3. QED
    BY <1>1, <1>2

LEMMA EndedOnce ==
    ASSUME NEW len \in Nat \ {0}, NEW day \in Int, NEW q, NEW r, Ended(q, len, day), Ended(r, len, day)
    PROVE  q = r
  <1>1. q \in Int /\ r \in Int /\ q * len \in Int /\ r * len \in Int
    BY Multiples DEF Ended
  <1>2. ~(q < r)
    <2>1. q < r => q * len + len <= r * len
      BY <1>1, Multiples
    <2>2. QED
      BY <1>1, <2>1 DEF Ended
  <1>3. ~(r < q)
    <2>1. r < q => r * len + len <= q * len
      BY <1>1, Multiples
    <2>2. QED
      BY <1>1, <2>1 DEF Ended
  <1>4. QED
    BY <1>1, <1>2, <1>3

LEMMA PeriodType ==
    ASSUME NEW cadence \in Cadences
    PROVE  Period(cadence) \in Nat \ {0}
BY SchedulingAssumption DEF Period, CadenceMonths

\* previous_period_end is the day before the period that is still running.
LEMMA PreviousPeriodEnd ==
    ASSUME NEW cadence \in Cadences, NEW day \in Nat, NEW len, len = Period(cadence),
           NEW q, Ended(q, len, day)
    PROVE  previous_period_end(cadence, day) = IF q <= 0 THEN None ELSE q * len - 1
  <1>1. DaysPerMonth \in Nat \ {0} /\ len \in Nat \ {0}
    BY PeriodType, SchedulingAssumption
  <1>2. PICK m \in Nat : m = month_of(day) /\ m * DaysPerMonth <= day /\ day < m * DaysPerMonth + DaysPerMonth
    BY <1>1, Division DEF month_of
  <1>3. PICK t \in Nat : /\ t * len <= day /\ day < t * len + len
                         /\ period_end_on_or_after(cadence, day) = t * len + len - 1
                         /\ (m \div CadenceMonths(cadence)) * CadenceMonths(cadence) * DaysPerMonth - 1
                               = t * len - 1
    <2>1. CASE cadence = "monthly_end"
      <3>1. len = DaysPerMonth /\ m \div 1 = m /\ m * 1 = m
        BY <1>1, <2>1 DEF Period, CadenceMonths
      <3>2. (m + 1) * DaysPerMonth = m * DaysPerMonth + DaysPerMonth
        BY <1>1
      <3>3. period_end_on_or_after(cadence, day) = m * len + len - 1
        <4>1. period_end_on_or_after(cadence, day) = (m + 1) * DaysPerMonth - 1
          BY Zenon, <1>2, <2>1 DEF period_end_on_or_after, month_end
        <4>2. PICK y \in Int : y = m * DaysPerMonth
          BY <1>1
        <4>3. (m + 1) * DaysPerMonth - 1 = y + DaysPerMonth - 1
          BY <1>1, <3>2, <4>2
        <4>4. QED
          BY Zenon, <3>1, <4>1, <4>2, <4>3
      <3>4. CadenceMonths(cadence) = 1
        BY <2>1 DEF CadenceMonths
      <3>5. (m \div CadenceMonths(cadence)) * CadenceMonths(cadence) * DaysPerMonth - 1 = m * len - 1
        <4>1. (m \div CadenceMonths(cadence)) * CadenceMonths(cadence) = m
          BY <3>1, <3>4
        <4>2. QED
          BY <3>1, <4>1
      <3>6. m * len <= day /\ day < m * len + len
        BY <1>2, <3>1
      <3>7. QED
        BY Zenon, <3>3, <3>5, <3>6
    <2>2. CASE cadence = "quarter_end"
      <3>1. PICK t \in Nat : t = m \div 3 /\ t * 3 <= m /\ m < t * 3 + 3
        BY Division
      <3>2. len = DaysPerMonth * 3
        BY <2>2 DEF Period, CadenceMonths
      <3>3. t * len = t * 3 * DaysPerMonth /\ (t * 3 + 3) * DaysPerMonth = t * len + len
        BY <1>1, <3>2
      <3>4. t * 3 * DaysPerMonth <= m * DaysPerMonth
        BY <1>1, <3>1, Multiples
      <3>5. m * DaysPerMonth + DaysPerMonth <= (t * 3 + 3) * DaysPerMonth
        BY <1>1, <3>1, Multiples
      <3>6. t * len <= day /\ day < t * len + len
        <4>1. t * len \in Int /\ m * DaysPerMonth \in Int
          BY <1>1
        <4>2. QED
          BY <1>1, <1>2, <3>3, <3>4, <3>5, <4>1
      <3>7. period_end_on_or_after(cadence, day) = t * len + len - 1
        <4>1. period_end_on_or_after(cadence, day) = (t * 3 + 3) * DaysPerMonth - 1
          BY <1>2, <2>2, <3>1 DEF period_end_on_or_after, quarter_end
        <4>2. PICK y \in Int : y = t * len
          BY <1>1
        <4>3. (t * 3 + 3) * DaysPerMonth - 1 = y + len - 1
          BY <1>1, <3>3, <4>2
        <4>4. QED
          BY Zenon, <4>1, <4>2, <4>3
      <3>8. CadenceMonths(cadence) = 3
        BY <2>2 DEF CadenceMonths
      <3>9. (m \div CadenceMonths(cadence)) * CadenceMonths(cadence) * DaysPerMonth - 1 = t * len - 1
        <4>1. (m \div CadenceMonths(cadence)) * CadenceMonths(cadence) = t * 3
          BY Zenon, <3>1, <3>8
        <4>2. QED
          BY Zenon, <3>3, <4>1
      <3>10. QED
        BY Zenon, <3>6, <3>7, <3>9
    <2>3. QED
      BY <2>1, <2>2 DEF Cadences
  <1>4. PICK x \in Int : x = t * len
    BY <1>1
  <1>5. previous_period_end(cadence, day)
          = IF x + len - 1 <= day THEN x + len - 1 ELSE IF x - 1 < 0 THEN None ELSE x - 1
    <2>1. period_end_on_or_after(cadence, day) = x + len - 1
      BY <1>3, <1>4
    <2>2. (m \div CadenceMonths(cadence)) * CadenceMonths(cadence) * DaysPerMonth - 1 = x - 1
      BY <1>3, <1>4
    <2>3. QED
      BY <1>2, <2>1, <2>2 DEF previous_period_end, CadenceMonths
  <1>6. CASE x + len - 1 <= day
    <2>1. (t + 1) * len = x + len /\ (t + 1) * len \in Int
      BY <1>1, <1>4
    <2>2. Ended(t + 1, len, day)
      BY <1>1, <1>3, <1>4, <1>6, <2>1 DEF Ended
    <2>3. q = t + 1
      BY <1>1, <2>2, EndedOnce
    <2>4. q * len = x + len /\ ~(q <= 0)
      BY <1>3, <2>1, <2>3
    <2>5. previous_period_end(cadence, day) = x + len - 1
      BY Zenon, <1>5, <1>6
    <2>6. q * len - 1 = x + len - 1
      BY <1>1, <2>4
    <2>7. QED
      BY Zenon, <2>4, <2>5, <2>6
  <1>7. CASE ~(x + len - 1 <= day)
    <2>1. Ended(t, len, day)
      BY <1>1, <1>3, <1>4, <1>7 DEF Ended
    <2>2. q = t
      BY <1>1, <2>1, EndedOnce
    <2>3. t = 0 => x = 0
      BY <1>1, <1>4
    <2>4. t > 0 => x >= len
      <3>1. 1 * len = len
        BY <1>1
      <3>2. QED
        BY <1>1, <1>4, <3>1, Multiples
    <2>5. q * len = x /\ ((q <= 0) <=> (x - 1 < 0))
      BY <1>1, <1>3, <1>4, <2>2, <2>3, <2>4
    <2>6. QED
      BY Zenon, <1>5, <1>7, <2>5
  <1>8. QED
    BY <1>4, <1>6, <1>7

---------------------------------------------------------------------------
(* The walk of the backfill *)

\* The end of the k-th period, if the cadence was in effect by then.
end_of(k, len, created_on) ==
    IF k >= 1 /\ k * len - 1 >= created_on THEN k * len - 1 ELSE None

LEMMA DueIsTheLatest ==
    ASSUME NEW cadence \in Cadences, NEW day \in Int, day >= -1, NEW created_on \in Nat,
           NEW len, len = Period(cadence), NEW q, Ended(q, len, day)
    PROVE  due_as_of_date(cadence, day, created_on) = end_of(q, len, created_on)
  <1>1. len \in Nat \ {0} /\ q \in Int /\ q * len \in Int
    BY PeriodType DEF Ended
  <1>2. CASE day < 0
    <2>1. Ended(0, len, day)
      BY <1>1, <1>2 DEF Ended
    <2>2. q = 0
      BY <1>1, <2>1, EndedOnce
    <2>3. QED
      BY <1>2, <2>2 DEF due_as_of_date, end_of
  <1>3. CASE day >= 0
    <2>1. previous_period_end(cadence, day) = IF q <= 0 THEN None ELSE q * len - 1
      BY <1>3, PreviousPeriodEnd
    <2>2. PICK x \in Int : x = q * len - 1
      BY <1>1
    <2>3. x # None
      BY SchedulingAssumption
    <2>4. QED
      BY <1>1, <1>3, <2>1, <2>2, <2>3 DEF due_as_of_date, end_of
  <1>4. QED
    BY <1>2, <1>3

\* The walk that starts after q whole periods takes the q-th end, then the one before.
walk_of(q, len, created_on) ==
    [n \in 1..BackfillLimit |-> end_of(q - n + 1, len, created_on)]

\* The period before the one that ends on x is the one that had ended the day before x.
LEMMA StepBack ==
    ASSUME NEW cadence \in Cadences, NEW created_on \in Nat, NEW len, len = Period(cadence),
           NEW k \in Int
    PROVE  end_of(k, len, created_on)
              = IF end_of(k + 1, len, created_on) = None THEN None
                ELSE due_as_of_date(cadence, end_of(k + 1, len, created_on) - 1, created_on)
  <1>1. len \in Nat \ {0}
    BY PeriodType
  <1>2. PICK x \in Int : x = k * len
    BY <1>1
  <1>3. (k + 1) * len = x + len
    BY <1>1, <1>2
  <1>4. PICK y : y = end_of(k + 1, len, created_on)
    OBVIOUS
  <1>5. y = IF k + 1 >= 1 /\ x + len - 1 >= created_on THEN x + len - 1 ELSE None
    <2>1. y = IF k + 1 >= 1 /\ (k + 1) * len - 1 >= created_on THEN (k + 1) * len - 1 ELSE None
      BY Zenon, <1>4 DEF end_of
    <2>2. (k + 1) * len - 1 = x + len - 1
      BY <1>1, <1>3
    <2>3. QED
      BY Zenon, <2>1, <2>2
  <1>6. CASE y = None
    <2>1. k + 1 < 1 \/ x + len - 1 < created_on
      <3>1. x + len - 1 \in Int /\ x + len - 1 # None
        BY <1>1, SchedulingAssumption
      <3>2. QED
        BY <1>1, <1>5, <1>6, <3>1
    <2>2. ~(k >= 1 /\ x - 1 >= created_on)
      BY <1>1, <2>1
    <2>3. QED
      BY <1>2, <1>4, <1>6, <2>2 DEF end_of
  <1>7. CASE y # None
    <2>1. k >= 0 /\ y = x + len - 1
      BY <1>5, <1>7
    <2>2. x >= 0
      <3>1. 0 * len = 0
        BY <1>1
      <3>2. QED
        BY <1>1, <1>2, <2>1, <3>1, Multiples
    <2>3. PICK on \in Int : on = y - 1 /\ on >= -1 /\ on + 1 = x + len - 1
      BY <1>1, <2>1, <2>2
    <2>4. Ended(k, len, on)
      BY <1>1, <1>2, <2>3 DEF Ended
    <2>5. due_as_of_date(cadence, on, created_on) = end_of(k, len, created_on)
      BY <2>3, <2>4, DueIsTheLatest
    <2>6. QED
      BY <1>4, <1>7, <2>3, <2>5
  <1>8. QED
    BY <1>6, <1>7

LEMMA LeastNatural ==
    ASSUME NEW S \in SUBSET Nat, S # {}
    PROVE  \E m \in S : \A y \in S : m <= y
  <1> DEFINE less == {ss \in Nat \X Nat : ss[1] < ss[2]}
  <1>1. IsWellFoundedOn(less, Nat)
    <2>1. less = OpToRel(<, Nat)
      BY Zenon DEF OpToRel
    <2>2. QED
      BY Zenon, <2>1, NatLessThanWellFounded
  <1> HIDE DEF less
  <1>2. PICK m \in S : \A y \in S : ~(<<y, m>> \in less)
    BY <1>1, WFMin
  <1>3. ASSUME NEW y \in S PROVE m <= y
    <2>1. <<y, m>> \in Nat \X Nat /\ ~(<<y, m>> \in less)
      BY <1>2
    <2>2. QED
      BY <2>1 DEF less
  <1>4. QED
    BY <1>2, <1>3

\* The walk back is determined by the day and the date the cadence took effect.
LEMMA WalkIsUnique ==
    ASSUME NEW cadence \in Cadences, NEW day \in Nat, NEW created_on \in Nat,
           NEW len, len = Period(cadence), NEW q, Ended(q, len, day),
           NEW cursor \in [1..BackfillLimit -> 0..day \cup {None}],
           walk_back(cursor, cadence, day, created_on)
    PROVE  cursor = walk_of(q, len, created_on)
  <1> DEFINE Wrong == {i \in 1..BackfillLimit : cursor[i] # end_of(q - i + 1, len, created_on)}
  <1>1. q \in Int /\ BackfillLimit \in Nat
    BY SchedulingAssumption DEF Ended
  <1>2. SUFFICES ASSUME Wrong # {} PROVE FALSE
    <2>1. Wrong = {}
      OBVIOUS
    <2>2. \A n \in 1..BackfillLimit : cursor[n] = end_of(q - n + 1, len, created_on)
      BY Zenon, <2>1
    <2>3. cursor = [n \in 1..BackfillLimit |-> end_of(q - n + 1, len, created_on)]
      BY <2>2
    <2>4. QED
      BY <2>3 DEF walk_of
  <1>3. Wrong \in SUBSET Nat
    BY <1>1
  <1> HIDE DEF Wrong
  <1>4. PICK i \in Wrong : \A j \in Wrong : i <= j
    BY <1>2, <1>3, LeastNatural
  <1>5. i \in 1..BackfillLimit /\ cursor[i] # end_of(q - i + 1, len, created_on)
    BY <1>4 DEF Wrong
  <1>6. CASE i = 1
    <2>1. cursor[1] = due_as_of_date(cadence, day, created_on)
      BY <1>5, <1>6 DEF walk_back
    <2>2. due_as_of_date(cadence, day, created_on) = end_of(q, len, created_on)
      BY DueIsTheLatest
    <2>3. q - 1 + 1 = q
      BY <1>1
    <2>4. cursor[1] # end_of(q - 1 + 1, len, created_on)
      BY <1>5, <1>6
    <2>5. QED
      BY Zenon, <2>1, <2>2, <2>3, <2>4
  <1>7. CASE i # 1
    <2>1. i - 1 \in 1..BackfillLimit /\ ~(i <= i - 1)
      BY <1>1, <1>5, <1>7
    <2>2. cursor[i - 1] = end_of(q - (i - 1) + 1, len, created_on)
      <3>1. i - 1 \notin Wrong
        BY <1>4, <2>1
      <3>2. QED
        BY <2>1, <3>1 DEF Wrong
    <2>3. PICK k \in Int : k = q - i + 1 /\ q - (i - 1) + 1 = k + 1
      BY <1>1, <1>5
    <2>4. cursor[i] = IF cursor[i - 1] = None THEN None
                      ELSE due_as_of_date(cadence, cursor[i - 1] - 1, created_on)
      BY <1>5, <1>7 DEF walk_back
    <2>5. end_of(k, len, created_on)
            = IF end_of(k + 1, len, created_on) = None THEN None
              ELSE due_as_of_date(cadence, end_of(k + 1, len, created_on) - 1, created_on)
      BY <2>3, StepBack
    <2>6. cursor[i - 1] = end_of(k + 1, len, created_on)
      BY Zenon, <2>2, <2>3
    <2>7. cursor[i] = end_of(k, len, created_on)
      BY Zenon, <2>4, <2>5, <2>6
    <2>8. QED
      BY Zenon, <1>5, <2>3, <2>7
  <1>8. QED
    BY <1>6, <1>7

LEMMA WalkExists ==
    ASSUME NEW cadence \in Cadences, NEW day \in Nat, NEW created_on \in Nat,
           NEW len, len = Period(cadence), NEW q, Ended(q, len, day),
           NEW cursor, cursor = walk_of(q, len, created_on)
    PROVE  /\ cursor \in [1..BackfillLimit -> 0..day \cup {None}]
           /\ walk_back(cursor, cadence, day, created_on)
  <1>1. q \in Int /\ BackfillLimit \in Nat /\ len \in Nat \ {0} /\ q * len <= day + 1
    BY PeriodType, SchedulingAssumption DEF Ended
  <1>2. \A i \in 1..BackfillLimit : cursor[i] = end_of(q - i + 1, len, created_on)
    BY DEF walk_of
  <1>3. ASSUME NEW i \in 1..BackfillLimit
        PROVE  cursor[i] \in 0..day \cup {None}
    <2>1. PICK k \in Int : k = q - i + 1 /\ k <= q
      BY <1>1
    <2>2. k * len <= q * len /\ k * len \in Int /\ q * len \in Int
      BY <1>1, <2>1, Multiples
    <2>3. cursor[i] = end_of(k, len, created_on)
      BY <1>2, <2>1
    <2>4. QED
      BY <1>1, <2>2, <2>3 DEF end_of
  <1>4. DOMAIN cursor = 1..BackfillLimit /\ cursor = [n \in 1..BackfillLimit |-> cursor[n]]
    BY DEF walk_of
  <1>5. ASSUME NEW i \in 1..BackfillLimit
        PROVE  cursor[i] = IF i = 1 THEN due_as_of_date(cadence, day, created_on)
                           ELSE IF cursor[i - 1] = None THEN None
                           ELSE due_as_of_date(cadence, cursor[i - 1] - 1, created_on)
    <2>1. CASE i = 1
      <3>1. q - 1 + 1 = q
        BY <1>1
      <3>2. due_as_of_date(cadence, day, created_on) = end_of(q, len, created_on)
        BY DueIsTheLatest
      <3>3. QED
        BY <1>2, <2>1, <3>1, <3>2
    <2>2. CASE i # 1
      <3>1. PICK k \in Int : k = q - i + 1 /\ q - (i - 1) + 1 = k + 1
        BY <1>1
      <3>2. i - 1 \in 1..BackfillLimit
        BY <1>1, <2>2
      <3>3. cursor[i] = end_of(k, len, created_on) /\ cursor[i - 1] = end_of(k + 1, len, created_on)
        BY <1>2, <3>1, <3>2
      <3>4. end_of(k, len, created_on)
              = IF end_of(k + 1, len, created_on) = None THEN None
                ELSE due_as_of_date(cadence, end_of(k + 1, len, created_on) - 1, created_on)
        BY <3>1, StepBack
      <3>5. QED
        BY Zenon, <2>2, <3>3, <3>4
    <2>3. QED
      BY <2>1, <2>2
  <1>6. QED
    BY <1>3, <1>4, <1>5 DEF walk_back

---------------------------------------------------------------------------
(* What the backfill names, and what is owed *)

\* d is the end of the k-th period and the cadence was in effect by then.
EndsPeriod(d, k, len, created_on) == k \in Int /\ k >= 1 /\ d = k * len - 1 /\ d >= created_on

LEMMA EndOfPeriod ==
    ASSUME NEW len \in Nat \ {0}, NEW created_on \in Nat, NEW k \in Int, NEW d \in Int
    PROVE  d = end_of(k, len, created_on) <=> EndsPeriod(d, k, len, created_on)
  <1>1. PICK x \in Int : x = k * len - 1
    OBVIOUS
  <1>2. d # None
    BY SchedulingAssumption
  <1>3. QED
    BY <1>1, <1>2 DEF end_of, EndsPeriod

\* due_as_of_dates names the ends of the last BackfillLimit periods.
LEMMA NamedPeriods ==
    ASSUME NEW cadence \in Cadences, NEW day \in Nat, NEW created_on \in Nat,
           NEW len, len = Period(cadence), NEW q, Ended(q, len, day), NEW d \in 0..day
    PROVE  d \in due_as_of_dates(cadence, day, created_on)
              <=> \E k \in Int : q - BackfillLimit < k /\ k <= q /\ EndsPeriod(d, k, len, created_on)
  <1>1. q \in Int /\ BackfillLimit \in Nat /\ len \in Nat \ {0} /\ d \in Int
    BY PeriodType, SchedulingAssumption DEF Ended
  <1>2. ASSUME d \in due_as_of_dates(cadence, day, created_on)
        PROVE  \E k \in Int : q - BackfillLimit < k /\ k <= q /\ EndsPeriod(d, k, len, created_on)
    <2>1. PICK cursor \in [1..BackfillLimit -> 0..day \cup {None}] :
                 /\ walk_back(cursor, cadence, day, created_on)
                 /\ \E n \in DOMAIN cursor : cursor[n] = d
      BY <1>2 DEF due_as_of_dates
    <2>2. PICK n \in 1..BackfillLimit : cursor[n] = d
      BY <2>1
    <2>3. cursor[n] = end_of(q - n + 1, len, created_on)
      <3>1. walk_back(cursor, cadence, day, created_on)
        BY <2>1
      <3>2. cursor = walk_of(q, len, created_on)
        BY <3>1, WalkIsUnique
      <3>3. QED
        BY <3>2 DEF walk_of
    <2>4. PICK k \in Int : k = q - n + 1 /\ q - BackfillLimit < k /\ k <= q
      BY <1>1
    <2>5. d = end_of(k, len, created_on)
      BY Zenon, <2>2, <2>3, <2>4
    <2>6. EndsPeriod(d, k, len, created_on)
      BY <1>1, <2>5, EndOfPeriod
    <2>7. QED
      BY <2>4, <2>6
  <1>3. ASSUME NEW k \in Int, q - BackfillLimit < k, k <= q, EndsPeriod(d, k, len, created_on)
        PROVE  d \in due_as_of_dates(cadence, day, created_on)
    <2>1. PICK cursor : cursor = walk_of(q, len, created_on)
      OBVIOUS
    <2>2. /\ cursor \in [1..BackfillLimit -> 0..day \cup {None}]
          /\ walk_back(cursor, cadence, day, created_on)
      BY <2>1, WalkExists
    <2>3. PICK n \in 1..BackfillLimit : n = q - k + 1 /\ q - n + 1 = k
      BY <1>1, <1>3
    <2>4. cursor[n] = end_of(q - n + 1, len, created_on)
      BY <2>1 DEF walk_of
    <2>5. d = end_of(k, len, created_on)
      BY <1>1, <1>3, EndOfPeriod
    <2>6. cursor[n] = d
      BY Zenon, <2>3, <2>4, <2>5
    <2>7. QED
      BY <2>2, <2>6 DEF due_as_of_dates
  <1>4. QED
    BY <1>2, <1>3

\* PeriodEndsOwed holds the ends of the periods that have ended.
LEMMA OwedPeriods ==
    ASSUME NEW row \in ScheduleRow, NEW day \in Nat, NEW len, len = Period(row.cadence),
           NEW q, Ended(q, len, day), NEW d
    PROVE  d \in PeriodEndsOwed(row, day)
              <=> \E k \in Int : k <= q /\ EndsPeriod(d, k, len, row.cadence_effective_on)
  <1> DEFINE created_on == row.cadence_effective_on
             months == CadenceMonths(row.cadence)
  <1>1. /\ row.cadence \in Cadences /\ created_on \in Nat /\ q \in Int /\ len \in Nat \ {0}
        /\ DaysPerMonth \in Nat \ {0} /\ months \in Nat \ {0} /\ len = DaysPerMonth * months
    BY PeriodType, SchedulingAssumption DEF Ended, ScheduleRow, CadenceMonths, Period
  <1>2. d \in PeriodEndsOwed(row, day)
          <=> /\ d \in created_on..day
              /\ \E n \in 1..day + 1 : d + 1 = n * DaysPerMonth * months
    BY DEF PeriodEndsOwed, CadenceMonths
  <1> HIDE DEF months, created_on
  <1>3. ASSUME d \in created_on..day, NEW n \in 1..day + 1, d + 1 = n * DaysPerMonth * months
        PROVE  \E k \in Int : k <= q /\ EndsPeriod(d, k, len, created_on)
    <2>1. n * DaysPerMonth * months = n * len
      BY <1>1
    <2>2. PICK x \in Int : x = n * len
      BY <1>1
    <2>3. d = x - 1 /\ x <= day + 1
      BY <1>1, <1>3, <2>1, <2>2
    <2>4. EndsPeriod(d, n, len, created_on)
      BY <1>1, <1>3, <2>2, <2>3 DEF EndsPeriod
    <2>5. n <= q
      <3>1. q < n => q * len + len <= x
        BY <1>1, <2>2, Multiples
      <3>2. q * len \in Int
        BY <1>1
      <3>3. QED
        BY <1>1, <2>3, <3>1, <3>2 DEF Ended
    <2>6. QED
      BY <2>4, <2>5
  <1>4. ASSUME NEW k \in Int, k <= q, EndsPeriod(d, k, len, created_on)
        PROVE  d \in created_on..day /\ \E n \in 1..day + 1 : d + 1 = n * DaysPerMonth * months
    <2>1. k * DaysPerMonth * months = k * len
      BY <1>1
    <2>2. PICK x \in Int : x = k * len
      BY <1>1
    <2>3. x <= q * len /\ q * len \in Int
      BY <1>1, <1>4, <2>2, Multiples
    <2>4. d = x - 1 /\ d >= created_on /\ k >= 1
      BY <1>4, <2>2 DEF EndsPeriod
    <2>5. k <= x
      <3>1. PICK e \in Nat : e = len - 1
        BY <1>1
      <3>2. k * e >= 0 /\ k * e \in Int
        BY <2>4, <3>1
      <3>3. x = k + k * e
        BY <1>1, <2>2, <3>1
      <3>4. QED
        BY <3>2, <3>3
    <2>6. d \in created_on..day /\ k \in 1..day + 1
      BY <1>1, <2>3, <2>4, <2>5 DEF Ended
    <2>7. d + 1 = x
      BY <2>4
    <2>8. QED
      BY Zenon, <2>1, <2>2, <2>6, <2>7
  <1>5. QED
    BY <1>2, <1>3, <1>4 DEF created_on

later_owed(row, day, d) == {e \in PeriodEndsOwed(row, day) : e >= d}

\* A period end owed is followed by as many others as periods have ended since.
LEMMA LaterPeriods ==
    ASSUME NEW row \in ScheduleRow, NEW day \in Nat, NEW len, len = Period(row.cadence),
           NEW q, Ended(q, len, day), NEW d, NEW k \in Int, k <= q,
           EndsPeriod(d, k, len, row.cadence_effective_on)
    PROVE  Cardinality(later_owed(row, day, d)) = q - k + 1
  <1> DEFINE created_on == row.cadence_effective_on
             later == {e \in PeriodEndsOwed(row, day) : e >= d}
             f == [i \in k..q |-> i * len - 1]
  <1>1. row.cadence \in Cadences /\ created_on \in Nat /\ q \in Int /\ len \in Nat \ {0}
    BY PeriodType DEF Ended, ScheduleRow
  <1>2. k >= 1 /\ d = k * len - 1 /\ d >= created_on /\ d \in Int
    BY <1>1 DEF EndsPeriod
  <1>3. \A e : e \in PeriodEndsOwed(row, day)
                 <=> \E i \in Int : i <= q /\ EndsPeriod(e, i, len, created_on)
    BY OwedPeriods
  <1>4. ASSUME NEW i \in k..q PROVE f[i] \in later
    <2>1. i \in Int /\ i >= 1 /\ i <= q /\ k <= i
      BY <1>1, <1>2
    <2>2. PICK x \in Int : x = i * len
      BY <1>1, <2>1
    <2>3. k * len <= x /\ k * len \in Int
      BY <1>1, <2>1, <2>2, Multiples
    <2>4. PICK e \in Int : e = x - 1 /\ e = f[i]
      BY <2>2
    <2>5. e >= d
      BY <1>2, <2>3, <2>4
    <2>6. EndsPeriod(e, i, len, created_on)
      BY <1>1, <1>2, <2>1, <2>2, <2>4, <2>5 DEF EndsPeriod
    <2>7. e \in PeriodEndsOwed(row, day)
      BY <1>3, <2>1, <2>6
    <2>8. QED
      BY <2>4, <2>5, <2>7
  <1>5. ASSUME NEW i \in k..q, NEW j \in k..q, f[i] = f[j] PROVE i = j
    <2>1. i \in Int /\ j \in Int
      BY <1>1
    <2>2. PICK x \in Int, y \in Int : x = i * len /\ y = j * len
      BY <1>1, <2>1
    <2>3. x = y
      BY <1>5, <2>2
    <2>4. (i < j => x + len <= y) /\ (j < i => y + len <= x)
      BY <1>1, <2>1, <2>2, Multiples
    <2>5. QED
      BY <1>1, <2>1, <2>3, <2>4
  <1>6. ASSUME NEW e \in later PROVE \E i \in k..q : f[i] = e
    <2>1. e \in PeriodEndsOwed(row, day) /\ e >= d
      BY <1>6
    <2>2. PICK i \in Int : i <= q /\ EndsPeriod(e, i, len, created_on)
      BY <1>3, <2>1
    <2>3. PICK x \in Int, y \in Int : x = i * len /\ y = k * len
      BY <1>1
    <2>4. e = x - 1 /\ d = y - 1
      BY <1>2, <2>2, <2>3 DEF EndsPeriod
    <2>5. i < k => x + len <= y
      BY <1>1, <2>3, Multiples
    <2>6. k <= i
      BY <1>1, <2>1, <2>4, <2>5
    <2>7. i \in k..q
      BY <1>1, <2>2, <2>6
    <2>8. QED
      BY <2>3, <2>4, <2>7
  <1>7. f \in Bijection(k..q, later)
    <2>1. f \in [k..q -> later]
      BY <1>4
    <2>2. QED
      BY <1>5, <1>6, <2>1 DEF Bijection, Injection, Surjection, IsInjective
  <1>8. ExistsBijection(k..q, later)
    BY <1>7 DEF ExistsBijection
  <1>9. IsFiniteSet(k..q) /\ Cardinality(k..q) = q - k + 1
    BY <1>1, FS_Interval
  <1> HIDE DEF later
  <1>10. Cardinality(later) = q - k + 1
    BY <1>8, <1>9, FS_Bijection
  <1>11. QED
    BY <1>10 DEF later, later_owed

\* The backfill of a definition on a day is exactly its latest BackfillLimit period ends.
LEMMA DueDatesAreExact ==
    ASSUME NEW row \in ScheduleRow, NEW day \in Nat
    PROVE  due_as_of_dates(row.cadence, day, row.cadence_effective_on)
              = {d \in PeriodEndsOwed(row, day) :
                    Cardinality({e \in PeriodEndsOwed(row, day) : e >= d}) <= BackfillLimit}
  <1> DEFINE created_on == row.cadence_effective_on
             owed == PeriodEndsOwed(row, day)
             due == due_as_of_dates(row.cadence, day, created_on)
             latest == {d \in owed : Cardinality({e \in owed : e >= d}) <= BackfillLimit}
  <1>1. PICK len : len = Period(row.cadence)
    OBVIOUS
  <1>2. row.cadence \in Cadences /\ created_on \in Nat /\ len \in Nat \ {0} /\ BackfillLimit \in Nat
    BY <1>1, PeriodType, SchedulingAssumption DEF ScheduleRow
  <1>3. PICK q : Ended(q, len, day)
    <2>1. PICK a \in Nat : a = day + 1
      OBVIOUS
    <2>2. PICK q : q = a \div len
      OBVIOUS
    <2>3. q \in Nat /\ q * len <= day + 1 /\ day + 1 < q * len + len
      BY <1>2, <2>1, <2>2, Division
    <2>4. QED
      BY <2>3 DEF Ended
  <1>4. q \in Int
    BY <1>3 DEF Ended
  <1>5. due \subseteq 0..day /\ owed \subseteq 0..day
    BY <1>2 DEF due_as_of_dates, PeriodEndsOwed
  <1> HIDE DEF due, owed, created_on
  <1>6. ASSUME NEW d \in due PROVE d \in latest
    <2>1. PICK k \in Int : q - BackfillLimit < k /\ k <= q /\ EndsPeriod(d, k, len, created_on)
      BY <1>1, <1>2, <1>3, <1>5, NamedPeriods DEF due
    <2>2. d \in owed
      BY <1>1, <1>3, <2>1, OwedPeriods DEF owed, created_on
    <2>3. Cardinality(later_owed(row, day, d)) = q - k + 1
      BY <1>1, <1>3, <2>1, LaterPeriods DEF created_on
    <2>4. q - k + 1 <= BackfillLimit
      BY <1>2, <1>4, <2>1
    <2>5. QED
      BY <2>2, <2>3, <2>4 DEF owed, later_owed
  <1>7. ASSUME NEW d \in latest PROVE d \in due
    <2>1. d \in owed /\ Cardinality({e \in owed : e >= d}) <= BackfillLimit
      OBVIOUS
    <2>2. PICK k \in Int : k <= q /\ EndsPeriod(d, k, len, created_on)
      BY <1>1, <1>3, <2>1, OwedPeriods DEF owed, created_on
    <2>3. Cardinality(later_owed(row, day, d)) = q - k + 1
      BY <1>1, <1>3, <2>2, LaterPeriods DEF created_on
    <2>4. q - BackfillLimit < k
      BY <1>2, <1>4, <2>1, <2>3 DEF owed, later_owed
    <2>5. QED
      BY <1>1, <1>2, <1>3, <1>5, <2>1, <2>2, <2>4, NamedPeriods DEF due
  <1>8. due = latest
    BY <1>6, <1>7
  <1>9. QED
    BY <1>8 DEF due, owed, created_on

\* due_as_of_dates against what is owed, for every calendar, limit and day: a scheduler that was
\* down catches up on the latest BackfillLimit period ends since the cadence took effect, on no
\* other date and on each of them, whichever edits led to the definition.
THEOREM SchedulingBackfillIsExact == SchedulingSpec => []BackfillIsExact
  <1>1. SchedulingInv => BackfillIsExact
    <2>1. SUFFICES ASSUME SchedulingInv, NEW s \in Stored, NEW day \in Days, schedule[s] # None
                   PROVE  due_as_of_dates(schedule[s].cadence, day, schedule[s].cadence_effective_on)
                             = {d \in PeriodEndsOwed(schedule[s], day) :
                                   Cardinality({e \in PeriodEndsOwed(schedule[s], day) : e >= d})
                                      <= BackfillLimit}
      BY Zenon DEF BackfillIsExact
    <2>2. schedule[s] \in ScheduleRow /\ day \in Nat
      BY <2>1, SchedulingAssumption DEF SchedulingInv, SchedulingTypeOK, Days
    <2>3. QED
      BY Zenon, <2>2, DueDatesAreExact
  <1>2. QED
    BY <1>1, SchedulingInvariant, PTL
==============================================================================
