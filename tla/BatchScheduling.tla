------------------------------ MODULE BatchScheduling ------------------------------
(***************************************************************************)
(* Recurring report packs: stored schedule definitions with their audit    *)
(* trail, configured schedules, and the scheduler passes (daemon and       *)
(* operator route) that materialize one batch per schedule cycle.          *)
(*                                                                         *)
(* A definition change reads a row and writes it in a second transaction;  *)
(* a pass reads all due definitions, then resolves portfolios upstream and *)
(* creates batches one definition at a time.  Every such pair of steps is  *)
(* open to the other actors.                                               *)
(*                                                                         *)
(* Dates are day numbers; a month has DaysPerMonth days.  Portfolio order, *)
(* output formats, currency and options are abstracted: a pack is a set of *)
(* portfolios and the size its batch may have.                             *)
(***************************************************************************)
EXTENDS Integers, FiniteSets, Sequences, NoValue

CONSTANTS
    ScheduleCount,    \* bound: stored schedules ever created
    Editors,          \* callers of the definition API
    Passes,           \* scheduler passes that may overlap
    Scopes,           \* tenant, region and booking-centre triples
    SchedulerScope,   \* the scope the scheduler is configured with
    Portfolios,
    Packs,            \* [portfolios, max_batch_size] a caller may ask for
    Configurations,   \* schedule configurations a deployed scheduler may hold
    DaysPerMonth,
    LastDay,          \* bound: the clock stops here
    OperatorDays,     \* evaluation dates an operator asks for
    BackfillLimit,    \* STORED_SCHEDULE_BACKFILL_LIMIT
    MaxRevision       \* bound: revisions of one schedule

VARIABLES
    schedule,         \* rows of report_batch_schedule_definition, by creation order
    audit,            \* rows of report_batch_schedule_audit per schedule
    batches,          \* rows of report_batch that a schedule created
    edit,             \* what each caller read before it writes
    pass,             \* what each pass still has to do
    today

scheduling_vars == <<schedule, audit, batches, edit, pass, today>>

Stored == 1..ScheduleCount
Days == 0..LastDay
Cadences == {"monthly_end", "quarter_end"}

\* A row of report_batch_schedule_definition.
ScheduleRow == [scope : Scopes, enabled : BOOLEAN, cadence : Cadences, pack : Packs,
                cadence_effective_on : Nat, revision : Nat \ {0}]

ASSUME SchedulingAssumption ==
    /\ DaysPerMonth \in Nat \ {0} /\ LastDay \in Nat
    /\ BackfillLimit \in Nat \ {0} /\ MaxRevision \in Nat \ {0}
    /\ ScheduleCount \in Nat
    /\ SchedulerScope \in Scopes /\ OperatorDays \subseteq 0..LastDay
    /\ None \notin Int /\ None \notin ScheduleRow
    /\ \A pack \in Packs : IsFiniteSet(pack.portfolios)

---------------------------------------------------------------------------
(* Calendar *)

month_of(day) == day \div DaysPerMonth
month_end(day) == (month_of(day) + 1) * DaysPerMonth - 1
quarter_end(day) == ((month_of(day) \div 3) * 3 + 3) * DaysPerMonth - 1

period_end_on_or_after(cadence, day) ==
    IF cadence = "monthly_end" THEN month_end(day) ELSE quarter_end(day)

\* The most recent period end on or before the day; None before the first one.
previous_period_end(cadence, day) ==
    LET candidate == period_end_on_or_after(cadence, day)
        months    == IF cadence = "monthly_end" THEN 1 ELSE 3
        before    == (month_of(day) \div months) * months * DaysPerMonth - 1
    IN  IF candidate <= day THEN candidate
        ELSE IF before < 0 THEN None ELSE before

due_as_of_date(cadence, day, created_on) ==
    LET latest == IF day < 0 THEN None ELSE previous_period_end(cadence, day)
    IN  IF latest = None THEN None
        ELSE IF latest < created_on THEN None ELSE latest

\* The values of the cursor: the latest due date, then the one due the day before the last.
walk_back(cursor, cadence, day, created_on) ==
    \A n \in DOMAIN cursor :
        cursor[n] = IF n = 1 THEN due_as_of_date(cadence, day, created_on)
                    ELSE IF cursor[n - 1] = None THEN None
                    ELSE due_as_of_date(cadence, cursor[n - 1] - 1, created_on)

\* Mutant: the walk takes one period more than the limit.
due_as_of_dates_unbounded(cadence, day, created_on) ==
    {d \in 0..day : \E cursor \in [1..BackfillLimit + 1 -> 0..day \cup {None}] :
                       /\ walk_back(cursor, cadence, day, created_on)
                       /\ \E n \in DOMAIN cursor : cursor[n] = d}

\* The periods owed between the cadence's effective date and the day, walking
\* back from the latest and at most BackfillLimit of them.
due_as_of_dates(cadence, day, created_on) ==
    {d \in 0..day : \E cursor \in [1..BackfillLimit -> 0..day \cup {None}] :
                       /\ walk_back(cursor, cadence, day, created_on)
                       /\ \E n \in DOMAIN cursor : cursor[n] = d}

SCHEDULE_CADENCE_FREQUENCY == [monthly_end |-> "monthly", quarter_end |-> "quarterly"]

\* Months in a period of each frequency; "explicit" periods are given.
PeriodMonths == [monthly |-> 1, quarterly |-> 3, semi_annual |-> 6, yearly |-> 12]

\* A given period holds its as-of date; materialize_cycle refuses any other.
valid_explicit_period(d) ==
    d.frequency = "explicit" =>
        /\ d.explicit # None
        /\ d.explicit.start <= d.as_of_date /\ d.as_of_date <= d.explicit.end

\* materialize_cycle: the business cycle of a definition.
materialize_cycle(d) ==
    LET months == PeriodMonths[d.frequency]
    IN  [frequency |-> d.frequency, as_of_date |-> d.as_of_date,
         period |-> IF d.frequency = "explicit" THEN d.explicit
                    ELSE [start |-> (month_of(d.as_of_date) \div months) * months * DaysPerMonth,
                          end   |-> d.as_of_date]]

---------------------------------------------------------------------------
(* Definitions and identities *)

definition_fingerprint(row) == <<row.scope, row.cadence, row.pack>>

validate_portfolio_bound(pack) == Cardinality(pack.portfolios) <= pack.max_batch_size

\* The partial unique index on enabled rows.
duplicate_enabled(others, row) ==
    /\ row.enabled
    /\ \E t \in others : /\ schedule[t] # None
                         /\ schedule[t].enabled
                         /\ definition_fingerprint(schedule[t]) = definition_fingerprint(row)

stored_schedule_to_definition(s, row, as_of) ==
    [schedule_id |-> s, stable |-> TRUE, selector_mode |-> "explicit_portfolio_list",
     frequency |-> SCHEDULE_CADENCE_FREQUENCY[row.cadence], as_of_date |-> as_of,
     portfolios |-> row.pack.portfolios, max_batch_size |-> row.pack.max_batch_size,
     explicit |-> None]

\* Mutant: the identity hashes the whole cycle.
stored_schedule_cycle_idempotency_key_by_period(s, cycle) == <<"stored", s, cycle>>

\* A stored cycle is its schedule and as-of date, whatever the content and cadence.
stored_schedule_cycle_idempotency_key(s, cycle) == <<"stored", s, cycle.as_of_date>>

selector_identity(d, portfolios) ==
    <<d.schedule_id, d.selector_mode, portfolios, d.max_batch_size>>

\* A configured cycle is its business period and the selector's content.
scheduled_batch_idempotency_key(d, cycle, portfolios) ==
    <<"configured", d.selector_mode, cycle, selector_identity(d, portfolios)>>

cycle_key(d, portfolios) ==
    IF d.stable THEN stored_schedule_cycle_idempotency_key(d.schedule_id, materialize_cycle(d))
    ELSE scheduled_batch_idempotency_key(d, materialize_cycle(d), portfolios)

\* _validate_selector_source: the configurations the scheduler starts with.  A configured
\* schedule has a name, which is no generated schedule id, and no stable identity.
valid_configuration(d) ==
    /\ d.stable = FALSE /\ d.schedule_id \notin Stored
    /\ d.selector_mode \in {"explicit_portfolio_list", "batch_manifest", "all_active_portfolios"}
    /\ d.selector_mode # "all_active_portfolios" => d.portfolios # {}

ASSUME ConfigurationsAreValid ==
    \A configured \in Configurations : \A d \in configured : valid_configuration(d)

---------------------------------------------------------------------------
(* Portfolio resolution (lotus-core answers one portfolio at a time) *)

Answers == {"active", "inactive", "refused", "other_portfolio", "tenant_absent", "other_tenant"}

\* _projected_tenant: a candidate is attributed only on the source's own word.
projected_tenant(answer) ==
    IF answer \in {"tenant_absent", "other_tenant"} THEN None ELSE SchedulerScope

\* The candidates a pass keeps, with whether each is active.
resolve_candidates(answers) ==
    {[portfolio |-> p, active |-> answers[p] = "active"] :
        p \in {q \in DOMAIN answers : /\ answers[q] \notin {"refused", "other_portfolio"}
                                      /\ projected_tenant(answers[q]) # None}}

tenant_attribution_is_a_stamp(d) == d.selector_mode = "all_active_portfolios"

\* Mutant: a partly resolved pack goes ahead.
resolution_refused_when_empty(d, candidates) == candidates = {}

\* A stored pack must not shrink under a transient upstream miss.
resolution_refused(d, candidates) ==
    \/ candidates = {}
    \/ d.stable /\ Cardinality(candidates) # Cardinality(d.portfolios)

\* materialize_portfolios: size bound, then every candidate must be active.
selector_admits(d, candidates) ==
    /\ Cardinality(candidates) <= d.max_batch_size
    /\ \A c \in candidates : c.active

---------------------------------------------------------------------------
(* Definition API *)

Idle == [kind |-> "idle"]

\* Rows are created in the order of their numbers.
next_schedule(s) == schedule[s] = None /\ \A t \in 1..s - 1 : schedule[t] # None

\* create_schedule reads the tenant's schedules; an identical enabled one is the answer.
create_schedule(e, scope, cadence, pack) ==
    /\ edit[e] = Idle
    /\ \E s \in Stored : schedule[s] = None
    /\ validate_portfolio_bound(pack)
    /\ LET row == [scope |-> scope, enabled |-> TRUE, cadence |-> cadence, pack |-> pack,
                   cadence_effective_on |-> today, revision |-> 1]
       IN  /\ ~duplicate_enabled(Stored, row)
           /\ edit' = [edit EXCEPT ![e] = [kind |-> "create", row |-> row]]
    /\ UNCHANGED <<schedule, audit, batches, pass, today>>

\* save_schedule_definition_with_audit of a new row: the index decides a race of identical
\* creates, and the loser answers with the winner.
save_created_schedule(e) ==
    /\ edit[e].kind = "create"
    /\ edit' = [edit EXCEPT ![e] = Idle]
    /\ \/ /\ (\A t \in Stored : schedule[t] # None) \/ duplicate_enabled(Stored, edit[e].row)
          /\ UNCHANGED <<schedule, audit>>
       \/ \E s \in Stored :
             /\ next_schedule(s) /\ ~duplicate_enabled(Stored, edit[e].row)
             /\ schedule' = [schedule EXCEPT ![s] = edit[e].row]
             /\ audit' = [audit EXCEPT ![s] = <<edit[e].row>>]
    /\ UNCHANGED <<batches, pass, today>>

\* The effective change of an update request: a changed cadence takes effect today.
updated_row(row, enabled, cadence, pack) ==
    [row EXCEPT !.enabled = enabled, !.cadence = cadence, !.pack = pack,
                !.cadence_effective_on = IF cadence = row.cadence THEN @ ELSE today,
                !.revision = @ + 1]

caller_owns_scope(row, scope) == row.scope = scope

update_schedule(e, s, scope, enabled, cadence, pack) ==
    /\ edit[e] = Idle
    /\ schedule[s] # None
    /\ caller_owns_scope(schedule[s], scope)
    /\ schedule[s].revision < MaxRevision
    /\ <<enabled, cadence, pack>> # <<schedule[s].enabled, schedule[s].cadence, schedule[s].pack>>
    /\ validate_portfolio_bound(pack)
    /\ edit' = [edit EXCEPT ![e] = [kind |-> "update", schedule |-> s,
                                    row |-> updated_row(schedule[s], enabled, cadence, pack)]]
    /\ UNCHANGED <<schedule, audit, batches, pass, today>>

\* Mutant: the last writer wins.
revision_ignored(s, row) == TRUE

\* UPDATE ... WHERE revision = the revision that was read.
revision_matches(s, row) == schedule[s].revision = row.revision - 1

save_updated_schedule(e) ==
    /\ edit[e].kind = "update"
    /\ edit' = [edit EXCEPT ![e] = Idle]
    /\ LET s == edit[e].schedule
       IN  IF revision_matches(s, edit[e].row) /\ ~duplicate_enabled(Stored \ {s}, edit[e].row)
           THEN /\ schedule' = [schedule EXCEPT ![s] = edit[e].row]
                /\ audit' = [audit EXCEPT ![s] = Append(@, edit[e].row)]
           ELSE UNCHANGED <<schedule, audit>>
    /\ UNCHANGED <<batches, pass, today>>

---------------------------------------------------------------------------
(* Scheduler passes *)

\* due_definitions_for_scheduler: enabled rows bound to the scheduler's own scope.
due_definitions_for_scheduler(day) ==
    UNION {{stored_schedule_to_definition(s, schedule[s], as_of) :
                as_of \in due_as_of_dates(schedule[s].cadence, day,
                                          schedule[s].cadence_effective_on)} :
           s \in {t \in Stored : /\ schedule[t] # None
                                 /\ schedule[t].enabled
                                 /\ schedule[t].scope = SchedulerScope}}

\* Configured schedules come first, then stored ones by creation and ascending as-of date.
precedes(d, e) ==
    \/ ~d.stable /\ e.stable
    \/ d.stable = e.stable /\ d.schedule_id < e.schedule_id
    \/ d.stable = e.stable /\ d.schedule_id = e.schedule_id /\ d.as_of_date <= e.as_of_date

\* The definition a pass turns to next.
current(todo, d) == \A e \in todo : precedes(d, e)

\* The pass is done with a definition and has the rest left.
advanced(rest) == IF rest = {} THEN Idle ELSE [kind |-> "resolve", todo |-> rest]

\* Only a caller of exactly the configured scope runs the scheduler.
admit_scheduler(scope) == scope = SchedulerScope

\* The daemon evaluates today; the operator route may give another date.
evaluation_dates == OperatorDays \cup {today}

\* run_due_schedules reads what is enabled and due.
run_due_schedules(p, scope, configured, day) ==
    /\ pass[p] = Idle
    /\ admit_scheduler(scope)
    /\ LET todo == {d \in configured : d.enabled_schedule} \cup due_definitions_for_scheduler(day)
       IN  /\ todo # {}
           /\ pass' = [pass EXCEPT ![p] = [kind |-> "resolve", todo |-> todo]]
    /\ UNCHANGED <<schedule, audit, batches, edit, today>>

\* Broad selectors are refused before discovery; a pack that does not resolve is skipped; a
\* given period that does not hold its as-of date ends the pass.
resolve_schedule(p, answers) ==
    /\ pass[p].kind = "resolve"
    /\ \E d \in pass[p].todo :
          LET rest == pass[p].todo \ {d}
              candidates == resolve_candidates([q \in d.portfolios |-> answers[q]])
          IN  /\ current(pass[p].todo, d)
              /\ pass' = [pass EXCEPT ![p] =
                    IF tenant_attribution_is_a_stamp(d) \/ resolution_refused(d, candidates)
                    THEN advanced(rest)
                    ELSE IF ~valid_explicit_period(d) THEN Idle
                    ELSE [kind |-> IF d.stable THEN "create" ELSE "recognise",
                          todo |-> rest, definition |-> d, candidates |-> candidates]]
    /\ UNCHANGED <<schedule, audit, batches, edit, today>>

has_batch_for_schedule_cycle(d) ==
    \E b \in batches : /\ b.schedule_id = d.schedule_id
                       /\ b.cycle.as_of_date = d.as_of_date
                       /\ b.cycle.period = materialize_cycle(d).period

\* A configured cycle that has a batch under any earlier identity mints nothing.
recognise_cycle(p) ==
    /\ pass[p].kind = "recognise"
    /\ pass' = [pass EXCEPT ![p] =
            IF has_batch_for_schedule_cycle(pass[p].definition) THEN advanced(pass[p].todo)
            ELSE [pass[p] EXCEPT !.kind = "create"]]
    /\ UNCHANGED <<schedule, audit, batches, edit, today>>

\* create_batch under the unique idempotency key: an existing row is reused when the request
\* is the same and is a conflict, and a skip, when it is not.
create_batch(p) ==
    /\ pass[p].kind = "create"
    /\ LET d == pass[p].definition
           portfolios == {c.portfolio : c \in pass[p].candidates}
           row == [key |-> cycle_key(d, portfolios), schedule_id |-> d.schedule_id,
                   cycle |-> materialize_cycle(d), portfolios |-> portfolios]
       IN  IF ~selector_admits(d, pass[p].candidates)
           THEN \* a stale stored schedule is skipped, a configured one aborts the pass
                /\ pass' = [pass EXCEPT ![p] = IF d.stable THEN advanced(pass[p].todo) ELSE Idle]
                /\ UNCHANGED batches
           ELSE /\ pass' = [pass EXCEPT ![p] = advanced(pass[p].todo)]
                /\ batches' = IF \E b \in batches : b.key = row.key THEN batches
                              ELSE batches \cup {row}
    /\ UNCHANGED <<schedule, audit, edit, today>>

\* A deployment fault or the end of the process loses the rest of the pass.
pass_dies(p) ==
    /\ pass[p] # Idle
    /\ pass' = [pass EXCEPT ![p] = Idle]
    /\ UNCHANGED <<schedule, audit, batches, edit, today>>

tick ==
    /\ today < LastDay
    /\ today' = today + 1
    /\ UNCHANGED <<schedule, audit, batches, edit, pass>>

\* The horizon of the model: the clock stands still.
horizon ==
    /\ today = LastDay
    /\ UNCHANGED scheduling_vars

---------------------------------------------------------------------------
SchedulingInit ==
    /\ schedule = [s \in Stored |-> None]
    /\ audit = [s \in Stored |-> <<>>]
    /\ batches = {}
    /\ edit = [e \in Editors |-> Idle]
    /\ pass = [p \in Passes |-> Idle]
    /\ today = 0

EditStep(e) ==
    \/ \E scope \in Scopes, cadence \in Cadences, pack \in Packs :
            create_schedule(e, scope, cadence, pack)
    \/ save_created_schedule(e)
    \/ \E s \in Stored, scope \in Scopes, enabled \in BOOLEAN, cadence \in Cadences, pack \in Packs :
            update_schedule(e, s, scope, enabled, cadence, pack)
    \/ save_updated_schedule(e)

PassStep(p) ==
    \/ \E answers \in [Portfolios -> Answers] : resolve_schedule(p, answers)
    \/ recognise_cycle(p)
    \/ create_batch(p)

SchedulingNext ==
    \/ \E e \in Editors : EditStep(e)
    \/ \E p \in Passes, scope \in Scopes, configured \in Configurations, day \in evaluation_dates :
            run_due_schedules(p, scope, configured, day)
    \/ \E p \in Passes : PassStep(p) \/ pass_dies(p)
    \/ tick
    \/ horizon

SchedulingSpec == SchedulingInit /\ [][SchedulingNext]_scheduling_vars

---------------------------------------------------------------------------
(* Properties *)

\* The audit trail is the definition's history: one record per revision, in order, and the
\* last one is the definition (save_schedule_definition_with_audit, StaleScheduleRevision).
AuditExplainsDefinition ==
    \A s \in Stored :
        IF schedule[s] = None THEN audit[s] = <<>>
        ELSE /\ Len(audit[s]) = schedule[s].revision
             /\ audit[s][Len(audit[s])] = schedule[s]

\* A stored schedule has at most one batch per as-of date, through content updates, cadence
\* changes, overlapping passes and repeated runs (stored_schedule_cycle_idempotency_key).
OneBatchPerStoredCycle ==
    \A b, c \in batches :
        /\ b.schedule_id \in Stored
        /\ b.schedule_id = c.schedule_id
        /\ b.cycle.as_of_date = c.cycle.as_of_date
        => b = c

\* Every stored pack is a pack its schedule really described: some audited revision lists
\* exactly its portfolios, has its cadence, was enabled for the scheduler's scope and owed the
\* period: it ends on or after the cadence took effect.
EveryPackWasOwed ==
    \A b \in batches : b.schedule_id \in Stored =>
        \E n \in 1..Len(audit[b.schedule_id]) :
            LET row == audit[b.schedule_id][n]
            IN  /\ row.enabled
                /\ row.scope = SchedulerScope
                /\ row.pack.portfolios = b.portfolios
                /\ SCHEDULE_CADENCE_FREQUENCY[row.cadence] = b.cycle.frequency
                /\ row.cadence_effective_on <= b.cycle.as_of_date

PeriodEndsOwed(row, day) ==
    LET months == IF row.cadence = "monthly_end" THEN 1 ELSE 3
    IN  {d \in row.cadence_effective_on..day :
            d + 1 \in {n * DaysPerMonth * months : n \in 1..day + 1}}

\* due_as_of_dates against its specification, for every definition the edits lead to: the
\* latest BackfillLimit period ends from the effective date to the evaluation date, so a
\* scheduler that was down catches up on exactly those.
BackfillIsExact ==
    \A s \in Stored, day \in Days : schedule[s] # None =>
        LET owed == PeriodEndsOwed(schedule[s], day)
        IN  due_as_of_dates(schedule[s].cadence, day, schedule[s].cadence_effective_on)
            = {d \in owed : Cardinality({e \in owed : e >= d}) <= BackfillLimit}
====
