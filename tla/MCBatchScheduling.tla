-------------------------- MODULE MCBatchScheduling --------------------------
(***************************************************************************)
(* Two independent models, checked in one run: two editors of one schedule *)
(* under a scheduler that also holds configured schedules, and the threads *)
(* of a process on the SQLite job ledger.  The initial state chooses one,  *)
(* and only that one moves.                                                *)
(***************************************************************************)
EXTENDS BatchScheduling, SqliteReportJobLedger, TLC

CONSTANTS p1, p2, k1, k2, k3

VARIABLE subject   \* the model this behaviour is of

PairPortfolios == {p1, p2}

\* A pack that fits its size bound, and one that the bound refuses.
MCPacks == {[portfolios |-> {p1, p2}, max_batch_size |-> 2],
            [portfolios |-> {p1, p2}, max_batch_size |-> 1]}

Configured(id, mode, portfolios) ==
    [schedule_id |-> id, stable |-> FALSE, enabled_schedule |-> TRUE, selector_mode |-> mode,
     frequency |-> "monthly", as_of_date |-> 0, portfolios |-> portfolios,
     max_batch_size |-> 2, explicit |-> None]

\* A configured list, and a broad selector the scheduler refuses.
MCConfigurations == {{Configured(-1, "explicit_portfolio_list", {p1}),
                      Configured(-2, "all_active_portfolios", {})}}

\* Of the edits and passes, two are under way at a time.
AtMostTwoUnderWay ==
    Cardinality({e \in Editors : edit[e] # Idle}) + Cardinality({p \in Passes : pass[p] # Idle}) <= 2

\* A behaviour of the ledger has the job calls and one other group of callers.
SomeServices == {{"jobs", "replay"}, {"jobs", "worker"}, {"jobs", "events"}, {"rerender"}}

\* What stands still: a database nobody opened, and a scheduler nobody asked.
MCInit ==
    /\ SchedulingInit /\ SqliteInit
    /\ \/ subject = "scheduling" /\ service = {"rerender"}
       \/ subject = "ledger"

MCNext ==
    \/ subject = "scheduling" /\ SchedulingNext /\ UNCHANGED <<subject, sqlite_vars>>
    \/ subject = "ledger" /\ SqliteNext /\ UNCHANGED <<subject, scheduling_vars>>

MCSpec == MCInit /\ [][MCNext]_<<subject, scheduling_vars, sqlite_vars>>

\* Editors are alike, and so are passes; the threads of the ledger bear the names of passes.
ActorSymmetry == Permutations(Editors) \cup Permutations(Passes)
==============================================================================
