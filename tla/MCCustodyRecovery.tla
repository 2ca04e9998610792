----------------------------- MODULE MCCustodyRecovery -----------------------------
EXTENDS CustodyRecovery

CONSTANTS a1, a2

\* Archive requests are alike and a job keeps its first one: call it a1.
FirstRequestIsA1 == job.request \in {None, a1}

\* Bound: one pass at a time goes on after it lost its lease. The overtaken pass ends by its
\* own fair steps, after which the lease of the next may run out, so the bound delays fair
\* steps and forbids none for good.
OneOvertakenPass == Cardinality({w \in Workers : run[w].pc # "idle" /\ ~leased(w)}) <= 1
====
