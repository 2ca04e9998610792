----------------------------- MODULE MCRequests -----------------------------
(***************************************************************************)
(* Two independent models of what callers ask of the service, checked in   *)
(* one run: the intake of idea evidence, and the correction of an archived *)
(* document.  The initial state chooses one, and only that one moves.      *)
(***************************************************************************)
EXTENDS IdeaEvidenceIntake, DocumentCorrection, TLC

CONSTANTS c1, c2, k1, k2, k3, g1, x, y

VARIABLE subject   \* the model this behaviour is of

\* Two packs that share their content and one that does not.
ThreePacks == {[content |-> x, candidate |-> x], [content |-> x, candidate |-> y],
               [content |-> y, candidate |-> x]}

\* A document every command may correct, and one that may only be rerendered.
SomeSources ==
    {[report_type |-> "portfolio_review", format |-> "pdf", archived |-> TRUE],
     [report_type |-> "composite_review", format |-> "pdf", archived |-> TRUE]}

NoIntake ==
    /\ schema = None /\ rows = None /\ table = None /\ backend = None /\ api = FALSE
    /\ transfer = None /\ job = None /\ request = None /\ acknowledged = None
    /\ forgotten = None /\ receipt = None
NoCorrection ==
    /\ source = Absent /\ attempt = Absent /\ derived = Absent /\ relationship = Absent
    /\ events = {} /\ call = Absent /\ committed = {} /\ handoff = {} /\ lineage = {}
    /\ answer = [k \in CorrectionKeys |-> {}]

RequestsInit ==
    \/ subject = "intake" /\ IntakeInit /\ NoCorrection
    \/ subject = "correction" /\ CorrectionInit /\ NoIntake

RequestsNext ==
    \/ subject = "intake" /\ IntakeNext /\ UNCHANGED <<subject, correction_vars>>
    \/ subject = "correction" /\ CorrectionNext /\ UNCHANGED <<subject, source, intake_vars>>

RequestsSpec == RequestsInit /\ [][RequestsNext]_<<subject, intake_vars, correction_vars>>

\* Calls are alike, and so are the two keys of every pair.
RequestsSymmetry == Permutations(Requests) \cup Permutations({k2, k3})

\* At most two of the three correction keys are used in one behaviour, and one where the
\* document may only be rerendered.
KeysInUse ==
    {k \in RerenderKeys : attempt[k] # Absent \/ \E c \in Calls : call[c].key = k}
    \cup {g \in RegenerateKeys : derived[g] # Absent \/ \E c \in Calls : call[c].key = g}
FewKeys ==
    subject = "correction" =>
        Cardinality(KeysInUse) <= (IF source.report_type = "portfolio_review" THEN 2 ELSE 1)

\* At most two of the three packs are about at a time.
PacksInUse ==
    {stored.pack : stored \in rows} \cup {request[r].pack : r \in {q \in Requests : request[q] # Idle}}
    \cup {job[slot].pack : slot \in {s \in Slots : job[s] # None}}
    \cup ({table[slot] : slot \in Slots} \ {None})

Bounded ==
    /\ subject = "intake" => Cardinality(PacksInUse) <= 2
    /\ FewKeys
=============================================================================
