------------------------ MODULE DocumentCorrectionProofs ------------------------
(***************************************************************************)
(* Proofs about the correction of an archived document, for any keys and   *)
(* calls: every answer to a key names one document that Archive holds, and *)
(* a reported replacement has a lineage event.                             *)
(***************************************************************************)
EXTENDS DocumentCorrection, FiniteSetTheorems, TLAPS

---------------------------------------------------------------------------
(* The inductive invariant *)

Resolving == {"resolving", "adopting"}
Rendering == {"submitting", "rendered", "recording"}
Regenerating == {"relating", "capturing", "rendering"}
Linking == {"linking", "noting"}
Stages == {"idle", "settling", "listing", "finished"} \cup Resolving \cup Rendering
          \cup Regenerating

CorrectionCall ==
    [pc : Stages \cup Linking, kind : {"rerender", "regenerate", "reconcile", Absent},
     key : CorrectionKeys \cup {Absent}, todo : SUBSET CorrectionKeys,
     adopted : CorrectionKeys \cup {Absent}, target : CorrectionKeys \cup {Absent},
     next : Stages \cup {Absent},
     outcome : {"recorded", "refused", "pending", "not_rendered", "archived_verified",
                "unresolved", "no_custody", "accepted", "working", "archived", "failed", Absent}]

CorrectionTypeOK ==
    /\ attempt \in [RerenderKeys -> AttemptRow \cup {Absent}]
    /\ derived \in [RegenerateKeys -> {"accepted", "working", "archived", "failed", Absent}]
    /\ relationship \in [RegenerateKeys -> CorrectionKeys \cup {Absent}]
    /\ events \in SUBSET ({"recorded", "refused", "pending"} \X CorrectionKeys)
    /\ call \in [Calls -> CorrectionCall]
    /\ committed \in SUBSET CorrectionKeys
    /\ handoff \in SUBSET RerenderKeys
    /\ lineage \in SUBSET CorrectionKeys
    /\ answer \in [CorrectionKeys -> SUBSET CorrectionKeys]

\* Where a call stands, or goes on once the lineage of a pair is noted.
stage(q) == IF q.pc \in Linking THEN q.next ELSE q.pc

\* Each command goes through stages of its own, with a key of its own.
CommandOK(q) ==
    /\ q.kind = "rerender" => q.key \in RerenderKeys
    /\ q.kind = "regenerate" => q.key \in RegenerateKeys
    /\ q.pc \in Linking => q.target \in CorrectionKeys /\ q.next \in Stages
    /\ q.pc = "noting" => q.outcome \in {"recorded", "refused", "pending"}
    /\ stage(q) \in {"listing"} \cup Resolving \cup Rendering => q.kind = "rerender"
    /\ stage(q) \in Regenerating => q.kind = "regenerate"
    /\ stage(q) = "settling" => q.kind \in {"rerender", "reconcile"}
    /\ stage(q) = "finished" => q.kind \in {"rerender", "regenerate"}

\* A rerender resolves attempts that exist, adopts a document of Archive, and answers for a row.
RerenderOK(q) ==
    /\ stage(q) \in Resolving =>
          q.todo \subseteq RerenderKeys /\ \A k \in q.todo : attempt[k] # Absent
    /\ q.adopted \in committed \cup {Absent}
    /\ stage(q) = "adopting" => q.adopted # Absent
    /\ stage(q) \in Rendering => attempt[q.key] # Absent
    /\ stage(q) = "finished" /\ q.kind = "rerender" => attempt[q.key] # Absent
    /\ stage(q) \in {"rendered", "recording"} /\ q.outcome = "archived_verified" =>
          q.key \in committed

noted_pair(k) == \E event \in events : event[2] = k

\* A regenerate call that has an archived replacement in hand has, or is about to note, its pair.
RegenerateOK(q) ==
    /\ q.pc = "relating" => q.outcome \in {"accepted", "working", "archived", "failed"}
    /\ q.pc = "relating" /\ q.outcome = "archived" => q.key \in committed
    /\ q.pc \in Linking /\ q.kind = "regenerate" =>
          q.next = "finished" /\ q.target = q.key /\ q.key \in committed
    /\ q.pc = "finished" /\ q.kind = "regenerate" =>
          \/ q.outcome \in {"accepted", "working", "failed"}
          \/ q.outcome = Absent /\ q.key \in committed /\ noted_pair(q.key)

\* A row that names the document of another key was bound by an adoption: it is settled, and no
\* call works on the key or resolves it.
BoundElsewhere(k) ==
    /\ attempt[k].status = "archived" /\ ~attempt[k].ambiguous
    /\ \A c \in Calls :
        /\ stage(call[c]) \in Rendering => call[c].key # k
        /\ stage(call[c]) \in Resolving => k \notin call[c].todo

\* The document of an attempt, and what was answered of it.
AttemptOK(k) ==
    /\ attempt[k] = Absent => answer[k] = {}
    /\ attempt[k] # Absent =>
        /\ attempt[k].document \in committed \cup {Absent}
        /\ \/ attempt[k].document \in {Absent, k} /\ answer[k] \subseteq {k} \cap committed
           \/ /\ attempt[k].document # Absent
              /\ BoundElsewhere(k) /\ answer[k] \subseteq {attempt[k].document}

\* The document of a replacement, and what was answered of it.
ReplacementOK(g) ==
    /\ derived[g] = "archived" => g \in committed
    /\ answer[g] \subseteq {g} \cap committed
    /\ answer[g] # {} => noted_pair(g)

CorrectionInv ==
    /\ CorrectionTypeOK
    /\ \A c \in Calls : CommandOK(call[c]) /\ RerenderOK(call[c]) /\ RegenerateOK(call[c])
    /\ \A k \in RerenderKeys : AttemptOK(k)
    /\ \A g \in RegenerateKeys : ReplacementOK(g)

---------------------------------------------------------------------------
(* A step of one call *)

CallOK(q) == CommandOK(q) /\ RerenderOK(q) /\ RegenerateOK(q)

\* The call neither works on the key nor resolves it.
avoids(q, k) ==
    /\ stage(q) \in Rendering => q.key # k
    /\ stage(q) \in Resolving => k \notin q.todo

\* What Archive committed, the events and the rows of attempts only accumulate.
Accumulates ==
    /\ committed \subseteq committed'
    /\ events \subseteq events'
    /\ \A k \in RerenderKeys : attempt[k] # Absent => attempt'[k] # Absent

\* The other calls keep what they rely on.
LEMMA OtherCall ==
    ASSUME NEW q \in CorrectionCall, CallOK(q), Accumulates
    PROVE  CallOK(q)'
  <1>1. CommandOK(q)'
    BY DEF CallOK, CommandOK
  <1>2. RerenderOK(q)'
    <2>1. stage(q) \in Rendering \cup {"finished"} /\ q.kind = "rerender" => q.key \in RerenderKeys
      BY DEF CallOK, CommandOK
    <2>2. stage(q) \in Rendering => q.kind = "rerender"
      BY DEF CallOK, CommandOK
    <2>3. QED
      BY <2>1, <2>2 DEF CallOK, RerenderOK, Accumulates
  <1>3. RegenerateOK(q)'
    BY DEF CallOK, RegenerateOK, noted_pair, Accumulates
  <1>4. QED
    BY <1>1, <1>2, <1>3 DEF CallOK

\* One call moves; the rest of the state keeps its shape.
LEMMA CallStep ==
    ASSUME CorrectionInv, NEW c \in Calls, NEW q \in CorrectionCall,
           call' = [call EXCEPT ![c] = q], CallOK(q)', Accumulates,
           attempt' \in [RerenderKeys -> AttemptRow \cup {Absent}],
           derived' \in [RegenerateKeys -> {"accepted", "working", "archived", "failed", Absent}],
           relationship' \in [RegenerateKeys -> CorrectionKeys \cup {Absent}],
           events' \in SUBSET ({"recorded", "refused", "pending"} \X CorrectionKeys),
           committed' \in SUBSET CorrectionKeys, handoff' \in SUBSET RerenderKeys,
           lineage' \in SUBSET CorrectionKeys, answer' \in [CorrectionKeys -> SUBSET CorrectionKeys],
           \A k \in RerenderKeys : AttemptOK(k)',
           \A g \in RegenerateKeys : ReplacementOK(g)'
    PROVE  CorrectionInv'
  <1>1. call \in [Calls -> CorrectionCall]
    BY DEF CorrectionInv, CorrectionTypeOK
  <1>2. CorrectionTypeOK'
    BY <1>1 DEF CorrectionTypeOK
  <1>3. ASSUME NEW d \in Calls
        PROVE  CallOK(call[d])'
    <2>1. PICK p \in CorrectionCall : p = call'[d]
      BY <1>2 DEF CorrectionTypeOK
    <2>2. CASE d = c
      BY <1>1, <2>1, <2>2
    <2>3. CASE d # c
      <3>1. p = call[d] /\ CallOK(p)
        BY <1>1, <2>1, <2>3 DEF CorrectionInv, CallOK
      <3>2. CallOK(p)'
        BY <3>1, OtherCall
      <3>3. QED
        BY <2>1, <3>2
    <2>4. QED
      BY <2>2, <2>3
  <1>4. QED
    BY <1>2, <1>3 DEF CorrectionInv, CallOK

\* A row bound elsewhere stays so when the call that moves stays away from its key.
LEMMA BoundKept ==
    ASSUME CorrectionInv, NEW c \in Calls, NEW q \in CorrectionCall,
           call' = [call EXCEPT ![c] = q], NEW k \in RerenderKeys, attempt'[k] = attempt[k],
           BoundElsewhere(k), avoids(q, k)
    PROVE  BoundElsewhere(k)'
  <1>1. call \in [Calls -> CorrectionCall]
    BY DEF CorrectionInv, CorrectionTypeOK
  <1>2. ASSUME NEW d \in Calls
        PROVE  /\ stage(call'[d]) \in Rendering => call'[d].key # k
               /\ stage(call'[d]) \in Resolving => k \notin call'[d].todo
    <2>1. call'[d] = IF d = c THEN q ELSE call[d]
      BY <1>1
    <2>2. QED
      BY <2>1 DEF BoundElsewhere, avoids
  <1>3. QED
    BY <1>2 DEF BoundElsewhere, stage

\* The rows of attempts when the call stays away from those bound elsewhere.
LEMMA RowsKept ==
    ASSUME CorrectionInv, NEW c \in Calls, NEW q \in CorrectionCall,
           call' = [call EXCEPT ![c] = q], committed \subseteq committed',
           NEW k \in RerenderKeys, attempt'[k] = attempt[k], answer'[k] = answer[k],
           attempt[k] # Absent /\ BoundElsewhere(k) => avoids(q, k)
    PROVE  AttemptOK(k)'
  <1>1. AttemptOK(k)
    BY DEF CorrectionInv
  <1>2. attempt[k] # Absent /\ BoundElsewhere(k) => BoundElsewhere(k)'
    BY BoundKept
  <1>3. QED
    BY <1>1, <1>2 DEF AttemptOK

\* A row that a call at work on the key, or resolving it, may write is not bound elsewhere.
LEMMA OwnRow ==
    ASSUME CorrectionInv, NEW c \in Calls, NEW k \in RerenderKeys, attempt[k] # Absent,
           ~avoids(call[c], k)
    PROVE  answer[k] \subseteq {k} \cap committed
  BY DEF CorrectionInv, AttemptOK, BoundElsewhere, avoids

\* Replacements and their answers, untouched.
LEMMA ReplacementsKept ==
    ASSUME CorrectionInv, committed \subseteq committed', events \subseteq events',
           UNCHANGED <<derived, answer>>
    PROVE  \A g \in RegenerateKeys : ReplacementOK(g)'
  BY DEF CorrectionInv, ReplacementOK, noted_pair

\* A call moves without writing a row or giving an answer.
LEMMA QuietStep ==
    ASSUME CorrectionInv, NEW c \in Calls, NEW q \in CorrectionCall,
           call' = [call EXCEPT ![c] = q], CallOK(q)',
           UNCHANGED <<attempt, derived, relationship, answer>>,
           committed \subseteq committed', events \subseteq events',
           events' \in SUBSET ({"recorded", "refused", "pending"} \X CorrectionKeys),
           committed' \in SUBSET CorrectionKeys, handoff' \in SUBSET RerenderKeys,
           lineage' \in SUBSET CorrectionKeys,
           \A k \in RerenderKeys : attempt[k] # Absent /\ BoundElsewhere(k) => avoids(q, k)
    PROVE  CorrectionInv'
  <1>1. Accumulates
    BY DEF Accumulates
  <1>2. \A k \in RerenderKeys : AttemptOK(k)'
    BY RowsKept
  <1>3. \A g \in RegenerateKeys : ReplacementOK(g)'
    BY ReplacementsKept
  <1>4. /\ attempt' \in [RerenderKeys -> AttemptRow \cup {Absent}]
        /\ derived' \in [RegenerateKeys -> {"accepted", "working", "archived", "failed", Absent}]
        /\ relationship' \in [RegenerateKeys -> CorrectionKeys \cup {Absent}]
        /\ answer' \in [CorrectionKeys -> SUBSET CorrectionKeys]
    BY DEF CorrectionInv, CorrectionTypeOK
  <1>5. QED
    BY <1>1, <1>2, <1>3, <1>4, CallStep

\* What a call that stays at its stage, with no key more to resolve, keeps away from.
LEMMA StaysAway ==
    ASSUME NEW c \in Calls, NEW q,
           stage(q) \in Rendering => stage(call[c]) \in Rendering /\ q.key = call[c].key,
           stage(q) \in Resolving => stage(call[c]) \in Resolving /\ q.todo \subseteq call[c].todo
    PROVE  \A k \in RerenderKeys : attempt[k] # Absent /\ BoundElsewhere(k) => avoids(q, k)
  BY DEF BoundElsewhere, avoids

\* The call that has ended.
LEMMA EndedCall ==
    /\ NoCall \in CorrectionCall /\ CallOK(NoCall) /\ CallOK(NoCall)'
    /\ \A k \in RerenderKeys : avoids(NoCall, k)
  <1>1. NoCall \in CorrectionCall
    BY DEF NoCall, CorrectionCall, Stages
  <1>2. stage(NoCall) = "idle" /\ NoCall.pc = "idle" /\ NoCall.kind = Absent /\ NoCall.adopted = Absent
    BY DEF NoCall, stage, Linking
  <1>3. CommandOK(NoCall) /\ CommandOK(NoCall)'
    BY CorrectionAssumption, <1>2 DEF CommandOK, Linking, Resolving, Rendering, Regenerating
  <1>4. /\ RerenderOK(NoCall) /\ RerenderOK(NoCall)' /\ RegenerateOK(NoCall) /\ RegenerateOK(NoCall)'
        /\ \A k \in RerenderKeys : avoids(NoCall, k)
    BY <1>2 DEF RerenderOK, RegenerateOK, avoids, Linking, Resolving, Rendering
  <1>5. QED
    BY <1>1, <1>3, <1>4 DEF CallOK

---------------------------------------------------------------------------
(* Lineage *)

\* The facts of a call.
LEMMA CallFacts ==
    ASSUME CorrectionInv, NEW c \in Calls
    PROVE  /\ call \in [Calls -> CorrectionCall] /\ call[c] \in CorrectionCall
           /\ CallOK(call[c])
  BY DEF CorrectionInv, CorrectionTypeOK, CallOK

\* The types of what a lineage step may leave alone.
LEMMA StateFacts ==
    ASSUME CorrectionInv
    PROVE  /\ events \in SUBSET ({"recorded", "refused", "pending"} \X CorrectionKeys)
           /\ committed \in SUBSET CorrectionKeys /\ handoff \in SUBSET RerenderKeys
           /\ lineage \in SUBSET CorrectionKeys
           /\ attempt \in [RerenderKeys -> AttemptRow \cup {Absent}]
           /\ derived \in [RegenerateKeys -> {"accepted", "working", "archived", "failed", Absent}]
           /\ relationship \in [RegenerateKeys -> CorrectionKeys \cup {Absent}]
           /\ answer \in [CorrectionKeys -> SUBSET CorrectionKeys]
  BY DEF CorrectionInv, CorrectionTypeOK

\* The call to Archive.
LEMMA TransitionStep ==
    ASSUME CorrectionInv, NEW c \in Calls, record_lifecycle_transition(c)
    PROVE  CorrectionInv'
  <1>1. /\ call[c].pc = "linking"
        /\ UNCHANGED <<attempt, derived, relationship, events, committed, handoff, answer>>
    BY DEF record_lifecycle_transition, at
  <1>2. PICK outcome \in {"recorded", "refused", "pending"}, applied \in BOOLEAN :
            /\ lineage' = IF applied THEN lineage \cup {call[c].target} ELSE lineage
            /\ call' = [call EXCEPT ![c].pc = "noting", ![c].outcome = outcome]
    BY DEF record_lifecycle_transition
  <1>3. /\ call \in [Calls -> CorrectionCall] /\ call[c] \in CorrectionCall
        /\ CallOK(call[c])
    BY CallFacts
  <1>4. PICK q : q = [call[c] EXCEPT !.pc = "noting", !.outcome = outcome]
    OBVIOUS
  <1>5. call' = [call EXCEPT ![c] = q]
    BY <1>2, <1>3, <1>4
  <1>6. /\ q \in CorrectionCall
        /\ q.pc = "noting" /\ q.outcome = outcome /\ q.kind = call[c].kind /\ q.key = call[c].key
        /\ q.todo = call[c].todo /\ q.adopted = call[c].adopted /\ q.target = call[c].target
        /\ q.next = call[c].next
    BY <1>3, <1>4 DEF CorrectionCall, Linking
  <1>7. stage(q) = stage(call[c]) /\ call[c].target \in CorrectionKeys
    BY <1>1, <1>3, <1>6 DEF stage, Linking, CallOK, CommandOK
  <1>8. CallOK(q)
    <2>1. CommandOK(q)
      BY <1>1, <1>3, <1>6, <1>7 DEF CallOK, CommandOK, Linking
    <2>2. RerenderOK(q)
      BY <1>2, <1>3, <1>6, <1>7 DEF CallOK, RerenderOK
    <2>3. RegenerateOK(q)
      BY <1>1, <1>3, <1>6 DEF CallOK, RegenerateOK, Linking
    <2>4. QED
      BY <2>1, <2>2, <2>3 DEF CallOK
  <1>9. CallOK(q)'
    BY <1>1, <1>6, <1>8, OtherCall DEF Accumulates
  <1>10. \A k \in RerenderKeys : attempt[k] # Absent /\ BoundElsewhere(k) => avoids(q, k)
    BY <1>6, <1>7, StaysAway
  <1>11. /\ committed' \in SUBSET CorrectionKeys /\ handoff' \in SUBSET RerenderKeys
         /\ events' \in SUBSET ({"recorded", "refused", "pending"} \X CorrectionKeys)
         /\ lineage' \in SUBSET CorrectionKeys
    BY <1>1, <1>2, <1>7, StateFacts
  <1>12. QED
    BY <1>1, <1>5, <1>6, <1>9, <1>10, <1>11, QuietStep

\* The event: the call goes on where it was to go on, and the pair is noted.
LEMMA NotedStep ==
    ASSUME CorrectionInv, NEW c \in Calls, record_archive_lineage(c)
    PROVE  CorrectionInv'
  <1>1. /\ call[c].pc = "noting"
        /\ events' = events \cup {<<call[c].outcome, call[c].target>>}
        /\ call' = [call EXCEPT ![c].pc = call[c].next, ![c].outcome = Absent, ![c].target = Absent]
        /\ UNCHANGED <<attempt, derived, relationship, committed, handoff, lineage, answer>>
    BY DEF record_archive_lineage, at, append_job_event, archive_side
  <1>2. /\ call \in [Calls -> CorrectionCall] /\ call[c] \in CorrectionCall
        /\ CallOK(call[c])
    BY CallFacts
  <1>3. call[c].target \in CorrectionKeys /\ call[c].next \in Stages /\ call[c].next \notin Linking
    BY <1>1, <1>2 DEF CallOK, CommandOK, Linking, Stages, Resolving, Rendering, Regenerating
  <1>4. PICK q : q = [call[c] EXCEPT !.pc = call[c].next, !.outcome = Absent, !.target = Absent]
    OBVIOUS
  <1>5. call' = [call EXCEPT ![c] = q]
    BY <1>1, <1>2, <1>4
  <1>6. /\ q \in CorrectionCall
        /\ q.pc = call[c].next /\ q.outcome = Absent /\ q.kind = call[c].kind
        /\ q.key = call[c].key /\ q.todo = call[c].todo /\ q.adopted = call[c].adopted
    BY <1>2, <1>3, <1>4 DEF CorrectionCall
  <1>7. stage(q) = stage(call[c]) /\ q.pc \notin Linking /\ stage(call[c]) = q.pc
    BY <1>1, <1>3, <1>6 DEF stage, Linking
  <1>8. PICK target \in CorrectionKeys : target = call[c].target
    BY <1>3
  <1>9. noted_pair(target)'
    <2>1. <<call[c].outcome, target>> \in events' /\ <<call[c].outcome, target>>[2] = target
      BY <1>1, <1>8
    <2>2. QED
      BY <2>1 DEF noted_pair
  <1>10. call[c].outcome \in {"recorded", "refused", "pending"}
    BY <1>1, <1>2 DEF CallOK, CommandOK
  <1>11. CallOK(q)'
    <2>1. CommandOK(q)'
      BY <1>2, <1>3, <1>6, <1>7 DEF CallOK, CommandOK, Stages, Resolving, Rendering, Regenerating,
                                    Linking
    <2>2. RerenderOK(q)
      BY CorrectionAssumption, <1>2, <1>6, <1>7 DEF CallOK, RerenderOK
    <2>3. RerenderOK(q)'
      BY <1>1, <2>2 DEF RerenderOK
    <2>4. RegenerateOK(q)'
      <3>1. q.kind = "regenerate" => q.pc = "finished" /\ target = q.key /\ q.key \in committed
        BY <1>1, <1>2, <1>6, <1>8 DEF CallOK, RegenerateOK, Linking
      <3>2. q.pc # "relating"
        BY <1>1, <1>2, <1>6, <1>7, <3>1 DEF CallOK, CommandOK, Regenerating
      <3>3. QED
        BY <1>1, <1>6, <1>7, <1>9, <3>1, <3>2 DEF RegenerateOK
    <2>5. QED
      BY <2>1, <2>3, <2>4 DEF CallOK
  <1>12. \A k \in RerenderKeys : attempt[k] # Absent /\ BoundElsewhere(k) => avoids(q, k)
    BY <1>6, <1>7, StaysAway
  <1>13. /\ committed' \in SUBSET CorrectionKeys /\ handoff' \in SUBSET RerenderKeys
         /\ events' \in SUBSET ({"recorded", "refused", "pending"} \X CorrectionKeys)
         /\ lineage' \in SUBSET CorrectionKeys
    BY <1>1, <1>3, <1>10, StateFacts
  <1>14. QED
    BY <1>1, <1>5, <1>6, <1>11, <1>12, <1>13, QuietStep

\* A call that only moves.
LEMMA SilentStep ==
    ASSUME CorrectionInv, NEW c \in Calls, NEW q \in CorrectionCall,
           call' = [call EXCEPT ![c] = q], CallOK(q),
           UNCHANGED <<attempt, derived, relationship, events, committed, handoff, lineage, answer>>,
           \A k \in RerenderKeys : attempt[k] # Absent /\ BoundElsewhere(k) => avoids(q, k)
    PROVE  CorrectionInv'
  <1>1. CallOK(q)'
    BY OtherCall DEF Accumulates
  <1>2. /\ committed' \in SUBSET CorrectionKeys /\ handoff' \in SUBSET RerenderKeys
        /\ events' \in SUBSET ({"recorded", "refused", "pending"} \X CorrectionKeys)
        /\ lineage' \in SUBSET CorrectionKeys
    BY StateFacts
  <1>3. QED
    BY <1>1, <1>2, QuietStep

\* A call that ends without an answer: refused, crashed or overtaken.
LEMMA EndingStep ==
    ASSUME CorrectionInv, NEW c \in Calls, call' = ended(c),
           UNCHANGED <<attempt, derived, relationship, events, committed, handoff, lineage, answer>>
    PROVE  CorrectionInv'
  <1>1. PICK q : q = NoCall
    OBVIOUS
  <1>2. /\ q \in CorrectionCall /\ CallOK(q) /\ \A k \in RerenderKeys : avoids(q, k)
        /\ call' = [call EXCEPT ![c] = q]
    BY <1>1, EndedCall DEF ended
  <1>3. QED
    BY <1>2, SilentStep

\* The settlement of the pending pairs: one of them, or the end of the list.
LEMMA SettleStep ==
    ASSUME CorrectionInv, NEW c \in Calls, settle_pending_archive_lineage(c)
    PROVE  CorrectionInv'
  <1>1. /\ call[c].pc = "settling"
        /\ UNCHANGED <<attempt, derived, relationship, events, committed, handoff, lineage, answer>>
    BY DEF settle_pending_archive_lineage, at, archive_side
  <1>2. /\ call \in [Calls -> CorrectionCall] /\ call[c] \in CorrectionCall
        /\ CallOK(call[c])
    BY CallFacts
  <1>3. stage(call[c]) = "settling" /\ call[c].kind \in {"rerender", "reconcile"}
    BY <1>1, <1>2 DEF stage, Linking, CallOK, CommandOK
  <1>4. ASSUME NEW target \in call[c].todo,
               call' = [linking(c, target, "settling") EXCEPT ![c].todo = @ \ {target}]
        PROVE  CorrectionInv'
    <2>1. PICK q : q = [call[c] EXCEPT !.pc = "linking", !.target = target, !.next = "settling",
                                       !.todo = call[c].todo \ {target}]
      OBVIOUS
    <2>2. call' = [call EXCEPT ![c] = q]
      BY <1>2, <1>4, <2>1 DEF linking
    <2>3. /\ q \in CorrectionCall /\ target \in CorrectionKeys
          /\ q.pc = "linking" /\ q.target = target /\ q.next = "settling"
          /\ q.kind = call[c].kind /\ q.key = call[c].key /\ q.adopted = call[c].adopted
          /\ q.outcome = call[c].outcome
      BY <1>2, <1>4, <2>1 DEF CorrectionCall, Linking, Stages
    <2>4. stage(q) = "settling"
      BY <2>3 DEF stage, Linking
    <2>5. CommandOK(q)
      BY <1>2, <1>3, <2>3, <2>4
         DEF CallOK, CommandOK, Stages, Resolving, Rendering, Regenerating
    <2>6. RerenderOK(q) /\ RegenerateOK(q)
      BY <1>2, <1>3, <2>3, <2>4 DEF CallOK, RerenderOK, RegenerateOK, Resolving, Rendering
    <2>7. \A k \in RerenderKeys : avoids(q, k)
      BY <2>4 DEF avoids, Resolving, Rendering
    <2>8. QED
      BY <1>1, <2>2, <2>3, <2>5, <2>6, <2>7, SilentStep DEF CallOK
  <1>5. CASE call[c].kind = "reconcile" /\ call' = ended(c)
    BY <1>1, <1>5, EndingStep
  <1>6. CASE call[c].kind # "reconcile" /\ call' = moved(c, "listing")
    <2>1. PICK q : q = [call[c] EXCEPT !.pc = "listing"]
      OBVIOUS
    <2>2. call' = [call EXCEPT ![c] = q]
      BY <1>2, <1>6, <2>1 DEF moved
    <2>3. /\ q \in CorrectionCall
          /\ q.pc = "listing" /\ q.kind = call[c].kind /\ q.key = call[c].key
          /\ q.adopted = call[c].adopted /\ q.outcome = call[c].outcome
      BY <1>2, <2>1 DEF CorrectionCall, Stages
    <2>4. stage(q) = "listing" /\ q.kind = "rerender"
      BY <1>3, <1>6, <2>3 DEF stage, Linking
    <2>5. CommandOK(q)
      BY <1>2, <2>3, <2>4 DEF CallOK, CommandOK, Resolving, Rendering, Regenerating, Linking
    <2>6. RerenderOK(q) /\ RegenerateOK(q)
      BY <1>2, <2>3, <2>4 DEF CallOK, RerenderOK, RegenerateOK, Resolving, Rendering, Linking
    <2>7. \A k \in RerenderKeys : avoids(q, k)
      BY <2>4 DEF avoids, Resolving, Rendering
    <2>8. QED
      BY <1>1, <2>2, <2>3, <2>5, <2>6, <2>7, SilentStep DEF CallOK
  <1>7. QED
    BY <1>4, <1>5, <1>6 DEF settle_pending_archive_lineage

\* A command or a maintenance pass begins with the pairs that are pending.
LEMMA BeginStep ==
    ASSUME CorrectionInv, NEW c \in Calls, NEW q \in CorrectionCall,
           q.pc = "settling", q.kind \in {"rerender", "reconcile"}, q.adopted = Absent,
           q.kind = "rerender" => q.key \in RerenderKeys,
           call' = [call EXCEPT ![c] = q],
           UNCHANGED <<attempt, derived, relationship, events, committed, handoff, lineage, answer>>
    PROVE  CorrectionInv'
  <1>1. stage(q) = "settling"
    BY DEF stage, Linking
  <1>2. CommandOK(q) /\ RerenderOK(q) /\ RegenerateOK(q)
    BY <1>1 DEF CommandOK, RerenderOK, RegenerateOK, Resolving, Rendering, Regenerating, Linking
  <1>3. \A k \in RerenderKeys : avoids(q, k)
    BY <1>1 DEF avoids, Resolving, Rendering
  <1>4. QED
    BY <1>2, <1>3, SilentStep DEF CallOK

\* The pending pairs are pairs.
LEMMA PendingPairs == list_pending_archive_lineage \in SUBSET CorrectionKeys
  BY DEF list_pending_archive_lineage

\* The worker's maintenance pass.
LEMMA ReconcileStep ==
    ASSUME CorrectionInv, NEW c \in Calls, reconcile_pending_archive_lineage(c)
    PROVE  CorrectionInv'
  <1>1. UNCHANGED <<attempt, derived, relationship, events, committed, handoff, lineage, answer>>
    BY DEF reconcile_pending_archive_lineage, archive_side
  <1>2. PICK q : q = [NoCall EXCEPT !.pc = "settling", !.kind = "reconcile",
                                  !.todo = list_pending_archive_lineage]
    OBVIOUS
  <1>3. call' = [call EXCEPT ![c] = q]
    BY <1>2 DEF reconcile_pending_archive_lineage
  <1>4. q.pc = "settling" /\ q.kind = "reconcile" /\ q.adopted = Absent
    BY <1>2 DEF NoCall
  <1>5. q \in CorrectionCall
    BY <1>2, EndedCall, PendingPairs DEF CorrectionCall, Stages
  <1>6. QED
    BY <1>1, <1>3, <1>4, <1>5, BeginStep

\* A rerender command.
LEMMA RerenderStep ==
    ASSUME CorrectionInv, NEW c \in Calls, NEW k \in RerenderKeys,
           rerender_job(c, k)
    PROVE  CorrectionInv'
  <1>1. UNCHANGED <<attempt, derived, relationship, events, committed, handoff, lineage, answer>>
    BY DEF rerender_job, archive_side
  <1>2. PICK q : q = [NoCall EXCEPT !.pc = "settling", !.kind = "rerender", !.key = k,
                                  !.todo = list_pending_archive_lineage]
    OBVIOUS
  <1>3. call' = [call EXCEPT ![c] = q]
    BY <1>2 DEF rerender_job
  <1>4. q.pc = "settling" /\ q.kind = "rerender" /\ q.adopted = Absent /\ q.key = k
    BY <1>2 DEF NoCall
  <1>5. q \in CorrectionCall
    BY <1>2, EndedCall, PendingPairs DEF CorrectionCall, Stages, CorrectionKeys
  <1>6. QED
    BY <1>1, <1>3, <1>4, <1>5, BeginStep

\* A crash.
LEMMA CrashStep ==
    ASSUME CorrectionInv, NEW c \in Calls, crash(c)
    PROVE  CorrectionInv'
  BY EndingStep DEF crash, archive_side

---------------------------------------------------------------------------
(* Rerender *)

\* The list of ambiguous attempts: none of them is bound elsewhere.
LEMMA ListStep ==
    ASSUME CorrectionInv, NEW c \in Calls, _resolve_ambiguous_attempts(c)
    PROVE  CorrectionInv'
  <1>1. /\ call[c].pc = "listing"
        /\ UNCHANGED <<attempt, derived, relationship, events, committed, handoff, lineage, answer>>
    BY DEF _resolve_ambiguous_attempts, at, archive_side
  <1>2. /\ call \in [Calls -> CorrectionCall] /\ call[c] \in CorrectionCall
        /\ CallOK(call[c])
    BY CallFacts
  <1>3. PICK todo \in SUBSET RerenderKeys : todo = list_unresolved_archive_ambiguous_attempts
    BY DEF list_unresolved_archive_ambiguous_attempts
  <1>4. \A k \in todo : attempt[k] # Absent /\ attempt[k].ambiguous
    BY <1>3 DEF list_unresolved_archive_ambiguous_attempts
  <1>5. PICK q : q = [call[c] EXCEPT !.pc = "resolving", !.todo = todo]
    OBVIOUS
  <1>6. call' = [call EXCEPT ![c] = q]
    BY <1>2, <1>3, <1>5 DEF _resolve_ambiguous_attempts
  <1>7. /\ q \in CorrectionCall
        /\ q.pc = "resolving" /\ q.todo = todo /\ q.kind = call[c].kind /\ q.key = call[c].key
        /\ q.adopted = call[c].adopted
    BY <1>2, <1>3, <1>5 DEF CorrectionCall, Stages, Resolving, CorrectionKeys
  <1>8. stage(q) = "resolving" /\ q.kind = "rerender"
    BY <1>1, <1>2, <1>7 DEF stage, Linking, CallOK, CommandOK
  <1>9. CommandOK(q)
    BY <1>2, <1>7, <1>8 DEF CallOK, CommandOK, Resolving, Rendering, Regenerating, Linking
  <1>10. RerenderOK(q) /\ RegenerateOK(q)
    BY <1>2, <1>3, <1>4, <1>7, <1>8
       DEF CallOK, RerenderOK, RegenerateOK, Resolving, Rendering, Linking
  <1>11. \A k \in RerenderKeys : attempt[k] # Absent /\ BoundElsewhere(k) => avoids(q, k)
    BY <1>4, <1>7, <1>8 DEF avoids, BoundElsewhere, Resolving, Rendering
  <1>12. QED
    BY <1>1, <1>6, <1>7, <1>9, <1>10, <1>11, SilentStep DEF CallOK

\* A row of the key the call works on or resolves is written, with no document but the key's own.
LEMMA RowWritten ==
    ASSUME CorrectionInv, NEW c \in Calls, NEW q \in CorrectionCall,
           call' = [call EXCEPT ![c] = q],
           NEW k \in RerenderKeys, NEW new \in AttemptRow, new # Absent,
           attempt' = [attempt EXCEPT ![k] = new], new.document \in {Absent} \cup ({k} \cap committed),
           answer[k] \subseteq {k} \cap committed,
           \A j \in RerenderKeys : attempt[j] # Absent /\ BoundElsewhere(j) => avoids(q, j),
           UNCHANGED <<committed, answer>>
    PROVE  /\ \A j \in RerenderKeys : AttemptOK(j)'
           /\ attempt' \in [RerenderKeys -> AttemptRow \cup {Absent}]
           /\ \A j \in RerenderKeys : attempt[j] # Absent => attempt'[j] # Absent
  <1>1. attempt \in [RerenderKeys -> AttemptRow \cup {Absent}]
    BY StateFacts
  <1>2. /\ attempt' \in [RerenderKeys -> AttemptRow \cup {Absent}]
        /\ \A j \in RerenderKeys : attempt'[j] = IF j = k THEN new ELSE attempt[j]
    BY <1>1
  <1>3. ASSUME NEW j \in RerenderKeys
        PROVE  AttemptOK(j)'
    <2>1. CASE j = k
      <3>1. attempt'[j] = new
        BY <1>2, <2>1
      <3>2. QED
        BY <2>1, <3>1 DEF AttemptOK
    <2>2. CASE j # k
      <3>1. attempt'[j] = attempt[j] /\ answer'[j] = answer[j]
        BY <1>2, <2>2
      <3>2. QED
        BY <3>1, RowsKept
    <2>3. QED
      BY <2>1, <2>2
  <1>4. QED
    BY <1>2, <1>3

\* A step that writes the row of one key and moves the call.
LEMMA RowStep ==
    ASSUME CorrectionInv, NEW c \in Calls, NEW q \in CorrectionCall,
           call' = [call EXCEPT ![c] = q], CallOK(q)',
           NEW k \in RerenderKeys, NEW new \in AttemptRow, new # Absent,
           attempt' = [attempt EXCEPT ![k] = new], new.document \in {Absent} \cup ({k} \cap committed),
           answer[k] \subseteq {k} \cap committed,
           \A j \in RerenderKeys : attempt[j] # Absent /\ BoundElsewhere(j) => avoids(q, j),
           UNCHANGED <<derived, relationship, events, committed, handoff, lineage, answer>>
    PROVE  CorrectionInv'
  <1>1. /\ \A j \in RerenderKeys : AttemptOK(j)'
        /\ attempt' \in [RerenderKeys -> AttemptRow \cup {Absent}]
        /\ \A j \in RerenderKeys : attempt[j] # Absent => attempt'[j] # Absent
    BY RowWritten
  <1>2. Accumulates
    BY <1>1 DEF Accumulates
  <1>3. \A g \in RegenerateKeys : ReplacementOK(g)'
    BY ReplacementsKept
  <1>4. /\ derived' \in [RegenerateKeys -> {"accepted", "working", "archived", "failed", Absent}]
        /\ relationship' \in [RegenerateKeys -> CorrectionKeys \cup {Absent}]
        /\ events' \in SUBSET ({"recorded", "refused", "pending"} \X CorrectionKeys)
        /\ committed' \in SUBSET CorrectionKeys /\ handoff' \in SUBSET RerenderKeys
        /\ lineage' \in SUBSET CorrectionKeys /\ answer' \in [CorrectionKeys -> SUBSET CorrectionKeys]
    BY StateFacts
  <1>5. QED
    BY <1>1, <1>2, <1>3, <1>4, CallStep

\* The rows the ledger writes.
LEMMA RowFacts ==
    ASSUME NEW status \in {"rendering", "archiving", "archived", "failed"},
           NEW ambiguous \in BOOLEAN, NEW document \in CorrectionKeys \cup {Absent}
    PROVE  /\ row(status, ambiguous, document) \in AttemptRow
           /\ row(status, ambiguous, document) # Absent
           /\ row(status, ambiguous, document).document = document
           /\ row(status, ambiguous, document).status = status
           /\ row(status, ambiguous, document).ambiguous = ambiguous
  <1>1. row(status, ambiguous, document) \in AttemptRow
    BY DEF row, AttemptRow
  <1>2. QED
    BY CorrectionAssumption, <1>1 DEF row

\* The lookup of an ambiguous attempt.
LEMMA LookupStep ==
    ASSUME CorrectionInv, NEW c \in Calls, get_document_by_request_id(c)
    PROVE  CorrectionInv'
  <1>1. /\ call[c].pc = "resolving"
        /\ UNCHANGED <<derived, relationship, events, committed, handoff, lineage, answer>>
    BY DEF get_document_by_request_id, at, archive_side
  <1>2. /\ call \in [Calls -> CorrectionCall] /\ call[c] \in CorrectionCall
        /\ CallOK(call[c])
    BY CallFacts
  <1>3. /\ stage(call[c]) = "resolving" /\ call[c].kind = "rerender"
        /\ call[c].key \in RerenderKeys /\ call[c].todo \subseteq RerenderKeys
        /\ \A k \in call[c].todo : attempt[k] # Absent
    BY <1>1, <1>2 DEF stage, Linking, CallOK, CommandOK, RerenderOK, Resolving
  <1>4. PICK k \in call[c].todo :
        \/ /\ k \in committed
           /\ mark_rerender_archived(k, k)
           /\ call' = [linking(c, k, IF call[c].adopted = Absent THEN "adopting" ELSE "resolving")
                        EXCEPT ![c].todo = @ \ {k},
                               ![c].adopted = IF call[c].adopted = Absent THEN k
                                              ELSE call[c].adopted]
        \/ /\ k \notin committed
           /\ call' = [call EXCEPT ![c].todo = @ \ {k}] /\ UNCHANGED attempt
        \/ call' = ended(c) /\ UNCHANGED attempt
    BY DEF get_document_by_request_id
  <1>5. k \in RerenderKeys /\ k \in CorrectionKeys /\ attempt[k] # Absent
    BY <1>3 DEF CorrectionKeys
  <1>6. CASE /\ k \in committed
             /\ mark_rerender_archived(k, k)
             /\ call' = [linking(c, k, IF call[c].adopted = Absent THEN "adopting" ELSE "resolving")
                          EXCEPT ![c].todo = @ \ {k},
                                 ![c].adopted = IF call[c].adopted = Absent THEN k
                                                ELSE call[c].adopted]
    <2>1. PICK next : next = IF call[c].adopted = Absent THEN "adopting" ELSE "resolving"
      OBVIOUS
    <2>2. PICK adopted : adopted = IF call[c].adopted = Absent THEN k ELSE call[c].adopted
      OBVIOUS
    <2>3. next \in Resolving /\ adopted \in committed
      BY <1>2, <1>6, <2>1, <2>2 DEF Resolving, CallOK, RerenderOK
    <2>4. PICK q : q = [call[c] EXCEPT !.pc = "linking", !.target = k, !.next = next,
                                       !.todo = call[c].todo \ {k}, !.adopted = adopted]
      OBVIOUS
    <2>5. call' = [call EXCEPT ![c] = q]
      <3>1. PICK mid : mid = linking(c, k, next)
        OBVIOUS
      <3>2. /\ mid = [call EXCEPT ![c] = [call[c] EXCEPT !.pc = "linking", !.target = k,
                                                         !.next = next]]
            /\ mid[c] = [call[c] EXCEPT !.pc = "linking", !.target = k, !.next = next]
        BY <1>2, <3>1 DEF linking
      <3>3. mid[c].todo = call[c].todo
        BY <1>2, <3>2 DEF CorrectionCall
      <3>4. call' = [mid EXCEPT ![c].todo = @ \ {k}, ![c].adopted = adopted]
        BY <1>6, <2>1, <2>2, <3>1
      <3>5. q = [mid[c] EXCEPT !.todo = mid[c].todo \ {k}, !.adopted = adopted]
        BY <2>4, <3>2, <3>3
      <3>6. mid \in [Calls -> CorrectionCall]
        BY <1>2, <1>5, <2>3, <3>2 DEF CorrectionCall, Linking, Stages
      <3>7. call' = [mid EXCEPT ![c] = q]
        BY <3>4, <3>5, <3>6
      <3>8. QED
        BY <1>2, <3>2, <3>7
    <2>6. /\ q \in CorrectionCall
          /\ q.pc = "linking" /\ q.target = k /\ q.next = next /\ q.todo = call[c].todo \ {k}
          /\ q.adopted = adopted /\ q.kind = call[c].kind /\ q.key = call[c].key
      BY <1>2, <1>5, <2>3, <2>4, StateFacts DEF CorrectionCall, Linking, Stages
    <2>7. stage(q) = next /\ next \in Stages
      BY <2>3, <2>6 DEF stage, Linking, Stages
    <2>8. CommandOK(q)
      BY <1>3, <1>5, <2>3, <2>6, <2>7 DEF CommandOK, Resolving, Rendering, Regenerating
    <2>9. RerenderOK(q) /\ RegenerateOK(q)
      BY CorrectionAssumption, <1>3, <2>3, <2>6, <2>7, StateFacts
         DEF RerenderOK, RegenerateOK, Resolving, Rendering
    <2>10. PICK new : new = row("archived", FALSE, k)
      OBVIOUS
    <2>11. new \in AttemptRow /\ new # Absent /\ new.document = k
      BY <1>5, <2>10, RowFacts
    <2>12. attempt' = [attempt EXCEPT ![k] = new]
      BY <1>6, <2>10 DEF mark_rerender_archived
    <2>13. ~avoids(call[c], k)
      BY <1>3, <1>4 DEF avoids, Resolving
    <2>14. answer[k] \subseteq {k} \cap committed
      BY <1>5, <2>13, OwnRow
    <2>15. \A j \in RerenderKeys : attempt[j] # Absent /\ BoundElsewhere(j) => avoids(q, j)
      BY <1>3, <2>3, <2>6, <2>7, StaysAway DEF Resolving, Rendering
    <2>16. CallOK(q)'
      BY <1>1, <2>6, <2>8, <2>9, <2>11, <2>12, StateFacts, OtherCall DEF CallOK, Accumulates
    <2>17. QED
      BY <1>1, <1>5, <1>6, <2>5, <2>6, <2>11, <2>12, <2>14, <2>15, <2>16, RowStep
  <1>7. CASE call' = [call EXCEPT ![c].todo = @ \ {k}] /\ UNCHANGED attempt
    <2>1. PICK q : q = [call[c] EXCEPT !.todo = call[c].todo \ {k}]
      OBVIOUS
    <2>2. call' = [call EXCEPT ![c] = q]
      BY <1>2, <1>7, <2>1
    <2>3. /\ q \in CorrectionCall /\ q.pc = "resolving" /\ q.todo = call[c].todo \ {k}
          /\ q.kind = call[c].kind /\ q.key = call[c].key /\ q.adopted = call[c].adopted
      BY <1>1, <1>2, <2>1 DEF CorrectionCall
    <2>4. stage(q) = "resolving"
      BY <2>3 DEF stage, Linking
    <2>5. CommandOK(q)
      BY <1>3, <2>3, <2>4 DEF CommandOK, Resolving, Rendering, Regenerating, Linking
    <2>6. RerenderOK(q) /\ RegenerateOK(q)
      BY <1>2, <1>3, <2>3, <2>4
         DEF CallOK, RerenderOK, RegenerateOK, Resolving, Rendering, Linking
    <2>7. \A j \in RerenderKeys : attempt[j] # Absent /\ BoundElsewhere(j) => avoids(q, j)
      BY <1>3, <2>3, <2>4, StaysAway DEF Resolving, Rendering
    <2>8. QED
      BY <1>1, <1>7, <2>2, <2>3, <2>5, <2>6, <2>7, SilentStep DEF CallOK
  <1>8. CASE call' = ended(c) /\ UNCHANGED attempt
    BY <1>1, <1>8, EndingStep
  <1>9. QED
    BY <1>4, <1>6, <1>7, <1>8

\* The adoption: bound to the incoming key when no row of that key exists, so no call is at it.
LEMMA AdoptStep ==
    ASSUME CorrectionInv, NEW c \in Calls, adopt(c)
    PROVE  CorrectionInv'
  <1>1. /\ call[c].pc = "adopting"
        /\ UNCHANGED <<derived, relationship, events, committed, handoff, lineage, answer>>
        /\ call' = moved(c, "resolving")
    BY DEF adopt, at, archive_side
  <1>2. /\ call \in [Calls -> CorrectionCall] /\ call[c] \in CorrectionCall
        /\ CallOK(call[c])
    BY CallFacts
  <1>3. /\ stage(call[c]) = "adopting" /\ call[c].kind = "rerender"
        /\ call[c].key \in RerenderKeys /\ call[c].todo \subseteq RerenderKeys
        /\ \A k \in call[c].todo : attempt[k] # Absent
        /\ call[c].adopted \in committed
    BY <1>1, <1>2 DEF stage, Linking, CallOK, CommandOK, RerenderOK, Resolving
  <1>4. PICK k \in RerenderKeys : k = call[c].key
    BY <1>3
  <1>5. PICK from \in committed : from = call[c].adopted
    BY <1>3
  <1>6. PICK q : q = [call[c] EXCEPT !.pc = "resolving"]
    OBVIOUS
  <1>7. call' = [call EXCEPT ![c] = q]
    BY <1>1, <1>2, <1>6 DEF moved
  <1>8. /\ q \in CorrectionCall /\ q.pc = "resolving" /\ q.todo = call[c].todo
        /\ q.kind = call[c].kind /\ q.key = call[c].key /\ q.adopted = call[c].adopted
    BY <1>2, <1>6 DEF CorrectionCall, Stages, Resolving
  <1>9. stage(q) = "resolving"
    BY <1>8 DEF stage, Linking
  <1>10. CommandOK(q)
    BY <1>3, <1>8, <1>9 DEF CommandOK, Resolving, Rendering, Regenerating, Linking
  <1>11. RerenderOK(q) /\ RegenerateOK(q)
    BY <1>2, <1>3, <1>8, <1>9 DEF CallOK, RerenderOK, RegenerateOK, Resolving, Rendering, Linking
  <1>12. \A j \in RerenderKeys : attempt[j] # Absent /\ BoundElsewhere(j) => avoids(q, j)
    BY <1>3, <1>8, <1>9, StaysAway DEF Resolving, Rendering
  <1>13. CASE attempt[k] # Absent
    <2>1. UNCHANGED attempt
      BY <1>4, <1>13 DEF adopt, record_adopted_rerender_outcome
    <2>2. QED
      BY <1>1, <1>7, <1>8, <1>10, <1>11, <1>12, <2>1, SilentStep DEF CallOK
  <1>14. CASE attempt[k] = Absent
    <2>1. PICK new : new = row("archived", FALSE, from)
      OBVIOUS
    <2>2. from \in CorrectionKeys /\ attempt \in [RerenderKeys -> AttemptRow \cup {Absent}]
      BY <1>5, StateFacts
    <2>3. /\ new \in AttemptRow /\ new # Absent /\ new.document = from /\ new.status = "archived"
          /\ new.ambiguous = FALSE
      BY <2>1, <2>2, RowFacts
    <2>4. attempt' = [attempt EXCEPT ![k] = new]
      BY <1>4, <1>5, <1>14, <2>1 DEF adopt, record_adopted_rerender_outcome
    <2>5. /\ attempt' \in [RerenderKeys -> AttemptRow \cup {Absent}]
          /\ \A j \in RerenderKeys : attempt'[j] = IF j = k THEN new ELSE attempt[j]
      BY <2>2, <2>3, <2>4
    <2>6. Accumulates
      BY <1>1, <1>14, <2>5 DEF Accumulates
    <2>7. BoundElsewhere(k)'
      <3>1. ASSUME NEW d \in Calls
            PROVE  avoids(call'[d], k)
        <4>1. call'[d] = IF d = c THEN q ELSE call[d]
          BY <1>2, <1>7
        <4>2. CASE d = c
          BY <1>3, <1>8, <1>9, <1>14, <4>1, <4>2 DEF avoids, Rendering
        <4>3. CASE d # c
          BY <1>14, <4>1, <4>3, CallFacts DEF avoids, CallOK, RerenderOK
        <4>4. QED
          BY <4>2, <4>3
      <3>2. attempt'[k] = new
        BY <2>5
      <3>3. QED
        BY <2>3, <3>1, <3>2 DEF BoundElsewhere, avoids, stage
    <2>8. AttemptOK(k)'
      <3>1. answer[k] = {}
        BY <1>14 DEF CorrectionInv, AttemptOK
      <3>2. attempt'[k] = new /\ from # Absent
        BY CorrectionAssumption, <2>2, <2>5
      <3>3. QED
        BY <1>1, <1>5, <2>3, <2>7, <3>1, <3>2 DEF AttemptOK
    <2>9. ASSUME NEW j \in RerenderKeys, j # k
          PROVE  AttemptOK(j)'
      BY <1>1, <1>7, <1>8, <1>12, <2>5, <2>9, RowsKept
    <2>10. CallOK(q)'
      BY <1>8, <1>10, <1>11, <2>6, OtherCall DEF CallOK
    <2>11. \A g \in RegenerateKeys : ReplacementOK(g)'
      BY <1>1, ReplacementsKept
    <2>12. /\ derived' \in [RegenerateKeys -> {"accepted", "working", "archived", "failed", Absent}]
           /\ relationship' \in [RegenerateKeys -> CorrectionKeys \cup {Absent}]
           /\ events' \in SUBSET ({"recorded", "refused", "pending"} \X CorrectionKeys)
           /\ committed' \in SUBSET CorrectionKeys /\ handoff' \in SUBSET RerenderKeys
           /\ lineage' \in SUBSET CorrectionKeys
           /\ answer' \in [CorrectionKeys -> SUBSET CorrectionKeys]
      BY <1>1, StateFacts
    <2>13. \A j \in RerenderKeys : AttemptOK(j)'
      BY <2>8, <2>9
    <2>14. QED
      BY <1>7, <1>8, <2>5, <2>6, <2>10, <2>11, <2>12, <2>13, CallStep
  <1>15. QED
    BY <1>13, <1>14

\* An answer for a rerender key reports the document of its row.
LEMMA RerenderAnswer ==
    ASSUME CorrectionInv, NEW c \in Calls, NEW k \in RerenderKeys,
           k = call[c].key, attempt[k] # Absent,
           NEW document, document = attempt[k].document, respond(c, document),
           UNCHANGED <<attempt, derived, relationship, events, committed, handoff, lineage>>
    PROVE  CorrectionInv'
  <1>1. PICK q : q = NoCall
    OBVIOUS
  <1>2. /\ q \in CorrectionCall /\ CallOK(q)' /\ \A j \in RerenderKeys : avoids(q, j)
        /\ call' = [call EXCEPT ![c] = q]
    BY <1>1, EndedCall DEF respond, ended
  <1>3. answer' = [answer EXCEPT ![k] = answer[k] \cup ({document} \ {Absent})]
    BY DEF respond
  <1>4. /\ answer \in [CorrectionKeys -> SUBSET CorrectionKeys] /\ k \in CorrectionKeys
        /\ committed \subseteq CorrectionKeys
    BY StateFacts DEF CorrectionKeys
  <1>5. AttemptOK(k) /\ document \in committed \cup {Absent}
    BY DEF CorrectionInv, AttemptOK
  <1>6. /\ answer' \in [CorrectionKeys -> SUBSET CorrectionKeys]
        /\ answer'[k] = answer[k] \cup ({document} \ {Absent})
        /\ \A j \in CorrectionKeys : j # k => answer'[j] = answer[j]
    BY <1>3, <1>4, <1>5
  <1>7. AttemptOK(k)'
    <2>1. BoundElsewhere(k) => BoundElsewhere(k)'
      BY <1>2, BoundKept
    <2>2. CASE document \in {Absent, k} /\ answer[k] \subseteq {k} \cap committed
      BY <1>5, <1>6, <2>2 DEF AttemptOK
    <2>3. CASE document # Absent /\ BoundElsewhere(k) /\ answer[k] \subseteq {document}
      BY <1>5, <1>6, <2>1, <2>3 DEF AttemptOK
    <2>4. QED
      BY <1>5, <2>2, <2>3 DEF AttemptOK
  <1>8. ASSUME NEW j \in RerenderKeys, j # k
        PROVE  AttemptOK(j)'
    <2>1. answer'[j] = answer[j]
      BY <1>6, <1>8 DEF CorrectionKeys
    <2>2. QED
      BY <1>2, <2>1, RowsKept
  <1>9. ASSUME NEW g \in RegenerateKeys
        PROVE  ReplacementOK(g)'
    <2>1. answer'[g] = answer[g]
      BY CorrectionAssumption, <1>6 DEF CorrectionKeys
    <2>2. QED
      BY <2>1 DEF CorrectionInv, ReplacementOK, noted_pair
  <1>10. Accumulates
    BY DEF Accumulates
  <1>11. /\ derived' \in [RegenerateKeys -> {"accepted", "working", "archived", "failed", Absent}]
         /\ relationship' \in [RegenerateKeys -> CorrectionKeys \cup {Absent}]
         /\ events' \in SUBSET ({"recorded", "refused", "pending"} \X CorrectionKeys)
         /\ committed' \in SUBSET CorrectionKeys /\ handoff' \in SUBSET RerenderKeys
         /\ lineage' \in SUBSET CorrectionKeys
         /\ attempt' \in [RerenderKeys -> AttemptRow \cup {Absent}]
    BY StateFacts
  <1>12. \A j \in RerenderKeys : AttemptOK(j)'
    BY <1>7, <1>8
  <1>13. QED
    BY <1>2, <1>6, <1>9, <1>10, <1>11, <1>12, CallStep

\* The attempt of a new key, or the answer for a known one.
LEMMA CreateAttemptStep ==
    ASSUME CorrectionInv, NEW c \in Calls, create_rerender_attempt(c)
    PROVE  CorrectionInv'
  <1>1. /\ call[c].pc = "resolving"
        /\ UNCHANGED <<derived, relationship, events, committed, handoff, lineage>>
    BY DEF create_rerender_attempt, at, archive_side
  <1>2. /\ call \in [Calls -> CorrectionCall] /\ call[c] \in CorrectionCall
        /\ CallOK(call[c])
    BY CallFacts
  <1>3. call[c].kind = "rerender" /\ call[c].key \in RerenderKeys
    BY <1>1, <1>2 DEF stage, Linking, CallOK, CommandOK, RerenderOK, Resolving
  <1>4. PICK k \in RerenderKeys : k = call[c].key
    BY <1>3
  <1>5. CASE attempt[k] # Absent
    <2>1. PICK document : document = attempt[k].document
      OBVIOUS
    <2>2. respond(c, document) /\ UNCHANGED attempt
      BY <1>4, <1>5, <2>1 DEF create_rerender_attempt
    <2>3. QED
      BY <1>1, <1>4, <1>5, <2>1, <2>2, RerenderAnswer
  <1>6. CASE attempt[k] = Absent
    <2>1. PICK new : new = row("rendering", FALSE, Absent)
      OBVIOUS
    <2>2. new \in AttemptRow /\ new # Absent /\ new.document = Absent
      BY <2>1, RowFacts
    <2>3. /\ attempt' = [attempt EXCEPT ![k] = new] /\ call' = moved(c, "submitting")
          /\ UNCHANGED answer
      BY <1>4, <1>6, <2>1 DEF create_rerender_attempt
    <2>4. PICK q : q = [call[c] EXCEPT !.pc = "submitting"]
      OBVIOUS
    <2>5. call' = [call EXCEPT ![c] = q]
      BY <1>2, <2>3, <2>4 DEF moved
    <2>6. /\ q \in CorrectionCall /\ q.pc = "submitting" /\ q.kind = "rerender" /\ q.key = k
          /\ q.adopted = call[c].adopted /\ q.outcome = call[c].outcome
      BY <1>2, <1>3, <1>4, <2>4 DEF CorrectionCall, Stages, Rendering
    <2>7. stage(q) = "submitting"
      BY <2>6 DEF stage, Linking
    <2>8. attempt'[k] # Absent
      BY <2>2, <2>3, StateFacts
    <2>9. CommandOK(q)'
      BY <2>6, <2>7 DEF CommandOK, Resolving, Rendering, Regenerating, Linking
    <2>10. RerenderOK(q)' /\ RegenerateOK(q)'
      BY <1>1, <1>2, <2>6, <2>7, <2>8
         DEF CallOK, RerenderOK, RegenerateOK, Resolving, Rendering, Linking
    <2>11. \A j \in RerenderKeys : attempt[j] # Absent /\ BoundElsewhere(j) => avoids(q, j)
      BY <1>6, <2>6, <2>7 DEF avoids, Resolving, Rendering
    <2>12. answer[k] \subseteq {k} \cap committed
      BY <1>6 DEF CorrectionInv, AttemptOK
    <2>13. QED
      BY <1>1, <2>2, <2>3, <2>5, <2>6, <2>9, <2>10, <2>11, <2>12, RowStep DEF CallOK
  <1>7. QED
    BY <1>5, <1>6

\* A call at the rendering stages, whose key has a row that is not bound elsewhere.
LEMMA RenderingFacts ==
    ASSUME CorrectionInv, NEW c \in Calls, call[c].pc \in Rendering
    PROVE  /\ stage(call[c]) = call[c].pc /\ call[c].kind = "rerender"
           /\ call[c].key \in RerenderKeys /\ call[c].key \in CorrectionKeys
           /\ attempt[call[c].key] # Absent
           /\ answer[call[c].key] \subseteq {call[c].key} \cap committed
  <1>1. CallOK(call[c])
    BY CallFacts
  <1>2. stage(call[c]) = call[c].pc
    BY DEF stage, Linking, Rendering
  <1>3. /\ call[c].kind = "rerender" /\ call[c].key \in RerenderKeys
        /\ attempt[call[c].key] # Absent
    BY <1>1, <1>2 DEF CallOK, CommandOK, RerenderOK
  <1>4. ~avoids(call[c], call[c].key)
    BY <1>2 DEF avoids
  <1>5. QED
    BY <1>2, <1>3, <1>4, OwnRow DEF CorrectionKeys

\* Render's answer.
LEMMA SubmitStep ==
    ASSUME CorrectionInv, NEW c \in Calls, submit_render_package(c)
    PROVE  CorrectionInv'
  <1>1. /\ call[c].pc = "submitting"
        /\ UNCHANGED <<attempt, derived, relationship, events, lineage, answer>>
    BY DEF submit_render_package, at
  <1>2. PICK outcome \in {"not_rendered", "archived_verified", "unresolved", "no_custody"} :
        /\ call' = [call EXCEPT ![c].pc = IF outcome = "not_rendered" THEN "recording"
                                          ELSE "rendered",
                                ![c].outcome = outcome]
        /\ committed' = IF outcome = "archived_verified" THEN committed \cup {call[c].key}
                        ELSE committed
        /\ handoff' = IF outcome = "unresolved" THEN handoff \cup {call[c].key} ELSE handoff
    BY DEF submit_render_package
  <1>3. /\ call \in [Calls -> CorrectionCall] /\ call[c] \in CorrectionCall
        /\ CallOK(call[c])
    BY CallFacts
  <1>4. /\ stage(call[c]) = "submitting" /\ call[c].kind = "rerender"
        /\ call[c].key \in RerenderKeys /\ call[c].key \in CorrectionKeys
        /\ attempt[call[c].key] # Absent
    BY <1>1, RenderingFacts DEF Rendering
  <1>5. PICK pc \in {"recording", "rendered"} :
            pc = IF outcome = "not_rendered" THEN "recording" ELSE "rendered"
    OBVIOUS
  <1>6. PICK q : q = [call[c] EXCEPT !.pc = pc, !.outcome = outcome]
    OBVIOUS
  <1>7. call' = [call EXCEPT ![c] = q]
    BY <1>2, <1>3, <1>5, <1>6
  <1>8. /\ q \in CorrectionCall /\ q.pc = pc /\ q.outcome = outcome /\ q.kind = "rerender"
        /\ q.key = call[c].key /\ q.adopted = call[c].adopted
    BY <1>3, <1>4, <1>6 DEF CorrectionCall, Stages, Rendering
  <1>9. stage(q) = pc /\ pc \in Rendering
    BY <1>8 DEF stage, Linking, Rendering
  <1>10. /\ committed \subseteq committed' /\ committed' \in SUBSET CorrectionKeys
         /\ outcome = "archived_verified" => q.key \in committed'
         /\ handoff' \in SUBSET RerenderKeys /\ lineage' \in SUBSET CorrectionKeys
         /\ events' \in SUBSET ({"recorded", "refused", "pending"} \X CorrectionKeys)
         /\ events \subseteq events'
    BY <1>1, <1>2, <1>4, <1>8, StateFacts
  <1>11. CommandOK(q)'
    BY <1>4, <1>8, <1>9 DEF CommandOK, Resolving, Rendering, Regenerating, Linking
  <1>12. RerenderOK(q)' /\ RegenerateOK(q)'
    BY <1>1, <1>3, <1>4, <1>8, <1>9, <1>10
       DEF CallOK, RerenderOK, RegenerateOK, Resolving, Rendering, Linking
  <1>13. \A j \in RerenderKeys : attempt[j] # Absent /\ BoundElsewhere(j) => avoids(q, j)
    BY <1>4, <1>8, <1>9, StaysAway DEF Resolving, Rendering
  <1>14. QED
    BY <1>1, <1>7, <1>8, <1>10, <1>11, <1>12, <1>13, QuietStep DEF CallOK

\* The attempt waits for custody.
LEMMA ArchivingStep ==
    ASSUME CorrectionInv, NEW c \in Calls, mark_rerender_archiving(c)
    PROVE  CorrectionInv'
  <1>1. /\ call[c].pc = "rendered" /\ call' = moved(c, "recording")
        /\ attempt' = [attempt EXCEPT ![call[c].key] = row("archiving", FALSE, Absent)]
        /\ UNCHANGED <<derived, relationship, events, committed, handoff, lineage, answer>>
    BY DEF mark_rerender_archiving, at, archive_side
  <1>2. /\ call \in [Calls -> CorrectionCall] /\ call[c] \in CorrectionCall
        /\ CallOK(call[c])
    BY CallFacts
  <1>3. /\ stage(call[c]) = "rendered" /\ call[c].kind = "rerender"
        /\ call[c].key \in RerenderKeys /\ attempt[call[c].key] # Absent
        /\ answer[call[c].key] \subseteq {call[c].key} \cap committed
    BY <1>1, RenderingFacts DEF Rendering
  <1>4. PICK k \in RerenderKeys : k = call[c].key
    BY <1>3
  <1>5. PICK new : new = row("archiving", FALSE, Absent)
    OBVIOUS
  <1>6. new \in AttemptRow /\ new # Absent /\ new.document = Absent
    BY <1>5, RowFacts
  <1>7. attempt' = [attempt EXCEPT ![k] = new]
    BY <1>1, <1>4, <1>5
  <1>8. PICK q : q = [call[c] EXCEPT !.pc = "recording"]
    OBVIOUS
  <1>9. call' = [call EXCEPT ![c] = q]
    BY <1>1, <1>2, <1>8 DEF moved
  <1>10. /\ q \in CorrectionCall /\ q.pc = "recording" /\ q.outcome = call[c].outcome
         /\ q.kind = "rerender" /\ q.key = k /\ q.adopted = call[c].adopted
    BY <1>2, <1>3, <1>4, <1>8 DEF CorrectionCall, Stages, Rendering
  <1>11. stage(q) = "recording"
    BY <1>10 DEF stage, Linking
  <1>12. CommandOK(q)
    BY <1>10, <1>11 DEF CommandOK, Resolving, Rendering, Regenerating, Linking
  <1>13. RerenderOK(q) /\ RegenerateOK(q)
    BY <1>2, <1>3, <1>4, <1>10, <1>11
       DEF CallOK, RerenderOK, RegenerateOK, Resolving, Rendering, Linking
  <1>14. CallOK(q)'
    BY <1>1, <1>6, <1>7, <1>10, <1>12, <1>13, StateFacts, OtherCall DEF CallOK, Accumulates
  <1>15. \A j \in RerenderKeys : attempt[j] # Absent /\ BoundElsewhere(j) => avoids(q, j)
    BY <1>3, <1>4, <1>10, <1>11, StaysAway DEF Resolving, Rendering
  <1>16. answer[k] \subseteq {k} \cap committed
    BY <1>3, <1>4
  <1>17. UNCHANGED <<derived, relationship, events, committed, handoff, lineage, answer>>
    BY <1>1
  <1>18. q \in CorrectionCall /\ new.document \in {Absent} \cup ({k} \cap committed)
    BY <1>6, <1>10
  <1>19. QED
    BY <1>6, <1>7, <1>9, <1>14, <1>15, <1>16, <1>17, <1>18, RowStep

\* The outcome of the attempt.
LEMMA OutcomeStep ==
    ASSUME CorrectionInv, NEW c \in Calls, _record_rerender_archive_outcome(c)
    PROVE  CorrectionInv'
  <1>1. /\ call[c].pc = "recording"
        /\ UNCHANGED <<derived, relationship, events, committed, handoff, lineage>>
    BY DEF _record_rerender_archive_outcome, at, archive_side
  <1>2. /\ call \in [Calls -> CorrectionCall] /\ call[c] \in CorrectionCall
        /\ CallOK(call[c])
    BY CallFacts
  <1>3. /\ stage(call[c]) = "recording" /\ call[c].kind = "rerender"
        /\ call[c].key \in RerenderKeys /\ call[c].key \in CorrectionKeys
        /\ attempt[call[c].key] # Absent
        /\ answer[call[c].key] \subseteq {call[c].key} \cap committed
    BY <1>1, RenderingFacts DEF Rendering
  <1>4. PICK k \in RerenderKeys : k = call[c].key
    BY <1>3
  <1>5. CASE call[c].outcome = "archived_verified"
    <2>1. k \in committed /\ k \in CorrectionKeys
      BY <1>2, <1>3, <1>4, <1>5 DEF CallOK, RerenderOK, Rendering
    <2>2. PICK new : new = row("archived", FALSE, k)
      OBVIOUS
    <2>3. new \in AttemptRow /\ new # Absent /\ new.document = k
      BY <2>1, <2>2, RowFacts
    <2>4. /\ attempt' = [attempt EXCEPT ![k] = new] /\ call' = linking(c, k, "finished")
          /\ UNCHANGED answer
      BY <1>4, <1>5, <2>2 DEF _record_rerender_archive_outcome, mark_rerender_archived
    <2>5. PICK q : q = [call[c] EXCEPT !.pc = "linking", !.target = k, !.next = "finished"]
      OBVIOUS
    <2>6. call' = [call EXCEPT ![c] = q]
      BY <1>2, <2>4, <2>5 DEF linking
    <2>7. /\ q \in CorrectionCall /\ q.pc = "linking" /\ q.target = k /\ q.next = "finished"
          /\ q.kind = "rerender" /\ q.key = k /\ q.adopted = call[c].adopted
      BY <1>2, <1>3, <1>4, <2>1, <2>5 DEF CorrectionCall, Stages, Linking
    <2>8. stage(q) = "finished"
      BY <2>7 DEF stage, Linking
    <2>9. CommandOK(q)
      BY <2>1, <2>7, <2>8 DEF CommandOK, Resolving, Rendering, Regenerating, Stages
    <2>10. RerenderOK(q) /\ RegenerateOK(q)
      BY <1>2, <1>3, <1>4, <2>7, <2>8 DEF CallOK, RerenderOK, RegenerateOK, Resolving, Rendering
    <2>11. CallOK(q)'
      BY <1>1, <2>3, <2>4, <2>7, <2>9, <2>10, StateFacts, OtherCall DEF CallOK, Accumulates
    <2>12. \A j \in RerenderKeys : avoids(q, j)
      BY <2>8 DEF avoids, Resolving, Rendering
    <2>13. QED
      BY <1>1, <1>3, <1>4, <2>1, <2>3, <2>4, <2>6, <2>7, <2>11, <2>12, RowStep
  <1>6. CASE call[c].outcome # "archived_verified"
    <2>1. PICK new : new = row("failed", call[c].outcome = "unresolved", Absent)
      OBVIOUS
    <2>2. new \in AttemptRow /\ new # Absent /\ new.document = Absent
      BY <2>1, RowFacts
    <2>3. attempt' = [attempt EXCEPT ![k] = new] /\ respond(c, Absent)
      BY <1>4, <1>6, <2>1 DEF _record_rerender_archive_outcome, mark_rerender_failed
    <2>4. UNCHANGED answer
      BY <1>3, <2>3, StateFacts DEF respond
    <2>5. PICK q : q = NoCall
      OBVIOUS
    <2>6. /\ q \in CorrectionCall /\ CallOK(q)' /\ \A j \in RerenderKeys : avoids(q, j)
          /\ call' = [call EXCEPT ![c] = q]
      BY <2>3, <2>5, EndedCall DEF respond, ended
    <2>7. QED
      BY <1>1, <1>3, <1>4, <2>2, <2>3, <2>4, <2>6, RowStep
  <1>7. QED
    BY <1>5, <1>6

\* The answer of a rerender that went through.
LEMMA RerenderAnsweredStep ==
    ASSUME CorrectionInv, NEW c \in Calls, rerender_answered(c)
    PROVE  CorrectionInv'
  <1>1. /\ call[c].pc = "finished" /\ call[c].kind = "rerender"
        /\ respond(c, attempt[call[c].key].document)
        /\ UNCHANGED <<attempt, derived, relationship, events, committed, handoff, lineage>>
    BY DEF rerender_answered, at, archive_side
  <1>2. stage(call[c]) = "finished" /\ CallOK(call[c])
    BY <1>1, CallFacts DEF stage, Linking
  <1>3. call[c].key \in RerenderKeys /\ attempt[call[c].key] # Absent
    BY <1>1, <1>2 DEF CallOK, CommandOK, RerenderOK
  <1>4. PICK k \in RerenderKeys : k = call[c].key
    BY <1>3
  <1>5. PICK document : document = attempt[k].document
    OBVIOUS
  <1>6. respond(c, document)
    BY <1>1, <1>4, <1>5
  <1>7. QED
    BY <1>1, <1>3, <1>4, <1>5, <1>6, RerenderAnswer

---------------------------------------------------------------------------
(* Regenerate *)

\* A step of a regenerate call that gives no answer.
LEMMA RegenerateMove ==
    ASSUME CorrectionInv, NEW c \in Calls, NEW q \in CorrectionCall,
           call' = [call EXCEPT ![c] = q], CallOK(q)', \A k \in RerenderKeys : avoids(q, k),
           UNCHANGED <<attempt, events, handoff, lineage, answer>>,
           derived' \in [RegenerateKeys -> {"accepted", "working", "archived", "failed", Absent}],
           relationship' \in [RegenerateKeys -> CorrectionKeys \cup {Absent}],
           committed \subseteq committed', committed' \in SUBSET CorrectionKeys,
           \A g \in RegenerateKeys : derived'[g] = "archived" => g \in committed'
    PROVE  CorrectionInv'
  <1>1. Accumulates
    BY DEF Accumulates
  <1>2. \A k \in RerenderKeys : AttemptOK(k)'
    BY RowsKept
  <1>3. \A g \in RegenerateKeys : ReplacementOK(g)'
    BY DEF CorrectionInv, ReplacementOK, noted_pair
  <1>4. /\ attempt' \in [RerenderKeys -> AttemptRow \cup {Absent}]
        /\ events' \in SUBSET ({"recorded", "refused", "pending"} \X CorrectionKeys)
        /\ handoff' \in SUBSET RerenderKeys /\ lineage' \in SUBSET CorrectionKeys
        /\ answer' \in [CorrectionKeys -> SUBSET CorrectionKeys]
    BY StateFacts
  <1>5. QED
    BY <1>1, <1>2, <1>3, <1>4, CallStep

\* The call after its work: an archived replacement is linked first.
LEMMA AfterWork ==
    ASSUME CorrectionInv, NEW c \in Calls, call[c].kind = "regenerate",
           NEW status \in {"archived", "failed", "working"}, call' = after_work(c, status),
           committed \subseteq committed', status = "archived" => call[c].key \in committed'
    PROVE  \E q \in CorrectionCall :
              /\ call' = [call EXCEPT ![c] = q] /\ CallOK(q)'
              /\ \A k \in RerenderKeys : avoids(q, k)
  <1>1. /\ call \in [Calls -> CorrectionCall] /\ call[c] \in CorrectionCall
        /\ CallOK(call[c])
    BY CallFacts
  <1>2. call[c].key \in RegenerateKeys /\ call[c].key \in CorrectionKeys
    BY <1>1 DEF CallOK, CommandOK, CorrectionKeys
  <1>3. call[c].adopted \in committed' \cup {Absent}
    BY <1>1 DEF CallOK, RerenderOK
  <1>4. CASE status = "archived"
    <2>1. PICK q : q = [call[c] EXCEPT !.pc = "linking", !.target = call[c].key,
                                       !.next = "finished"]
      OBVIOUS
    <2>2. call' = [call EXCEPT ![c] = q]
      BY <1>1, <1>4, <2>1 DEF after_work, linking
    <2>3. /\ q \in CorrectionCall /\ q.pc = "linking" /\ q.target = q.key /\ q.next = "finished"
          /\ q.kind = "regenerate" /\ q.key = call[c].key /\ q.adopted = call[c].adopted
      BY <1>1, <1>2, <2>1 DEF CorrectionCall, Stages, Linking
    <2>4. stage(q) = "finished"
      BY <2>3 DEF stage, Linking
    <2>5. CommandOK(q)'
      BY <1>2, <2>3, <2>4 DEF CommandOK, Resolving, Rendering, Regenerating, Stages
    <2>6. RerenderOK(q)' /\ RegenerateOK(q)'
      BY <1>3, <1>4, <2>3, <2>4 DEF RerenderOK, RegenerateOK, Resolving, Rendering
    <2>7. \A k \in RerenderKeys : avoids(q, k)
      BY <2>4 DEF avoids, Resolving, Rendering
    <2>8. QED
      BY <2>2, <2>3, <2>5, <2>6, <2>7 DEF CallOK
  <1>5. CASE status # "archived"
    <2>1. PICK q : q = [call[c] EXCEPT !.pc = "finished", !.outcome = status]
      OBVIOUS
    <2>2. call' = [call EXCEPT ![c] = q]
      BY <1>1, <1>5, <2>1 DEF after_work
    <2>3. /\ q \in CorrectionCall /\ q.pc = "finished" /\ q.outcome = status
          /\ q.kind = "regenerate" /\ q.key = call[c].key /\ q.adopted = call[c].adopted
      BY <1>1, <1>2, <2>1 DEF CorrectionCall, Stages
    <2>4. stage(q) = "finished"
      BY <2>3 DEF stage, Linking
    <2>5. CommandOK(q)'
      BY <1>2, <2>3, <2>4 DEF CommandOK, Resolving, Rendering, Regenerating, Linking
    <2>6. RerenderOK(q)' /\ RegenerateOK(q)'
      BY <1>3, <1>5, <2>3, <2>4 DEF RerenderOK, RegenerateOK, Resolving, Rendering, Linking
    <2>7. \A k \in RerenderKeys : avoids(q, k)
      BY <2>4 DEF avoids, Resolving, Rendering
    <2>8. QED
      BY <2>2, <2>3, <2>5, <2>6, <2>7 DEF CallOK
  <1>6. QED
    BY <1>4, <1>5

\* A regenerate command creates or finds the replacement of its key.
LEMMA RegenerateStep ==
    ASSUME CorrectionInv, NEW c \in Calls, NEW g \in RegenerateKeys,
           regenerate_job(c, g)
    PROVE  CorrectionInv'
  <1>1. /\ UNCHANGED <<attempt, relationship, events, committed, handoff, lineage, answer>>
        /\ derived' = IF derived[g] = Absent THEN [derived EXCEPT ![g] = "accepted"] ELSE derived
    BY DEF regenerate_job, archive_side
  <1>2. PICK outcome : outcome = IF derived[g] = Absent THEN "accepted" ELSE derived[g]
    OBVIOUS
  <1>3. /\ derived \in [RegenerateKeys -> {"accepted", "working", "archived", "failed", Absent}]
        /\ \A h \in RegenerateKeys : derived[h] = "archived" => h \in committed
    BY DEF CorrectionInv, CorrectionTypeOK, ReplacementOK
  <1>4. /\ outcome \in {"accepted", "working", "archived", "failed"}
        /\ outcome = "archived" => g \in committed
    BY <1>2, <1>3
  <1>5. PICK q : q = [NoCall EXCEPT !.pc = "relating", !.kind = "regenerate", !.key = g,
                                  !.outcome = outcome]
    OBVIOUS
  <1>6. call' = [call EXCEPT ![c] = q]
    BY <1>2, <1>5 DEF regenerate_job
  <1>7. /\ q.pc = "relating" /\ q.kind = "regenerate" /\ q.key = g /\ q.outcome = outcome
        /\ q.adopted = Absent
    BY <1>5 DEF NoCall
  <1>8. q \in CorrectionCall
    BY <1>4, <1>5, EndedCall DEF CorrectionCall, Stages, Regenerating, CorrectionKeys
  <1>9. stage(q) = "relating"
    BY <1>7 DEF stage, Linking
  <1>10. CommandOK(q)'
    BY <1>7, <1>9 DEF CommandOK, Resolving, Rendering, Regenerating, Linking
  <1>11. RerenderOK(q)' /\ RegenerateOK(q)'
    BY <1>1, <1>4, <1>7, <1>9 DEF RerenderOK, RegenerateOK, Resolving, Rendering, Linking
  <1>12. \A k \in RerenderKeys : avoids(q, k)
    BY <1>9 DEF avoids, Resolving, Rendering
  <1>13. /\ derived' \in [RegenerateKeys -> {"accepted", "working", "archived", "failed", Absent}]
         /\ \A h \in RegenerateKeys : derived'[h] = "archived" => h \in committed'
    BY <1>1, <1>3
  <1>14. /\ relationship' \in [RegenerateKeys -> CorrectionKeys \cup {Absent}]
         /\ committed \subseteq committed' /\ committed' \in SUBSET CorrectionKeys
    BY <1>1, StateFacts
  <1>15. UNCHANGED <<attempt, events, handoff, lineage, answer>>
    BY <1>1
  <1>16. QED
    BY <1>6, <1>8, <1>10, <1>11, <1>12, <1>13, <1>14, <1>15, RegenerateMove DEF CallOK

\* The facts of a regenerate call at its own stages.
LEMMA RegeneratingFacts ==
    ASSUME CorrectionInv, NEW c \in Calls, call[c].pc \in Regenerating
    PROVE  /\ call[c].kind = "regenerate" /\ call[c].key \in RegenerateKeys
           /\ call[c].key \in CorrectionKeys
  <1>1. CallOK(call[c]) /\ stage(call[c]) = call[c].pc
    BY CallFacts DEF stage, Linking, Regenerating
  <1>2. QED
    BY <1>1 DEF CallOK, CommandOK, CorrectionKeys

\* The capture starts the job, unless another call already did.
LEMMA CaptureStep ==
    ASSUME CorrectionInv, NEW c \in Calls, capture_for_job(c)
    PROVE  CorrectionInv'
  <1>1. /\ call[c].pc = "capturing"
        /\ UNCHANGED <<attempt, relationship, events, committed, handoff, lineage, answer>>
    BY DEF capture_for_job, at, archive_side
  <1>2. /\ call \in [Calls -> CorrectionCall] /\ call[c] \in CorrectionCall
        /\ CallOK(call[c])
    BY CallFacts
  <1>3. call[c].kind = "regenerate" /\ call[c].key \in RegenerateKeys
    BY <1>1, RegeneratingFacts DEF Regenerating
  <1>4. CASE call' = ended(c) /\ UNCHANGED derived
    BY <1>1, <1>4, EndingStep
  <1>5. CASE /\ derived' = [derived EXCEPT ![call[c].key] = "working"]
             /\ call' = moved(c, "rendering")
    <2>1. PICK q : q = [call[c] EXCEPT !.pc = "rendering"]
      OBVIOUS
    <2>2. call' = [call EXCEPT ![c] = q]
      BY <1>2, <1>5, <2>1 DEF moved
    <2>3. /\ q \in CorrectionCall /\ q.pc = "rendering"
          /\ q.kind = "regenerate" /\ q.key = call[c].key /\ q.adopted = call[c].adopted
      BY <1>2, <1>3, <2>1 DEF CorrectionCall, Stages, Regenerating
    <2>4. stage(q) = "rendering"
      BY <2>3 DEF stage, Linking
    <2>5. CommandOK(q)'
      BY <1>3, <2>3, <2>4 DEF CommandOK, Resolving, Rendering, Regenerating, Linking
    <2>6. RerenderOK(q)' /\ RegenerateOK(q)'
      BY <1>1, <1>2, <2>3, <2>4
         DEF CallOK, RerenderOK, RegenerateOK, Resolving, Rendering, Linking
    <2>7. \A k \in RerenderKeys : avoids(q, k)
      BY <2>4 DEF avoids, Resolving, Rendering
    <2>8. /\ derived \in [RegenerateKeys -> {"accepted", "working", "archived", "failed", Absent}]
          /\ \A h \in RegenerateKeys : derived[h] = "archived" => h \in committed
      BY DEF CorrectionInv, CorrectionTypeOK, ReplacementOK
    <2>9. /\ derived' \in [RegenerateKeys -> {"accepted", "working", "archived", "failed", Absent}]
          /\ \A h \in RegenerateKeys : derived'[h] = "archived" => h \in committed'
      BY <1>1, <1>3, <1>5, <2>8
    <2>10. /\ relationship' \in [RegenerateKeys -> CorrectionKeys \cup {Absent}]
           /\ committed \subseteq committed' /\ committed' \in SUBSET CorrectionKeys
      BY <1>1, StateFacts
    <2>11. UNCHANGED <<attempt, events, handoff, lineage, answer>>
      BY <1>1
    <2>12. QED
      BY <2>2, <2>3, <2>5, <2>6, <2>7, <2>9, <2>10, <2>11, RegenerateMove DEF CallOK
  <1>6. QED
    BY <1>4, <1>5 DEF capture_for_job

\* The work of the replacement: an archived one is a document of Archive.
LEMMA RenderStep ==
    ASSUME CorrectionInv, NEW c \in Calls, render_for_job(c)
    PROVE  CorrectionInv'
  <1>1. /\ call[c].pc = "rendering"
        /\ UNCHANGED <<attempt, relationship, events, handoff, lineage, answer>>
    BY DEF render_for_job, at
  <1>2. PICK status \in {"archived", "failed", "working"} :
        /\ derived' = [derived EXCEPT ![call[c].key] = status]
        /\ committed' = IF status = "archived" THEN committed \cup {call[c].key} ELSE committed
        /\ call' = after_work(c, status)
    BY DEF render_for_job
  <1>3. /\ call[c].kind = "regenerate" /\ call[c].key \in RegenerateKeys
        /\ call[c].key \in CorrectionKeys
    BY <1>1, RegeneratingFacts DEF Regenerating
  <1>4. /\ committed \subseteq committed' /\ committed' \in SUBSET CorrectionKeys
        /\ status = "archived" => call[c].key \in committed'
        /\ relationship' \in [RegenerateKeys -> CorrectionKeys \cup {Absent}]
    BY <1>1, <1>2, <1>3, StateFacts
  <1>5. PICK q \in CorrectionCall :
              /\ call' = [call EXCEPT ![c] = q] /\ CallOK(q)'
              /\ \A k \in RerenderKeys : avoids(q, k)
    BY <1>2, <1>3, <1>4, AfterWork
  <1>6. /\ derived \in [RegenerateKeys -> {"accepted", "working", "archived", "failed", Absent}]
        /\ \A h \in RegenerateKeys : derived[h] = "archived" => h \in committed
    BY DEF CorrectionInv, CorrectionTypeOK, ReplacementOK
  <1>7. /\ derived' \in [RegenerateKeys -> {"accepted", "working", "archived", "failed", Absent}]
        /\ \A h \in RegenerateKeys : derived'[h] = "archived" => h \in committed'
    BY <1>2, <1>3, <1>4, <1>6
  <1>8. UNCHANGED <<attempt, events, handoff, lineage, answer>>
    BY <1>1
  <1>9. QED
    BY <1>4, <1>5, <1>7, <1>8, RegenerateMove

\* An answer for a regenerate key reports the key's own document, once it is noted, or none.
LEMMA RegenerateAnswer ==
    ASSUME CorrectionInv, NEW c \in Calls, NEW g \in RegenerateKeys,
           g = call[c].key, NEW document \in {Absent, g},
           document = g => g \in committed /\ noted_pair(g), respond(c, document),
           relationship' \in [RegenerateKeys -> CorrectionKeys \cup {Absent}],
           UNCHANGED <<attempt, derived, events, committed, handoff, lineage>>
    PROVE  CorrectionInv'
  <1>1. PICK q : q = NoCall
    OBVIOUS
  <1>2. /\ q \in CorrectionCall /\ CallOK(q)' /\ \A j \in RerenderKeys : avoids(q, j)
        /\ call' = [call EXCEPT ![c] = q]
    BY <1>1, EndedCall DEF respond, ended
  <1>3. answer' = [answer EXCEPT ![g] = answer[g] \cup ({document} \ {Absent})]
    BY DEF respond
  <1>4. answer \in [CorrectionKeys -> SUBSET CorrectionKeys] /\ g \in CorrectionKeys
    BY StateFacts DEF CorrectionKeys
  <1>5. /\ answer' \in [CorrectionKeys -> SUBSET CorrectionKeys]
        /\ answer'[g] = answer[g] \cup ({document} \ {Absent})
        /\ \A j \in CorrectionKeys : j # g => answer'[j] = answer[j]
    BY <1>3, <1>4
  <1>6. ReplacementOK(g)'
    BY <1>5 DEF CorrectionInv, ReplacementOK, noted_pair
  <1>7. ASSUME NEW h \in RegenerateKeys, h # g
        PROVE  ReplacementOK(h)'
    <2>1. answer'[h] = answer[h]
      BY <1>5, <1>7 DEF CorrectionKeys
    <2>2. QED
      BY <2>1 DEF CorrectionInv, ReplacementOK, noted_pair
  <1>8. ASSUME NEW j \in RerenderKeys
        PROVE  AttemptOK(j)'
    <2>1. answer'[j] = answer[j]
      BY CorrectionAssumption, <1>5 DEF CorrectionKeys
    <2>2. QED
      BY <1>2, <2>1, RowsKept
  <1>9. Accumulates
    BY DEF Accumulates
  <1>10. /\ derived' \in [RegenerateKeys -> {"accepted", "working", "archived", "failed", Absent}]
         /\ events' \in SUBSET ({"recorded", "refused", "pending"} \X CorrectionKeys)
         /\ committed' \in SUBSET CorrectionKeys /\ handoff' \in SUBSET RerenderKeys
         /\ lineage' \in SUBSET CorrectionKeys
         /\ attempt' \in [RerenderKeys -> AttemptRow \cup {Absent}]
    BY StateFacts
  <1>11. \A h \in RegenerateKeys : ReplacementOK(h)'
    BY <1>6, <1>7
  <1>12. QED
    BY <1>2, <1>5, <1>8, <1>9, <1>10, <1>11, CallStep

\* The relationship, before the work and with the answer.
LEMMA RelateStep ==
    ASSUME CorrectionInv, NEW c \in Calls, _upsert_regenerate_relationship(c)
    PROVE  CorrectionInv'
  <1>1. /\ call[c].pc \in {"relating", "finished"} /\ call[c].kind = "regenerate"
        /\ UNCHANGED <<attempt, derived, events, committed, handoff, lineage>>
    BY DEF _upsert_regenerate_relationship, archive_side
  <1>2. /\ call \in [Calls -> CorrectionCall] /\ call[c] \in CorrectionCall
        /\ CallOK(call[c])
    BY CallFacts
  <1>3. PICK g \in RegenerateKeys : g = call[c].key
    BY <1>1, <1>2 DEF CallOK, CommandOK
  <1>4. PICK status : status = IF call[c].outcome = Absent THEN "archived" ELSE call[c].outcome
    OBVIOUS
  <1>5. /\ relationship' = [relationship EXCEPT ![g] = document_of(g, status)]
        /\ IF call[c].pc = "relating"
           THEN /\ call' = IF status = "accepted" THEN moved(c, "capturing")
                           ELSE after_work(c, status)
                /\ UNCHANGED answer
           ELSE respond(c, document_of(g, status))
    BY <1>3, <1>4 DEF _upsert_regenerate_relationship, upsert_job_relationship, at
  <1>6. document_of(g, status) \in {Absent, g} /\ g \in CorrectionKeys
    BY DEF document_of, CorrectionKeys
  <1>7. relationship' \in [RegenerateKeys -> CorrectionKeys \cup {Absent}]
    BY <1>5, <1>6, StateFacts
  <1>8. /\ committed \subseteq committed' /\ committed' \in SUBSET CorrectionKeys
        /\ derived' \in [RegenerateKeys -> {"accepted", "working", "archived", "failed", Absent}]
        /\ \A h \in RegenerateKeys : derived'[h] = "archived" => h \in committed'
    BY <1>1 DEF CorrectionInv, CorrectionTypeOK, ReplacementOK
  <1>9. CASE call[c].pc = "relating"
    <2>1. /\ status \in {"accepted", "working", "archived", "failed"}
          /\ status = "archived" => call[c].key \in committed'
      BY CorrectionAssumption, <1>1, <1>2, <1>4, <1>9 DEF CallOK, RegenerateOK
    <2>2. UNCHANGED <<attempt, events, handoff, lineage, answer>>
      BY <1>1, <1>5, <1>9
    <2>3. CASE status = "accepted"
      <3>1. PICK q : q = [call[c] EXCEPT !.pc = "capturing"]
        OBVIOUS
      <3>2. call' = [call EXCEPT ![c] = q]
        BY <1>2, <1>5, <1>9, <2>3, <3>1 DEF moved
      <3>3. /\ q \in CorrectionCall /\ q.pc = "capturing"
            /\ q.kind = "regenerate" /\ q.key = g /\ q.adopted = call[c].adopted
        BY <1>1, <1>2, <1>3, <3>1 DEF CorrectionCall, Stages, Regenerating
      <3>4. stage(q) = "capturing"
        BY <3>3 DEF stage, Linking
      <3>5. CommandOK(q)'
        BY <3>3, <3>4 DEF CommandOK, Resolving, Rendering, Regenerating, Linking
      <3>6. RerenderOK(q)' /\ RegenerateOK(q)'
        BY <1>1, <1>2, <3>3, <3>4
           DEF CallOK, RerenderOK, RegenerateOK, Resolving, Rendering, Linking
      <3>7. \A k \in RerenderKeys : avoids(q, k)
        BY <3>4 DEF avoids, Resolving, Rendering
      <3>8. QED
        BY <1>7, <1>8, <2>2, <3>2, <3>3, <3>5, <3>6, <3>7, RegenerateMove DEF CallOK
    <2>4. CASE status # "accepted"
      <3>1. PICK q \in CorrectionCall :
                /\ call' = [call EXCEPT ![c] = q] /\ CallOK(q)'
                /\ \A k \in RerenderKeys : avoids(q, k)
        BY <1>1, <1>5, <1>8, <1>9, <2>1, <2>4, AfterWork
      <3>2. QED
        BY <1>7, <1>8, <2>2, <3>1, RegenerateMove
    <2>5. QED
      BY <2>3, <2>4
  <1>10. CASE call[c].pc = "finished"
    <2>1. PICK document \in {Absent, g} : document = document_of(g, status)
      BY <1>6
    <2>2. respond(c, document)
      BY <1>5, <1>10, <2>1
    <2>3. g # Absent
      BY CorrectionAssumption, <1>6
    <2>4. document = g => g \in committed /\ noted_pair(g)
      <3>1. document = g => status = "archived"
        BY <2>1, <2>3 DEF document_of
      <3>2. status = "archived" => call[c].outcome = Absent
        BY <1>1, <1>2, <1>4, <1>10 DEF CallOK, RegenerateOK
      <3>3. call[c].outcome = Absent => g \in committed /\ noted_pair(g)
        BY CorrectionAssumption, <1>1, <1>2, <1>3, <1>10 DEF CallOK, RegenerateOK
      <3>4. QED
        BY <3>1, <3>2, <3>3
    <2>5. QED
      BY <1>1, <1>3, <1>7, <2>1, <2>2, <2>4, RegenerateAnswer
  <1>11. QED
    BY <1>1, <1>9, <1>10

---------------------------------------------------------------------------
(* What happens around the calls *)

\* Archive comes to hold one more document, and no call moves.
LEMMA CommitStep ==
    ASSUME CorrectionInv, committed \subseteq committed', committed' \in SUBSET CorrectionKeys,
           UNCHANGED <<attempt, relationship, events, call, lineage, answer>>,
           handoff' \in SUBSET RerenderKeys,
           derived' \in [RegenerateKeys -> {"accepted", "working", "archived", "failed", Absent}],
           \A g \in RegenerateKeys : derived'[g] = "archived" => g \in committed'
    PROVE  CorrectionInv'
  <1>1. CorrectionTypeOK'
    BY DEF CorrectionInv, CorrectionTypeOK
  <1>2. ASSUME NEW c \in Calls
        PROVE  CallOK(call[c])'
    <2>1. PICK q \in CorrectionCall : q = call[c]
      BY CallFacts
    <2>2. CallOK(q) /\ Accumulates
      BY <2>1, CallFacts DEF Accumulates
    <2>3. CallOK(q)'
      BY <2>2, OtherCall
    <2>4. QED
      BY <2>1, <2>3
  <1>3. ASSUME NEW k \in RerenderKeys
        PROVE  AttemptOK(k)'
    <2>1. BoundElsewhere(k) => BoundElsewhere(k)'
      BY DEF BoundElsewhere, stage
    <2>2. QED
      BY <2>1 DEF CorrectionInv, AttemptOK
  <1>4. \A g \in RegenerateKeys : ReplacementOK(g)'
    BY DEF CorrectionInv, ReplacementOK, noted_pair
  <1>5. QED
    BY <1>1, <1>2, <1>3, <1>4 DEF CorrectionInv, CallOK

\* A handoff lands late.
LEMMA LateCommitStep ==
    ASSUME CorrectionInv, NEW k \in RerenderKeys, late_commit(k)
    PROVE  CorrectionInv'
  <1>1. /\ committed' = committed \cup {k} /\ handoff' = handoff \ {k}
        /\ UNCHANGED <<attempt, derived, relationship, events, call, lineage, answer>>
    BY DEF late_commit
  <1>2. /\ committed \subseteq committed' /\ committed' \in SUBSET CorrectionKeys
        /\ handoff' \in SUBSET RerenderKeys
        /\ derived' \in [RegenerateKeys -> {"accepted", "working", "archived", "failed", Absent}]
    BY <1>1, StateFacts DEF CorrectionKeys
  <1>3. \A g \in RegenerateKeys : derived'[g] = "archived" => g \in committed'
    BY <1>1 DEF CorrectionInv, ReplacementOK
  <1>4. QED
    BY <1>1, <1>2, <1>3, CommitStep

\* The work queue finishes a waiting replacement.
LEMMA CompleteStep ==
    ASSUME CorrectionInv, NEW g \in RegenerateKeys, complete_waiting(g)
    PROVE  CorrectionInv'
  <1>1. /\ derived' = [derived EXCEPT ![g] = "archived"] /\ committed' = committed \cup {g}
        /\ UNCHANGED <<attempt, relationship, events, call, handoff, lineage, answer>>
    BY DEF complete_waiting
  <1>2. /\ committed \subseteq committed' /\ committed' \in SUBSET CorrectionKeys
        /\ handoff' \in SUBSET RerenderKeys
        /\ derived' \in [RegenerateKeys -> {"accepted", "working", "archived", "failed", Absent}]
    BY <1>1, StateFacts DEF CorrectionKeys
  <1>3. \A h \in RegenerateKeys : derived'[h] = "archived" => h \in committed'
    BY <1>1, StateFacts DEF CorrectionInv, ReplacementOK
  <1>4. QED
    BY <1>1, <1>2, <1>3, CommitStep

---------------------------------------------------------------------------
(* The theorems *)

\* Nothing is attempted, committed or answered at first.
LEMMA CorrectionInitInv ==
    ASSUME CorrectionInit
    PROVE  CorrectionInv
  <1>1. /\ attempt = [k \in RerenderKeys |-> Absent] /\ derived = [g \in RegenerateKeys |-> Absent]
        /\ relationship = [g \in RegenerateKeys |-> Absent] /\ events = {}
        /\ call = [c \in Calls |-> NoCall] /\ committed = {} /\ handoff = {} /\ lineage = {}
        /\ answer = [k \in CorrectionKeys |-> {}]
    BY DEF CorrectionInit
  <1>2. CorrectionTypeOK
    BY <1>1, EndedCall DEF CorrectionTypeOK
  <1>3. \A c \in Calls : CallOK(call[c])
    BY <1>1, EndedCall
  <1>4. \A k \in RerenderKeys : AttemptOK(k)
    BY <1>1 DEF AttemptOK, CorrectionKeys
  <1>5. \A g \in RegenerateKeys : ReplacementOK(g)
    BY CorrectionAssumption, <1>1 DEF ReplacementOK, CorrectionKeys
  <1>6. QED
    BY <1>2, <1>3, <1>4, <1>5 DEF CorrectionInv, CallOK

\* Every step of the correction preserves its invariant.
LEMMA CorrectionStep ==
    ASSUME CorrectionInv, [CorrectionNext /\ UNCHANGED source]_correction_vars
    PROVE  CorrectionInv'
  <1>1. CASE UNCHANGED correction_vars
    <2>1. UNCHANGED <<attempt, derived, relationship, events, call, committed, handoff, lineage,
                      answer>>
      BY <1>1 DEF correction_vars
    <2>2. /\ committed \subseteq committed' /\ committed' \in SUBSET CorrectionKeys
          /\ handoff' \in SUBSET RerenderKeys
          /\ derived' \in [RegenerateKeys -> {"accepted", "working", "archived", "failed", Absent}]
          /\ \A g \in RegenerateKeys : derived'[g] = "archived" => g \in committed'
      BY <2>1 DEF CorrectionInv, CorrectionTypeOK, ReplacementOK
    <2>3. QED
      BY <2>1, <2>2, CommitStep
  <1>2. ASSUME NEW c \in Calls, Progress(c)
        PROVE  CorrectionInv'
    <2>1. CASE record_lifecycle_transition(c) \/ record_archive_lineage(c)
               \/ settle_pending_archive_lineage(c)
      BY <2>1, TransitionStep, NotedStep, SettleStep
    <2>2. CASE _resolve_ambiguous_attempts(c) \/ get_document_by_request_id(c) \/ adopt(c)
               \/ create_rerender_attempt(c)
      BY <2>2, ListStep, LookupStep, AdoptStep, CreateAttemptStep
    <2>3. CASE submit_render_package(c) \/ mark_rerender_archiving(c)
               \/ _record_rerender_archive_outcome(c) \/ rerender_answered(c)
      BY <2>3, SubmitStep, ArchivingStep, OutcomeStep, RerenderAnsweredStep
    <2>4. CASE _upsert_regenerate_relationship(c) \/ capture_for_job(c) \/ render_for_job(c)
      BY <2>4, RelateStep, CaptureStep, RenderStep
    <2>5. QED
      BY <1>2, <2>1, <2>2, <2>3, <2>4 DEF Progress
  <1>3. ASSUME NEW c \in Calls,
               \/ \E k \in RerenderKeys : rerender_job(c, k)
               \/ \E g \in RegenerateKeys : regenerate_job(c, g)
               \/ reconcile_pending_archive_lineage(c)
               \/ crash(c)
        PROVE  CorrectionInv'
    BY <1>3, RerenderStep, RegenerateStep, ReconcileStep, CrashStep
  <1>4. QED
    BY <1>1, <1>2, <1>3, LateCommitStep, CompleteStep DEF CorrectionNext

\* The inductive invariant of the correction holds in every reachable state.
THEOREM CorrectionInvariant ==
    CorrectionSpec => []CorrectionInv
  <1>1. CorrectionInit => CorrectionInv
    BY CorrectionInitInv
  <1>2. CorrectionInv /\ [CorrectionNext /\ UNCHANGED source]_correction_vars => CorrectionInv'
    BY CorrectionStep
  <1>3. QED
    BY <1>1, <1>2, PTL DEF CorrectionSpec

\* A set inside a single document has at most one.
LEMMA AtMostOne ==
    ASSUME NEW S, NEW d, S \subseteq {d}
    PROVE  Cardinality(S) <= 1
  <1>1. S = {} \/ S = {d}
    OBVIOUS
  <1>2. Cardinality({}) = 0 /\ Cardinality({d}) = 1
    BY FS_EmptySet, FS_Singleton
  <1>3. QED
    BY <1>1, <1>2

\* Every answer to one key names the same document, and Archive holds it, whatever was adopted,
\* lost or delivered late meanwhile.
THEOREM CorrectionOneDocumentPerKey ==
    CorrectionSpec => []OneDocumentPerKey
  <1>1. CorrectionInv => OneDocumentPerKey
    <2>1. SUFFICES ASSUME CorrectionInv, NEW k \in CorrectionKeys
                   PROVE  Cardinality(answer[k]) <= 1 /\ answer[k] \subseteq committed
      BY DEF OneDocumentPerKey
    <2>2. \E d : answer[k] \subseteq {d} \cap committed
      <3>1. CASE k \in RerenderKeys
        <4>1. AttemptOK(k)
          BY <2>1, <3>1 DEF CorrectionInv
        <4>2. QED
          BY <4>1 DEF AttemptOK
      <3>2. CASE k \in RegenerateKeys
        BY <2>1, <3>2 DEF CorrectionInv, ReplacementOK
      <3>3. QED
        BY <2>1, <3>1, <3>2 DEF CorrectionKeys
    <2>3. QED
      BY <2>2, AtMostOne
  <1>2. QED
    BY <1>1, CorrectionInvariant, PTL

\* A regenerate call that reports its replacement leaves a lineage event for the pair: the
\* supersession reached Archive, or it is on record as owed or as refused (a refusal is final).
THEOREM CorrectionReportedReplacementIsLinked ==
    CorrectionSpec => []ReportedReplacementIsLinked
  <1>1. CorrectionInv => ReportedReplacementIsLinked
    BY DEF CorrectionInv, ReplacementOK, noted_pair, ReportedReplacementIsLinked
  <1>2. QED
    BY <1>1, CorrectionInvariant, PTL
=============================================================================
