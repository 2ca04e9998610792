------------------------- MODULE IdeaEvidenceIntakeProofs -------------------------
(***************************************************************************)
(* Proofs about the intake of idea evidence, for any tenants, keys, packs  *)
(* and concurrent calls: an acknowledged intake survives the upgrade of    *)
(* the file, the transfer and the change of backend, and a materialization *)
(* receipt names the evidence of its job.                                  *)
(***************************************************************************)
EXTENDS IdeaEvidenceIntake, TLAPS

---------------------------------------------------------------------------
(* The inductive invariant *)

IntakeRow == [tenant : Tenants \cup {None}, key : Keys, pack : Packs]

\* Where a call stands between its admission and its answer.
Materializing == {"creating", "executing", "responding"}
Underway == {"checking", "recovering", "accepting", "storing"} \cup Materializing

IntakeCall == {Idle} \cup [pc : Underway, route : {"accept", "materialize"}, slot : Slots,
                           pack : Packs]

IntakeTypeOK ==
    /\ schema \in {"none", "key_only", "tenant"}
    /\ rows \in SUBSET IntakeRow
    /\ table \in [Slots -> Packs \cup {None}]
    /\ backend \in {"sqlite", "postgresql"}
    /\ api \in BOOLEAN
    /\ transfer \in [phase : {"idle", "failed", "copying", "complete"}, source : SUBSET IntakeRow]
    /\ job \in [Slots -> JobRow \cup {None}]
    /\ request \in [Requests -> IntakeCall]
    /\ acknowledged \in [Slots -> Packs \cup {None}]
    /\ forgotten \in SUBSET Slots

\* The file has one row per slot, and none before it has a schema.
FileOK ==
    /\ \A a, b \in rows : slot_of(a) = slot_of(b) => a = b
    /\ schema = "none" => rows = {}

holds(slot, pack) ==
    IF backend = "postgresql" THEN table[slot] = pack
    ELSE \E row \in rows : slot_of(row) = slot /\ row.pack = pack

\* The configured ledger holds what was acknowledged, whether or not it is open.
AcknowledgedOK ==
    \A slot \in Slots : acknowledged[slot] # None => holds(slot, acknowledged[slot])

\* The transfer works on the file as it is, and a complete one has carried all of it.
TransferOK ==
    /\ transfer.phase \in {"copying", "complete"} =>
          /\ ~api
          /\ transfer.source = rows
          /\ \A row \in rows : row.tenant # None
    /\ transfer.phase = "complete" => \A row \in rows : table[slot_of(row)] = row.pack

\* Calls live only while the ledger is open; one that materializes was acknowledged.
CallOK(r) ==
    /\ request[r].pc # "idle" => api /\ opened
    /\ request[r].pc \in Materializing => acknowledged[request[r].slot] = request[r].pack
    /\ request[r].pc \in {"executing", "responding"} => job[request[r].slot] # None

\* A job without a stored identity is the one of the acknowledged intake, unless that is gone.
LegacyOK ==
    \A slot \in Slots :
        job[slot] # None /\ ~job[slot].named /\ slot \notin forgotten
            => acknowledged[slot] = job[slot].pack

IntakeInv ==
    /\ IntakeTypeOK
    /\ FileOK
    /\ AcknowledgedOK
    /\ TransferOK
    /\ \A r \in Requests : CallOK(r)
    /\ LegacyOK
    /\ ReceiptNamesItsEvidence

---------------------------------------------------------------------------
(* Reading the configured ledger *)

\* _get_record finds a pack exactly when the ledger holds it.
LEMMA RecordRead ==
    ASSUME IntakeInv, NEW slot \in Slots
    PROVE  /\ _get_record(slot) \in Packs \cup {None}
           /\ \A pack \in Packs : holds(slot, pack) <=> _get_record(slot) = pack
  <1>1. /\ rows \in SUBSET IntakeRow /\ table \in [Slots -> Packs \cup {None}] /\ FileOK
    BY DEF IntakeInv, IntakeTypeOK
  <1>2. CASE backend = "postgresql"
    BY <1>1, <1>2 DEF _get_record, holds
  <1>3. CASE backend # "postgresql" /\ \E row \in rows : slot_of(row) = slot
    <2>1. PICK row \in rows : slot_of(row) = slot
      BY <1>3
    <2>2. \A other \in rows : slot_of(other) = slot => other = row
      BY <1>1, <2>1 DEF FileOK
    <2>3. (CHOOSE x \in rows : slot_of(x) = slot) = row
      BY <2>1, <2>2
    <2>4. _get_record(slot) = row.pack
      BY <1>3, <2>3 DEF _get_record
    <2>5. row.pack \in Packs
      BY <1>1 DEF IntakeRow
    <2>6. QED
      BY <1>3, <2>1, <2>2, <2>4, <2>5 DEF holds
  <1>4. CASE backend # "postgresql" /\ ~\E row \in rows : slot_of(row) = slot
    BY <1>4, IntakeAssumption DEF _get_record, holds
  <1>5. QED
    BY <1>2, <1>3, <1>4

\* What was acknowledged is what is read.
LEMMA AcknowledgedRead ==
    ASSUME IntakeInv, NEW slot \in Slots, acknowledged[slot] # None
    PROVE  _get_record(slot) = acknowledged[slot]
  <1>1. acknowledged[slot] \in Packs
    BY DEF IntakeInv, IntakeTypeOK
  <1>2. holds(slot, acknowledged[slot])
    BY DEF IntakeInv, AcknowledgedOK
  <1>3. QED
    BY <1>1, <1>2, RecordRead

---------------------------------------------------------------------------
(* The routes *)

\* What a call may rely on is never taken back while the service runs.
AcknowledgementsKept ==
    \A slot \in Slots : acknowledged[slot] # None => acknowledged'[slot] = acknowledged[slot]

JobsKept ==
    \A slot \in Slots :
        /\ job[slot] # None => /\ job'[slot] # None
                               /\ job'[slot].named = job[slot].named
                               /\ job'[slot].pack = job[slot].pack
        /\ job[slot] = None /\ job'[slot] # None => job'[slot].named

\* A step of one call.
LEMMA RouteStep ==
    ASSUME IntakeInv, NEW r \in Requests, NEW call \in IntakeCall,
           request' = [request EXCEPT ![r] = call],
           api, UNCHANGED <<deployment, forgotten>>,
           rows' \in SUBSET IntakeRow, table' \in [Slots -> Packs \cup {None}],
           acknowledged' \in [Slots -> Packs \cup {None}], job' \in [Slots -> JobRow \cup {None}],
           FileOK', AcknowledgedOK', AcknowledgementsKept, JobsKept,
           call.pc # "idle" => opened,
           call.pc \in Materializing => acknowledged'[call.slot] = call.pack,
           call.pc \in {"executing", "responding"} => job'[call.slot] # None,
           ReceiptNamesItsEvidence'
    PROVE  IntakeInv'
  <1>1. UNCHANGED <<schema, backend, api, transfer>>
    BY DEF deployment
  <1>2. request \in [Requests -> IntakeCall] /\ transfer.phase \notin {"copying", "complete"}
    BY DEF IntakeInv, IntakeTypeOK, TransferOK
  <1>3. IntakeTypeOK'
    BY <1>1, <1>2 DEF IntakeInv, IntakeTypeOK
  <1>4. TransferOK'
    BY <1>1, <1>2 DEF TransferOK
  <1>5. opened' = opened
    BY <1>1 DEF opened
  <1>6. ASSUME NEW q \in Requests
        PROVE  CallOK(q)'
    <2>1. CASE q = r
      <3>1. request'[q] = call
        BY <1>2, <2>1
      <3>2. QED
        BY <1>1, <1>5, <3>1 DEF CallOK
    <2>2. CASE q # r
      <3>1. request'[q] = request[q] /\ CallOK(q) /\ request[q] \in IntakeCall
        BY <1>2, <2>2 DEF IntakeInv
      <3>2. request[q].pc \in Materializing =>
                request[q].slot \in Slots /\ request[q].pack \in Packs
        BY <3>1 DEF IntakeCall, Idle, Materializing
      <3>3. request[q].pc \in Materializing =>
                acknowledged'[request[q].slot] = request[q].pack
        BY <3>1, <3>2, IntakeAssumption DEF CallOK, AcknowledgementsKept
      <3>4. request[q].pc \in {"executing", "responding"} => job'[request[q].slot] # None
        BY <3>1, <3>2 DEF CallOK, JobsKept, Materializing
      <3>5. QED
        BY <1>1, <1>5, <3>1, <3>3, <3>4 DEF CallOK
    <2>3. QED
      BY <2>1, <2>2
  <1>7. LegacyOK'
    <2>1. ASSUME NEW slot \in Slots, job'[slot] # None, ~job'[slot].named, slot \notin forgotten
          PROVE  acknowledged'[slot] = job'[slot].pack
      <3>1. job[slot] # None
        BY <2>1 DEF JobsKept
      <3>2. job'[slot].pack = job[slot].pack /\ ~job[slot].named
        BY <2>1, <3>1 DEF JobsKept
      <3>3. job[slot] \in JobRow
        BY <3>1 DEF IntakeInv, IntakeTypeOK
      <3>4. acknowledged[slot] = job[slot].pack /\ job[slot].pack # None
        BY <2>1, <3>1, <3>2, <3>3, IntakeAssumption DEF IntakeInv, LegacyOK, JobRow
      <3>5. QED
        BY <3>2, <3>4 DEF AcknowledgementsKept
    <2>2. QED
      BY <2>1 DEF LegacyOK
  <1>8. QED
    BY <1>3, <1>4, <1>6, <1>7 DEF IntakeInv

\* A step of one call that writes nothing.
LEMMA ReadingStep ==
    ASSUME IntakeInv, NEW r \in Requests, NEW call \in IntakeCall,
           request' = [request EXCEPT ![r] = call],
           api, UNCHANGED <<deployment, forgotten, rows, table, job, acknowledged>>,
           call.pc # "idle" => opened,
           call.pc \in Materializing => acknowledged[call.slot] = call.pack,
           call.pc \in {"executing", "responding"} => job[call.slot] # None,
           ReceiptNamesItsEvidence'
    PROVE  IntakeInv'
  <1>1. /\ rows' \in SUBSET IntakeRow /\ table' \in [Slots -> Packs \cup {None}]
        /\ acknowledged' \in [Slots -> Packs \cup {None}] /\ job' \in [Slots -> JobRow \cup {None}]
    BY DEF IntakeInv, IntakeTypeOK
  <1>2. AcknowledgementsKept /\ JobsKept
    BY DEF AcknowledgementsKept, JobsKept
  <1>3. FileOK' /\ AcknowledgedOK'
    BY DEF IntakeInv, FileOK, AcknowledgedOK, holds, slot_of, deployment
  <1>4. QED
    BY <1>1, <1>2, <1>3, RouteStep

\* A step that hands out no receipt.
LEMMA NoReceipt ==
    ASSUME receipt' = None
    PROVE  ReceiptNamesItsEvidence'
  BY DEF ReceiptNamesItsEvidence

\* The facts of a call that is under way.
LEMMA CallFacts ==
    ASSUME IntakeInv, NEW r \in Requests, request[r].pc # "idle"
    PROVE  /\ api /\ opened
           /\ request[r] \in [pc : Underway, route : {"accept", "materialize"}, slot : Slots,
                              pack : Packs]
  BY DEF IntakeInv, IntakeTypeOK, CallOK, IntakeCall, Idle

\* goto moves the stage of a call or ends it.
LEMMA GotoCall ==
    ASSUME IntakeInv, NEW r \in Requests, request[r].pc # "idle", NEW pc \in Underway \cup {"idle"},
           goto(r, pc)
    PROVE  \E call \in IntakeCall :
              /\ request' = [request EXCEPT ![r] = call]
              /\ call.pc = pc
              /\ pc # "idle" => call.slot = request[r].slot /\ call.pack = request[r].pack
  <1>1. request[r] \in [pc : Underway, route : {"accept", "materialize"}, slot : Slots,
                        pack : Packs]
    BY CallFacts
  <1>2. CASE pc = "idle"
    <2>1. request' = [request EXCEPT ![r] = Idle]
      BY <1>2 DEF goto
    <2>2. Idle \in IntakeCall /\ Idle.pc = "idle"
      BY DEF IntakeCall, Idle
    <2>3. QED
      BY <1>2, <2>1, <2>2
  <1>3. CASE pc # "idle"
    <2> DEFINE call == [request[r] EXCEPT !.pc = pc]
    <2>1. request' = [request EXCEPT ![r] = call]
      BY <1>3 DEF goto
    <2>2. /\ call \in IntakeCall /\ call.pc = pc /\ call.slot = request[r].slot
          /\ call.pack = request[r].pack
      BY <1>1, <1>3 DEF IntakeCall
    <2>3. QED
      BY <2>1, <2>2
  <1>4. QED
    BY <1>2, <1>3

\* A call moves on or ends, and writes nothing.
LEMMA MovingStep ==
    ASSUME IntakeInv, NEW r \in Requests, request[r].pc # "idle", NEW pc \in Underway \cup {"idle"},
           goto(r, pc), UNCHANGED <<deployment, forgotten, rows, table, job, acknowledged>>,
           pc \in Materializing => request[r].pc \in Materializing,
           pc \in {"executing", "responding"} => job[request[r].slot] # None,
           ReceiptNamesItsEvidence'
    PROVE  IntakeInv'
  <1>1. PICK call \in IntakeCall :
              /\ request' = [request EXCEPT ![r] = call]
              /\ call.pc = pc
              /\ pc # "idle" => call.slot = request[r].slot /\ call.pack = request[r].pack
    BY GotoCall
  <1>2. api /\ opened
    BY CallFacts
  <1>3. call.pc \in Materializing => acknowledged[call.slot] = call.pack
    BY <1>1 DEF IntakeInv, CallOK, Materializing
  <1>4. call.pc \in {"executing", "responding"} => job[call.slot] # None
    BY <1>1
  <1>5. QED
    BY <1>1, <1>2, <1>3, <1>4, ReadingStep

\* Admission: the service runs and its ledger is open.
LEMMA AdmitStep ==
    ASSUME IntakeInv, NEW r \in Requests, NEW route \in {"accept", "materialize"}, admit(r, route)
    PROVE  IntakeInv'
  <1>1. PICK slot \in Slots, pack \in Packs :
            request' = [request EXCEPT ![r] =
                [pc |-> IF route = "materialize" THEN "checking" ELSE "accepting",
                 route |-> route, slot |-> slot, pack |-> pack]]
    BY DEF admit
  <1> DEFINE pc == IF route = "materialize" THEN "checking" ELSE "accepting"
             call == [pc |-> pc, route |-> route, slot |-> slot, pack |-> pack]
  <1>2. pc \in Underway /\ pc \notin Materializing
    BY DEF Underway, Materializing
  <1>3. request' = [request EXCEPT ![r] = call]
    BY <1>1
  <1> HIDE DEF pc
  <1>4. call \in IntakeCall /\ call.pc = pc
    BY <1>2 DEF IntakeCall
  <1> HIDE DEF call
  <1>5. /\ api /\ opened /\ receipt' = None
        /\ UNCHANGED <<deployment, forgotten, rows, table, job, acknowledged>>
    BY DEF admit
  <1>6. pc \notin {"executing", "responding"}
    BY <1>2 DEF Materializing
  <1>7. QED
    BY <1>2, <1>3, <1>4, <1>5, <1>6, NoReceipt, ReadingStep

\* The two reads of the legacy guard move the call on or end it.
LEMMA LegacyGuardStep ==
    ASSUME IntakeInv, NEW r \in Requests, _refuse_unverifiable_legacy_replay(r)
    PROVE  IntakeInv'
  <1>1. /\ request[r].pc # "idle" /\ receipt' = None
        /\ UNCHANGED <<deployment, forgotten, rows, table, job, acknowledged>>
    BY DEF _refuse_unverifiable_legacy_replay
  <1>2. PICK pc \in {"accepting", "recovering", "idle"} : goto(r, pc)
    BY DEF _refuse_unverifiable_legacy_replay
  <1>3. pc \in Underway \cup {"idle"} /\ pc \notin Materializing
    BY <1>2 DEF Underway, Materializing
  <1>4. pc \notin {"executing", "responding"}
    BY <1>2
  <1>5. QED
    BY <1>1, <1>2, <1>3, <1>4, NoReceipt, MovingStep

\* An acknowledgement of what the ledger holds after the step.
LEMMA AnsweredStep ==
    ASSUME IntakeInv, NEW r \in Requests, request[r].pc # "idle",
           NEW slot, slot = request[r].slot, NEW pack, pack = request[r].pack,
           answered(r, pack), receipt' = None,
           UNCHANGED <<deployment, forgotten, job>>,
           rows' \in SUBSET IntakeRow, table' \in [Slots -> Packs \cup {None}], FileOK',
           holds(slot, pack)',
           \A s \in Slots, p \in Packs : holds(s, p) => holds(s, p)',
           _get_record(slot) \in {None, pack}
    PROVE  IntakeInv'
  <1> DEFINE pc == IF request[r].route = "accept" THEN "idle" ELSE "creating"
  <1>1. slot \in Slots /\ pack \in Packs /\ api /\ opened
    BY CallFacts
  <1>2. pc \in Underway \cup {"idle"} /\ goto(r, pc)
    BY DEF answered, Underway, Materializing
  <1>3. acknowledged' = [acknowledged EXCEPT ![slot] = pack]
    BY DEF answered
  <1>4. acknowledged \in [Slots -> Packs \cup {None}]
    BY DEF IntakeInv, IntakeTypeOK
  <1>5. /\ acknowledged' \in [Slots -> Packs \cup {None}]
        /\ \A s \in Slots : acknowledged'[s] = IF s = slot THEN pack ELSE acknowledged[s]
    BY <1>1, <1>3, <1>4
  <1>6. acknowledged[slot] \in {None, pack}
    BY <1>1, AcknowledgedRead
  <1>7. AcknowledgementsKept
    BY <1>5, <1>6 DEF AcknowledgementsKept
  <1>8. PICK call \in IntakeCall :
              /\ request' = [request EXCEPT ![r] = call]
              /\ call.pc = pc
              /\ pc # "idle" => call.slot = request[r].slot /\ call.pack = request[r].pack
    BY <1>2, GotoCall
  <1>9. AcknowledgedOK'
    <2>1. ASSUME NEW s \in Slots, acknowledged'[s] # None
          PROVE  \/ backend = "postgresql" /\ table'[s] = acknowledged'[s]
                 \/ /\ backend # "postgresql"
                    /\ \E row \in rows' : slot_of(row) = s /\ row.pack = acknowledged'[s]
      <3>1. backend' = backend
        BY DEF deployment
      <3>2. CASE s = slot
        BY <1>1, <1>5, <3>1, <3>2 DEF holds, slot_of
      <3>3. CASE s # slot
        <4>1. acknowledged'[s] = acknowledged[s] /\ acknowledged[s] \in Packs
          BY <1>4, <1>5, <2>1, <3>3
        <4>2. PICK p \in Packs : p = acknowledged[s] /\ holds(s, p)
          BY <2>1, <4>1 DEF IntakeInv, AcknowledgedOK
        <4>3. holds(s, p)'
          BY <4>2
        <4>4. QED
          BY <3>1, <4>1, <4>2, <4>3 DEF holds, slot_of
      <3>4. QED
        BY <1>1, <1>5, <3>2, <3>3
    <2>2. QED
      BY <2>1 DEF AcknowledgedOK, holds, slot_of, deployment
  <1>10. job' \in [Slots -> JobRow \cup {None}] /\ JobsKept
    BY DEF IntakeInv, IntakeTypeOK, JobsKept
  <1>11. /\ call.pc \in Materializing => acknowledged'[call.slot] = call.pack
         /\ call.pc \notin {"executing", "responding"}
    BY <1>1, <1>5, <1>8 DEF Materializing
  <1>12. QED
    BY <1>1, <1>5, <1>7, <1>8, <1>9, <1>10, <1>11, NoReceipt, RouteStep

\* The ledger tells apart only rows and table: what it holds after a step that writes neither.
LEMMA LedgerSame ==
    ASSUME IntakeInv, UNCHANGED <<rows, table, schema, backend>>
    PROVE  /\ rows' \in SUBSET IntakeRow /\ table' \in [Slots -> Packs \cup {None}] /\ FileOK'
           /\ \A s \in Slots, p \in Packs : holds(s, p) => holds(s, p)'
  <1>1. rows' \in SUBSET IntakeRow /\ table' \in [Slots -> Packs \cup {None}]
    BY DEF IntakeInv, IntakeTypeOK
  <1>2. FileOK' /\ \A s \in Slots, p \in Packs : holds(s, p) => holds(s, p)'
    BY DEF IntakeInv, FileOK, holds, slot_of
  <1>3. QED
    BY <1>1, <1>2

\* A call that finds its own pack stored is answered with it.
LEMMA ReplayedStep ==
    ASSUME IntakeInv, NEW r \in Requests, request[r].pc # "idle",
           _get_record(request[r].slot) = request[r].pack,
           answered(r, _get_record(request[r].slot)), receipt' = None,
           UNCHANGED <<deployment, forgotten, job, rows, table>>
    PROVE  IntakeInv'
  <1>1. PICK slot \in Slots, pack \in Packs : slot = request[r].slot /\ pack = request[r].pack
    BY CallFacts
  <1>2. UNCHANGED <<rows, table, schema, backend>> /\ UNCHANGED <<deployment, forgotten, job>>
    BY DEF deployment
  <1>3. /\ rows' \in SUBSET IntakeRow /\ table' \in [Slots -> Packs \cup {None}] /\ FileOK'
        /\ \A s \in Slots, p \in Packs : holds(s, p) => holds(s, p)'
    BY <1>2, LedgerSame
  <1>4. holds(slot, pack)
    BY <1>1, RecordRead
  <1>5. holds(slot, pack)'
    BY <1>3, <1>4
  <1>6. answered(r, pack) /\ _get_record(slot) \in {None, pack}
    BY <1>1
  <1>7. QED
    BY <1>1, <1>2, <1>3, <1>5, <1>6, AnsweredStep

\* accept: a stored pack is answered, a different one refused, none stored goes on.
LEMMA AcceptStep ==
    ASSUME IntakeInv, NEW r \in Requests, accept(r)
    PROVE  IntakeInv'
  <1>1. /\ request[r].pc # "idle" /\ receipt' = None
        /\ UNCHANGED <<deployment, forgotten, job, rows, table>>
    BY DEF accept
  <1>2. CASE _get_record(request[r].slot) = request[r].pack
               /\ answered(r, _get_record(request[r].slot))
    BY <1>1, <1>2, ReplayedStep
  <1>3. ASSUME NEW pc \in {"storing", "idle"}, goto(r, pc), UNCHANGED acknowledged
        PROVE  IntakeInv'
    <2>1. /\ pc \in Underway \cup {"idle"} /\ pc \notin Materializing
          /\ pc \notin {"executing", "responding"}
      BY <1>3 DEF Underway, Materializing
    <2>2. UNCHANGED <<deployment, forgotten, rows, table, job, acknowledged>>
      BY <1>1, <1>3
    <2>3. QED
      BY <1>1, <1>3, <2>1, <2>2, NoReceipt, MovingStep
  <1>4. QED
    BY <1>2, <1>3 DEF accept

\* The insert: the slot was empty, so no row is doubled or lost.
LEMMA InsertedStep ==
    ASSUME IntakeInv, NEW r \in Requests, request[r].pc # "idle",
           _get_record(request[r].slot) = None,
           insert(request[r].slot, request[r].pack), answered(r, request[r].pack),
           receipt' = None, UNCHANGED <<deployment, forgotten, job>>
    PROVE  IntakeInv'
  <1>1. PICK slot \in Slots, pack \in Packs : slot = request[r].slot /\ pack = request[r].pack
    BY CallFacts
  <1>2. /\ rows \in SUBSET IntakeRow /\ table \in [Slots -> Packs \cup {None}]
        /\ backend \in {"sqlite", "postgresql"} /\ FileOK
    BY DEF IntakeInv, IntakeTypeOK
  <1>3. UNCHANGED <<schema, backend>>
    BY DEF deployment
  <1>4. /\ rows' \in SUBSET IntakeRow /\ table' \in [Slots -> Packs \cup {None}] /\ FileOK'
        /\ \A s \in Slots, p \in Packs : holds(s, p) => holds(s, p)'
        /\ holds(slot, pack)'
    <2>1. CASE backend = "postgresql"
      <3>1. table' = [table EXCEPT ![slot] = pack] /\ UNCHANGED rows
        BY <1>1, <2>1 DEF insert
      <3>2. /\ table' \in [Slots -> Packs \cup {None}]
            /\ \A s \in Slots : table'[s] = IF s = slot THEN pack ELSE table[s]
        BY <1>1, <1>2, <3>1
      <3>3. table[slot] = None
        BY <1>1, <2>1 DEF _get_record
      <3>4. holds(slot, pack)'
        BY <1>1, <1>3, <2>1, <3>2 DEF holds
      <3>5. \A s \in Slots, p \in Packs : holds(s, p) => holds(s, p)'
        BY <1>3, <2>1, <3>2, <3>3, IntakeAssumption DEF holds
      <3>6. FileOK'
        BY <1>2, <1>3, <3>1 DEF FileOK, slot_of
      <3>7. QED
        BY <1>2, <3>1, <3>2, <3>4, <3>5, <3>6
    <2>2. CASE backend = "sqlite"
      <3> DEFINE new == [tenant |-> slot[1], key |-> slot[2], pack |-> pack]
      <3>1. rows' = rows \cup {new} /\ UNCHANGED table
        BY <1>1, <2>2 DEF insert
      <3>2. new \in IntakeRow /\ slot_of(new) = slot /\ new.pack = pack
        BY <1>1 DEF IntakeRow, slot_of, Slots
      <3> HIDE DEF new
      <3>3. ~\E row \in rows : slot_of(row) = slot
        <4>1. ASSUME NEW row \in rows, slot_of(row) = slot
              PROVE  FALSE
          <5>1. row.pack \in Packs /\ holds(slot, row.pack)
            BY <1>2, <2>2, <4>1 DEF IntakeRow, holds
          <5>2. _get_record(slot) = row.pack
            BY <1>1, <5>1, RecordRead
          <5>3. QED
            BY <1>1, <5>1, <5>2, IntakeAssumption
        <4>2. QED
          BY <4>1
      <3>4. \A a, b \in rows' : slot_of(a) = slot_of(b) => a = b
        BY <1>2, <3>1, <3>2, <3>3 DEF FileOK
      <3>5. schema # "none"
        BY <2>2, CallFacts DEF opened
      <3>6. FileOK'
        BY <1>3, <3>4, <3>5 DEF FileOK, slot_of
      <3>7. \A s \in Slots, p \in Packs : holds(s, p) => holds(s, p)'
        BY <1>3, <2>2, <3>1 DEF holds, slot_of
      <3>8. holds(slot, pack)'
        BY <1>3, <2>2, <3>1, <3>2 DEF holds, slot_of
      <3>9. QED
        BY <1>2, <3>1, <3>2, <3>6, <3>7, <3>8
    <2>3. QED
      BY <1>2, <2>1, <2>2
  <1>5. answered(r, pack) /\ _get_record(slot) \in {None, pack}
    BY <1>1
  <1>6. QED
    BY <1>1, <1>4, <1>5, AnsweredStep

\* _store_record: the insert, or the row that won the race.
LEMMA StoreStep ==
    ASSUME IntakeInv, NEW r \in Requests, _store_record(r)
    PROVE  IntakeInv'
  <1>1. request[r].pc # "idle" /\ receipt' = None /\ UNCHANGED <<deployment, forgotten, job>>
    BY DEF _store_record
  <1>2. CASE /\ _get_record(request[r].slot) = None
             /\ insert(request[r].slot, request[r].pack)
             /\ answered(r, request[r].pack)
    BY <1>1, <1>2, InsertedStep
  <1>3. CASE /\ _get_record(request[r].slot) = request[r].pack
             /\ answered(r, _get_record(request[r].slot)) /\ UNCHANGED <<rows, table>>
    BY <1>1, <1>3, ReplayedStep
  <1>4. CASE goto(r, "idle") /\ UNCHANGED <<rows, table, acknowledged>>
    <2>1. /\ "idle" \in Underway \cup {"idle"} /\ "idle" \notin Materializing
          /\ "idle" \notin {"executing", "responding"}
      BY DEF Materializing
    <2>2. UNCHANGED <<deployment, forgotten, rows, table, job, acknowledged>>
      BY <1>1, <1>4
    <2>3. QED
      BY <1>1, <1>4, <2>1, <2>2, NoReceipt, MovingStep
  <1>5. QED
    BY <1>2, <1>3, <1>4 DEF _store_record

\* A call at the job stages, whose job row is written.
LEMMA JobStep ==
    ASSUME IntakeInv, NEW r \in Requests, request[r].pc \in Materializing,
           NEW pc \in {"executing", "responding"}, goto(r, pc), receipt' = None,
           UNCHANGED <<deployment, forgotten, rows, table, acknowledged>>,
           job' \in [Slots -> JobRow \cup {None}], JobsKept, job'[request[r].slot] # None
    PROVE  IntakeInv'
  <1>1. request[r].pc # "idle" /\ pc \in Underway \cup {"idle"} /\ pc \in Materializing
    BY DEF Materializing, Underway
  <1>2. PICK call \in IntakeCall :
              /\ request' = [request EXCEPT ![r] = call]
              /\ call.pc = pc
              /\ pc # "idle" => call.slot = request[r].slot /\ call.pack = request[r].pack
    BY <1>1, GotoCall
  <1>3. api /\ opened /\ UNCHANGED <<rows, table, schema, backend>>
    BY <1>1, CallFacts DEF deployment
  <1>4. /\ rows' \in SUBSET IntakeRow /\ table' \in [Slots -> Packs \cup {None}] /\ FileOK'
    BY <1>3, LedgerSame
  <1>5. acknowledged' \in [Slots -> Packs \cup {None}] /\ AcknowledgementsKept
    BY DEF IntakeInv, IntakeTypeOK, AcknowledgementsKept
  <1>6. AcknowledgedOK'
    BY <1>3 DEF IntakeInv, AcknowledgedOK, holds, slot_of
  <1>7. acknowledged'[call.slot] = call.pack /\ job'[call.slot] # None
    BY <1>1, <1>2 DEF IntakeInv, CallOK, Materializing
  <1>8. UNCHANGED <<deployment, forgotten>>
    OBVIOUS
  <1>9. QED
    BY <1>2, <1>3, <1>4, <1>5, <1>6, <1>7, <1>8, NoReceipt, RouteStep

\* create_proof_pack_report_job: a new job stores its identity; an old one is kept as it is.
LEMMA CreateJobStep ==
    ASSUME IntakeInv, NEW r \in Requests, create_proof_pack_report_job(r)
    PROVE  IntakeInv'
  <1>1. /\ request[r].pc = "creating" /\ receipt' = None
        /\ UNCHANGED <<deployment, rows, table, acknowledged, forgotten>>
    BY DEF create_proof_pack_report_job
  <1>2. request[r].pc \in Materializing /\ request[r].pc # "idle"
    BY <1>1 DEF Materializing
  <1>3. request[r].slot \in Slots /\ request[r].pack \in Packs
    BY <1>2, CallFacts
  <1>4. job \in [Slots -> JobRow \cup {None}]
    BY DEF IntakeInv, IntakeTypeOK
  <1>5. CASE /\ job[request[r].slot] = None /\ goto(r, "executing")
             /\ job' = [job EXCEPT ![request[r].slot] =
                          build_proof_pack_report_job_request_from_idea_evidence(request[r].pack)]
    <2> DEFINE new == build_proof_pack_report_job_request_from_idea_evidence(request[r].pack)
    <2>1. new \in JobRow /\ new.named
      BY <1>3 DEF build_proof_pack_report_job_request_from_idea_evidence, JobRow
    <2> HIDE DEF new
    <2>2. new # None
      BY <2>1, IntakeAssumption
    <2>3. job' = [job EXCEPT ![request[r].slot] = new]
      BY <1>5 DEF new
    <2>4. /\ job' \in [Slots -> JobRow \cup {None}]
          /\ \A s \in Slots : job'[s] = IF s = request[r].slot THEN new ELSE job[s]
      BY <1>3, <1>4, <2>1, <2>3
    <2>5. JobsKept /\ job'[request[r].slot] # None
      BY <1>3, <1>5, <2>1, <2>2, <2>4 DEF JobsKept
    <2>6. QED
      BY <1>1, <1>2, <1>5, <2>4, <2>5, JobStep
  <1>6. CASE job[request[r].slot] # None /\ goto(r, "executing") /\ UNCHANGED job
    <2>1. JobsKept /\ job' \in [Slots -> JobRow \cup {None}]
      BY <1>4, <1>6 DEF JobsKept
    <2>2. QED
      BY <1>1, <1>2, <1>6, <2>1, JobStep
  <1>7. CASE goto(r, "idle") /\ UNCHANGED job
    <2>1. UNCHANGED <<deployment, forgotten, rows, table, job, acknowledged>>
      BY <1>1, <1>7
    <2>2. "idle" \notin Materializing
      BY DEF Materializing
    <2>3. QED
      BY <1>1, <1>2, <1>7, <2>1, <2>2, NoReceipt, MovingStep
  <1>8. QED
    BY <1>5, <1>6, <1>7 DEF create_proof_pack_report_job

\* execute: the status alone.
LEMMA ExecuteStep ==
    ASSUME IntakeInv, NEW r \in Requests, execute(r)
    PROVE  IntakeInv'
  <1>1. /\ request[r].pc = "executing" /\ receipt' = None /\ goto(r, "responding")
        /\ UNCHANGED <<deployment, rows, table, acknowledged, forgotten>>
        /\ job' = [job EXCEPT ![request[r].slot].status = "executed"]
    BY DEF execute
  <1>2. request[r].pc \in Materializing /\ request[r].pc # "idle"
    BY <1>1 DEF Materializing
  <1>3. PICK slot \in Slots : slot = request[r].slot
    BY <1>2, CallFacts
  <1>4. job \in [Slots -> JobRow \cup {None}] /\ job[slot] \in JobRow
    BY <1>1, <1>3 DEF IntakeInv, IntakeTypeOK, CallOK
  <1> DEFINE new == [job[slot] EXCEPT !.status = "executed"]
  <1>5. new \in JobRow /\ new.named = job[slot].named /\ new.pack = job[slot].pack
    BY <1>4 DEF JobRow
  <1>6. job' = [job EXCEPT ![slot] = new]
    BY <1>1, <1>3
  <1> HIDE DEF new
  <1>7. new # None
    BY <1>5, IntakeAssumption
  <1>8. /\ job' \in [Slots -> JobRow \cup {None}]
        /\ \A s \in Slots : job'[s] = IF s = slot THEN new ELSE job[s]
    BY <1>4, <1>5, <1>6
  <1>9. JobsKept /\ job'[slot] # None
    BY <1>4, <1>5, <1>7, <1>8, IntakeAssumption DEF JobsKept
  <1>10. QED
    BY <1>1, <1>2, <1>3, <1>8, <1>9, JobStep

\* The receipt: a job without a stored identity is answered for the acknowledged pack.
LEMMA ResponseStep ==
    ASSUME IntakeInv, NEW r \in Requests, _materialization_response(r)
    PROVE  IntakeInv'
  <1>1. /\ request[r].pc = "responding" /\ goto(r, "idle")
        /\ UNCHANGED <<deployment, rows, table, job, acknowledged, forgotten>>
    BY DEF _materialization_response
  <1>2. request[r].pc \in Materializing /\ request[r].pc # "idle"
    BY <1>1 DEF Materializing
  <1>3. PICK slot \in Slots, pack \in Packs : slot = request[r].slot /\ pack = request[r].pack
    BY <1>2, CallFacts
  <1>4. acknowledged[slot] = pack /\ job[slot] # None
    BY <1>1, <1>2, <1>3 DEF IntakeInv, CallOK
  <1>5. \/ receipt' = None
        \/ /\ receipt' = [slot |-> slot, pack |-> pack]
           /\ recover_idea_materialization(slot, pack) \in {"same", "missing"}
    BY <1>3 DEF _materialization_response
  <1>6. recover_idea_materialization(slot, pack) \in {"same", "missing"} =>
            job[slot].pack = pack \/ slot \in forgotten
    BY <1>3, <1>4 DEF recover_idea_materialization, IntakeInv, LegacyOK
  <1>7. ReceiptNamesItsEvidence'
    BY <1>1, <1>5, <1>6 DEF ReceiptNamesItsEvidence
  <1>8. "idle" \notin Materializing
    BY DEF Materializing
  <1>9. UNCHANGED <<deployment, forgotten, rows, table, job, acknowledged>>
    BY <1>1
  <1>10. QED
    BY <1>1, <1>2, <1>7, <1>8, <1>9, MovingStep

\* The recovery read hands out a receipt only for the stored identity it was asked for.
LEMMA RecoverStep ==
    ASSUME IntakeInv, recover_idea_evidence_pack_materialization
    PROVE  IntakeInv'
  <1>1. PICK slot \in Slots, pack \in Packs :
            /\ recover_idea_materialization(slot, pack) = "same"
            /\ receipt' = [slot |-> slot, pack |-> pack]
    BY DEF recover_idea_evidence_pack_materialization
  <1>2. UNCHANGED <<schema, backend, api, transfer, rows, table, job, request, acknowledged,
                    forgotten>>
    BY DEF recover_idea_evidence_pack_materialization, deployment
  <1>3. job[slot].pack = pack
    BY <1>1 DEF recover_idea_materialization
  <1>4. ReceiptNamesItsEvidence'
    BY <1>1, <1>2, <1>3 DEF ReceiptNamesItsEvidence
  <1>5. IntakeTypeOK' /\ FileOK' /\ TransferOK' /\ LegacyOK'
    BY <1>2 DEF IntakeInv, IntakeTypeOK, FileOK, TransferOK, LegacyOK, slot_of
  <1>6. AcknowledgedOK' /\ \A r \in Requests : CallOK(r)'
    BY <1>2 DEF IntakeInv, AcknowledgedOK, holds, slot_of, CallOK, opened
  <1>7. QED
    BY <1>4, <1>5, <1>6 DEF IntakeInv

---------------------------------------------------------------------------
(* Operating the service *)

\* A step that leaves the acknowledgements and the jobs alone and has no call under way after it.
LEMMA OperatingStep ==
    ASSUME IntakeInv, IntakeTypeOK', FileOK', AcknowledgedOK', TransferOK', receipt' = None,
           \A r \in Requests : CallOK(r)', UNCHANGED <<job, acknowledged, forgotten>>
    PROVE  IntakeInv'
  <1>1. LegacyOK'
    BY DEF IntakeInv, LegacyOK
  <1>2. QED
    BY <1>1, NoReceipt DEF IntakeInv

\* No call is under way while the service is down.
LEMMA AllIdle ==
    ASSUME IntakeInv, ~api
    PROVE  \A r \in Requests : request[r].pc = "idle"
  BY DEF IntakeInv, CallOK

\* A call that is idle after the step needs nothing.
LEMMA StillIdle ==
    ASSUME \A r \in Requests : request'[r].pc = "idle"
    PROVE  \A r \in Requests : CallOK(r)'
  BY DEF CallOK, Materializing

\* The configured ledger holds what it held.
LEMMA AcknowledgedSame ==
    ASSUME IntakeInv, UNCHANGED <<rows, table, backend, acknowledged>>
    PROVE  AcknowledgedOK'
  BY DEF IntakeInv, AcknowledgedOK, holds, slot_of

\* The upgrade rewrites the key of the rows, each of which names its tenant.
LEMMA SchemaStep ==
    ASSUME IntakeInv, _ensure_schema
    PROVE  IntakeInv'
  <1>1. /\ schema' = "tenant" /\ receipt' = None
        /\ UNCHANGED <<rows, table, backend, api, transfer, job, request, acknowledged, forgotten>>
    BY DEF _ensure_schema
  <1>2. IntakeTypeOK' /\ TransferOK'
    BY <1>1 DEF IntakeInv, IntakeTypeOK, TransferOK, slot_of
  <1>3. FileOK'
    BY <1>1 DEF IntakeInv, FileOK, slot_of
  <1>4. AcknowledgedOK'
    BY <1>1, AcknowledgedSame
  <1>5. \A r \in Requests : CallOK(r)'
    BY <1>1 DEF IntakeInv, CallOK, opened
  <1>6. QED
    BY <1>1, <1>2, <1>3, <1>4, <1>5, OperatingStep

\* A stop ends every call.
LEMMA StopStep ==
    ASSUME IntakeInv, stop_api
    PROVE  IntakeInv'
  <1>1. /\ api' = FALSE /\ receipt' = None /\ request' = [r \in Requests |-> Idle]
        /\ UNCHANGED <<schema, rows, table, backend, transfer, job, acknowledged, forgotten>>
    BY DEF stop_api
  <1>2. IntakeTypeOK'
    BY <1>1 DEF IntakeInv, IntakeTypeOK, IntakeCall
  <1>3. FileOK' /\ TransferOK'
    BY <1>1 DEF IntakeInv, FileOK, TransferOK, slot_of
  <1>4. AcknowledgedOK'
    BY <1>1, AcknowledgedSame
  <1>5. \A r \in Requests : request'[r].pc = "idle"
    BY <1>1 DEF Idle
  <1>6. QED
    BY <1>1, <1>2, <1>3, <1>4, <1>5, StillIdle, OperatingStep

\* A step of the operator or of the transfer that leaves both ledgers as they are.
LEMMA DownStep ==
    ASSUME IntakeInv, ~api, api' \in BOOLEAN, receipt' = None,
           transfer' \in [phase : {"idle", "failed", "copying", "complete"},
                          source : SUBSET IntakeRow],
           UNCHANGED <<schema, rows, table, backend, job, request, acknowledged, forgotten>>,
           TransferOK'
    PROVE  IntakeInv'
  <1>1. IntakeTypeOK'
    BY DEF IntakeInv, IntakeTypeOK
  <1>2. FileOK'
    BY DEF IntakeInv, FileOK, slot_of
  <1>3. AcknowledgedOK'
    BY AcknowledgedSame
  <1>4. \A r \in Requests : request'[r].pc = "idle"
    BY AllIdle
  <1>5. QED
    BY <1>1, <1>2, <1>3, <1>4, StillIdle, OperatingStep

\* A transfer that is not under way and not complete promises nothing.
LEMMA NoTransfer ==
    ASSUME NEW phase \in {"idle", "failed"}, transfer' = [phase |-> phase, source |-> {}]
    PROVE  /\ TransferOK'
           /\ transfer' \in [phase : {"idle", "failed", "copying", "complete"},
                             source : SUBSET IntakeRow]
  BY DEF TransferOK

\* A start: the transfer was over.
LEMMA StartStep ==
    ASSUME IntakeInv, start_api
    PROVE  IntakeInv'
  <1>1. /\ ~api /\ api' = TRUE /\ receipt' = None
        /\ transfer' = [phase |-> "idle", source |-> {}]
        /\ UNCHANGED <<schema, rows, table, backend, job, request, acknowledged, forgotten>>
    BY DEF start_api
  <1>2. QED
    BY <1>1, NoTransfer, DownStep

\* A lost ledger takes every acknowledgement with it, and the intake of each old job.
LEMMA LoseStep ==
    ASSUME IntakeInv, lose_ledger
    PROVE  IntakeInv'
  <1>1. /\ ~api /\ receipt' = None /\ UNCHANGED <<backend, api, job, request>>
        /\ acknowledged' = [slot \in Slots |-> None]
        /\ forgotten' = forgotten \cup {slot \in Slots : job[slot] # None /\ ~job[slot].named}
        /\ transfer' = [phase |-> "idle", source |-> {}]
    BY DEF lose_ledger
  <1>2. \/ table' = [slot \in Slots |-> None] /\ UNCHANGED <<schema, rows>>
        \/ rows' = {} /\ schema' = "none" /\ UNCHANGED table
    BY DEF lose_ledger
  <1>3. /\ transfer' \in [phase : {"idle", "failed", "copying", "complete"},
                          source : SUBSET IntakeRow]
        /\ TransferOK'
    BY <1>1, NoTransfer
  <1>4. /\ schema' \in {"none", "key_only", "tenant"} /\ rows' \in SUBSET IntakeRow
        /\ table' \in [Slots -> Packs \cup {None}]
    BY <1>2 DEF IntakeInv, IntakeTypeOK
  <1>5. IntakeTypeOK'
    BY <1>1, <1>3, <1>4 DEF IntakeInv, IntakeTypeOK
  <1>6. FileOK'
    BY <1>2 DEF IntakeInv, FileOK, slot_of
  <1>7. AcknowledgedOK'
    BY <1>1 DEF AcknowledgedOK
  <1>8. LegacyOK'
    BY <1>1 DEF LegacyOK
  <1>9. \A r \in Requests : CallOK(r)'
    BY <1>1, AllIdle, StillIdle
  <1>10. QED
    BY <1>1, <1>3, <1>5, <1>6, <1>7, <1>8, <1>9, NoReceipt DEF IntakeInv

---------------------------------------------------------------------------
(* The transfer *)

\* The read: the file as it is, refused when a row names no tenant.
LEMMA ReadSourceStep ==
    ASSUME IntakeInv, _read_source_rows
    PROVE  IntakeInv'
  <1>1. /\ ~api /\ receipt' = None
        /\ UNCHANGED <<schema, rows, table, backend, api, job, request, acknowledged, forgotten>>
    BY DEF _read_source_rows
  <1>2. api' \in BOOLEAN
    BY <1>1 DEF IntakeInv, IntakeTypeOK
  <1>3. CASE transfer' = [phase |-> "failed", source |-> {}]
    BY <1>1, <1>2, <1>3, NoTransfer, DownStep
  <1>4. CASE ~_refuse_unattributable_rows /\ transfer' = [phase |-> "copying", source |-> rows]
    <2>1. \A row \in rows : row.tenant # None
      BY <1>4 DEF _refuse_unattributable_rows
    <2>2. transfer' \in [phase : {"idle", "failed", "copying", "complete"},
                         source : SUBSET IntakeRow]
      BY <1>4 DEF IntakeInv, IntakeTypeOK
    <2>3. TransferOK'
      BY <1>1, <1>4, <2>1 DEF TransferOK
    <2>4. QED
      BY <1>1, <1>2, <2>2, <2>3, DownStep
  <1>5. QED
    BY <1>3, <1>4 DEF _read_source_rows

\* No file: nothing to carry.
LEMMA MissingSourceStep ==
    ASSUME IntakeInv, allow_missing_source
    PROVE  IntakeInv'
  <1>1. /\ ~api /\ receipt' = None /\ schema = "none"
        /\ transfer' = [phase |-> "complete", source |-> {}]
        /\ UNCHANGED <<schema, rows, table, backend, api, job, request, acknowledged, forgotten>>
    BY DEF allow_missing_source
  <1>2. rows = {} /\ api' \in BOOLEAN
    BY <1>1 DEF IntakeInv, IntakeTypeOK, FileOK
  <1>3. /\ TransferOK'
        /\ transfer' \in [phase : {"idle", "failed", "copying", "complete"},
                          source : SUBSET IntakeRow]
    BY <1>1, <1>2 DEF TransferOK
  <1>4. QED
    BY <1>1, <1>2, <1>3, DownStep

\* The facts of a transfer that is copying.
LEMMA CopyingFacts ==
    ASSUME IntakeInv, transfer.phase = "copying"
    PROVE  /\ ~api /\ transfer.source = rows
           /\ \A row \in rows : row \in IntakeRow /\ slot_of(row) \in Slots /\ row.pack \in Packs
  <1>1. /\ ~api /\ transfer.source = rows /\ rows \in SUBSET IntakeRow
        /\ \A row \in rows : row.tenant # None
    BY DEF IntakeInv, IntakeTypeOK, TransferOK
  <1>2. ASSUME NEW row \in rows
        PROVE  row \in IntakeRow /\ slot_of(row) \in Slots /\ row.pack \in Packs
    BY <1>1 DEF IntakeRow, slot_of, Slots
  <1>3. QED
    BY <1>1, <1>2

\* One row is carried; a row the table already has is kept.
LEMMA TransferRowStep ==
    ASSUME IntakeInv, transfer_row
    PROVE  IntakeInv'
  <1>1. /\ transfer.phase = "copying" /\ receipt' = None
        /\ UNCHANGED <<schema, backend, api, transfer, rows, job, request, acknowledged,
                       forgotten>>
    BY DEF transfer_row, deployment
  <1>2. PICK row \in transfer.source :
            table' = [table EXCEPT ![slot_of(row)] = IF @ = None THEN row.pack ELSE @]
    BY DEF transfer_row
  <1>3. /\ ~api /\ row \in rows /\ slot_of(row) \in Slots /\ row.pack \in Packs
        /\ table \in [Slots -> Packs \cup {None}]
    BY <1>1, CopyingFacts DEF IntakeInv, IntakeTypeOK
  <1>4. /\ table' \in [Slots -> Packs \cup {None}]
        /\ \A slot \in Slots : table[slot] # None => table'[slot] = table[slot]
    BY <1>2, <1>3
  <1>5. IntakeTypeOK'
    BY <1>1, <1>4 DEF IntakeInv, IntakeTypeOK
  <1>6. FileOK'
    BY <1>1 DEF IntakeInv, FileOK, slot_of
  <1>7. TransferOK'
    BY <1>1 DEF IntakeInv, TransferOK
  <1>8. AcknowledgedOK'
    <2>1. ASSUME NEW slot \in Slots, acknowledged[slot] # None
          PROVE  \/ backend = "postgresql" /\ table'[slot] = acknowledged[slot]
                 \/ /\ backend # "postgresql"
                    /\ \E x \in rows : slot_of(x) = slot /\ x.pack = acknowledged[slot]
      <3>1. holds(slot, acknowledged[slot])
        BY <2>1 DEF IntakeInv, AcknowledgedOK
      <3>2. QED
        BY <1>4, <2>1, <3>1 DEF holds
    <2>2. QED
      BY <1>1, <2>1 DEF AcknowledgedOK, holds, slot_of
  <1>9. \A r \in Requests : CallOK(r)'
    BY <1>1, <1>3, AllIdle, StillIdle
  <1>10. QED
    BY <1>1, <1>5, <1>6, <1>7, <1>8, <1>9, OperatingStep

\* The second pass: complete only when the table has the content of every row.
LEMMA VerifyStep ==
    ASSUME IntakeInv, verify_transfer
    PROVE  IntakeInv'
  <1>1. /\ transfer.phase = "copying" /\ receipt' = None
        /\ UNCHANGED <<schema, rows, table, backend, api, job, request, acknowledged, forgotten>>
    BY DEF verify_transfer
  <1>2. ~api /\ transfer.source = rows /\ api' \in BOOLEAN
    BY <1>1, CopyingFacts DEF IntakeInv, IntakeTypeOK
  <1>3. PICK phase \in {"complete", "failed"} :
            /\ transfer' = [transfer EXCEPT !.phase = phase]
            /\ phase = "complete" => \A row \in rows : _verify_row(row)
    BY <1>2 DEF verify_transfer
  <1>4. /\ transfer' \in [phase : {"idle", "failed", "copying", "complete"},
                          source : SUBSET IntakeRow]
        /\ transfer'.phase = phase /\ transfer'.source = rows
    BY <1>2, <1>3 DEF IntakeInv, IntakeTypeOK
  <1>5. \A row \in rows : row.tenant # None
    BY <1>1 DEF IntakeInv, TransferOK
  <1>6. TransferOK'
    BY <1>1, <1>2, <1>3, <1>4, <1>5 DEF TransferOK, _verify_row, slot_of
  <1>7. QED
    BY <1>1, <1>2, <1>4, <1>6, DownStep

\* A killed transfer starts over.
LEMMA KillStep ==
    ASSUME IntakeInv, kill_transfer
    PROVE  IntakeInv'
  <1>1. /\ transfer.phase = "copying" /\ receipt' = None
        /\ transfer' = [phase |-> "idle", source |-> {}]
        /\ UNCHANGED <<schema, rows, table, backend, api, job, request, acknowledged, forgotten>>
    BY DEF kill_transfer
  <1>2. ~api /\ api' \in BOOLEAN
    BY <1>1, CopyingFacts DEF IntakeInv, IntakeTypeOK
  <1>3. QED
    BY <1>1, <1>2, NoTransfer, DownStep

\* The change of backend: a complete transfer carried every row; an empty table acknowledged none.
LEMMA SelectStep ==
    ASSUME IntakeInv, select_backend
    PROVE  IntakeInv'
  <1>1. /\ ~api /\ receipt' = None
        /\ UNCHANGED <<schema, rows, table, api, transfer, job, request, acknowledged, forgotten>>
    BY DEF select_backend
  <1>2. backend' \in {"sqlite", "postgresql"}
    BY DEF select_backend
  <1>3. IntakeTypeOK'
    BY <1>1, <1>2 DEF IntakeInv, IntakeTypeOK
  <1>4. FileOK' /\ TransferOK'
    BY <1>1 DEF IntakeInv, FileOK, TransferOK, slot_of
  <1>5. \A r \in Requests : CallOK(r)'
    BY <1>1, AllIdle, StillIdle
  <1>6. CASE backend = "sqlite" /\ transfer.phase = "complete" /\ backend' = "postgresql"
    <2>1. ASSUME NEW slot \in Slots, acknowledged[slot] # None
          PROVE  table[slot] = acknowledged[slot]
      <3>1. PICK row \in rows : slot_of(row) = slot /\ row.pack = acknowledged[slot]
        BY <1>6, <2>1 DEF IntakeInv, AcknowledgedOK, holds
      <3>2. table[slot_of(row)] = row.pack
        BY <1>6, <3>1 DEF IntakeInv, TransferOK
      <3>3. QED
        BY <3>1, <3>2
    <2>2. AcknowledgedOK'
      BY <1>1, <1>6, <2>1 DEF AcknowledgedOK, holds
    <2>3. QED
      BY <1>1, <1>3, <1>4, <1>5, <2>2, OperatingStep
  <1>7. CASE backend = "postgresql" /\ \A slot \in Slots : table[slot] = None
    <2>1. \A slot \in Slots : acknowledged[slot] = None
      BY <1>7 DEF IntakeInv, AcknowledgedOK, holds
    <2>2. AcknowledgedOK'
      BY <1>1, <2>1 DEF AcknowledgedOK
    <2>3. QED
      BY <1>1, <1>3, <1>4, <1>5, <2>2, OperatingStep
  <1>8. QED
    BY <1>6, <1>7 DEF select_backend

---------------------------------------------------------------------------
(* The theorems *)

\* The file a deployment starts from has one row per key.
LEMMA IntakeInitInv ==
    ASSUME IntakeInit
    PROVE  IntakeInv
  <1>1. PICK old \in [Keys -> [tenant : Tenants \cup {None}, pack : Packs] \cup {None}],
             made \in SUBSET Slots :
        /\ \A slot \in made : old[slot[2]] # None
        /\ rows = {[tenant |-> old[k].tenant, key |-> k, pack |-> old[k].pack] :
                        k \in {x \in Keys : old[x] # None}}
        /\ schema = IF \E k \in Keys : old[k] # None THEN "key_only" ELSE "none"
        /\ job = [slot \in Slots |->
                    IF slot \in made
                    THEN [pack |-> old[slot[2]].pack, named |-> FALSE, status |-> "accepted"]
                    ELSE None]
        /\ acknowledged = [slot \in Slots |->
                    IF old[slot[2]] # None /\ old[slot[2]].tenant = slot[1]
                    THEN old[slot[2]].pack ELSE None]
        /\ forgotten = {slot \in made : old[slot[2]].tenant # slot[1]}
    BY DEF IntakeInit
  <1>2. /\ table = [slot \in Slots |-> None] /\ backend = "sqlite" /\ api = TRUE
        /\ transfer = [phase |-> "idle", source |-> {}]
        /\ request = [r \in Requests |-> Idle] /\ receipt = None
    BY DEF IntakeInit
  <1>3. \A k \in Keys : old[k] # None =>
            /\ old[k].tenant \in Tenants \cup {None} /\ old[k].pack \in Packs
    BY <1>1
  <1>4. \A slot \in Slots : slot[1] \in Tenants /\ slot[2] \in Keys /\ slot = <<slot[1], slot[2]>>
    BY DEF Slots
  <1>5. IntakeTypeOK
    <2>1. rows \in SUBSET IntakeRow
      BY <1>1, <1>3 DEF IntakeRow
    <2>2. job \in [Slots -> JobRow \cup {None}]
      <3>1. ASSUME NEW slot \in Slots
            PROVE  (IF slot \in made
                    THEN [pack |-> old[slot[2]].pack, named |-> FALSE, status |-> "accepted"]
                    ELSE None) \in JobRow \cup {None}
        BY <1>1, <1>3, <1>4 DEF JobRow
      <3>2. QED
        BY <1>1, <3>1
    <2>3. acknowledged \in [Slots -> Packs \cup {None}]
      <3>1. ASSUME NEW slot \in Slots
            PROVE  (IF old[slot[2]] # None /\ old[slot[2]].tenant = slot[1]
                    THEN old[slot[2]].pack ELSE None) \in Packs \cup {None}
        BY <1>3, <1>4
      <3>2. QED
        BY <1>1, <3>1
    <2>4. forgotten \in SUBSET Slots /\ schema \in {"none", "key_only", "tenant"}
      BY <1>1
    <2>5. /\ transfer \in [phase : {"idle", "failed", "copying", "complete"},
                           source : SUBSET IntakeRow]
          /\ request \in [Requests -> IntakeCall] /\ table \in [Slots -> Packs \cup {None}]
          /\ api \in BOOLEAN /\ backend \in {"sqlite", "postgresql"}
      BY <1>2 DEF IntakeCall
    <2>6. QED
      BY <2>1, <2>2, <2>3, <2>4, <2>5 DEF IntakeTypeOK
  <1>6. FileOK
    <2>1. ASSUME NEW a \in rows, NEW b \in rows, slot_of(a) = slot_of(b)
          PROVE  a = b
      <3>1. PICK k \in Keys : a = [tenant |-> old[k].tenant, key |-> k, pack |-> old[k].pack]
        BY <1>1
      <3>2. PICK l \in Keys : b = [tenant |-> old[l].tenant, key |-> l, pack |-> old[l].pack]
        BY <1>1
      <3>3. k = l
        BY <2>1, <3>1, <3>2 DEF slot_of
      <3>4. QED
        BY <3>1, <3>2, <3>3
    <2>2. schema = "none" => rows = {}
      BY <1>1
    <2>3. QED
      BY <2>1, <2>2 DEF FileOK
  <1>7. AcknowledgedOK
    <2>1. ASSUME NEW slot \in Slots, acknowledged[slot] # None
          PROVE  \E row \in rows : slot_of(row) = slot /\ row.pack = acknowledged[slot]
      <3>1. /\ old[slot[2]] # None /\ old[slot[2]].tenant = slot[1]
            /\ acknowledged[slot] = old[slot[2]].pack
        BY <1>1, <2>1
      <3> DEFINE row == [tenant |-> old[slot[2]].tenant, key |-> slot[2],
                         pack |-> old[slot[2]].pack]
      <3>2. row \in rows
        BY <1>1, <1>4, <3>1
      <3>3. slot_of(row) = slot /\ row.pack = acknowledged[slot]
        BY <1>4, <3>1 DEF slot_of
      <3>4. QED
        BY <3>2, <3>3
    <2>2. QED
      BY <1>2, <2>1 DEF AcknowledgedOK, holds
  <1>8. LegacyOK
    <2>1. ASSUME NEW slot \in Slots, job[slot] # None, slot \notin forgotten
          PROVE  acknowledged[slot] = job[slot].pack
      <3>1. slot \in made /\ job[slot].pack = old[slot[2]].pack
        BY <1>1, <2>1
      <3>2. old[slot[2]] # None /\ old[slot[2]].tenant = slot[1]
        BY <1>1, <2>1, <3>1
      <3>3. QED
        BY <1>1, <3>1, <3>2
    <2>2. QED
      BY <2>1 DEF LegacyOK
  <1>9. TransferOK /\ ReceiptNamesItsEvidence /\ \A r \in Requests : CallOK(r)
    BY <1>2 DEF TransferOK, ReceiptNamesItsEvidence, CallOK, Idle, Materializing
  <1>10. QED
    BY <1>5, <1>6, <1>7, <1>8, <1>9 DEF IntakeInv

\* Every step of the intake preserves its invariant.
LEMMA IntakeStep ==
    ASSUME IntakeInv, [IntakeNext]_intake_vars
    PROVE  IntakeInv'
  <1>1. CASE UNCHANGED intake_vars
    <2>1. UNCHANGED <<schema, rows, table, backend, api, transfer, job, request, acknowledged,
                      forgotten, receipt>>
      BY <1>1 DEF intake_vars
    <2>2. IntakeTypeOK' /\ FileOK' /\ TransferOK' /\ LegacyOK' /\ ReceiptNamesItsEvidence'
      BY <2>1 DEF IntakeInv, IntakeTypeOK, FileOK, TransferOK, LegacyOK, slot_of,
                  ReceiptNamesItsEvidence
    <2>3. AcknowledgedOK' /\ \A r \in Requests : CallOK(r)'
      BY <2>1, AcknowledgedSame DEF IntakeInv, CallOK, opened
    <2>4. QED
      BY <2>2, <2>3 DEF IntakeInv
  <1>2. ASSUME NEW r \in Requests,
               \/ accept_idea_evidence_pack(r) \/ materialize_idea_evidence_pack(r)
               \/ _refuse_unverifiable_legacy_replay(r)
               \/ accept(r) \/ _store_record(r)
               \/ create_proof_pack_report_job(r) \/ execute(r)
               \/ _materialization_response(r)
        PROVE  IntakeInv'
    BY <1>2, AdmitStep, LegacyGuardStep, AcceptStep, StoreStep, CreateJobStep, ExecuteStep,
       ResponseStep DEF accept_idea_evidence_pack, materialize_idea_evidence_pack
  <1>3. CASE \/ _ensure_schema \/ recover_idea_evidence_pack_materialization
             \/ stop_api \/ start_api \/ lose_ledger
    BY <1>3, SchemaStep, RecoverStep, StopStep, StartStep, LoseStep
  <1>4. CASE \/ _read_source_rows \/ allow_missing_source \/ transfer_row \/ verify_transfer
             \/ kill_transfer \/ select_backend
    BY <1>4, ReadSourceStep, MissingSourceStep, TransferRowStep, VerifyStep, KillStep, SelectStep
  <1>5. QED
    BY <1>1, <1>2, <1>3, <1>4 DEF IntakeNext

\* The inductive invariant of the intake holds in every reachable state.
THEOREM IntakeInvariant == IntakeSpec => []IntakeInv
  <1>1. IntakeInit => IntakeInv
    BY IntakeInitInv
  <1>2. IntakeInv /\ [IntakeNext]_intake_vars => IntakeInv'
    BY IntakeStep
  <1>3. QED
    BY <1>1, <1>2, PTL DEF IntakeSpec

\* An intake a caller was told is accepted is what the running service reads, through the upgrade
\* of the file, any killed or repeated transfer and the change of backend.
THEOREM IntakeAcknowledgedIntakeSurvives == IntakeSpec => []AcknowledgedIntakeSurvives
  <1>1. IntakeInv => AcknowledgedIntakeSurvives
    BY AcknowledgedRead DEF AcknowledgedIntakeSurvives
  <1>2. QED
    BY <1>1, IntakeInvariant, PTL

\* A materialization receipt names the evidence its job was made from, except for a job older than
\* stored identities whose own intake is gone.
THEOREM IntakeReceiptNamesItsEvidence == IntakeSpec => []ReceiptNamesItsEvidence
  <1>1. IntakeInv => ReceiptNamesItsEvidence
    BY DEF IntakeInv
  <1>2. QED
    BY <1>1, IntakeInvariant, PTL
=============================================================================
