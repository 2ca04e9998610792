------------------------ MODULE ReportContentProofs --------------------------
(***************************************************************************)
(* Proofs about what a report says, for every order, snapshot and ledger:  *)
(* a composite review is captured under the principal that was accepted,   *)
(* from one generation of its sources and with the whole history of a      *)
(* correction; a render package keeps the contract its job was accepted    *)
(* under and publishes only what its snapshot supports; and a portfolio    *)
(* review claims no more than the calls it was composed from.              *)
(***************************************************************************)
EXTENDS PortfolioReview, RenderPackage, CompositeReview, FiniteSetTheorems, SequenceTheorems,
        WellFoundedInduction, TLAPS

---------------------------------------------------------------------------
(* Sequences whose elements need no type *)

IsSeq(s) == s \in Seq(Range(s))

LEMMA SeqIsSeq ==
    ASSUME NEW S, NEW s \in Seq(S)
    PROVE  IsSeq(s)
<1>1. s \in [1..Len(s) -> Range(s)] /\ Len(s) \in Nat
  BY DEF Range
<1> QED
  BY <1>1 DEF IsSeq

LEMMA AppendIsSeq ==
    ASSUME NEW s, IsSeq(s), NEW x
    PROVE  /\ IsSeq(Append(s, x))
           /\ Len(s) \in Nat
           /\ Len(Append(s, x)) = Len(s) + 1
           /\ \A n \in 1..Len(s) : Append(s, x)[n] = s[n]
           /\ Append(s, x)[Len(s) + 1] = x
<1> DEFINE S == Range(s) \cup {x}
<1>1. s \in Seq(S) /\ x \in S
  BY DEF IsSeq
<1> HIDE DEF S
<1>2. Append(s, x) \in Seq(S)
  BY <1>1
<1>3. IsSeq(Append(s, x))
  BY <1>2, SeqIsSeq
<1> QED
  BY <1>1, <1>3

LEMMA ConcatIsSeq ==
    ASSUME NEW s, IsSeq(s), NEW t, IsSeq(t)
    PROVE  /\ IsSeq(s \o t)
           /\ Len(s) \in Nat /\ Len(t) \in Nat
           /\ Len(s \o t) = Len(s) + Len(t)
           /\ \A n \in 1..Len(s) : (s \o t)[n] = s[n]
           /\ \A n \in 1..Len(t) : (s \o t)[Len(s) + n] = t[n]
<1> DEFINE S == Range(s) \cup Range(t)
<1>1. s \in Seq(Range(s)) /\ t \in Seq(Range(t))
  BY DEF IsSeq
<1> HIDE DEF IsSeq
<1>2. s \in Seq(S) /\ t \in Seq(S)
  BY <1>1
<1> HIDE DEF S
<1>3. s \o t \in Seq(S)
  BY <1>2
<1>4. IsSeq(s \o t)
  BY <1>3, SeqIsSeq
<1> QED
  BY <1>2, <1>4

LEMMA ListIsSeq ==
    ASSUME NEW k \in Nat, NEW f, f = [n \in 1..k |-> f[n]]
    PROVE  IsSeq(f) /\ Len(f) = k
<1>1. f \in [1..k -> Range(f)]
  BY DEF Range
<1> QED
  BY <1>1 DEF IsSeq

LEMMA IsSeqDomain ==
    ASSUME NEW s, IsSeq(s)
    PROVE  Len(s) \in Nat /\ DOMAIN s = 1..Len(s)
BY DEF IsSeq

---------------------------------------------------------------------------
(* The reads of a composite capture *)

\* The reads of p are those of s, then x, then those of t.
InTurn(p, s, x, t) ==
    /\ IsSeq(p)
    /\ Len(p) = Len(s) + 1 + Len(t)
    /\ \A n \in 1..Len(s) : p[n] = s[n]
    /\ p[Len(s) + 1] = x
    /\ \A n \in 1..Len(t) : p[Len(s) + 1 + n] = t[n]

LEMMA ReadsInTurn ==
    ASSUME NEW s, IsSeq(s), NEW x, NEW t, IsSeq(t)
    PROVE  InTurn(s \o (<<x>> \o t), s, x, t)
<1>p. PICK p : p = s \o (<<x>> \o t)
  OBVIOUS
<1>1. IsSeq(<<x>>) /\ Len(<<x>>) = 1 /\ <<x>>[1] = x
  <2>1. <<x>> \in Seq({x})
    OBVIOUS
  <2> QED
    BY <2>1, SeqIsSeq
<1>0. PICK u : u = <<x>> \o t
  OBVIOUS
<1>2. /\ IsSeq(u) /\ Len(t) \in Nat /\ Len(u) = 1 + Len(t)
      /\ u[1] = x /\ \A n \in 1..Len(t) : u[1 + n] = t[n]
  <2>1. PICK v : v = <<x>>
    OBVIOUS
  <2>2. IsSeq(v) /\ Len(v) = 1 /\ v[1] = x
    BY <1>1, <2>1
  <2>3. /\ IsSeq(v \o t) /\ Len(t) \in Nat
        /\ Len(v \o t) = Len(v) + Len(t)
        /\ \A n \in 1..Len(v) : (v \o t)[n] = v[n]
        /\ \A n \in 1..Len(t) : (v \o t)[Len(v) + n] = t[n]
    <3>1. IsSeq(v)
      BY <2>2
    <3> QED
      BY <3>1, ConcatIsSeq
  <2> QED
    BY <1>0, <2>1, <2>2, <2>3
<1>3. /\ IsSeq(s \o u) /\ Len(s) \in Nat /\ Len(s \o u) = Len(s) + Len(u)
      /\ \A n \in 1..Len(s) : (s \o u)[n] = s[n]
      /\ \A n \in 1..Len(u) : (s \o u)[Len(s) + n] = u[n]
  <2>1. IsSeq(u)
    BY <1>2
  <2> QED
    BY <2>1, ConcatIsSeq
<1>4. p = s \o u
  BY <1>0, <1>p
<1>5. \A n \in 1..Len(t) : p[Len(s) + 1 + n] = t[n]
  <2> SUFFICES ASSUME NEW n \in 1..Len(t) PROVE p[Len(s) + 1 + n] = t[n]
    OBVIOUS
  <2>1. 1 + n \in 1..Len(u) /\ Len(s) + 1 + n = Len(s) + (1 + n)
    BY <1>2, <1>3
  <2> QED
    BY <2>1, <1>2, <1>3, <1>4
<1>6. 1 \in 1..Len(u)
  BY <1>2
<1>7. p[Len(s) + 1] = x
  BY <1>2, <1>3, <1>4, <1>6
<1>8. Len(p) = Len(s) + 1 + Len(t)
  BY <1>2, <1>3, <1>4
<1> QED
  BY <1>p, <1>2, <1>3, <1>4, <1>5, <1>7, <1>8 DEF InTurn

\* A selection reads its TWR pins first, each under its own pin, and then the definition
\* and the memberships of its context.
LEMMA SelectionPlan ==
    ASSUME NEW o \in Orders, o.op = "selection"
    PROVE  /\ Len(o.twr) \in Nat \ {0}
           /\ DOMAIN o.twr = 1..Len(o.twr)
           /\ IsSeq(plan(o))
           /\ \A n \in 1..Len(o.twr) :
                 plan(o)[n] = Read("twr", o.twr[n].source, o.twr[n].version)
           /\ o.context = None => Len(plan(o)) = Len(o.twr)
           /\ o.context # None =>
                 /\ Len(o.context.memberships) \in Nat
                 /\ DOMAIN o.context.memberships = 1..Len(o.context.memberships)
                 /\ Len(plan(o)) = Len(o.twr) + 1 + Len(o.context.memberships)
                 /\ plan(o)[Len(o.twr) + 1] = ManageRead(o.context.definition)
                 /\ \A n \in 1..Len(o.context.memberships) :
                       plan(o)[Len(o.twr) + 1 + n] = ManageRead(o.context.memberships[n])
<1>1. PICK twr : twr = o.twr
  OBVIOUS
<1> DEFINE reads == [n \in DOMAIN twr |-> Read("twr", twr[n].source, twr[n].version)]
<1>2. twr \in Seq(Range(twr)) /\ twr # << >>
  BY <1>1, CompositeOrdersAssumption
<1>3. Len(twr) \in Nat \ {0} /\ DOMAIN twr = 1..Len(twr)
  BY <1>2
<1>4. IsSeq(reads) /\ Len(reads) = Len(twr)
  <2>1. reads = [n \in 1..Len(twr) |-> reads[n]]
    BY <1>3
  <2> HIDE DEF reads
  <2> QED
    BY <1>3, <2>1, ListIsSeq
<1>5. \A n \in 1..Len(twr) : reads[n] = Read("twr", twr[n].source, twr[n].version)
  BY <1>3
<1>6. CASE o.context = None
  <2>1. plan(o) = reads \o << >>
    BY <1>1, <1>6 DEF plan
  <2> HIDE DEF reads
  <2>2. plan(o) = reads
    BY <2>1, <1>4 DEF IsSeq
  <2> QED
    BY <1>1, <1>3, <1>4, <1>5, <1>6, <2>2
<1>7. CASE o.context # None
  <2>1. PICK pins : pins = o.context.memberships
    OBVIOUS
  <2> DEFINE rest == [n \in DOMAIN pins |-> ManageRead(pins[n])]
             head == ManageRead(o.context.definition)
  <2>2. pins \in Seq(Range(pins))
    BY <1>7, <2>1, CompositeOrdersAssumption
  <2>3. Len(pins) \in Nat /\ DOMAIN pins = 1..Len(pins)
    BY <2>2
  <2>4. plan(o) = reads \o (<<head>> \o rest)
    BY <1>1, <1>7, <2>1 DEF plan
  <2>5. \A n \in 1..Len(pins) : rest[n] = ManageRead(pins[n])
    BY <2>3
  <2>6. rest = [n \in 1..Len(pins) |-> rest[n]]
    BY <2>3
  <2> HIDE DEF reads, rest, head
  <2>7. IsSeq(rest) /\ Len(rest) = Len(pins)
    BY <2>3, <2>6, ListIsSeq
  <2>8. /\ IsSeq(plan(o))
        /\ Len(plan(o)) = Len(twr) + 1 + Len(pins)
        /\ \A n \in 1..Len(twr) : plan(o)[n] = reads[n]
        /\ plan(o)[Len(twr) + 1] = head
        /\ \A n \in 1..Len(pins) : plan(o)[Len(twr) + 1 + n] = rest[n]
    <3>1. PICK p : p = plan(o)
      OBVIOUS
    <3>2. PICK s, x, t : s = reads /\ x = head /\ t = rest
      OBVIOUS
    <3>3. p = s \o (<<x>> \o t) /\ IsSeq(s) /\ IsSeq(t)
      BY <1>4, <2>4, <2>7, <3>1, <3>2
    <3>4. InTurn(p, s, x, t)
      BY <3>3, ReadsInTurn
    <3> QED
      BY <1>4, <2>7, <3>1, <3>2, <3>4 DEF InTurn
  <2> QED
    BY <1>1, <1>3, <1>5, <1>7, <2>1, <2>3, <2>5, <2>8 DEF head
<1> QED
  BY <1>6, <1>7

\* Every other order makes at least one read and none of them is a TWR request.
LEMMA OtherPlan ==
    ASSUME NEW o \in Orders, o.op # "selection"
    PROVE  /\ IsSeq(plan(o)) /\ Len(plan(o)) \in Nat \ {0}
           /\ \A n \in 1..Len(plan(o)) : plan(o)[n].kind # "twr"
<1>1. CASE o.op = "linked"
  <2> DEFINE x == Read("analytics", o.pin.source, o.pin.version)
  <2>1. plan(o) = <<x>> /\ x.kind # "twr"
    BY <1>1 DEF plan, Read
  <2> HIDE DEF x
  <2>2. <<x>> \in Seq({x}) /\ Len(<<x>>) = 1 /\ <<x>>[1] = x
    OBVIOUS
  <2>3. IsSeq(<<x>>)
    BY <2>2, SeqIsSeq
  <2>4. \A n \in 1..1 : n = 1
    OBVIOUS
  <2> QED
    BY <2>1, <2>2, <2>3, <2>4
<1>2. CASE o.op = "pooled"
  <2> DEFINE x == Read("pooled", o.pin.source, o.pin.version)
             y == Read("pooled", o.predecessor.source, o.predecessor.version)
  <2>1. plan(o) = <<x>> \o (IF o.predecessor = None THEN << >> ELSE <<y>>)
    BY <1>2 DEF plan
  <2>2. x.kind # "twr" /\ y.kind # "twr"
    BY DEF Read
  <2> HIDE DEF x, y
  <2>3. plan(o) \in Seq({x, y}) /\ Len(plan(o)) \in 1..2
    <3>1. <<x>> \in Seq({x, y}) /\ << >> \in Seq({x, y}) /\ <<y>> \in Seq({x, y})
      OBVIOUS
    <3>2. Len(<<x>>) = 1 /\ Len(<< >>) = 0 /\ Len(<<y>>) = 1
      OBVIOUS
    <3>3. PICK t : t = IF o.predecessor = None THEN << >> ELSE <<y>>
      OBVIOUS
    <3>4. t \in Seq({x, y}) /\ Len(t) \in 0..1
      <4>1. CASE o.predecessor = None
        BY <3>1, <3>2, <3>3, <4>1
      <4>2. CASE o.predecessor # None
        BY <3>1, <3>2, <3>3, <4>2
      <4> QED
        BY <4>1, <4>2
    <3>5. plan(o) = <<x>> \o t
      BY <2>1, <3>3
    <3> QED
      BY <3>1, <3>2, <3>4, <3>5
  <2>4. \A n \in 1..Len(plan(o)) : plan(o)[n] \in {x, y}
    BY <2>3
  <2> QED
    BY <2>2, <2>3, <2>4, SeqIsSeq
<1>3. CASE o.op \in {"eligibility", "amendment", "historical"}
  <2>1. PICK m : m = o.month
    OBVIOUS
  <2>0. PICK N : N = {m.seq, m.parent} \cup {m.lineage[n].seq : n \in DOMAIN m.lineage}
    OBVIOUS
  <2> DEFINE Roles == {"membership", "universe", "receipt", "parent_membership", "publication",
                       "proposal", "parent_publication", "lineage"}
             B == [kind : {"book"}, role : Roles, seq : N]
             month == IF m.published
                      THEN << BookRead("membership", m.seq), BookRead("universe", m.seq),
                              BookRead("receipt", m.seq), BookRead("parent_membership", m.parent),
                              BookRead("publication", m.seq) >>
                      ELSE << BookRead("proposal", m.seq) >>
             parent == IF m.lineage # << >> /\ m.published
                       THEN << BookRead("parent_publication", m.parent) >> ELSE << >>
             line == [n \in DOMAIN m.lineage |-> BookRead("lineage", m.lineage[n].seq)]
  <2>2. plan(o) = month \o parent \o line
    BY <1>3, <2>1 DEF plan, month_reads
  <2>3. \A r \in B : r.kind # "twr"
    OBVIOUS
  <2>4. m.lineage \in Seq(Range(m.lineage))
    BY <1>3, <2>1, CompositeOrdersAssumption
  <2>5. line \in Seq(B)
    <3>1. Len(m.lineage) \in Nat /\ DOMAIN m.lineage = 1..Len(m.lineage)
      BY <2>4
    <3>2. \A n \in DOMAIN m.lineage : m.lineage[n].seq \in N
      BY <2>0
    <3>3. line \in [1..Len(m.lineage) -> B]
      BY <3>1, <3>2 DEF BookRead
    <3> QED
      BY <3>1, <3>3
  <2>6. parent \in Seq(B)
    <3>1. BookRead("parent_publication", m.parent) \in B
      BY <2>0 DEF BookRead
    <3> HIDE DEF B
    <3> QED
      BY <3>1
  <2>7. month \in Seq(B) /\ Len(month) \in Nat \ {0}
    <3>1. /\ BookRead("membership", m.seq) \in B /\ BookRead("universe", m.seq) \in B
          /\ BookRead("receipt", m.seq) \in B /\ BookRead("parent_membership", m.parent) \in B
          /\ BookRead("publication", m.seq) \in B /\ BookRead("proposal", m.seq) \in B
      BY <2>0 DEF BookRead
    <3> HIDE DEF B
    <3> QED
      BY <3>1
  <2> HIDE DEF B, month, parent, line
  <2>8. /\ plan(o) \in Seq(B)
        /\ Len(plan(o)) = Len(month) + Len(parent) + Len(line)
    BY <2>2, <2>5, <2>6, <2>7
  <2> QED
    BY <2>3, <2>5, <2>6, <2>7, <2>8, SeqIsSeq
<1> QED
  BY <1>1, <1>2, <1>3, CompositeOrdersAssumption

---------------------------------------------------------------------------
(* The inductive invariant of the composite capture *)

GrantOK == grant \in [Initiators -> 0..MaxGrant]

\* The row of the job, and the binding its order needs.
CompositeJobOK ==
    job # None => job \in CompositeJob /\ require_admission(job.order, job.binding)

\* Whoever was told 202 for the key is the principal of the job, with its order.
AcceptedOK ==
    \A a \in accepted :
        job # None /\ a.order = job.order /\ a.admission = job.binding

\* Whatever was sent, was sent for a selector of the job, under the identity it is bound to.
SendsOK ==
    \A s \in sends :
        /\ job # None
        /\ s.identity = job.binding.identity
        /\ s.selector \in selector_set_for(job.order)

\* The TWR parts read so far are the pinned ones, whatever was restated since.
PinnedSoFar(o, pos, got) ==
    o.op = "selection" =>
        \A n \in 1..Len(o.twr) : n < pos =>
            /\ got[n].version = o.twr[n].version
            /\ got[n].content.windows = o.twr[n].windows

\* A capture in progress has one response for every read it has made.
CaptureOK ==
    run # None =>
        /\ job # None /\ snapshot = None
        /\ run.pos \in 1..Len(plan(job.order))
        /\ IsSeq(run.got) /\ Len(run.got) = run.pos - 1
        /\ PinnedSoFar(job.order, run.pos, run.got)

SnapshotOK == snapshot # None => job # None

CompositeInv ==
    /\ GrantOK /\ CompositeJobOK /\ AcceptedOK /\ SendsOK
    /\ CaptureOK /\ SnapshotOK /\ DatasetIsOneGeneration

LEMMA PlanLength ==
    ASSUME NEW o \in Orders
    PROVE  IsSeq(plan(o)) /\ Len(plan(o)) \in Nat \ {0}
<1>1. CASE o.op = "selection"
  <2>1. PICK t, k, L : t = Len(o.twr) /\ k = Len(o.context.memberships) /\ L = Len(plan(o))
    OBVIOUS
  <2>2. IsSeq(plan(o)) /\ t \in Nat \ {0}
    BY <1>1, <2>1, SelectionPlan
  <2>3. L = t \/ (k \in Nat /\ L = t + 1 + k)
    BY <1>1, <2>1, SelectionPlan
  <2>4. L \in Nat \ {0}
    <3>1. t \in Nat \ {0}
      BY <2>2
    <3> QED
      BY <2>3, <3>1
  <2> QED
    BY <2>1, <2>2, <2>4
<1>2. CASE o.op # "selection"
  BY <1>2, OtherPlan
<1> QED
  BY <1>1, <1>2

\* A TWR request is only ever made for the pin of a selection at that place.
LEMMA TwrReadsArePins ==
    ASSUME NEW o \in Orders, NEW n \in 1..Len(plan(o))
    PROVE  plan(o)[n].kind = "twr" <=> o.op = "selection" /\ n \in 1..Len(o.twr)
<1>1. CASE o.op # "selection"
  BY <1>1, OtherPlan
<1>2. CASE o.op = "selection" /\ n \in 1..Len(o.twr)
  <2>1. plan(o)[n] = Read("twr", o.twr[n].source, o.twr[n].version)
    BY <1>2, SelectionPlan
  <2>2. plan(o)[n].kind = "twr"
    BY <2>1 DEF Read
  <2> QED
    BY <1>2, <2>2
<1>3. CASE o.op = "selection" /\ n \notin 1..Len(o.twr)
  <2>1. PICK t, k, L : t = Len(o.twr) /\ k = Len(o.context.memberships) /\ L = Len(plan(o))
    OBVIOUS
  <2>2. t \in Nat \ {0} /\ n \notin 1..t /\ n \in 1..L /\ L \in Nat
    BY <1>3, <2>1, SelectionPlan, PlanLength
  <2>3. o.context # None
    <3>1. o.context = None => L = t
      BY <1>3, <2>1, SelectionPlan
    <3> QED
      BY <2>2, <3>1
  <2>4. k \in Nat /\ L = t + 1 + k
    BY <1>3, <2>1, <2>3, SelectionPlan
  <2>5. n = t + 1 \/ \E i \in 1..k : n = t + 1 + i
    <3>1. n - (t + 1) \in 0..k /\ n = t + 1 + (n - (t + 1))
      BY <2>2, <2>4
    <3>2. CASE n - (t + 1) = 0
      BY <2>2, <3>2
    <3>3. CASE n - (t + 1) # 0
      <4>1. n - (t + 1) \in 1..k
        BY <2>2, <2>4, <3>1, <3>3
      <4> QED
        BY <3>1, <4>1
    <3> QED
      BY <3>2, <3>3
  <2>6. /\ plan(o)[t + 1] = ManageRead(o.context.definition)
        /\ \A i \in 1..k : plan(o)[t + 1 + i] = ManageRead(o.context.memberships[i])
    BY <1>3, <2>1, <2>3, SelectionPlan
  <2>7. plan(o)[n].kind = "manage"
    <3>1. \A pin : ManageRead(pin).kind = "manage"
      BY DEF ManageRead, Read
    <3>2. CASE n = t + 1
      BY <2>6, <3>1, <3>2
    <3>3. CASE \E i \in 1..k : n = t + 1 + i
      <4>1. PICK i \in 1..k : n = t + 1 + i
        BY <3>3
      <4>2. plan(o)[n] = ManageRead(o.context.memberships[i])
        BY <2>6, <4>1
      <4> QED
        BY <3>1, <4>2
    <3> QED
      BY <2>5, <3>2, <3>3
  <2> QED
    BY <1>3, <2>7
<1> QED
  BY <1>1, <1>2, <1>3

---------------------------------------------------------------------------
(* The dataset of a finished capture *)

\* Every reading of a selection that is assembled is one generation.
OneGeneration(o, got) ==
    LET twr == SubSeq(got, 1, Len(o.twr))
        context == SubSeq(got, Len(o.twr) + 1, Len(got))
        windows == UNION {Range(twr[n].content.windows) : n \in DOMAIN twr}
    IN /\ \A n \in DOMAIN plan(o) : got[n].version = plan(o)[n].version
       /\ context # << >> => \A w \in windows : w.definition = context[1].version
       /\ (o.context # None /\ o.context.memberships # << >>) =>
             {w.membership : w \in windows} \subseteq
                 {o.context.memberships[n].source : n \in DOMAIN o.context.memberships}

LEMMA SliceFacts ==
    ASSUME NEW s, IsSeq(s), NEW i \in Nat \ {0}, NEW j \in Nat, j <= Len(s)
    PROVE  /\ IsSeq(SubSeq(s, i, j))
           /\ Len(SubSeq(s, i, j)) = IF i <= j THEN j - i + 1 ELSE 0
           /\ DOMAIN SubSeq(s, i, j) = 1..(IF i <= j THEN j - i + 1 ELSE 0)
           /\ \A n \in 1..(IF i <= j THEN j - i + 1 ELSE 0) :
                 SubSeq(s, i, j)[n] = s[i + n - 1]
<1>1. PICK S : S = Range(s)
  OBVIOUS
<1>2. s \in Seq(S)
  BY <1>1 DEF IsSeq
<1>3. /\ SubSeq(s, i, j) \in Seq(S)
      /\ Len(SubSeq(s, i, j)) = IF i <= j THEN j - i + 1 ELSE 0
      /\ DOMAIN SubSeq(s, i, j) = 1..(IF i <= j THEN j - i + 1 ELSE 0)
      /\ \A n \in 1..(IF i <= j THEN j - i + 1 ELSE 0) :
            SubSeq(s, i, j)[n] = s[i + n - 1]
  BY <1>2
<1>4. IsSeq(SubSeq(s, i, j))
  BY <1>3, SeqIsSeq
<1> QED
  BY <1>3, <1>4

\* The windows of the vectors read are the windows of the pins.
PinnedWindows(o) == UNION {Range(o.twr[p].windows) : p \in DOMAIN o.twr}

LEMMA AssembledIsOneGeneration ==
    ASSUME NEW o \in Orders, o.op = "selection",
           NEW got, IsSeq(got), Len(got) = Len(plan(o)),
           PinnedSoFar(o, Len(plan(o)) + 1, got),
           o.context # None => project_source_context(o, got)
    PROVE  OneGeneration(o, got)
<1>1. PICK t, L : t = Len(o.twr) /\ L = Len(plan(o))
  OBVIOUS
<1>2. t \in Nat \ {0} /\ DOMAIN o.twr = 1..t
  BY <1>1, SelectionPlan
<1>3. L \in Nat /\ Len(got) = L /\ DOMAIN plan(o) = 1..L
  BY <1>1, PlanLength, IsSeqDomain
<1>4. t <= L
  <2>1. o.context = None => L = t
    BY <1>1, SelectionPlan
  <2>2. o.context # None => Len(o.context.memberships) \in Nat /\ L = t + 1 + Len(o.context.memberships)
    BY <1>1, SelectionPlan
  <2>3. PICK k : k = Len(o.context.memberships)
    OBVIOUS
  <2>4. L = t \/ (k \in Nat /\ L = t + 1 + k)
    BY <2>1, <2>2, <2>3
  <2> QED
    BY <1>2, <2>4
<1>5. \A n \in 1..t : got[n].version = o.twr[n].version /\ got[n].content.windows = o.twr[n].windows
  <2> SUFFICES ASSUME NEW n \in 1..t
               PROVE  got[n].version = o.twr[n].version /\ got[n].content.windows = o.twr[n].windows
    OBVIOUS
  <2>1. n < L + 1
    BY <1>2, <1>3, <1>4
  <2> QED
    BY <1>1, <2>1 DEF PinnedSoFar
<1>6. PICK twr, context : twr = SubSeq(got, 1, t) /\ context = SubSeq(got, t + 1, L)
  OBVIOUS
<1>7. DOMAIN twr = 1..t /\ \A n \in 1..t : twr[n] = got[n]
  <2>1. /\ DOMAIN twr = 1..(IF 1 <= t THEN t - 1 + 1 ELSE 0)
        /\ \A n \in 1..(IF 1 <= t THEN t - 1 + 1 ELSE 0) : twr[n] = got[1 + n - 1]
    BY <1>2, <1>3, <1>4, <1>6, SliceFacts
  <2>2. (IF 1 <= t THEN t - 1 + 1 ELSE 0) = t
    BY <1>2
  <2>3. \A n \in 1..t : 1 + n - 1 = n
    BY <1>2
  <2> QED
    BY <2>1, <2>2, <2>3
<1>8. UNION {Range(twr[n].content.windows) : n \in DOMAIN twr} = PinnedWindows(o)
  <2>1. \A n \in 1..t : Range(twr[n].content.windows) = Range(o.twr[n].windows)
    BY <1>5, <1>7
  <2> QED
    BY <1>2, <1>7, <2>1 DEF PinnedWindows
<1>9. \A n \in 1..t : got[n].version = plan(o)[n].version
  <2> SUFFICES ASSUME NEW n \in 1..t
               PROVE  got[n].version = plan(o)[n].version
    OBVIOUS
  <2>1. plan(o)[n] = Read("twr", o.twr[n].source, o.twr[n].version)
    BY <1>1, SelectionPlan
  <2> QED
    BY <1>5, <2>1 DEF Read
<1>10. CASE o.context = None
  <2>1. L = t
    BY <1>1, <1>10, SelectionPlan
  <2>2. context = << >>
    <3>0. t + 1 \in Nat \ {0} /\ L <= Len(got)
      BY <1>2, <1>3
    <3>1. IsSeq(context) /\ Len(context) = IF t + 1 <= L THEN L - (t + 1) + 1 ELSE 0
      BY <1>3, <1>6, <3>0, SliceFacts
    <3>2. Len(context) = 0
      BY <1>2, <2>1, <3>1
    <3> QED
      BY <3>1, <3>2 DEF IsSeq
  <2> QED
    BY <1>1, <1>3, <1>6, <1>9, <1>10, <2>1, <2>2 DEF OneGeneration
<1>11. CASE o.context # None
  <2>1. PICK pins, k : pins = o.context.memberships /\ k = Len(pins)
    OBVIOUS
  <2>2. k \in Nat /\ DOMAIN pins = 1..k /\ L = t + 1 + k
    BY <1>1, <1>11, <2>1, SelectionPlan
  <2>3. require_definition(o, got[t + 1])
    BY <1>1, <1>11 DEF project_source_context
  <2>4. PICK ms : ms = SubSeq(got, t + 1 + 1, L)
    OBVIOUS
  <2>5. require_membership_join(o, ms)
    BY <1>1, <1>3, <1>11, <2>4 DEF project_source_context
  <2>6. \A i \in 1..k : ms[i] = got[t + 1 + i]
    <3>1. t + 1 + 1 \in Nat \ {0} /\ L <= Len(got)
      BY <1>2, <1>3
    <3>2. \A n \in 1..(IF t + 1 + 1 <= L THEN L - (t + 1 + 1) + 1 ELSE 0) :
             ms[n] = got[t + 1 + 1 + n - 1]
      BY <1>3, <2>4, <3>1, SliceFacts
    <3>3. \A i \in 1..k : /\ i \in 1..(IF t + 1 + 1 <= L THEN L - (t + 1 + 1) + 1 ELSE 0)
                          /\ t + 1 + 1 + i - 1 = t + 1 + i
      BY <1>2, <2>2
    <3> QED
      BY <3>2, <3>3
  <2>7. \A n \in DOMAIN plan(o) : got[n].version = plan(o)[n].version
    <3> SUFFICES ASSUME NEW n \in 1..L
                 PROVE  got[n].version = plan(o)[n].version
      BY <1>3
    <3>1. CASE n \in 1..t
      BY <1>9, <3>1
    <3>2. CASE n = t + 1
      <4>1. plan(o)[t + 1] = ManageRead(o.context.definition)
        BY <1>1, <1>11, SelectionPlan
      <4> QED
        BY <2>3, <3>2, <4>1 DEF ManageRead, Read, require_definition
    <3>3. CASE n \notin 1..t + 1
      <4>1. PICK i : i = n - (t + 1)
        OBVIOUS
      <4>2. i \in 1..k /\ n = t + 1 + i
        BY <1>2, <1>3, <2>2, <3>3, <4>1
      <4>3. plan(o)[t + 1 + i] = ManageRead(pins[i])
        BY <1>1, <1>11, <2>1, <4>2, SelectionPlan
      <4>4. pins # << >>
        BY <2>1, <2>2, <4>2
      <4>5. ms[i].version = pins[i].version
        BY <2>1, <2>2, <2>5, <4>2, <4>4 DEF require_membership_join
      <4> QED
        BY <2>6, <4>2, <4>3, <4>5 DEF ManageRead, Read
    <3> QED
      BY <1>2, <1>3, <3>1, <3>2, <3>3
  <2>8. \A w \in PinnedWindows(o) : w.definition = got[t + 1].version
    BY <2>3 DEF require_definition, PinnedWindows
  <2>9. context[1] = got[t + 1]
    <3>1. t + 1 \in Nat \ {0} /\ L <= Len(got)
      BY <1>2, <1>3
    <3>2. \A n \in 1..(IF t + 1 <= L THEN L - (t + 1) + 1 ELSE 0) : context[n] = got[t + 1 + n - 1]
      BY <1>3, <1>6, <3>1, SliceFacts
    <3>3. 1 \in 1..(IF t + 1 <= L THEN L - (t + 1) + 1 ELSE 0) /\ t + 1 + 1 - 1 = t + 1
      BY <1>2, <2>2
    <3> QED
      BY <3>2, <3>3
  <2>10. pins # << >> => {w.membership : w \in PinnedWindows(o)} \subseteq {pins[n].source : n \in DOMAIN pins}
    BY <2>1, <2>5 DEF require_membership_join, PinnedWindows
  <2>11. PICK windows : windows = PinnedWindows(o)
    OBVIOUS
  <2>12. /\ SubSeq(got, 1, Len(o.twr)) = twr
         /\ SubSeq(got, Len(o.twr) + 1, Len(got)) = context
         /\ UNION {Range(twr[n].content.windows) : n \in DOMAIN twr} = windows
    BY <1>1, <1>3, <1>6, <1>8, <2>11
  <2>13. \A w \in windows : w.definition = context[1].version
    BY <2>8, <2>9, <2>11
  <2>14. o.context.memberships # << >> =>
            {w.membership : w \in windows} \subseteq
                {o.context.memberships[n].source : n \in DOMAIN o.context.memberships}
    BY <2>1, <2>10, <2>11
  <2> QED
    BY <2>7, <2>12, <2>13, <2>14 DEF OneGeneration
<1> QED
  BY <1>10, <1>11

---------------------------------------------------------------------------
(* What a step of a capture leaves behind *)

DatasetOK ==
    (snapshot # None /\ snapshot.kind = "dataset" /\ job.order.op = "selection") =>
        OneGeneration(job.order, snapshot.got)

LEMMA DatasetOKIsProperty == DatasetOK <=> DatasetIsOneGeneration
BY DEF DatasetOK, DatasetIsOneGeneration, OneGeneration

\* The job keeps its order and its principal.
JobKept ==
    /\ job' # None /\ job' \in CompositeJob
    /\ job'.order = job.order /\ job'.binding = job.binding

Settled == JobKept /\ CaptureOK' /\ DatasetOK'

LEMMA StatusKeepsJob ==
    ASSUME job \in CompositeJob,
           NEW st \in {"accepted", "collecting_data", "data_ready", "failed"},
           job' = [job EXCEPT !.status = st]
    PROVE  JobKept
<1>1. job' \in CompositeJob /\ job'.order = job.order /\ job'.binding = job.binding
  BY DEF CompositeJob
<1> QED
  BY <1>1, CompositeAssumption DEF JobKept

LEMMA FailedIsSettled ==
    ASSUME CompositeInv, job # None, NEW c, NEW recorded, store_failed(c, recorded)
    PROVE  Settled
<1>1. JobKept
  <2>1. job \in CompositeJob
    BY DEF CompositeInv, CompositeJobOK
  <2>2. job' = [job EXCEPT !.status = "failed"]
    BY DEF store_failed
  <2> QED
    BY <2>1, <2>2, StatusKeepsJob
<1>2. run' = None /\ snapshot'.kind = "failed"
  BY DEF store_failed
<1> QED
  BY <1>1, <1>2 DEF Settled, CaptureOK, DatasetOK

LEMMA YieldIsSettled ==
    ASSUME CompositeInv, run # None, yield_to_retry
    PROVE  Settled
<1>1. job # None /\ snapshot = None
  BY DEF CompositeInv, CaptureOK
<1>2. JobKept
  <2>1. job \in CompositeJob
    BY <1>1 DEF CompositeInv, CompositeJobOK
  <2>2. PICK st : st = IF job.attempts >= MaxAttempts THEN "failed" ELSE job.status
    OBVIOUS
  <2>3. job' = [job EXCEPT !.status = st]
    BY <2>2 DEF yield_to_retry
  <2>4. st \in {"accepted", "collecting_data", "data_ready", "failed"}
    BY <2>1, <2>2 DEF CompositeJob
  <2> QED
    BY <2>1, <2>3, <2>4, StatusKeepsJob
<1>3. run' = None /\ snapshot' = None
  BY <1>1 DEF yield_to_retry
<1> QED
  BY <1>2, <1>3 DEF Settled, CaptureOK, DatasetOK

\* The response just read is the pinned one, if the read was a TWR request.
PinnedNow(resp) ==
    (job.order.op = "selection" /\ run.pos \in 1..Len(job.order.twr)) =>
        /\ resp.version = job.order.twr[run.pos].version
        /\ resp.content.windows = job.order.twr[run.pos].windows

LEMMA PinnedStep ==
    ASSUME NEW o \in Orders, NEW pos \in Nat \ {0}, NEW got, IsSeq(got), Len(got) = pos - 1,
           NEW resp, PinnedSoFar(o, pos, got),
           (o.op = "selection" /\ pos \in 1..Len(o.twr)) =>
                resp.version = o.twr[pos].version /\ resp.content.windows = o.twr[pos].windows
    PROVE  /\ IsSeq(Append(got, resp)) /\ Len(Append(got, resp)) = pos
           /\ PinnedSoFar(o, pos + 1, Append(got, resp))
<1>1. PICK g : g = Append(got, resp)
  OBVIOUS
<1>2. /\ IsSeq(g) /\ Len(g) = Len(got) + 1
      /\ \A n \in 1..Len(got) : g[n] = got[n]
      /\ g[Len(got) + 1] = resp
  BY <1>1, AppendIsSeq
<1>3. Len(g) = pos /\ g[pos] = resp /\ \A n \in 1..pos - 1 : g[n] = got[n]
  BY <1>2
<1>4. ASSUME o.op = "selection", NEW n \in 1..Len(o.twr), n < pos + 1
      PROVE  g[n].version = o.twr[n].version /\ g[n].content.windows = o.twr[n].windows
  <2>0. n \in Nat \ {0}
    BY <1>4, SelectionPlan
  <2>1. CASE n = pos
    BY <1>3, <1>4, <2>1
  <2>2. CASE n # pos
    <3>1. n < pos /\ n \in 1..pos - 1
      BY <1>4, <2>0, <2>2
    <3> QED
      BY <1>3, <1>4, <3>1 DEF PinnedSoFar
  <2> QED
    BY <2>1, <2>2
<1> QED
  BY <1>1, <1>2, <1>3, <1>4 DEF PinnedSoFar

LEMMA AdvanceIsSettled ==
    ASSUME CompositeInv, run # None, NEW recorded, NEW resp, PinnedNow(resp),
           advance(recorded, Append(run.got, resp))
    PROVE  Settled
<1>1. /\ job # None /\ snapshot = None
      /\ run.pos \in 1..Len(plan(job.order))
      /\ IsSeq(run.got) /\ Len(run.got) = run.pos - 1
      /\ PinnedSoFar(job.order, run.pos, run.got)
  BY DEF CompositeInv, CaptureOK
<1>2. job \in CompositeJob /\ job.order \in Orders
  BY <1>1 DEF CompositeInv, CompositeJobOK, CompositeJob
<1>3. PICK o, pos, L, got : o = job.order /\ pos = run.pos /\ L = Len(plan(o)) /\ got = run.got
  OBVIOUS
<1>4. o \in Orders /\ L \in Nat \ {0} /\ pos \in 1..L /\ pos \in Nat \ {0}
  BY <1>1, <1>2, <1>3, PlanLength
<1>5. PICK g : g = Append(got, resp)
  OBVIOUS
<1>6. IsSeq(g) /\ Len(g) = pos /\ PinnedSoFar(o, pos + 1, g)
  <2>1. IsSeq(got) /\ Len(got) = pos - 1 /\ PinnedSoFar(o, pos, got)
    BY <1>1, <1>3
  <2>2. (o.op = "selection" /\ pos \in 1..Len(o.twr)) =>
            resp.version = o.twr[pos].version /\ resp.content.windows = o.twr[pos].windows
    BY <1>3 DEF PinnedNow
  <2>3. pos \in Nat \ {0} /\ o \in Orders
    BY <1>4
  <2> QED
    BY <1>5, <2>1, <2>2, <2>3, PinnedStep
<1>7. CASE pos < L
  <2>1. run' = [pos |-> pos + 1, calls |-> recorded, got |-> g] /\ job' = job /\ snapshot' = snapshot
    BY <1>3, <1>5, <1>7 DEF advance
  <2>2. pos + 1 \in 1..L /\ pos = (pos + 1) - 1
    BY <1>4, <1>7
  <2>3. CaptureOK'
    <3>1. run'.pos = pos + 1 /\ run'.got = g /\ job'.order = o
      BY <1>3, <2>1
    <3>2. job' # None /\ snapshot' = None
      BY <1>1, <2>1
    <3>3. run'.pos \in 1..Len(plan(job'.order)) /\ IsSeq(run'.got) /\ Len(run'.got) = run'.pos - 1
      BY <1>3, <1>6, <2>2, <3>1
    <3>4. PinnedSoFar(job'.order, run'.pos, run'.got)
      BY <1>6, <3>1
    <3> QED
      BY <3>2, <3>3, <3>4 DEF CaptureOK
  <2>4. DatasetOK'
    BY <1>1, <2>1 DEF DatasetOK
  <2>5. JobKept
    BY <1>1, <1>2, <2>1 DEF JobKept
  <2> QED
    BY <2>3, <2>4, <2>5 DEF Settled
<1>8. CASE ~(pos < L)
  <2>1. pos = L
    BY <1>4, <1>8
  <2>2. CASE assembled(job.order, Append(run.got, resp))
    <3>1. /\ snapshot' = [kind |-> "dataset", category |-> "none", calls |-> recorded,
                          got |-> g, posture |-> overall_posture(recorded)]
          /\ job' = [job EXCEPT !.status = "data_ready"]
          /\ run' = None
      BY <1>3, <1>5, <1>8, <2>2 DEF advance
    <3>2. JobKept
      BY <1>2, <3>1, StatusKeepsJob
    <3>3. o.op = "selection" => OneGeneration(o, g)
      <4> SUFFICES ASSUME o.op = "selection" PROVE OneGeneration(o, g)
        OBVIOUS
      <4>1. o.context # None => project_source_context(o, g)
        BY <1>3, <1>5, <2>2 DEF assembled
      <4>2. Len(g) = Len(plan(o)) /\ PinnedSoFar(o, Len(plan(o)) + 1, g)
        BY <1>3, <1>6, <2>1
      <4> QED
        BY <1>4, <1>6, <4>1, <4>2, AssembledIsOneGeneration
    <3>4. DatasetOK'
      <4>1. snapshot'.got = g /\ job'.order = o
        BY <1>3, <3>1, <3>2 DEF JobKept
      <4> QED
        BY <3>3, <4>1 DEF DatasetOK
    <3> QED
      BY <3>1, <3>2, <3>4 DEF Settled, CaptureOK
  <2>3. CASE ~assembled(job.order, Append(run.got, resp))
    <3>1. PICK m : m = mark_refused(recorded)
      OBVIOUS
    <3>2. store_failed("upstream_data_failed", m)
      BY <1>3, <1>8, <2>3, <3>1 DEF advance, refuse
    <3> QED
      BY <1>1, <3>2, FailedIsSettled
  <2> QED
    BY <2>2, <2>3
<1> QED
  BY <1>7, <1>8

\* After such a step the invariant holds, if whatever was sent was sent for the job.
LEMMA SettledStep ==
    ASSUME CompositeInv, job # None, Settled, grant' = grant, accepted' = accepted,
           \A s \in sends' :
              s \in sends \/ /\ s.identity = job.binding.identity
                             /\ s.selector \in selector_set_for(job.order)
    PROVE  CompositeInv'
<1>1. GrantOK'
  BY DEF CompositeInv, GrantOK
<1>2. CompositeJobOK'
  BY DEF CompositeInv, CompositeJobOK, Settled, JobKept
<1>3. AcceptedOK'
  BY DEF CompositeInv, AcceptedOK, Settled, JobKept
<1>4. SendsOK'
  BY DEF CompositeInv, SendsOK, Settled, JobKept
<1>5. SnapshotOK'
  BY DEF SnapshotOK, Settled, JobKept
<1>6. DatasetIsOneGeneration'
  BY DatasetOKIsProperty, PTL DEF Settled
<1> QED
  BY <1>1, <1>2, <1>3, <1>4, <1>5, <1>6 DEF CompositeInv, Settled

---------------------------------------------------------------------------
(* The steps *)

LEMMA CompositeInitOK ==
    ASSUME CompositeInit
    PROVE  CompositeInv
<1>1. GrantOK
  BY CompositeAssumption DEF CompositeInit, GrantOK
<1> QED
  BY <1>1 DEF CompositeInit, CompositeInv, CompositeJobOK, AcceptedOK, SendsOK, CaptureOK,
              SnapshotOK, DatasetIsOneGeneration

\* Nothing of the job moves.
LEMMA CompositeQuietStep ==
    ASSUME CompositeInv, UNCHANGED <<job, run, snapshot, accepted, sends>>, GrantOK'
    PROVE  CompositeInv'
<1>1. CompositeJobOK' /\ AcceptedOK' /\ SendsOK' /\ CaptureOK' /\ SnapshotOK'
  BY DEF CompositeInv, CompositeJobOK, AcceptedOK, SendsOK, CaptureOK, SnapshotOK
<1>2. DatasetIsOneGeneration'
  <2>1. DatasetOK
    BY DatasetOKIsProperty DEF CompositeInv
  <2>2. DatasetOK'
    BY <2>1 DEF DatasetOK
  <2> QED
    BY <2>2, DatasetOKIsProperty, PTL
<1> QED
  BY <1>1, <1>2 DEF CompositeInv

LEMMA SubmitStep ==
    ASSUME CompositeInv, NEW o \in Orders, NEW i \in Initiators, submit_composite_review(o, i)
    PROVE  CompositeInv'
<1>1. PICK admission : admission = admit_request(o, i)
  OBVIOUS
<1>2. require_admission(o, admission)
  BY <1>1 DEF submit_composite_review
<1>3. /\ grant' = grant /\ run' = run /\ snapshot' = snapshot /\ sends' = sends
      /\ accepted' = accepted \cup {[order |-> o, admission |-> admission]}
  BY <1>1 DEF submit_composite_review
<1>4. CASE job = None /\ job' = NewJob(o, admission)
  <2>1. job' \in CompositeJob /\ job'.order = o /\ job'.binding = admission
    <3>1. admission \in {None} \cup Binding
      <4>1. grant[i] \in 0..MaxGrant
        BY DEF CompositeInv, GrantOK
      <4>2. Identity(i, grant[i]) \in [initiator : Initiators, grant : 0..MaxGrant]
        BY <4>1 DEF Identity
      <4> QED
        BY <1>1, <4>2 DEF admit_request, Binding
    <3> QED
      BY <1>4, <3>1 DEF CompositeJob, NewJob
  <2>2. job' # None
    BY <2>1, CompositeAssumption
  <2>3. accepted = {} /\ sends = {} /\ run = None /\ snapshot = None
    BY <1>4 DEF CompositeInv, AcceptedOK, SendsOK, CaptureOK, SnapshotOK
  <2>4. CompositeJobOK'
    BY <1>2, <2>1 DEF CompositeJobOK
  <2>5. AcceptedOK' /\ SendsOK' /\ CaptureOK' /\ SnapshotOK' /\ GrantOK'
    BY <1>3, <2>1, <2>2, <2>3
       DEF AcceptedOK, SendsOK, CaptureOK, SnapshotOK, GrantOK, CompositeInv
  <2>6. DatasetIsOneGeneration'
    BY <1>3, <2>3 DEF DatasetIsOneGeneration
  <2> QED
    BY <2>4, <2>5, <2>6 DEF CompositeInv
<1>5. CASE job # None /\ job.order = o /\ job.binding = admission /\ job' = job
  <2>1. AcceptedOK'
    BY <1>3, <1>5 DEF CompositeInv, AcceptedOK
  <2>2. CompositeJobOK' /\ SendsOK' /\ CaptureOK' /\ SnapshotOK' /\ GrantOK'
    BY <1>3, <1>5 DEF CompositeInv, CompositeJobOK, SendsOK, CaptureOK, SnapshotOK, GrantOK
  <2>3. DatasetIsOneGeneration'
    <3>1. DatasetOK
      BY DatasetOKIsProperty DEF CompositeInv
    <3>2. DatasetOK'
      BY <1>3, <1>5, <3>1 DEF DatasetOK
    <3> QED
      BY <3>2, DatasetOKIsProperty, PTL
  <2> QED
    BY <2>1, <2>2, <2>3 DEF CompositeInv
<1> QED
  BY <1>1, <1>4, <1>5 DEF submit_composite_review, require_same_admission

LEMMA CollectStep ==
    ASSUME CompositeInv, collect_for_job
    PROVE  CompositeInv'
<1>1. /\ job # None /\ run = None /\ snapshot = None
      /\ grant' = grant /\ accepted' = accepted /\ sends' = sends
  BY DEF collect_for_job
<1>2. job \in CompositeJob /\ job.order \in Orders
  BY <1>1 DEF CompositeInv, CompositeJobOK, CompositeJob
<1>3. CASE \E c, m : store_failed(c, m)
  <2>1. PICK c, m : store_failed(c, m)
    BY <1>3
  <2>2. Settled
    BY <1>1, <2>1, FailedIsSettled
  <2> QED
    BY <1>1, <2>2, SettledStep
<1>4. CASE /\ run' = [pos |-> 1, calls |-> << >>, got |-> << >>]
           /\ job' = [job EXCEPT !.status = "collecting_data", !.attempts = @ + 1]
           /\ snapshot' = snapshot
  <2>1. job' \in CompositeJob /\ job'.order = job.order /\ job'.binding = job.binding
    <3>1. PICK n : n = job.attempts + 1
      OBVIOUS
    <3>2. n \in Nat
      BY <1>2, <3>1 DEF CompositeJob
    <3>3. job' = [job EXCEPT !.status = "collecting_data", !.attempts = n]
      BY <1>4, <3>1
    <3> QED
      BY <1>2, <3>2, <3>3 DEF CompositeJob
  <2>2. JobKept
    BY <2>1, CompositeAssumption DEF JobKept
  <2>3. CaptureOK'
    <3>1. run'.pos = 1 /\ run'.got = << >>
      BY <1>4
    <3>2. Len(plan(job'.order)) \in Nat \ {0}
      <4>1. PICK o : o = job.order
        OBVIOUS
      <4>2. Len(plan(o)) \in Nat \ {0}
        BY <1>2, <4>1, PlanLength
      <4> QED
        BY <2>1, <4>1, <4>2
    <3>3. IsSeq(<< >>) /\ Len(<< >>) = 1 - 1
      <4>1. PICK e : e = << >>
        OBVIOUS
      <4>2. e \in Seq({}) /\ Len(e) = 0
        BY <4>1
      <4>3. IsSeq(e)
        BY <4>2, SeqIsSeq
      <4> QED
        BY <4>1, <4>2, <4>3
    <3>4. PinnedSoFar(job'.order, 1, << >>)
      <4>1. PICK o : o = job'.order
        OBVIOUS
      <4>2. o \in Orders
        BY <1>2, <2>1, <4>1
      <4>3. o.op = "selection" => \A n \in 1..Len(o.twr) : ~(n < 1)
        BY <4>2, SelectionPlan
      <4> QED
        BY <4>1, <4>3 DEF PinnedSoFar
    <3>5. 1 \in 1..Len(plan(job'.order))
      BY <3>2
    <3> QED
      BY <1>1, <1>4, <2>2, <3>1, <3>3, <3>4, <3>5 DEF CaptureOK, JobKept
  <2>4. DatasetOK'
    BY <1>1, <1>4 DEF DatasetOK
  <2>5. Settled
    BY <2>2, <2>3, <2>4 DEF Settled
  <2> QED
    BY <1>1, <2>5, SettledStep
<1> QED
  BY <1>3, <1>4 DEF collect_for_job, refuse_authority, refuse

LEMMA RefuseSendStep ==
    ASSUME CompositeInv, refuse_twr_send
    PROVE  CompositeInv' /\ run # None /\ Settled
<1>1. /\ run # None /\ grant' = grant /\ accepted' = accepted /\ sends' = sends
  BY DEF refuse_twr_send, NextRead
<1>2. job # None
  BY <1>1 DEF CompositeInv, CaptureOK
<1>3. PICK m : m = run.calls
  OBVIOUS
<1>4. store_failed("validation_failed", m)
  BY <1>3 DEF refuse_twr_send, refuse_authority
<1>5. Settled
  BY <1>2, <1>4, FailedIsSettled
<1> QED
  BY <1>1, <1>2, <1>5, SettledStep

\* What a read of a capture finds about the order it works for.
LEMMA AtRead ==
    ASSUME CompositeInv, NEW kind, NextRead(kind)
    PROVE  /\ run # None /\ job # None /\ snapshot = None
           /\ job \in CompositeJob /\ job.order \in Orders
           /\ run.pos \in 1..Len(plan(job.order))
           /\ kind = "twr" <=> job.order.op = "selection" /\ run.pos \in 1..Len(job.order.twr)
<1>1. run # None /\ plan(job.order)[run.pos].kind = kind
  BY DEF NextRead
<1>2. job # None /\ snapshot = None /\ run.pos \in 1..Len(plan(job.order))
  BY <1>1 DEF CompositeInv, CaptureOK
<1>3. job \in CompositeJob /\ job.order \in Orders
  BY <1>2 DEF CompositeInv, CompositeJobOK, CompositeJob
<1>4. PICK o, n : o = job.order /\ n = run.pos
  OBVIOUS
<1>5. plan(o)[n].kind = "twr" <=> o.op = "selection" /\ n \in 1..Len(o.twr)
  BY <1>2, <1>3, <1>4, TwrReadsArePins
<1> QED
  BY <1>1, <1>2, <1>3, <1>4, <1>5

LEMMA CaptureSelectionStep ==
    ASSUME CompositeInv, NEW answer, capture_selection(answer)
    PROVE  CompositeInv' /\ run # None /\ Settled
<1>1. NextRead("twr") /\ authorize_selection
  BY DEF capture_selection
<1>2. /\ run # None /\ job # None /\ snapshot = None
      /\ job \in CompositeJob /\ job.order \in Orders
      /\ run.pos \in 1..Len(plan(job.order))
      /\ job.order.op = "selection" /\ run.pos \in 1..Len(job.order.twr)
  BY <1>1, AtRead
<1>3. PICK pin, resp : pin = job.order.twr[run.pos] /\ resp = Response(plan(job.order)[run.pos])
  OBVIOUS
<1>4. grant' = grant /\ accepted' = accepted
  BY DEF capture_selection
<1>5. \A s \in sends' :
         s \in sends \/ /\ s.identity = job.binding.identity
                        /\ s.selector \in selector_set_for(job.order)
  <2>1. sends' = sends \cup {[identity |-> job.binding.identity, selector |-> pin]}
    BY <1>1, <1>3 DEF capture_selection, authorize_selection
  <2>2. pin \in selector_set_for(job.order)
    <3>1. PICK o, n : o = job.order /\ n = run.pos
      OBVIOUS
    <3>2. o \in Orders /\ o.op = "selection" /\ n \in 1..Len(o.twr)
      BY <1>2, <3>1
    <3>3. n \in DOMAIN o.twr
      BY <3>2, SelectionPlan
    <3> QED
      BY <1>3, <3>1, <3>2, <3>3 DEF selector_set_for, Range
  <2> QED
    BY <2>1, <2>2
<1>6. Settled
  <2>1. CASE yield_to_retry
    BY <1>2, <2>1, YieldIsSettled
  <2>2. CASE \E c, m : store_failed(c, m)
    <3>1. PICK c, m : store_failed(c, m)
      BY <2>2
    <3> QED
      BY <1>2, <3>1, FailedIsSettled
  <2>3. CASE /\ admit_composite_response(pin, resp)
             /\ \E m : advance(m, Append(run.got, resp))
    <3>1. PICK m : advance(m, Append(run.got, resp))
      BY <2>3
    <3>2. PinnedNow(resp)
      BY <1>3, <2>3 DEF PinnedNow, admit_composite_response
    <3> QED
      BY <1>2, <3>1, <3>2, AdvanceIsSettled
  <2> QED
    BY <1>3, <2>1, <2>2, <2>3 DEF capture_selection, refuse, refuse_authority
<1> QED
  BY <1>2, <1>4, <1>5, <1>6, SettledStep

LEMMA ReadSourceStep ==
    ASSUME CompositeInv, NEW kind, kind # "twr", NEW answer, ReadSource(kind, answer)
    PROVE  CompositeInv' /\ run # None /\ Settled
<1>1. NextRead(kind)
  BY DEF ReadSource
<1>2. /\ run # None /\ job # None
      /\ ~(job.order.op = "selection" /\ run.pos \in 1..Len(job.order.twr))
  BY <1>1, AtRead
<1>3. grant' = grant /\ accepted' = accepted /\ sends' = sends
  BY DEF ReadSource
<1>4. PICK resp : resp = Response(plan(job.order)[run.pos])
  OBVIOUS
<1>5. Settled
  <2>1. CASE \E c, m : store_failed(c, m)
    <3>1. PICK c, m : store_failed(c, m)
      BY <2>1
    <3> QED
      BY <1>2, <3>1, FailedIsSettled
  <2>2. CASE \E m : advance(m, Append(run.got, resp))
    <3>1. PICK m : advance(m, Append(run.got, resp))
      BY <2>2
    <3>2. PinnedNow(resp)
      BY <1>2 DEF PinnedNow
    <3> QED
      BY <1>2, <3>1, <3>2, AdvanceIsSettled
  <2> QED
    BY <1>4, <2>1, <2>2 DEF ReadSource, refuse
<1> QED
  BY <1>2, <1>3, <1>5, SettledStep

LEMMA CompositeStep ==
    ASSUME CompositeInv, [CompositeNext]_compositeVars
    PROVE  CompositeInv'
<1>1. ASSUME NEW o \in Orders, NEW i \in Initiators, submit_composite_review(o, i)
      PROVE  CompositeInv'
  BY <1>1, SubmitStep
<1>2. CASE collect_for_job
  BY <1>2, CollectStep
<1>3. CASE refuse_twr_send
  BY <1>3, RefuseSendStep
<1>4. ASSUME NEW a \in Answers, capture_selection(a)
      PROVE  CompositeInv'
  BY <1>4, CaptureSelectionStep
<1>5. ASSUME NEW a \in Answers, capture_linked(a) \/ read_pooled(a) \/ manage_read(a)
      PROVE  CompositeInv'
  BY <1>5, ReadSourceStep DEF capture_linked, read_pooled, manage_read
<1>6. ASSUME NEW i \in Initiators, NEW g \in 0..MaxGrant, ChangeAuthority(i, g)
      PROVE  CompositeInv'
  <2>1. GrantOK'
    BY <1>6 DEF ChangeAuthority, CompositeInv, GrantOK
  <2>2. UNCHANGED <<job, run, snapshot, accepted, sends>>
    BY <1>6 DEF ChangeAuthority
  <2> QED
    BY <2>1, <2>2, CompositeQuietStep
<1>7. ASSUME NEW s \in Sources, RestateSource(s)
      PROVE  CompositeInv'
  <2>1. GrantOK' /\ UNCHANGED <<job, run, snapshot, accepted, sends>>
    BY <1>7 DEF RestateSource, CompositeInv, GrantOK
  <2> QED
    BY <2>1, CompositeQuietStep
<1>8. CASE Die
  <2>1. Settled
    BY <1>8, YieldIsSettled DEF Die
  <2>2. /\ job # None /\ grant' = grant /\ accepted' = accepted
        /\ \A s \in sends' : s \in sends
    BY <1>8 DEF Die, CompositeInv, CaptureOK
  <2> QED
    BY <2>1, <2>2, SettledStep
<1>9. CASE UNCHANGED compositeVars
  <2>1. GrantOK' /\ UNCHANGED <<job, run, snapshot, accepted, sends>>
    BY <1>9 DEF compositeVars, CompositeInv, GrantOK
  <2> QED
    BY <2>1, CompositeQuietStep
<1> QED
  BY <1>1, <1>2, <1>3, <1>4, <1>5, <1>6, <1>7, <1>8, <1>9 DEF CompositeNext

\* The invariant of the composite capture (composite_reporting/source_capture.py,
\* collect_for_job) holds in every state, whatever the orders, the sources' histories, the
\* grants and the number of attempts.
THEOREM CompositeInvariance == CompositeSpec => []CompositeInv
BY CompositeInitOK, CompositeStep, PTL DEF CompositeSpec

\* Every TWR request goes out under the identity the job was accepted with, for a selector
\* of the accepted order, and every 202 answer was given to that principal for that order
\* (invocation_authority.py, require_same_admission and authorize_selection).
THEOREM SendsKeepThePrincipal == CompositeSpec => []EverySendIsTheAcceptedPrincipal
<1>1. CompositeInv => EverySendIsTheAcceptedPrincipal
  <2> SUFFICES ASSUME CompositeInv, NEW a \in accepted, NEW s \in sends
               PROVE  /\ a.admission # None
                      /\ s.identity = a.admission.identity
                      /\ s.selector \in selector_set_for(a.order)
    BY DEF EverySendIsTheAcceptedPrincipal
  <2>1. /\ job # None /\ s.identity = job.binding.identity
        /\ s.selector \in selector_set_for(job.order)
    BY DEF CompositeInv, SendsOK
  <2>2. a.order = job.order /\ a.admission = job.binding
    BY DEF CompositeInv, AcceptedOK
  <2>3. job.binding # None
    BY <2>1 DEF CompositeInv, CompositeJobOK, require_admission
  <2> QED
    BY <2>1, <2>2, <2>3
<1> QED
  BY <1>1, CompositeInvariance, PTL

\* A stored dataset of a selection is one generation of evidence: the pinned version of
\* every part, vectors of the one captured definition, and memberships for every window,
\* although sources are restated between the reads (source_capture.py, collect_for_job).
THEOREM CapturesAreOneGeneration == CompositeSpec => []DatasetIsOneGeneration
<1>1. CompositeInv => DatasetIsOneGeneration
  BY DEF CompositeInv
<1> QED
  BY <1>1, CompositeInvariance, PTL

\* Once a snapshot is stored it is never replaced, and a job never changes its order or
\* its principal, whatever a late worker or a redelivered submission does.
StoredCaptureStands ==
    /\ snapshot # None => snapshot' = snapshot
    /\ job # None => job'.order = job.order /\ job'.binding = job.binding

LEMMA CaptureStands ==
    ASSUME CompositeInv, CompositeNext
    PROVE  StoredCaptureStands
<1>1. CASE UNCHANGED <<job, snapshot>>
  BY <1>1 DEF StoredCaptureStands
<1>2. CASE run # None /\ Settled
  BY <1>2 DEF StoredCaptureStands, CompositeInv, CaptureOK, Settled, JobKept
<1>3. CASE collect_for_job
  <2>1. snapshot = None /\ job # None /\ job \in CompositeJob
    BY <1>3 DEF collect_for_job, CompositeInv, CompositeJobOK
  <2>2. job'.order = job.order /\ job'.binding = job.binding
    BY <1>3, <2>1
       DEF collect_for_job, refuse_authority, refuse, store_failed, CompositeJob
  <2> QED
    BY <2>1, <2>2 DEF StoredCaptureStands
<1>4. ASSUME NEW o \in Orders, NEW i \in Initiators, submit_composite_review(o, i)
      PROVE  StoredCaptureStands
  <2>1. snapshot' = snapshot /\ (job = None \/ job' = job)
    BY <1>4 DEF submit_composite_review
  <2> QED
    BY <2>1 DEF StoredCaptureStands
<1>5. ASSUME NEW a \in Answers, capture_selection(a)
      PROVE  StoredCaptureStands
  BY <1>2, <1>5, CaptureSelectionStep
<1>6. ASSUME NEW a \in Answers, capture_linked(a) \/ read_pooled(a) \/ manage_read(a)
      PROVE  StoredCaptureStands
  BY <1>2, <1>6, ReadSourceStep DEF capture_linked, read_pooled, manage_read
<1>7. CASE refuse_twr_send
  BY <1>2, <1>7, RefuseSendStep
<1>8. CASE Die
  BY <1>2, <1>8, YieldIsSettled DEF Die
<1> QED
  BY <1>1, <1>3, <1>4, <1>5, <1>6, <1>7, <1>8
     DEF CompositeNext, ChangeAuthority, RestateSource

\* A stored snapshot is immutable, and order and principal of a job are fixed when it is
\* accepted (composite_reporting: the snapshot written by collect_for_job, and the binding
\* require_same_admission compares a resubmission with).
THEOREM CapturesAreImmutable == CompositeSpec => [][StoredCaptureStands]_compositeVars
<1>1. ASSUME CompositeInv, [CompositeNext]_compositeVars
      PROVE  [StoredCaptureStands]_compositeVars
  BY <1>1, CaptureStands
<1> QED
  BY <1>1, CompositeInvariance, PTL DEF CompositeSpec

---------------------------------------------------------------------------
(* The history of a correction *)

LEMMA LeastNatural ==
    ASSUME NEW S \in SUBSET Nat, S # {}
    PROVE  \E m \in S : \A y \in S : m <= y
<1> DEFINE less == {ss \in Nat \X Nat : ss[1] < ss[2]}
<1>1. IsWellFoundedOn(less, Nat)
  <2>1. less = OpToRel(<, Nat)
    BY Zenon DEF OpToRel
  <2> QED
    BY Zenon, <2>1, NatLessThanWellFounded
<1> HIDE DEF less
<1>2. PICK m \in S : \A y \in S : ~(<<y, m>> \in less)
  BY <1>1, WFMin
<1>3. ASSUME NEW y \in S PROVE m <= y
  <2>1. <<y, m>> \in Nat \X Nat /\ ~(<<y, m>> \in less)
    BY <1>2
  <2> QED
    BY <2>1 DEF less
<1> QED
  BY <1>2, <1>3

\* w is the walk back along the predecessors p, up to the publication l.
IsWalk(w, l, p) ==
    w = [s \in 0..l |-> IF s = 0 \/ p[s] = 0 THEN << >> ELSE <<p[s]>> \o w[p[s]]]

\* What the walk is at one publication.
StepOf(w, s, p) == IF s = 0 \/ p[s] = 0 THEN << >> ELSE <<p[s]>> \o w[p[s]]

\* The recursion of Ancestors is well founded, so there is a walk.
LEMMA WalkIsDefined ==
    ASSUME NEW L \in Nat, NEW p, \A s \in 1..L : p[s] \in 0..s - 1
    PROVE  \E w : IsWalk(w, L, p)
<1> DEFINE Bad == {l \in 0..L : ~\E w : IsWalk(w, l, p)}
<1>1. SUFFICES ASSUME Bad # {} PROVE FALSE
  OBVIOUS
<1>2. PICK l \in Bad : \A k \in Bad : l <= k
  <2>1. Bad \in SUBSET Nat
    OBVIOUS
  <2> HIDE DEF Bad
  <2> QED
    BY <1>1, <2>1, LeastNatural
<1>3. l \in 0..L /\ ~\E w : IsWalk(w, l, p)
  OBVIOUS
<1>4. l # 0
  <2>1. PICK w : w = [s \in 0..0 |-> << >>]
    OBVIOUS
  <2>2. IsWalk(w, 0, p)
    BY <2>1 DEF IsWalk
  <2> QED
    BY <1>3, <2>2
<1>5. l - 1 \in 0..L /\ ~(l <= l - 1)
  BY <1>3, <1>4
<1>6. PICK w : IsWalk(w, l - 1, p)
  BY <1>2, <1>5
<1>7. PICK g : g = [s \in 0..l |-> IF s = l THEN StepOf(w, l, p) ELSE w[s]]
  OBVIOUS
<1>8. p[l] \in 0..l - 1
  BY <1>3, <1>4
<1>9. \A s \in 0..l - 1 : g[s] = w[s] /\ g[s] = StepOf(w, s, p) /\ (s # 0 => p[s] \in 0..s - 1)
  <2>1. \A s \in 0..l - 1 : w[s] = StepOf(w, s, p)
    BY <1>6 DEF IsWalk, StepOf
  <2>2. \A s \in 0..l - 1 : g[s] = w[s]
    BY <1>3, <1>7
  <2> QED
    BY <1>3, <2>1, <2>2
<1>10. ASSUME NEW s \in 0..l PROVE g[s] = StepOf(g, s, p)
  <2>1. g[s] = StepOf(w, s, p)
    <3>1. CASE s = l
      BY <1>7, <3>1
    <3>2. CASE s # l
      <4>1. s \in 0..l - 1
        BY <1>3, <3>2
      <4> QED
        BY <1>9, <4>1
    <3> QED
      BY <3>1, <3>2
  <2>2. s = 0 \/ g[p[s]] = w[p[s]]
    <3>1. s # 0 => p[s] \in 0..l - 1
      BY <1>3, <1>8, <1>9
    <3> QED
      BY <1>9, <3>1
  <2> QED
    BY <2>1, <2>2 DEF StepOf
<1>11. g = [s \in 0..l |-> StepOf(g, s, p)]
  <2>1. g = [s \in 0..l |-> g[s]]
    BY <1>7
  <2> QED
    BY <1>10, <2>1
<1>12. IsWalk(g, l, p)
  BY <1>11 DEF IsWalk, StepOf
<1> QED
  BY <1>3, <1>12

Predecessors == [s \in 1..Len(books) |-> books[s].predecessor]

LEMMA AncestorsWalk ==
    ASSUME books \in Histories
    PROVE  IsWalk(Ancestors, Len(books), Predecessors)
<1> DEFINE Walk(w) == w = [s \in 0..Len(books) |->
                              IF s = 0 \/ books[s].predecessor = 0 THEN << >>
                              ELSE <<books[s].predecessor>> \o w[books[s].predecessor]]
<1>1. Ancestors = CHOOSE w : Walk(w)
  BY Zenon DEF Ancestors
<1>2. PICK p : p = Predecessors
  OBVIOUS
<1>3. Len(books) \in Nat /\ \A s \in 1..Len(books) : p[s] \in 0..s - 1 /\ p[s] = books[s].predecessor
  BY <1>2, HistoriesAssumption DEF Predecessors
<1>4. ASSUME NEW w PROVE Walk(w) <=> IsWalk(w, Len(books), p)
  <2>1. \A s \in 0..Len(books) : s # 0 => p[s] = books[s].predecessor
    BY <1>3
  <2> QED
    BY <2>1 DEF IsWalk
<1>5. \E w : IsWalk(w, Len(books), p)
  BY <1>3, WalkIsDefined
<1> HIDE DEF Walk
<1>6. Walk(Ancestors)
  BY Zenon, <1>1, <1>4, <1>5
<1> QED
  BY Zenon, <1>2, <1>4, <1>6

\* The publications from a correction back to its root.
LineAt(top, c, n) == IF n = 0 THEN top ELSE c[n]

\* What of a list follows its first n elements.
After(c, n) == [i \in 1..Len(c) - n |-> c[n + i]]

LEMMA AfterStep ==
    ASSUME NEW c, IsSeq(c), NEW n \in Nat, n < Len(c)
    PROVE  After(c, n) = <<c[n + 1]>> \o After(c, n + 1)
<1>1. PICK K \in Nat : K = Len(c) /\ n < K
  BY DEF IsSeq
<1>2. PICK r \in Nat : r = Len(c) - (n + 1) /\ r + 1 = Len(c) - n
  <2>1. K - (n + 1) \in Nat /\ (K - (n + 1)) + 1 = K - n
    BY <1>1
  <2> QED
    BY Zenon, <1>1, <2>1
<1>3. PICK x, t : x = c[n + 1] /\ t = After(c, n + 1)
  OBVIOUS
<1>4. t = [i \in 1..r |-> c[(n + 1) + i]]
  BY Zenon, <1>2, <1>3 DEF After
<1>5. IsSeq(t) /\ Len(t) = r
  BY <1>2, <1>4, ListIsSeq
<1>6. <<x>> \o t = [i \in 1..1 + r |-> IF i = 1 THEN x ELSE t[i - 1]]
  BY <1>5 DEF IsSeq
<1>7. After(c, n) = [i \in 1..r + 1 |-> c[n + i]]
  BY Zenon, <1>2 DEF After
<1>8. ASSUME NEW i \in 1..r + 1 PROVE c[n + i] = IF i = 1 THEN x ELSE t[i - 1]
  <2>1. CASE i = 1
    BY <1>3, <2>1
  <2>2. CASE i # 1
    <3>1. i - 1 \in 1..r /\ (n + 1) + (i - 1) = n + i
      BY <1>2, <2>2
    <3>2. t[i - 1] = c[(n + 1) + (i - 1)]
      BY <1>4, <3>1
    <3> QED
      BY Zenon, <2>2, <3>1, <3>2
  <2> QED
    BY <2>1, <2>2
<1>9. 1 + r = r + 1
  BY <1>2
<1>10. <<x>> \o t = [i \in 1..r + 1 |-> IF i = 1 THEN x ELSE t[i - 1]]
  BY Zenon, <1>6, <1>9
<1>11. After(c, n) = <<x>> \o t
  BY <1>7, <1>8, <1>10
<1> QED
  BY Zenon, <1>3, <1>11

\* c follows the predecessors from a publication to a root.
Chain(top, c, p, L) ==
    /\ \A n \in 1..Len(c) : c[n] \in 1..L /\ p[LineAt(top, c, n - 1)] = c[n]
    /\ p[LineAt(top, c, Len(c))] = 0

\* A list that follows the predecessors from a publication to a root is the walk from it.
LEMMA WalkOfChain ==
    ASSUME NEW L \in Nat, NEW p, NEW w, IsWalk(w, L, p), NEW top \in 1..L, NEW c, IsSeq(c),
           Chain(top, c, p, L)
    PROVE  w[top] = c
<1>0. /\ \A n \in 1..Len(c) : c[n] \in 1..L /\ p[LineAt(top, c, n - 1)] = c[n]
      /\ p[LineAt(top, c, Len(c))] = 0
  BY DEF Chain
<1> DEFINE Wrong == {k \in 0..Len(c) : w[LineAt(top, c, Len(c) - k)] # After(c, Len(c) - k)}
<1>1. Len(c) \in Nat /\ c = [n \in 1..Len(c) |-> c[n]]
  BY DEF IsSeq
<1>2. ASSUME NEW n \in 0..Len(c)
      PROVE  LineAt(top, c, n) \in 1..L
  BY <1>0, <1>1 DEF LineAt
<1>3. \A s \in 1..L : w[s] = IF p[s] = 0 THEN << >> ELSE <<p[s]>> \o w[p[s]]
  <2>1. \A s \in 0..L : w[s] = StepOf(w, s, p)
    BY DEF IsWalk, StepOf
  <2>2. \A s \in 1..L : s \in 0..L /\ s # 0
    OBVIOUS
  <2> QED
    BY Zenon, <2>1, <2>2 DEF StepOf
<1>4. Wrong = {}
  <2>1. SUFFICES ASSUME Wrong # {} PROVE FALSE
    OBVIOUS
  <2>2. PICK k \in Wrong : \A j \in Wrong : k <= j
    <3>1. Wrong \in SUBSET Nat
      BY <1>1
    <3> HIDE DEF Wrong
    <3> QED
      BY <2>1, <3>1, LeastNatural
  <2>3. PICK n \in 0..Len(c) : n = Len(c) - k /\ k = Len(c) - n
    BY <1>1
  <2>4. PICK s \in 1..L : s = LineAt(top, c, n)
    BY <1>2, <2>3
  <2>5. w[s] # After(c, n)
    BY <2>3, <2>4
  <2>6. CASE n = Len(c)
    <3>1. w[s] = << >>
      BY <1>0, <1>3, <2>4, <2>6
    <3>2. Len(c) - Len(c) = 0
      BY <1>1
    <3>3. After(c, n) = [i \in 1..0 |-> c[n + i]]
      BY Zenon, <2>6, <3>2 DEF After
    <3>4. After(c, n) = << >>
      BY <3>3
    <3> QED
      BY <2>5, <3>1, <3>4
  <2>7. CASE n # Len(c)
    <3>1. PICK n1 \in 1..Len(c) : n1 = n + 1 /\ n1 - 1 = n /\ n < Len(c) /\ n \in Nat
      BY <1>1, <2>7
    <3>2. c[n1] \in 1..L /\ p[s] = c[n1]
      BY <1>0, <2>4, <3>1
    <3>3. w[s] = <<c[n1]>> \o w[c[n1]]
      <4>1. c[n1] # 0
        BY <3>2
      <4> QED
        BY Zenon, <1>3, <3>2, <4>1
    <3>4. PICK k1 \in 0..Len(c) : k1 = k - 1 /\ Len(c) - k1 = n1 /\ ~(k <= k1)
      BY <1>1, <2>3, <2>7, <3>1
    <3>5. w[LineAt(top, c, Len(c) - k1)] = After(c, Len(c) - k1)
      BY <2>2, <3>4
    <3>6. LineAt(top, c, n1) = c[n1]
      BY <3>1 DEF LineAt
    <3>7. w[c[n1]] = After(c, n1)
      BY Zenon, <3>4, <3>5, <3>6
    <3>8. After(c, n) = <<c[n1]>> \o After(c, n1)
      BY <3>1, AfterStep
    <3> QED
      BY Zenon, <2>5, <3>3, <3>7, <3>8
  <2> QED
    BY <2>6, <2>7
<1>5. w[LineAt(top, c, 0)] = After(c, 0)
  <2>1. Len(c) \in 0..Len(c) /\ Len(c) - Len(c) = 0
    BY <1>1
  <2>2. w[LineAt(top, c, Len(c) - Len(c))] = After(c, Len(c) - Len(c))
    BY Zenon, <1>4, <2>1
  <2> QED
    BY Zenon, <2>1, <2>2
<1>6. After(c, 0) = c
  <2>1. After(c, 0) = [i \in 1..Len(c) |-> c[i]]
    BY <1>1 DEF After
  <2> QED
    BY <1>1, <2>1
<1> QED
  BY <1>5, <1>6 DEF LineAt

\* A publication that breaks none of the rules a correction is built on.
Unbroken(e) == e.flaws \cap {"population", "policy", "proof"} = {}

\* What a captured correction of month m has established about its history c.
HistoryHolds(m, c) ==
    /\ m.seq \in 1..Len(books) /\ IsSeq(c)
    /\ books[m.seq].month = m.month /\ Unbroken(books[m.seq])
    /\ \A n \in 1..Len(c) :
          /\ c[n] \in 1..Len(books) /\ Unbroken(books[c[n]])
          /\ books[LineAt(m.seq, c, n - 1)].predecessor = c[n]
          /\ books[LineAt(m.seq, c, n - 1)].parent = c[n]
          /\ books[LineAt(m.seq, c, n - 1)].month = books[c[n]].month
    /\ books[LineAt(m.seq, c, Len(c))].predecessor = 0

LEMMA ProposalUnbroken ==
    ASSUME books \in Histories, NEW o, o.op \in {"amendment", "historical"},
           NEW s \in 1..Len(books), require_proposal(o, books[s]),
           o.op = "amendment" => books[s].version \in {"v1", "v2"}
    PROVE  Unbroken(books[s])
<1>1. "population" \notin books[s].flaws /\ "policy" \notin books[s].flaws
  BY DEF require_proposal, require_population, require_historical_policy, require_policy
<1>2. "proof" \notin books[s].flaws
  <2>1. CASE o.op = "historical"
    BY <2>1 DEF require_proposal, require_historical_policy, require_proof
  <2>2. CASE o.op = "amendment"
    BY <2>2, HistoriesAssumption
  <2> QED
    BY <2>1, <2>2
<1> QED
  BY <1>1, <1>2 DEF Unbroken

LEMMA ReceiptIsProposal ==
    ASSUME NEW o, NEW s, require_receipt(o, s)
    PROVE  require_proposal(o, books[s])
BY DEF require_receipt, require_retained_receipt, require_amendment_receipt

\* require_source_months and require_lineage establish the history of a month.
LEMMA LineageHolds ==
    ASSUME books \in Histories, NEW o \in Orders, o.op \in {"amendment", "historical"},
           monthly_dataset(o),
           NEW c, c = [n \in DOMAIN o.month.lineage |-> o.month.lineage[n].seq]
    PROVE  HistoryHolds(o.month, c)
<1>1. PICK m, B : m = o.month /\ B = Len(books)
  OBVIOUS
<1> SUFFICES HistoryHolds(m, c)
  BY <1>1
<1>2. require_source_months(o) /\ require_lineage(o)
  BY DEF monthly_dataset
<1>3. B \in Nat /\ DOMAIN books = 1..B
  BY <1>1, HistoriesAssumption
<1>4. /\ m.seq \in 1..B /\ books[m.seq].version = m.version /\ books[m.seq].month = m.month
      /\ require_proposal(o, books[m.seq])
  BY <1>1, <1>2, <1>3 DEF require_source_months
<1>5. /\ m.lineage \in Seq(Range(m.lineage))
      /\ o.op = "amendment" => m.version = "v2"
      /\ o.op = "historical" => m.version \in {"v3", "v4"}
  BY <1>1, CompositeOrdersAssumption
<1>6. Unbroken(books[m.seq])
  BY <1>1, <1>4, <1>5, ProposalUnbroken
<1>7. PICK K \in Nat : K = Len(m.lineage) /\ DOMAIN m.lineage = 1..K
  BY <1>5
<1>8. c = [n \in 1..K |-> c[n]] /\ \A n \in 1..K : c[n] = m.lineage[n].seq
  BY <1>1, <1>7
<1>9. IsSeq(c) /\ Len(c) = K
  BY <1>8, ListIsSeq
<1>10. CASE m.version = RootVersion(o)
  <2>1. m.lineage = << >>
    BY <1>1, <1>2, <1>10 DEF require_lineage
  <2>2. K = 0
    BY <1>7, <2>1
  <2>3. books[m.seq].predecessor = 0
    BY <1>1, <1>4, <1>10, HistoriesAssumption DEF RootVersion
  <2>4. Len(c) = 0 /\ LineAt(m.seq, c, Len(c)) = m.seq
    BY <1>9, <2>2 DEF LineAt
  <2>5. 1..Len(c) = {}
    <3>1. 1..0 = {}
      OBVIOUS
    <3> QED
      BY Zenon, <2>4, <3>1
  <2>6. books[LineAt(m.seq, c, Len(c))].predecessor = 0
    BY Zenon, <2>3, <2>4
  <2> QED
    BY Zenon, <1>1, <1>4, <1>6, <1>9, <2>5, <2>6 DEF HistoryHolds
<1>11. CASE m.version # RootVersion(o)
  <2>1. /\ m.lineage # << >>
        /\ \A n \in 1..K : /\ c[n] \in 1..B
                            /\ books[c[n]].version = m.lineage[n].version
                            /\ require_receipt(o, c[n])
        /\ Last(m.lineage).version = RootVersion(o)
        /\ \A n \in 1..K :
              /\ n > 1 => books[c[n - 1]].version = CorrectionVersion(o)
              /\ require_link(IF n = 1 THEN books[m.seq] ELSE books[c[n - 1]], c[n], Last(c))
    BY <1>1, <1>2, <1>3, <1>7, <1>11 DEF require_lineage
  <2>2. K > 0 /\ m.lineage[K].version = RootVersion(o)
    BY <1>5, <1>7, <2>1 DEF Last
  <2>3. books[c[K]].version = RootVersion(o) /\ c[K] \in 1..B
    <3>1. K \in 1..K
      BY <2>2
    <3> QED
      BY Zenon, <2>1, <2>2, <3>1
  <2>4. books[c[K]].predecessor = 0
    BY <1>1, <2>3, HistoriesAssumption DEF RootVersion
  <2>5. ASSUME NEW n \in 1..K
        PROVE  /\ c[n] \in 1..B /\ Unbroken(books[c[n]])
               /\ books[LineAt(m.seq, c, n - 1)].predecessor = c[n]
               /\ books[LineAt(m.seq, c, n - 1)].parent = c[n]
               /\ books[LineAt(m.seq, c, n - 1)].month = books[c[n]].month
    <3>1. c[n] \in 1..B /\ require_proposal(o, books[c[n]])
      BY <2>1, ReceiptIsProposal
    <3>2. books[c[n]].version \in {RootVersion(o), CorrectionVersion(o)}
      <4>1. CASE n = K
        BY <2>3, <4>1
      <4>2. CASE n # K
        <5>1. n + 1 \in 1..K /\ n + 1 > 1 /\ (n + 1) - 1 = n
          BY <4>2
        <5> QED
          BY <2>1, <5>1
      <4> QED
        BY <4>1, <4>2
    <3>3. Unbroken(books[c[n]])
      <4>1. PICK s \in 1..Len(books) : s = c[n]
        BY <1>1, <3>1
      <4>2. o.op = "amendment" => books[s].version \in {"v1", "v2"}
        BY <3>2, <4>1 DEF RootVersion, CorrectionVersion
      <4>3. require_proposal(o, books[s])
        BY <3>1, <4>1
      <4>4. Unbroken(books[s])
        BY <4>2, <4>3, ProposalUnbroken
      <4> QED
        BY <4>1, <4>4
    <3>4. books[LineAt(m.seq, c, n - 1)] = IF n = 1 THEN books[m.seq] ELSE books[c[n - 1]]
      BY DEF LineAt
    <3>5. require_link(books[LineAt(m.seq, c, n - 1)], c[n], Last(c))
      BY Zenon, <2>1, <3>4
    <3> QED
      BY Zenon, <3>1, <3>3, <3>5 DEF require_link
  <2>6. LineAt(m.seq, c, K) = c[K]
    BY <2>2 DEF LineAt
  <2>7. books[LineAt(m.seq, c, Len(c))].predecessor = 0
    BY Zenon, <1>9, <2>4, <2>6
  <2> QED
    BY Zenon, <1>1, <1>4, <1>6, <1>9, <2>5, <2>7 DEF HistoryHolds
<1> QED
  BY <1>10, <1>11

\* The months along a history are all the month of the correction.
LEMMA HistoryIsOneMonth ==
    ASSUME NEW m, NEW c, HistoryHolds(m, c), NEW n \in 0..Len(c)
    PROVE  /\ books[LineAt(m.seq, c, n)].month = m.month
           /\ Unbroken(books[LineAt(m.seq, c, n)])
<1> DEFINE Other == {k \in 0..Len(c) : books[LineAt(m.seq, c, k)].month # m.month}
<1>1. Len(c) \in Nat
  BY DEF HistoryHolds, IsSeq
<1>2. Other = {}
  <2>1. SUFFICES ASSUME Other # {} PROVE FALSE
    OBVIOUS
  <2>2. PICK k \in Other : \A j \in Other : k <= j
    <3>1. Other \in SUBSET Nat
      BY <1>1
    <3> HIDE DEF Other
    <3> QED
      BY <2>1, <3>1, LeastNatural
  <2>3. k # 0
    BY DEF HistoryHolds, LineAt
  <2>4. PICK j \in 0..Len(c) : j = k - 1 /\ ~(k <= j)
    BY <1>1, <2>3
  <2>5. books[LineAt(m.seq, c, j)].month = m.month
    BY <2>2, <2>4
  <2>6. k \in 1..Len(c) /\ LineAt(m.seq, c, k) = c[k]
    BY <1>1, <2>3 DEF LineAt
  <2>7. books[LineAt(m.seq, c, k - 1)].month = books[c[k]].month
    BY <2>6 DEF HistoryHolds
  <2>8. books[LineAt(m.seq, c, k)].month = m.month
    BY Zenon, <2>4, <2>5, <2>6, <2>7
  <2> QED
    BY <2>8
<1>3. Unbroken(books[LineAt(m.seq, c, n)])
  BY <1>1 DEF HistoryHolds, LineAt
<1> QED
  BY <1>2, <1>3

\* What the property says of a month and its history.
CarriesHistory(m) ==
    LET past == Ancestors[m.seq]
        line == <<m.seq>> \o past
    IN /\ [n \in DOMAIN m.lineage |-> m.lineage[n].seq] = past
       /\ \A n \in DOMAIN line :
             /\ books[line[n]].month = m.month
             /\ books[line[n]].flaws \cap {"population", "policy", "proof"} = {}
       /\ \A n \in DOMAIN past : books[line[n]].parent = past[n]

LEMMA HistoryIsCarried ==
    ASSUME books \in Histories, NEW m, NEW c, HistoryHolds(m, c),
           c = [n \in DOMAIN m.lineage |-> m.lineage[n].seq]
    PROVE  CarriesHistory(m)
<1>1. PICK p, B : p = Predecessors /\ B = Len(books)
  OBVIOUS
<1>2. B \in Nat /\ \A s \in 1..B : p[s] = books[s].predecessor
  BY <1>1, HistoriesAssumption DEF Predecessors
<1>3. Len(c) \in Nat /\ DOMAIN c = 1..Len(c) /\ IsSeq(c) /\ m.seq \in 1..B
  BY <1>1, IsSeqDomain DEF HistoryHolds
<1>4. ASSUME NEW n \in 0..Len(c) PROVE LineAt(m.seq, c, n) \in 1..B
  <2>1. n # 0 => n \in 1..Len(c)
    BY <1>3
  <2>2. n # 0 => c[n] \in 1..B
    BY Zenon, <1>1, <2>1 DEF HistoryHolds
  <2> QED
    BY Zenon, <1>3, <2>2 DEF LineAt
<1>5. Ancestors[m.seq] = c
  <2>1. IsWalk(Ancestors, B, p)
    BY <1>1, AncestorsWalk
  <2>2. PICK w, top : w = Ancestors /\ top = m.seq
    OBVIOUS
  <2>3. ASSUME NEW n \in 1..Len(c)
        PROVE  c[n] \in 1..B /\ p[LineAt(top, c, n - 1)] = c[n]
    <3>1. n - 1 \in 0..Len(c)
      BY <1>3
    <3> QED
      BY <1>1, <1>2, <1>4, <2>2, <3>1 DEF HistoryHolds
  <2>4. p[LineAt(top, c, Len(c))] = 0
    <3>1. Len(c) \in 0..Len(c)
      BY <1>3
    <3> QED
      BY <1>2, <1>4, <2>2, <3>1 DEF HistoryHolds
  <2>5. w[top] = c
    <3>1. IsWalk(w, B, p) /\ top \in 1..B /\ IsSeq(c) /\ B \in Nat
      BY <1>2, <1>3, <2>1, <2>2
    <3>2. Chain(top, c, p, B)
      BY Zenon, <2>3, <2>4 DEF Chain
    <3> QED
      BY Zenon, <3>1, <3>2, WalkOfChain
  <2> QED
    BY <2>2, <2>5
<1>6. PICK line : line = <<m.seq>> \o c
  OBVIOUS
<1>7. DOMAIN line = 1..Len(c) + 1 /\ \A n \in 1..Len(c) + 1 : line[n] = LineAt(m.seq, c, n - 1)
  <2>1. line = [i \in 1..1 + Len(c) |-> IF i = 1 THEN m.seq ELSE c[i - 1]]
    BY <1>3, <1>6 DEF IsSeq
  <2> QED
    BY <1>3, <2>1 DEF LineAt
<1>8. ASSUME NEW n \in DOMAIN line
      PROVE  books[line[n]].month = m.month /\ Unbroken(books[line[n]])
  <2>1. PICK k \in 0..Len(c) : k = n - 1 /\ line[n] = LineAt(m.seq, c, k)
    <3>1. PICK K \in Nat : K = Len(c)
      BY <1>3
    <3>2. n \in 1..K + 1 /\ n - 1 \in 0..K
      BY <1>7, <3>1
    <3> QED
      BY Zenon, <1>7, <3>1, <3>2
  <2>2. /\ books[LineAt(m.seq, c, k)].month = m.month
        /\ Unbroken(books[LineAt(m.seq, c, k)])
    BY <2>1, HistoryIsOneMonth
  <2> QED
    BY Zenon, <2>1, <2>2
<1>9. ASSUME NEW n \in DOMAIN c PROVE books[line[n]].parent = c[n]
  <2>1. n \in 1..Len(c) /\ n \in 1..Len(c) + 1
    BY <1>3
  <2>2. line[n] = LineAt(m.seq, c, n - 1)
    BY <1>7, <2>1
  <2> QED
    BY <2>1, <2>2 DEF HistoryHolds
<1> QED
  BY Zenon, <1>5, <1>6, <1>8, <1>9 DEF CarriesHistory, Unbroken

LineageOf(m) == [n \in DOMAIN m.lineage |-> m.lineage[n].seq]

IsCorrection(o) == o.op \in {"amendment", "historical"}

\* Manage's publications stand, and a stored correction was admitted along its history.
HistoryOK ==
    /\ books \in Histories
    /\ (snapshot # None /\ snapshot.kind = "dataset" /\ IsCorrection(job.order)) =>
          HistoryHolds(job.order.month, LineageOf(job.order.month))

LEMMA HistoryKept ==
    ASSUME HistoryOK, books' = books, snapshot' = snapshot, snapshot # None => job'.order = job.order
    PROVE  HistoryOK'
<1>1. ASSUME NEW m, NEW c, HistoryHolds(m, c) PROVE HistoryHolds(m, c)'
  BY <1>1 DEF HistoryHolds
<1>2. ASSUME snapshot # None, HistoryHolds(job.order.month, LineageOf(job.order.month))
      PROVE  HistoryHolds(job.order.month, LineageOf(job.order.month))'
  <2>1. PICK m, c : m = job.order.month /\ c = LineageOf(m)
    OBVIOUS
  <2>2. job'.order.month = m
    BY <1>2, <2>1
  <2> QED
    BY <1>1, <1>2, <2>1, <2>2
<1> QED
  BY <1>2 DEF HistoryOK

\* No step but the last one of a capture stores a dataset, and that one admits the order.
DatasetAdmitted ==
    (snapshot' # None /\ snapshot'.kind = "dataset") =>
        snapshot' = snapshot \/ (run # None /\ \E got : assembled(job.order, got))

LEMMA AdvanceAdmits ==
    ASSUME run # None, NEW recorded, NEW got, advance(recorded, got)
    PROVE  DatasetAdmitted
BY DEF advance, refuse, store_failed, DatasetAdmitted

LEMMA FailedAdmits ==
    ASSUME NEW c, NEW recorded, store_failed(c, recorded)
    PROVE  DatasetAdmitted
BY DEF store_failed, DatasetAdmitted

LEMMA StepAdmits ==
    ASSUME CompositeNext
    PROVE  books' = books /\ DatasetAdmitted
<1>1. books' = books
  BY DEF CompositeNext, submit_composite_review, collect_for_job, refuse_twr_send, capture_selection,
         capture_linked, read_pooled, manage_read, ReadSource, ChangeAuthority, RestateSource, Die
<1> SUFFICES DatasetAdmitted
  BY <1>1
<1>2. CASE snapshot' = snapshot
  BY Zenon, <1>2 DEF DatasetAdmitted
<1>3. CASE collect_for_job
  <2>1. (\E c, m : store_failed(c, m)) \/ snapshot' = snapshot
    BY <1>3 DEF collect_for_job, refuse_authority, refuse
  <2> QED
    BY Zenon, <1>2, <2>1, FailedAdmits
<1>4. CASE refuse_twr_send
  BY <1>4, FailedAdmits DEF refuse_twr_send, refuse_authority
<1>5. ASSUME NEW a \in Answers, capture_selection(a) PROVE DatasetAdmitted
  <2>1. \/ snapshot' = snapshot
        \/ \E c, m : store_failed(c, m)
        \/ run # None /\ \E m, g : advance(m, g)
    BY <1>5 DEF capture_selection, NextRead, yield_to_retry, refuse, refuse_authority
  <2> QED
    BY <1>2, <2>1, FailedAdmits, AdvanceAdmits
<1>6. ASSUME NEW kind, NEW a \in Answers, ReadSource(kind, a) PROVE DatasetAdmitted
  <2>1. (\E c, m : store_failed(c, m)) \/ (run # None /\ \E m, g : advance(m, g))
    BY <1>6 DEF ReadSource, NextRead, refuse
  <2> QED
    BY <2>1, FailedAdmits, AdvanceAdmits
<1> QED
  BY <1>2, <1>3, <1>4, <1>5, <1>6
     DEF CompositeNext, submit_composite_review, capture_linked, read_pooled, manage_read,
         ChangeAuthority, RestateSource, Die, yield_to_retry

LEMMA CorrectionStep ==
    ASSUME CompositeInv, HistoryOK, CompositeNext, StoredCaptureStands
    PROVE  HistoryOK'
<1>1. books' = books /\ DatasetAdmitted
  BY StepAdmits
<1>2. CASE snapshot' = snapshot
  BY <1>1, <1>2, HistoryKept DEF StoredCaptureStands, CompositeInv, SnapshotOK
<1>3. CASE snapshot' # snapshot
  <2>1. SUFFICES ASSUME snapshot' # None, snapshot'.kind = "dataset", IsCorrection(job'.order)
                 PROVE  HistoryHolds(job.order.month, LineageOf(job.order.month))'
    BY <1>1 DEF HistoryOK
  <2>2. PICK got : run # None /\ assembled(job.order, got)
    BY <1>1, <1>3, <2>1 DEF DatasetAdmitted
  <2>3. job # None
    BY <2>2 DEF CompositeInv, CaptureOK
  <2>4. PICK o : o = job.order /\ o = job'.order
    BY <2>3 DEF StoredCaptureStands
  <2>5. o \in Orders
    BY <2>3, <2>4 DEF CompositeInv, CompositeJobOK, CompositeJob
  <2>6. monthly_dataset(o)
    BY <2>1, <2>2, <2>4 DEF assembled, IsCorrection
  <2>7. HistoryHolds(o.month, LineageOf(o.month))
    BY <2>1, <2>4, <2>5, <2>6, LineageHolds DEF HistoryOK, IsCorrection, LineageOf
  <2>8. PICK m, c : m = o.month /\ c = LineageOf(m)
    OBVIOUS
  <2>9. HistoryHolds(m, c)'
    BY <1>1, <2>7, <2>8 DEF HistoryHolds
  <2> QED
    BY <2>4, <2>8, <2>9
<1> QED
  BY <1>2, <1>3

\* A captured correction of an ordinary or a historical month carries its whole history: the
\* pinned receipts are the walk along Manage's predecessors back to the root, every one is of
\* the same month and breaks none of its rules, and each was projected from the next
\* (amendment_admission.py, require_amendment_months and require_link).
THEOREM CorrectionsCarryTheirHistory == CompositeSpec => []CorrectionCarriesItsHistory
<1>1. CompositeInit => HistoryOK
  BY DEF CompositeInit, HistoryOK
<1>2. ASSUME CompositeInv, HistoryOK, [CompositeNext]_compositeVars
      PROVE  HistoryOK'
  <2>1. CASE CompositeNext
    BY <1>2, <2>1, CaptureStands, CorrectionStep
  <2>2. CASE UNCHANGED compositeVars
    BY <1>2, <2>2, HistoryKept DEF compositeVars
  <2> QED
    BY <1>2, <2>1, <2>2
<1>3. HistoryOK => CorrectionCarriesItsHistory
  <2> SUFFICES ASSUME HistoryOK, snapshot # None, snapshot.kind = "dataset",
                      job.order.op \in {"amendment", "historical"}
               PROVE  CarriesHistory(job.order.month)
    BY Zenon DEF CorrectionCarriesItsHistory, CarriesHistory
  <2>1. PICK m, c : m = job.order.month /\ c = LineageOf(m)
    OBVIOUS
  <2>2. HistoryHolds(m, c) /\ books \in Histories
    BY <2>1 DEF HistoryOK, IsCorrection
  <2>3. CarriesHistory(m)
    BY <2>1, <2>2, HistoryIsCarried DEF LineageOf
  <2> QED
    BY <2>1, <2>3
<1> QED
  BY <1>1, <1>2, <1>3, CompositeInvariance, PTL DEF CompositeSpec

---------------------------------------------------------------------------
(* The inductive invariant of the render package *)

\* A composite contract brings its own template.
ContractOK(x) ==
    (x.contract # None /\ x.contract.data \in CompositeVersions) =>
        x.template = x.contract.template

ReviewSnapshotOK(x) ==
    (x.order.family = "portfolio_review" /\ x.snapshot # None) =>
        x.snapshot \in Snapshots["portfolio_review"]

RowOK(x) == x \in ReportJob /\ ContractOK(x) /\ ReviewSnapshotOK(x)

\* What a replay carries of the job it recovers.
Inherits(x, source) ==
    source.contract # None => x.contract = source.contract /\ x.template = source.template

JobsOK ==
    /\ IsSeq(jobs)
    /\ \A j \in 1..Len(jobs) : RowOK(jobs[j])
    /\ \A j \in 1..Len(jobs) : jobs[j].source # 0 =>
          jobs[j].source \in 1..Len(jobs) /\ Inherits(jobs[j], jobs[jobs[j].source])

page_of(x) == _page(x.order, x.snapshot, snapshot_allocation(x.snapshot.allocation, x.order.allocation))

\* What a composed package says is what the row of its job says.
Faithful(p, x) ==
    /\ x.snapshot # None
    /\ p.reference = <<p.job, x.snapshot, x.template>>
    /\ p.template = x.template
    /\ x.contract # None => /\ p.data = x.contract.data
                            /\ p.envelope = x.contract.envelope
                            /\ p.house = x.contract.house
    /\ x.order.family = "portfolio_review" => p.page = page_of(x)

PackagesOK ==
    \A p \in packages : p.refused = None =>
        p.job \in 1..Len(jobs) /\ Faithful(p, jobs[p.job])

PackageInv == release \in Releases /\ JobsOK /\ PackagesOK

---------------------------------------------------------------------------
(* The contract a job is accepted under *)

LEMMA GreatestProfile ==
    ASSUME NEW S \in SUBSET (1..6), S # {}
    PROVE  Max(S) \in S
<1>1. \E m \in S : \A y \in S : m >= y
  <2>1. CASE 6 \in S
    BY <2>1
  <2>2. CASE 6 \notin S /\ 5 \in S
    BY <2>2
  <2>3. CASE 6 \notin S /\ 5 \notin S /\ 4 \in S
    BY <2>3
  <2>4. CASE 6 \notin S /\ 5 \notin S /\ 4 \notin S /\ 3 \in S
    BY <2>4
  <2>5. CASE 6 \notin S /\ 5 \notin S /\ 4 \notin S /\ 3 \notin S /\ 2 \in S
    BY <2>5
  <2>6. CASE 6 \notin S /\ 5 \notin S /\ 4 \notin S /\ 3 \notin S /\ 2 \notin S
    <3>1. \A y \in S : y = 1
      BY <2>6
    <3>2. PICK e \in S : TRUE
      OBVIOUS
    <3>3. e = 1 /\ \A y \in S : e >= y
      BY <3>1, <3>2
    <3> QED
      BY <3>3
  <2> QED
    BY <2>1, <2>2, <2>3, <2>4, <2>5, <2>6
<1> QED
  BY <1>1 DEF Max

\* The composite profile an order names is one of the versions, never an empty axis.
ProfileNamed(options, named, version) ==
    /\ named = {i \in DOMAIN CompositeProfiles : CompositeProfiles[i] \cap options # {}}
    /\ named # {}
    /\ version = CHOOSE v \in options : v \in CompositeProfiles[Max(named)]

LEMMA ProfileIsComposite ==
    ASSUME NEW options, NEW named, NEW version, ProfileNamed(options, named, version)
    PROVE  version \in CompositeVersions
<1> USE DEF ProfileNamed
<1>1. DOMAIN CompositeProfiles = 1..6
  BY DEF CompositeProfiles
<1>2. named \in SUBSET (1..6)
  BY <1>1
<1>3. Max(named) \in named
  BY <1>2, GreatestProfile
<1>4. PICK m : m = Max(named)
  OBVIOUS
<1>5. m \in DOMAIN CompositeProfiles /\ \E v \in options : v \in CompositeProfiles[m]
  BY <1>3, <1>4
<1>6. version \in CompositeProfiles[m]
  BY <1>4, <1>5
<1> QED
  BY <1>5, <1>6 DEF CompositeVersions, Range

\* The row of a new job, or of a replay of the row it inherits from.
LEMMA NewRowOK ==
    ASSUME release \in Releases, NEW o \in ReportOrders, NEW inherited, NEW source \in Nat,
           inherited # None => RowOK(inherited) /\ inherited.order = o,
           NEW x, x = _create_report_job(o, inherited, source)
    PROVE  /\ RowOK(x) /\ x.source = source /\ x.snapshot = None /\ x.order = o
           /\ inherited # None => Inherits(x, inherited)
<1>1. PICK contract : contract = resolve_job_accepted_contract(o, inherited)
  OBVIOUS
<1>2. PICK template : template = job_template_identity(o, inherited)
  OBVIOUS
<1>3. template \in Templates
  <2>1. CASE inherited # None
    <3>1. inherited \in ReportJob /\ template = inherited.template
      BY <1>2, <2>1 DEF job_template_identity, RowOK
    <3> QED
      BY <3>1 DEF ReportJob
  <2>2. CASE inherited = None
    <3>1. template = None \/ template = release.template[o.family]
      BY <1>2, <2>2 DEF job_template_identity, accepted_template_identity
    <3>2. release.template[o.family] \in Range(release.template)
      BY PackageAssumption DEF Range
    <3> QED
      BY <3>1, <3>2 DEF Templates
  <2> QED
    BY <2>1, <2>2
<1>4. PICK plain : plain = [data |-> release.data[o.family], envelope |-> release.envelope,
                            house |-> release.house, template |-> template]
  OBVIOUS
<1>5. plain = accepted_document_contract(o, inherited)
  BY <1>2, <1>4 DEF accepted_document_contract
<1>6. plain \in Contract
  <2>1. release.data[o.family] \in DataVersions
    <3>1. release.data[o.family] \in Range(release.data)
      BY PackageAssumption DEF Range
    <3> QED
      BY <3>1 DEF DataVersions
  <2> QED
    BY <1>3, <1>4, <2>1 DEF Contract
<1>7. contract \in Contract
  <2>1. CASE inherited # None /\ inherited.contract # None
    BY <1>1, <2>1 DEF resolve_job_accepted_contract, RowOK, ReportJob
  <2>2. CASE ~(inherited # None /\ inherited.contract # None)
    <3>1. contract = plain \/ contract = _apply_composite_contract(plain, o.options)
      BY <1>1, <1>5, <2>2 DEF resolve_job_accepted_contract
    <3>2. _apply_composite_contract(plain, o.options) \in Contract
      <4>1. PICK named : named = {i \in DOMAIN CompositeProfiles : CompositeProfiles[i] \cap o.options # {}}
        OBVIOUS
      <4>2. PICK version : version = CHOOSE v \in o.options : v \in CompositeProfiles[Max(named)]
        OBVIOUS
      <4>3. _apply_composite_contract(plain, o.options) =
              IF named = {} THEN plain
              ELSE [plain EXCEPT !.data = version,
                                 !.template = IF @ = None THEN None ELSE version]
        BY <4>1, <4>2 DEF _apply_composite_contract
      <4>4. CASE named = {}
        BY <1>6, <4>3, <4>4
      <4>5. CASE named # {}
        <5>1. version \in CompositeVersions
          <6>1. PICK options : options = o.options
            OBVIOUS
          <6>2. ProfileNamed(options, named, version)
            BY <4>1, <4>2, <4>5, <6>1 DEF ProfileNamed
          <6> QED
            BY <6>2, ProfileIsComposite
        <5>2. version \in DataVersions /\ version \in Templates /\ None \in Templates
          <6>1. version \in DataVersions
            BY <5>1, Zenon DEF DataVersions
          <6>2. version \in Templates /\ None \in Templates
            BY <5>1, Zenon DEF Templates
          <6> QED
            BY <6>1, <6>2
        <5>3. PICK u : u = IF plain.template = None THEN None ELSE version
          OBVIOUS
        <5>4. u \in Templates
          BY <5>2, <5>3
        <5>5. [plain EXCEPT !.data = version, !.template = u] \in Contract
          BY <1>6, <5>2, <5>4 DEF Contract
        <5> QED
          BY <4>3, <4>5, <5>3, <5>5
      <4> QED
        BY <4>4, <4>5
    <3> QED
      BY <1>6, <3>1, <3>2
  <2> QED
    BY <2>1, <2>2
<1>8. /\ x.order = o /\ x.contract = contract /\ x.source = source /\ x.snapshot = None
      /\ x.template = template_for_accepted_contract(contract, template)
      /\ x = [order |-> o, contract |-> contract, source |-> source, snapshot |-> None,
              template |-> x.template]
  BY <1>1, <1>2 DEF _create_report_job
<1>9. x.template = IF contract.data \in CompositeVersions THEN contract.template ELSE template
  BY <1>8 DEF template_for_accepted_contract
<1>10. x.template \in Templates
  BY <1>3, <1>7, <1>9 DEF Contract
<1>11. x \in ReportJob
  BY <1>7, <1>8, <1>10 DEF ReportJob
<1>12. RowOK(x)
  BY <1>8, <1>9, <1>11 DEF RowOK, ContractOK, ReviewSnapshotOK
<1>13. inherited # None => Inherits(x, inherited)
  <2> SUFFICES ASSUME inherited # None, inherited.contract # None
               PROVE  x.contract = inherited.contract /\ x.template = inherited.template
    BY DEF Inherits
  <2>1. contract = inherited.contract /\ template = inherited.template
    BY <1>1, <1>2 DEF resolve_job_accepted_contract, job_template_identity
  <2>2. ContractOK(inherited)
    BY DEF RowOK
  <2> QED
    BY <1>8, <1>9, <2>1, <2>2 DEF ContractOK
<1> QED
  BY <1>8, <1>12, <1>13

---------------------------------------------------------------------------
(* Composed packages *)

\* A package that is handed over carries the axes of the row of its job.
LEMMA EnvelopeIsFaithful ==
    ASSUME PackageInv, NEW j \in 1..Len(jobs), NEW page, NEW p,
           p = _render_package_envelope(j, page), p.refused = None
    PROVE  /\ p.job = j /\ p.page = page
           /\ p.reference = <<j, jobs[j].snapshot, jobs[j].template>>
           /\ p.template = jobs[j].template
           /\ jobs[j].contract # None =>
                 /\ p.data = jobs[j].contract.data
                 /\ p.envelope = jobs[j].contract.envelope
                 /\ p.house = jobs[j].contract.house
<1>1. PICK x : x = jobs[j]
  OBVIOUS
<1>2. x \in ReportJob
  BY <1>1 DEF PackageInv, JobsOK, RowOK
<1>3. \A reason \in Refusals : p # refusal(j, reason)
  BY RefusalAssumption DEF refusal
<1>4. PICK data, envelope, house :
         /\ data = _job_report_data_contract(jobs[j])
         /\ envelope = _job_render_package_version(jobs[j])
         /\ house = _job_disclosure_baseline(jobs[j])
  OBVIOUS
<1>5. /\ p = [job |-> j, refused |-> None, reference |-> mint_document_reference(j, jobs[j]),
              data |-> data, envelope |-> envelope, house |-> house,
              template |-> _job_template_identity(jobs[j]), page |-> page]
      /\ "unsupported" \notin {data, envelope}
  <2>1. PICK template, reference : /\ template = _job_template_identity(jobs[j])
                                   /\ reference = mint_document_reference(j, jobs[j])
    OBVIOUS
  <2>2. p = IF data = "unsupported" THEN refusal(j, "accepted contract unsupported")
            ELSE IF template = None THEN refusal(j, "template identity required")
            ELSE IF envelope = "unsupported" THEN refusal(j, "accepted contract unsupported")
            ELSE [job |-> j, refused |-> None, reference |-> reference,
                  data |-> data, envelope |-> envelope, house |-> house,
                  template |-> template, page |-> page]
    BY <1>4, <2>1 DEF _render_package_envelope
  <2>3. /\ p # refusal(j, "template identity required")
        /\ p # refusal(j, "accepted contract unsupported")
    BY <1>3 DEF Refusals
  <2>4. template # None /\ "unsupported" \notin {data, envelope}
    BY <2>2, <2>3
  <2>5. p = [job |-> j, refused |-> None, reference |-> reference, data |-> data,
             envelope |-> envelope, house |-> house, template |-> template, page |-> page]
    BY <2>2, <2>4
  <2> QED
    BY <2>1, <2>4, <2>5
<1>6. ASSUME x.contract # None
      PROVE  data = x.contract.data /\ envelope = x.contract.envelope /\ house = x.contract.house
  <2>1. x.contract \in Contract
    BY <1>2, <1>6 DEF ReportJob
  <2>2. x.contract.data # None /\ x.contract.envelope # None /\ x.contract.house # None
    <3>1. x.contract.data \in DataVersions
      BY <2>1 DEF Contract
    <3>2. PICK r \in Releases : r.envelope = x.contract.envelope
      BY <2>1 DEF Contract
    <3>3. PICK h \in Releases : h.house = x.contract.house
      BY <2>1 DEF Contract
    <3> QED
      BY <3>1, <3>2, <3>3, PackageAssumption
  <2>3. data = x.contract.data
    BY <1>1, <1>4, <1>5, <1>6, <2>2 DEF _job_report_data_contract, _accepted_axis
  <2>4. envelope = x.contract.envelope
    BY <1>1, <1>4, <1>5, <1>6, <2>2 DEF _job_render_package_version, _accepted_axis
  <2>5. house = x.contract.house
    BY <1>1, <1>4, <1>6, <2>2 DEF _job_disclosure_baseline, _accepted_axis
  <2> QED
    BY <2>3, <2>4, <2>5
<1> QED
  BY <1>1, <1>5, <1>6 DEF mint_document_reference, _job_template_identity

LEMMA ComposedIsFaithful ==
    ASSUME PackageInv, NEW j \in 1..Len(jobs), jobs[j].snapshot # None, NEW p,
           p = _build_render_package(j), p.refused = None
    PROVE  p.job = j /\ Faithful(p, jobs[j])
<1>1. PICK x : x = jobs[j]
  OBVIOUS
<1>2. \A reason \in Refusals : p # refusal(j, reason)
  BY RefusalAssumption DEF refusal
<1>3. \E page : /\ p = _render_package_envelope(j, page)
                /\ x.order.family = "portfolio_review" => page = page_of(x)
  <2>1. CASE x.order.family = "composite_review"
    <3>1. p = _render_package_envelope(j, [contract |-> x.snapshot.contract])
      BY <1>1, <1>2, <2>1 DEF _build_render_package, Refusals
    <3>2. PICK page : page = [contract |-> x.snapshot.contract]
      OBVIOUS
    <3> QED
      BY <2>1, <3>1, <3>2
  <2>2. CASE x.order.family \in {"proof_pack", "outcome_review", "rebalance_wave"}
    <3>1. p = _build_existing_render_package(j)
      BY <1>1, <2>2 DEF _build_render_package
    <3>2. \E admitted : p = dpm_package(j, admitted)
      BY <1>1, <2>2, <3>1
         DEF _build_existing_render_package, _build_proof_pack_render_package,
             _build_outcome_review_render_package, _build_wave_render_package
    <3>3. p = _render_package_envelope(j, _dpm_page(x.snapshot))
      BY <1>1, <1>2, <3>2 DEF dpm_package, Refusals
    <3>4. PICK page : page = _dpm_page(x.snapshot)
      OBVIOUS
    <3> QED
      BY <2>2, <3>3, <3>4
  <2>3. CASE x.order.family \notin {"composite_review", "proof_pack", "outcome_review", "rebalance_wave"}
    <3>1. p = _build_existing_render_package(j)
      BY <1>1, <2>3 DEF _build_render_package
    <3>2. p = _render_package_envelope(j, page_of(x))
      BY <1>1, <2>3, <3>1 DEF _build_existing_render_package, page_of
    <3>3. PICK page : page = page_of(x)
      OBVIOUS
    <3> QED
      BY <3>2, <3>3
  <2> QED
    BY <2>1, <2>2, <2>3
<1>4. PICK page : /\ p = _render_package_envelope(j, page)
                  /\ x.order.family = "portfolio_review" => page = page_of(x)
  BY <1>3
<1>5. /\ p.job = j /\ p.page = page
      /\ p.reference = <<j, x.snapshot, x.template>>
      /\ p.template = x.template
      /\ x.contract # None => /\ p.data = x.contract.data
                              /\ p.envelope = x.contract.envelope
                              /\ p.house = x.contract.house
  BY <1>1, <1>4, EnvelopeIsFaithful
<1> QED
  BY <1>1, <1>4, <1>5 DEF Faithful

\* A page that says it is ready was judged again on history and allocation, and neither
\* was refused.
LEMMA ReadyPage ==
    ASSUME NEW o, NEW s \in Snapshots["portfolio_review"], NEW shown,
           shown = snapshot_allocation(s.allocation, o.allocation),
           NEW page, page = _page(o, s, shown),
           "ready" \in {page.governance.readiness, page.paragraph}
    PROVE  /\ s.performance # None => s.history.allowed /\ s.history.bound
           /\ o.allocation => s.allocation # None
           /\ s.allocation # None =>
                 /\ s.allocation.allowed /\ s.allocation.bound
                 /\ \A b \in Range(s.allocation.buckets) : None \notin {b.weight, b.value}
<1>1. PICK h, v : h = snapshot_history_qualification(s) /\ v = allocation_verdict(shown)
  OBVIOUS
<1>2. /\ page.governance = _governance_summary_section(s, shown)
      /\ page.paragraph = _summary_paragraph(s, shown)
  BY DEF _page
<1>3. h # "refused" /\ v # "refused"
  <2>1. CASE page.paragraph = "ready"
    BY <1>1, <1>2, <2>1 DEF _summary_paragraph
  <2>2. CASE page.governance.readiness = "ready"
    <3>1. PICK g : g = qualify_governance_summary(s.claim, h)
      OBVIOUS
    <3>2. page.governance = qualify_governance_summary(g, v)
      BY <1>1, <1>2, <3>1 DEF _governance_summary_section
    <3>3. v # "refused"
      BY <2>2, <3>2 DEF qualify_governance_summary
    <3>4. g.readiness = "ready"
      BY <2>2, <3>2, <3>3 DEF qualify_governance_summary
    <3>5. h # "refused"
      BY <3>1, <3>4 DEF qualify_governance_summary
    <3> QED
      BY <3>3, <3>5
  <2> QED
    BY <2>1, <2>2
<1>4. s.performance # None => s.history.allowed /\ s.history.bound
  BY <1>1, <1>3 DEF snapshot_history_qualification, _snapshot_binding_matches
<1>5. shown.status = "none" \/ shown.allowed
  BY <1>1, <1>3 DEF allocation_verdict
<1>6. CASE s.allocation = None
  BY <1>4, <1>5, <1>6 DEF snapshot_allocation
<1>7. CASE s.allocation # None
  <2>1. PICK a : a = s.allocation
    OBVIOUS
  <2>2. PICK captured, presented :
           /\ captured = _captured_qualification(a)
           /\ presented = _present_snapshot_buckets(a, captured \in {"missing", "invalid"})
    OBVIOUS
  <2>3. PICK status :
           status = IF /\ _contradictory_source_numbers([a EXCEPT !.buckets = presented])
                       /\ ~(captured \in {"missing", "invalid"})
                    THEN "invalid" ELSE captured
    OBVIOUS
  <2>4. PICK unknown \in BOOLEAN :
           unknown <=> \E b \in Range(presented) : None \in {b.weight, b.value}
    OBVIOUS
  <2>5. /\ shown.status = IF unknown /\ status = "complete" THEN "partial" ELSE status
        /\ shown.allowed <=> /\ a.allowed /\ status = "complete" /\ ~unknown
                             /\ a.coverage \in {"COMPLETE", "MEASURED_ZERO", "LOADED_EMPTY"}
    BY <1>7, <2>1, <2>2, <2>3, <2>4 DEF snapshot_allocation
  <2>6. captured # "none"
    BY <1>7, <2>1, <2>2, RefusalAssumption DEF _captured_qualification
  <2>7. shown.status # "none"
    BY <2>3, <2>5, <2>6
  <2>8. a.allowed /\ status = "complete" /\ ~unknown
    BY <1>5, <2>5, <2>7
  <2>9. captured = "complete"
    BY <2>3, <2>8
  <2>10. a.bound
    BY <2>2, <2>9 DEF _captured_qualification
  <2>11. Range(presented) = Range(a.buckets)
    BY <2>2, <2>9 DEF _present_snapshot_buckets, Range
  <2> QED
    BY <1>4, <1>7, <2>1, <2>4, <2>8, <2>10, <2>11
<1> QED
  BY <1>6, <1>7

---------------------------------------------------------------------------
(* The steps *)

LEMMA PackageInitOK ==
    ASSUME PackageInit
    PROVE  PackageInv
<1>1. CASE jobs = << >>
  <2>1. PICK e : e = << >>
    OBVIOUS
  <2>2. e \in Seq({}) /\ Len(e) = 0
    BY <2>1
  <2>3. IsSeq(e)
    BY <2>2, SeqIsSeq
  <2>4. jobs = e
    BY <1>1, <2>1
  <2> QED
    BY <2>2, <2>3, <2>4 DEF PackageInit, PackageInv, JobsOK, PackagesOK
<1>2. ASSUME NEW x \in Legacy, jobs = <<x>>
      PROVE  PackageInv
  <2>1. PICK e : e = <<x>>
    OBVIOUS
  <2>2. e \in Seq({x}) /\ Len(e) = 1 /\ e[1] = x
    BY <2>1
  <2>3. IsSeq(e)
    BY <2>2, SeqIsSeq
  <2>4. RowOK(x) /\ x.source = 0
    BY PackageAssumption DEF RowOK, ContractOK, ReviewSnapshotOK
  <2>5. jobs = e
    BY <1>2, <2>1
  <2>6. \A j \in 1..Len(e) : e[j] = x
    BY <2>2
  <2>7. JobsOK
    BY <2>3, <2>4, <2>5, <2>6 DEF JobsOK
  <2> QED
    BY <2>7 DEF PackageInit, PackageInv, PackagesOK
<1> QED
  BY <1>1, <1>2 DEF PackageInit

\* A row keeps what it was accepted with, and the snapshot it has.
RowKept(x, y) ==
    /\ y.order = x.order /\ y.contract = x.contract
    /\ y.source = x.source /\ y.template = x.template
    /\ x.snapshot # None => y.snapshot = x.snapshot

RowsKept ==
    /\ Len(jobs) \in Nat /\ Len(jobs') \in Nat /\ Len(jobs) <= Len(jobs')
    /\ \A j \in 1..Len(jobs) : RowKept(jobs[j], jobs'[j])

LEMMA KeptStep ==
    ASSUME PackageInv, release' \in Releases, packages' = packages, JobsOK', RowsKept
    PROVE  PackageInv'
<1>1. ASSUME NEW p \in packages, p.refused = None
      PROVE  p.job \in 1..Len(jobs') /\ Faithful(p, jobs'[p.job])
  <2>1. p.job \in 1..Len(jobs) /\ Faithful(p, jobs[p.job])
    BY <1>1 DEF PackageInv, PackagesOK
  <2>2. p.job \in 1..Len(jobs')
    BY <2>1 DEF RowsKept
  <2>3. RowKept(jobs[p.job], jobs'[p.job])
    BY <2>1 DEF RowsKept
  <2>4. PICK x, y : x = jobs[p.job] /\ y = jobs'[p.job]
    OBVIOUS
  <2>5. Faithful(p, x) /\ RowKept(x, y)
    BY <2>1, <2>3, <2>4
  <2>6. Faithful(p, y)
    BY <2>5 DEF Faithful, RowKept, page_of
  <2> QED
    BY <2>2, <2>4, <2>6
<1> QED
  BY <1>1 DEF PackageInv, PackagesOK

LEMMA AppendedJob ==
    ASSUME JobsOK, NEW x, RowOK(x),
           x.source # 0 => x.source \in 1..Len(jobs) /\ Inherits(x, jobs[x.source]),
           jobs' = Append(jobs, x)
    PROVE  JobsOK' /\ RowsKept
<1>1. PICK s, t : s = jobs /\ t = jobs'
  OBVIOUS
<1>2. IsSeq(s) /\ t = Append(s, x)
  BY <1>1 DEF JobsOK
<1>3. /\ IsSeq(t) /\ Len(s) \in Nat /\ Len(t) = Len(s) + 1
      /\ \A n \in 1..Len(s) : t[n] = s[n]
      /\ t[Len(s) + 1] = x
  BY <1>2, AppendIsSeq
<1>4. PICK k : k = Len(s)
  OBVIOUS
<1>5. /\ k \in Nat /\ Len(t) = k + 1 /\ t[k + 1] = x
      /\ \A n \in 1..k : t[n] = s[n]
  BY <1>3, <1>4
<1>6. \A j \in 1..k + 1 : j = k + 1 \/ j \in 1..k
  BY <1>5
<1>7. /\ \A j \in 1..k : RowOK(s[j])
      /\ \A j \in 1..k : s[j].source # 0 => s[j].source \in 1..k /\ Inherits(s[j], s[s[j].source])
      /\ x.source # 0 => x.source \in 1..k /\ Inherits(x, s[x.source])
  BY <1>1, <1>4 DEF JobsOK
<1>8. \A j \in 1..k + 1 : RowOK(t[j])
  BY <1>5, <1>6, <1>7
<1>9. \A j \in 1..k + 1 : t[j].source # 0 =>
         t[j].source \in 1..k + 1 /\ Inherits(t[j], t[t[j].source])
  <2> SUFFICES ASSUME NEW j \in 1..k + 1, t[j].source # 0
               PROVE  t[j].source \in 1..k + 1 /\ Inherits(t[j], t[t[j].source])
    OBVIOUS
  <2>1. PICK n : n = t[j].source
    OBVIOUS
  <2>2. n \in 1..k /\ Inherits(t[j], s[n])
    BY <1>5, <1>6, <1>7, <2>1
  <2>3. n \in 1..k + 1 /\ t[n] = s[n]
    BY <1>5, <2>2
  <2> QED
    BY <2>1, <2>2, <2>3
<1>10. JobsOK'
  BY <1>1, <1>3, <1>5, <1>8, <1>9 DEF JobsOK
<1>11. RowsKept
  <2>1. \A j \in 1..k : RowKept(s[j], t[j])
    BY <1>5 DEF RowKept
  <2> QED
    BY <1>1, <1>4, <1>5, <2>1 DEF RowsKept
<1> QED
  BY <1>10, <1>11

LEMMA SubmitOrderStep ==
    ASSUME PackageInv, NEW o \in ReportOrders, SubmitOrder(o)
    PROVE  PackageInv' /\ RowsKept
<1>1. PICK x : x = _create_report_job(o, None, 0)
  OBVIOUS
<1>2. RowOK(x) /\ x.source = 0
  BY <1>1, NewRowOK DEF PackageInv
<1>3. jobs' = Append(jobs, x) /\ release' = release /\ packages' = packages
  BY <1>1 DEF SubmitOrder
<1>4. JobsOK' /\ RowsKept
  BY <1>2, <1>3, AppendedJob DEF PackageInv
<1> QED
  BY <1>3, <1>4, KeptStep DEF PackageInv

LEMMA ReplayJobStep ==
    ASSUME PackageInv, NEW j \in 1..Len(jobs), NEW retained \in BOOLEAN, ReplayJob(j, retained)
    PROVE  PackageInv' /\ RowsKept
<1>1. PICK y : y = jobs[j]
  OBVIOUS
<1>2. RowOK(y) /\ y.order \in ReportOrders /\ y # None
  BY <1>1, PackageAssumption DEF PackageInv, JobsOK, RowOK, ReportJob
<1>3. PICK x : x = _create_report_job(jobs[j].order, jobs[j], j)
  OBVIOUS
<1>4. x = _create_report_job(y.order, y, j)
  BY <1>1, <1>3
<1>0. j \in Nat /\ j # 0
  BY IsSeqDomain DEF PackageInv, JobsOK
<1>5. RowOK(x) /\ x.source = j /\ x.snapshot = None /\ x.order = y.order /\ Inherits(x, y)
  BY <1>0, <1>2, <1>4, NewRowOK DEF PackageInv
<1>6. PICK s : s = IF retained THEN y.snapshot ELSE None
  OBVIOUS
<1>7. PICK z : z = [x EXCEPT !.snapshot = s]
  OBVIOUS
<1>8. jobs' = Append(jobs, z) /\ release' = release /\ packages' = packages
  BY <1>1, <1>3, <1>6, <1>7 DEF ReplayJob
<1>9. x \in ReportJob /\ y \in ReportJob
  BY <1>2, <1>5 DEF RowOK
<1>10. s \in {None} \cup Captured
  BY <1>6, <1>9 DEF ReportJob
<1>11. /\ z \in ReportJob /\ z.order = x.order /\ z.contract = x.contract
       /\ z.source = x.source /\ z.template = x.template /\ z.snapshot = s
  BY <1>7, <1>9, <1>10 DEF ReportJob
<1>12. RowOK(z)
  <2>1. ContractOK(z)
    BY <1>5, <1>11 DEF RowOK, ContractOK
  <2>2. ReviewSnapshotOK(z)
    BY <1>2, <1>5, <1>6, <1>11 DEF RowOK, ReviewSnapshotOK
  <2> QED
    BY <1>11, <2>1, <2>2 DEF RowOK
<1>13. z.source \in 1..Len(jobs) /\ Inherits(z, jobs[z.source])
  BY <1>1, <1>5, <1>11 DEF Inherits
<1>14. JobsOK' /\ RowsKept
  BY <1>8, <1>12, <1>13, AppendedJob DEF PackageInv
<1> QED
  BY <1>8, <1>14, KeptStep DEF PackageInv

LEMMA CaptureSnapshotStep ==
    ASSUME PackageInv, NEW j \in 1..Len(jobs), NEW s \in Snapshots[jobs[j].order.family],
           CaptureSnapshot(j, s)
    PROVE  PackageInv' /\ RowsKept
<1>1. PICK x, v : /\ x = jobs[j]
                  /\ v = IF jobs[j].order.family = "composite_review"
                         THEN [s EXCEPT !.contract = _accepted_snapshot_contract_version(jobs[j])]
                         ELSE s
  OBVIOUS
<1>2. RowOK(x) /\ x \in ReportJob /\ x.order \in ReportOrders /\ x.snapshot = None
  BY <1>1 DEF PackageInv, JobsOK, RowOK, ReportJob, CaptureSnapshot
<1>3. PICK z : z = [x EXCEPT !.snapshot = v]
  OBVIOUS
<1>4. PICK r, t : r = jobs /\ t = jobs'
  OBVIOUS
<1>5. t = [r EXCEPT ![j] = z] /\ release' = release /\ packages' = packages
  BY <1>1, <1>3, <1>4 DEF CaptureSnapshot
<1>6. v \in Captured
  <2>0. s \in UNION Range(Snapshots)
    BY <1>1, <1>2, PackageAssumption DEF Range
  <2>1. CASE x.order.family = "composite_review"
    <3>1. PICK d : d = _accepted_snapshot_contract_version(jobs[j])
      OBVIOUS
    <3>2. d \in DataVersions
      <4>1. (d = x.contract.data /\ x.contract # None) \/ d = release.data[x.order.family]
        BY <1>1, <3>1 DEF _accepted_snapshot_contract_version, _accepted_axis
      <4>2. x.contract # None => x.contract.data \in DataVersions
        BY <1>2 DEF ReportJob, Contract
      <4>3. release.data[x.order.family] \in Range(release.data)
        BY <1>2, PackageAssumption DEF PackageInv, Range
      <4>4. release.data[x.order.family] \in DataVersions
        BY <4>3 DEF DataVersions, PackageInv
      <4> QED
        BY <4>1, <4>2, <4>4
    <3> QED
      BY <1>1, <2>1, <3>1, <3>2 DEF Captured
  <2>2. CASE x.order.family # "composite_review"
    BY <1>1, <2>0, <2>2 DEF Captured
  <2> QED
    BY <2>1, <2>2
<1>7. /\ z \in ReportJob /\ z.order = x.order /\ z.contract = x.contract
      /\ z.source = x.source /\ z.template = x.template /\ z.snapshot = v
  BY <1>2, <1>3, <1>6 DEF ReportJob
<1>8. RowOK(z)
  <2>1. ContractOK(z)
    BY <1>2, <1>7 DEF RowOK, ContractOK
  <2>2. ReviewSnapshotOK(z)
    BY <1>1, <1>7 DEF ReviewSnapshotOK
  <2> QED
    BY <1>7, <2>1, <2>2 DEF RowOK
<1>9. /\ IsSeq(r) /\ Len(r) \in Nat /\ DOMAIN r = 1..Len(r) /\ j \in 1..Len(r) /\ r[j] = x
  BY <1>1, <1>4, IsSeqDomain DEF PackageInv, JobsOK
<1>10. /\ IsSeq(t) /\ Len(t) = Len(r) /\ t[j] = z /\ \A n \in 1..Len(r) : n # j => t[n] = r[n]
  <2>1. PICK S : S = Range(r) \cup {z}
    OBVIOUS
  <2>2. r \in Seq(S) /\ z \in S
    <3>1. r \in Seq(Range(r)) /\ Range(r) \subseteq S
      BY <1>9, <2>1 DEF IsSeq
    <3>2. \A n \in 1..Len(r) : r[n] \in S
      BY <3>1
    <3>3. r = [n \in 1..Len(r) |-> r[n]]
      BY <3>1
    <3> QED
      BY <1>9, <2>1, <3>2, <3>3
  <2>3. t \in Seq(S) /\ Len(t) = Len(r)
    BY <1>5, <1>9, <2>2
  <2>4. t[j] = z /\ \A n \in 1..Len(r) : n # j => t[n] = r[n]
    BY <1>5, <1>9
  <2> QED
    BY <2>3, <2>4, SeqIsSeq
<1>11. \A n \in 1..Len(r) : RowKept(r[n], t[n])
  BY <1>2, <1>7, <1>9, <1>10 DEF RowKept
<1>12. RowsKept
  BY <1>4, <1>9, <1>10, <1>11 DEF RowsKept
<1>13. JobsOK'
  <2>1. /\ \A n \in 1..Len(r) : RowOK(r[n])
        /\ \A n \in 1..Len(r) : r[n].source # 0 => r[n].source \in 1..Len(r) /\ Inherits(r[n], r[r[n].source])
    BY <1>4 DEF PackageInv, JobsOK
  <2>2. \A n \in 1..Len(r) : RowOK(t[n])
    BY <1>8, <1>10, <2>1
  <2>3. \A n \in 1..Len(r) : t[n].source # 0 => t[n].source \in 1..Len(r) /\ Inherits(t[n], t[t[n].source])
    BY <1>11, <2>1 DEF RowKept, Inherits
  <2> QED
    BY <1>4, <1>10, <2>2, <2>3 DEF JobsOK
<1> QED
  BY <1>5, <1>12, <1>13, KeptStep DEF PackageInv

LEMMA ComposePackageStep ==
    ASSUME PackageInv, NEW j \in 1..Len(jobs), ComposePackage(j)
    PROVE  PackageInv'
<1>1. PICK q : q = _build_render_package(j)
  OBVIOUS
<1>2. /\ packages' = packages \cup {q} /\ release' = release /\ jobs' = jobs
      /\ jobs[j].snapshot # None
  BY <1>1 DEF ComposePackage
<1>3. q.refused = None => q.job = j /\ Faithful(q, jobs[j])
  BY <1>1, <1>2, ComposedIsFaithful
<1>4. PackagesOK'
  <2> SUFFICES ASSUME NEW p \in packages', p.refused = None
               PROVE  p.job \in 1..Len(jobs) /\ Faithful(p, jobs[p.job])
    BY <1>2 DEF PackagesOK
  <2>1. CASE p = q
    BY <1>3, <2>1
  <2>2. CASE p \in packages
    BY <2>2 DEF PackageInv, PackagesOK
  <2> QED
    BY <1>2, <2>1, <2>2
<1>5. JobsOK' /\ release' \in Releases
  BY <1>2 DEF PackageInv, JobsOK
<1> QED
  BY <1>4, <1>5 DEF PackageInv

LEMMA StillStep ==
    ASSUME PackageInv, jobs' = jobs, packages' = packages, release' \in Releases
    PROVE  PackageInv'
BY DEF PackageInv, JobsOK, PackagesOK

LEMMA PackageStep ==
    ASSUME PackageInv, [PackageNext]_package_vars
    PROVE  PackageInv'
<1>1. ASSUME NEW r \in Releases, Deploy(r)
      PROVE  PackageInv'
  BY <1>1, StillStep DEF Deploy
<1>2. ASSUME NEW o \in ReportOrders, SubmitOrder(o)
      PROVE  PackageInv'
  BY <1>2, SubmitOrderStep
<1>3. ASSUME NEW j \in Jobs, NEW s \in Snapshots[jobs[j].order.family], CaptureSnapshot(j, s)
      PROVE  PackageInv'
  BY <1>3, CaptureSnapshotStep DEF Jobs
<1>4. ASSUME NEW j \in Jobs, NEW retained \in BOOLEAN, ReplayJob(j, retained)
      PROVE  PackageInv'
  BY <1>4, ReplayJobStep DEF Jobs
<1>5. ASSUME NEW j \in Jobs, ComposePackage(j)
      PROVE  PackageInv'
  BY <1>5, ComposePackageStep DEF Jobs
<1>6. CASE UNCHANGED package_vars
  BY <1>6, StillStep DEF package_vars, PackageInv
<1> QED
  BY <1>1, <1>2, <1>3, <1>4, <1>5, <1>6 DEF PackageNext

\* The invariant of the render package (reporting_render/package_builder.py) holds in every
\* state, whatever releases are deployed and however many jobs are accepted and replayed.
THEOREM PackageInvariance == PackageSpec => []PackageInv
BY PackageInitOK, PackageStep, PTL DEF PackageSpec

\* Every package composed for a job, or for the replay that recovers it, carries the
\* contract the job was accepted under, whatever was deployed since, and the packages of
\* one job mint one reference (accepted_document_contract and _render_package_envelope).
THEOREM PackagesKeepTheContract == PackageSpec => []AcceptedContractIsKept
<1>1. PackageInv => AcceptedContractIsKept
  <2> SUFFICES ASSUME PackageInv, NEW p \in composed, NEW q \in composed,
                      jobs[p.job].contract # None,
                      p.job = q.job \/ jobs[q.job].source = p.job
               PROVE  /\ <<p.data, p.envelope, p.house, p.template>>
                            = <<q.data, q.envelope, q.house, q.template>>
                      /\ p.data = jobs[p.job].contract.data
                      /\ p.job = q.job => p.reference = q.reference
    BY DEF AcceptedContractIsKept
  <2>1. PICK x, y : x = jobs[p.job] /\ y = jobs[q.job]
    OBVIOUS
  <2>2. /\ p.job \in 1..Len(jobs) /\ Faithful(p, x)
        /\ q.job \in 1..Len(jobs) /\ Faithful(q, y)
    BY <2>1 DEF composed, PackageInv, PackagesOK
  <2>3. x.contract # None
    BY <2>1
  <2>4. y.contract = x.contract /\ y.template = x.template
    <3>1. CASE p.job = q.job
      BY <2>1, <3>1
    <3>2. CASE jobs[q.job].source = p.job
      <4>1. p.job # 0
        BY <2>2
      <4>2. Inherits(y, x)
        BY <2>1, <2>2, <3>2, <4>1 DEF PackageInv, JobsOK
      <4> QED
        BY <2>3, <4>2 DEF Inherits
    <3> QED
      BY <3>1, <3>2
  <2>5. /\ p.data = x.contract.data /\ p.envelope = x.contract.envelope
        /\ p.house = x.contract.house /\ p.template = x.template
        /\ q.data = x.contract.data /\ q.envelope = x.contract.envelope
        /\ q.house = x.contract.house /\ q.template = x.template
    BY <2>2, <2>3, <2>4 DEF Faithful
  <2>6. p.job = q.job => p.reference = q.reference
    BY <2>1, <2>2 DEF Faithful
  <2> QED
    BY <2>1, <2>5, <2>6
<1> QED
  BY <1>1, PackageInvariance, PTL

\* A page that claims readiness rests on a history and an allocation that attest it, bound
\* to this portfolio and date, with no weight or value missing, whatever the snapshot
\* itself claims (_governance_summary_section and _summary_paragraph).
THEOREM ReadyPagesArePublishable == PackageSpec => []ReadyPageIsPublishable
<1>1. PackageInv => ReadyPageIsPublishable
  <2> SUFFICES ASSUME PackageInv, NEW p \in reviews,
                      "ready" \in {p.page.governance.readiness, p.page.paragraph}
               PROVE  LET s == jobs[p.job].snapshot
                          a == s.allocation
                      IN  /\ s.performance # None => s.history.allowed /\ s.history.bound
                          /\ jobs[p.job].order.allocation => a # None
                          /\ a # None => /\ a.allowed /\ a.bound
                                         /\ \A b \in Range(a.buckets) : None \notin {b.weight, b.value}
    BY DEF ReadyPageIsPublishable
  <2>1. PICK x : x = jobs[p.job]
    OBVIOUS
  <2>2. p.job \in 1..Len(jobs) /\ Faithful(p, x) /\ x.order.family = "portfolio_review"
    BY <2>1 DEF reviews, composed, PackageInv, PackagesOK
  <2>3. RowOK(x)
    BY <2>1, <2>2 DEF PackageInv, JobsOK
  <2>4. x.snapshot \in Snapshots["portfolio_review"] /\ p.page = page_of(x)
    BY <2>2, <2>3 DEF RowOK, ReviewSnapshotOK, Faithful
  <2>5. PICK o, s, shown : /\ o = x.order /\ s = x.snapshot
                           /\ shown = snapshot_allocation(s.allocation, o.allocation)
    OBVIOUS
  <2>6. PICK page : page = p.page
    OBVIOUS
  <2>7. /\ s \in Snapshots["portfolio_review"] /\ page = _page(o, s, shown)
        /\ "ready" \in {page.governance.readiness, page.paragraph}
    BY <2>4, <2>5, <2>6 DEF page_of
  <2>8. /\ s.performance # None => s.history.allowed /\ s.history.bound
        /\ o.allocation => s.allocation # None
        /\ s.allocation # None =>
              /\ s.allocation.allowed /\ s.allocation.bound
              /\ \A b \in Range(s.allocation.buckets) : None \notin {b.weight, b.value}
    BY <2>5, <2>7, ReadyPage
  <2> QED
    BY <2>1, <2>5, <2>8
<1> QED
  BY <1>1, PackageInvariance, PTL

\* No step reinterprets an accepted job: whatever is deployed, submitted, captured, replayed
\* or composed, the row keeps its order, contract, template and source, and its snapshot
\* once it has one (accepted_document_contract: "No lifecycle path may reinterpret an
\* accepted job against today's definitions").
THEOREM AcceptedRowsStand == PackageSpec => [][RowsKept]_package_vars
<1>1. ASSUME PackageInv, PackageNext
      PROVE  RowsKept
  <2>1. CASE jobs' = jobs
    <3>1. Len(jobs) \in Nat
      BY <1>1, IsSeqDomain DEF PackageInv, JobsOK
    <3> QED
      BY <2>1, <3>1 DEF RowsKept, RowKept
  <2>2. ASSUME NEW o \in ReportOrders, SubmitOrder(o)
        PROVE  RowsKept
    BY <1>1, <2>2, SubmitOrderStep
  <2>3. ASSUME NEW j \in Jobs, NEW s \in Snapshots[jobs[j].order.family], CaptureSnapshot(j, s)
        PROVE  RowsKept
    BY <1>1, <2>3, CaptureSnapshotStep DEF Jobs
  <2>4. ASSUME NEW j \in Jobs, NEW retained \in BOOLEAN, ReplayJob(j, retained)
        PROVE  RowsKept
    BY <1>1, <2>4, ReplayJobStep DEF Jobs
  <2> QED
    BY <1>1, <2>1, <2>2, <2>3, <2>4 DEF PackageNext, Deploy, ComposePackage
<1>2. ASSUME PackageInv, [PackageNext]_package_vars
      PROVE  [RowsKept]_package_vars
  BY <1>1, <1>2
<1> QED
  BY <1>2, PackageInvariance, PTL DEF PackageSpec

---------------------------------------------------------------------------
(* The presented contributors, of any ranking *)

\* Rows as the source supplies them.
Supplied(rows) == rows \in Seq(Int \cup {None})

\* Rows with the largest effect first.
Ranked(rows) ==
    /\ rows \in Seq(Int)
    /\ \A i, j \in 1..Len(rows) : i < j => abs(rows[j]) <= abs(rows[i])

LEMMA LesserOfTwo ==
    ASSUME NEW a \in Nat, NEW b \in Nat
    PROVE  Min({a, b}) = IF a <= b THEN a ELSE b
<1>1. CASE a <= b
  <2>1. a \in {a, b} /\ \A y \in {a, b} : a <= y
    BY <1>1
  <2>2. \A x \in {a, b} : (\A y \in {a, b} : x <= y) => x = a
    BY <1>1
  <2> QED
    BY <1>1, <2>1, <2>2 DEF Min
<1>2. CASE ~(a <= b)
  <2>1. b \in {a, b} /\ \A y \in {a, b} : b <= y
    BY <1>2
  <2>2. \A x \in {a, b} : (\A y \in {a, b} : x <= y) => x = b
    BY <1>2
  <2> QED
    BY <1>2, <2>1, <2>2 DEF Min
<1> QED
  BY <1>1, <1>2

\* A row cannot outrank one of no effect.
LEMMA SignFacts ==
    ASSUME NEW u \in Int, NEW v \in Int, abs(v) <= abs(u)
    PROVE  /\ sign_of(u) \in {-1, 0, 1} /\ sign_of(v) \in {-1, 0, 1}
           /\ sign_of(u) = 0 => sign_of(v) = 0
BY DEF abs, sign_of

LEMMA LeastOf ==
    ASSUME NEW S \in SUBSET Nat, S # {}
    PROVE  Min(S) \in S /\ \A y \in S : Min(S) <= y
<1> DEFINE less == {ss \in Nat \X Nat : ss[1] < ss[2]}
<1>1. IsWellFoundedOn(less, Nat)
  <2>1. less = OpToRel(<, Nat)
    BY Zenon DEF OpToRel
  <2> QED
    BY Zenon, <2>1, NatLessThanWellFounded
<1> HIDE DEF less
<1>2. PICK m \in S : \A y \in S : ~(<<y, m>> \in less)
  BY <1>1, WFMin
<1>3. ASSUME NEW y \in S
      PROVE  m <= y
  <2>1. PICK ss : ss = <<y, m>>
    OBVIOUS
  <2>2. ss \in Nat \X Nat /\ ss[1] = y /\ ss[2] = m
    BY <2>1
  <2>3. ~(ss[1] < ss[2])
    BY <1>2, <2>1, <2>2 DEF less
  <2> QED
    BY <2>2, <2>3
<1> QED
  BY <1>3 DEF Min

\* Of two usable rows, one outranks the other, and none outranks itself.
LEMMA OutranksIsAnOrder ==
    ASSUME NEW rows, Supplied(rows)
    PROVE  /\ usable_rows(rows) \subseteq 1..Len(rows)
           /\ \A i \in usable_rows(rows) : rows[i] \in Int /\ ~outranks(rows, i, i)
           /\ \A i, j \in usable_rows(rows) :
                 i # j => outranks(rows, i, j) \/ outranks(rows, j, i)
           /\ \A i, j, k \in usable_rows(rows) :
                 outranks(rows, i, j) /\ outranks(rows, j, k) => outranks(rows, i, k)
<1>1. \A i \in usable_rows(rows) : i \in 1..Len(rows) /\ rows[i] \in Int
  BY DEF Supplied, usable_rows
<1>2. \A i \in usable_rows(rows) : abs(rows[i]) \in Nat /\ i \in Nat
  BY <1>1 DEF abs
<1> QED
  BY <1>1, <1>2 DEF outranks

LEMMA UsableRowsAreFinite ==
    ASSUME NEW rows, Supplied(rows)
    PROVE  IsFiniteSet(usable_rows(rows))
<1>1. PICK n \in Int : n = Len(rows)
  BY DEF Supplied
<1>2. IsFiniteSet(1..n)
  BY FS_Interval
<1>3. usable_rows(rows) \subseteq 1..n
  BY <1>1, OutranksIsAnOrder
<1> QED
  BY <1>2, <1>3, FS_Subset

LEMMA HigherRankIsLess ==
    ASSUME NEW rows, Supplied(rows), NEW i \in usable_rows(rows), NEW j \in usable_rows(rows),
           outranks(rows, i, j)
    PROVE  rank_of(rows, i) < rank_of(rows, j)
<1> DEFINE above(k) == {l \in usable_rows(rows) : outranks(rows, l, k)}
<1>1. IsFiniteSet(usable_rows(rows))
  BY UsableRowsAreFinite
<1>2. PICK A, B : A = above(i) /\ B = above(j)
  OBVIOUS
<1>3. A \subseteq B /\ A # B
  BY <1>2, OutranksIsAnOrder
<1>4. IsFiniteSet(B) /\ IsFiniteSet(A)
  BY <1>1, <1>2, FS_Subset
<1>5. /\ Cardinality(A) \in Nat /\ Cardinality(B) \in Nat
      /\ Cardinality(A) <= Cardinality(B) /\ Cardinality(A) # Cardinality(B)
  BY <1>3, <1>4, FS_Subset, FS_CardinalityType
<1> QED
  BY <1>2, <1>5 DEF rank_of

\* Every rank is held by exactly one usable row.
LEMMA RanksAreHeld ==
    ASSUME NEW rows, Supplied(rows)
    PROVE  /\ Cardinality(usable_rows(rows)) \in Nat
           /\ \A i \in usable_rows(rows) : rank_of(rows, i) \in 1..Cardinality(usable_rows(rows))
           /\ \A i, j \in usable_rows(rows) : rank_of(rows, i) = rank_of(rows, j) => i = j
           /\ \A n \in 1..Cardinality(usable_rows(rows)) :
                 \E i \in usable_rows(rows) : rank_of(rows, i) = n
<1>1. PICK U : U = usable_rows(rows)
  OBVIOUS
<1>2. IsFiniteSet(U) /\ Cardinality(U) \in Nat
  BY <1>1, UsableRowsAreFinite, FS_CardinalityType
<1>3. ASSUME NEW i \in U
      PROVE  rank_of(rows, i) \in 1..Cardinality(U)
  <2>1. PICK A : A = {l \in U : outranks(rows, l, i)}
    OBVIOUS
  <2>2. A \subseteq U \ {i}
    BY <1>1, <2>1, OutranksIsAnOrder
  <2>3. IsFiniteSet(U \ {i}) /\ Cardinality(U \ {i}) = Cardinality(U) - 1
    BY <1>2, <1>3, FS_RemoveElement
  <2>4. Cardinality(A) \in Nat /\ Cardinality(A) <= Cardinality(U) - 1
    BY <2>2, <2>3, FS_Subset, FS_CardinalityType
  <2>5. rank_of(rows, i) = 1 + Cardinality(A)
    BY <1>1, <2>1 DEF rank_of
  <2> QED
    BY <1>2, <2>4, <2>5
<1>4. ASSUME NEW i \in U, NEW j \in U, rank_of(rows, i) = rank_of(rows, j), i # j
      PROVE  FALSE
  <2>1. outranks(rows, i, j) \/ outranks(rows, j, i)
    BY <1>1, <1>4, OutranksIsAnOrder
  <2>2. rank_of(rows, i) < rank_of(rows, j) \/ rank_of(rows, j) < rank_of(rows, i)
    BY <1>1, <2>1, HigherRankIsLess
  <2>3. rank_of(rows, i) \in Nat /\ rank_of(rows, j) \in Nat
    BY <1>3
  <2> QED
    BY <1>4, <2>2, <2>3
<1>5. PICK f : f = [i \in U |-> rank_of(rows, i)]
  OBVIOUS
<1>6. f \in Injection(U, 1..Cardinality(U))
  <2>1. f \in [U -> 1..Cardinality(U)]
    BY <1>3, <1>5
  <2>2. \A i, j \in U : f[i] = f[j] => i = j
    BY <1>4, <1>5
  <2> QED
    BY <2>1, <2>2 DEF Injection, IsInjective
<1>7. f \in Surjection(U, 1..Cardinality(U))
  <2>1. /\ IsFiniteSet(1..Cardinality(U))
        /\ Cardinality(1..Cardinality(U)) = Cardinality(U)
    <3>1. PICK n \in Nat : n = Cardinality(U)
      BY <1>2
    <3>2. IsFiniteSet(1..n) /\ Cardinality(1..n) = n
      BY FS_Interval
    <3> QED
      BY <3>1, <3>2
  <2> QED
    BY <1>6, <2>1, FS_Injection
<1>8. \A n \in 1..Cardinality(U) : \E i \in U : f[i] = n
  BY <1>7 DEF Surjection
<1> QED
  BY <1>1, <1>2, <1>3, <1>4, <1>5, <1>8

\* The ranking is the usable rows, the largest effect first.
LEMMA RankingIsRanked ==
    ASSUME NEW rows, Supplied(rows), NEW ranked, ranked = _ranked_contributors(rows)
    PROVE  Ranked(ranked) /\ Range(ranked) = Range(rows) \ {None}
<1>1. PICK U, n : U = usable_rows(rows) /\ n = Cardinality(U)
  OBVIOUS
<1>2. /\ n \in Nat
      /\ \A i \in U : rank_of(rows, i) \in 1..n
      /\ \A i, j \in U : rank_of(rows, i) = rank_of(rows, j) => i = j
      /\ \A k \in 1..n : \E i \in U : rank_of(rows, i) = k
  BY <1>1, RanksAreHeld
<1>3. PICK h : h = [k \in 1..n |-> CHOOSE i \in U : rank_of(rows, i) = k]
  OBVIOUS
<1>4. \A k \in 1..n : h[k] \in U /\ rank_of(rows, h[k]) = k
  BY <1>2, <1>3
<1>5. ranked = [k \in 1..n |-> rows[h[k]]]
  BY <1>1, <1>3 DEF _ranked_contributors
<1>6. \A i \in U : rows[i] \in Int /\ i \in 1..Len(rows)
  BY <1>1, OutranksIsAnOrder
<1>7. ranked \in Seq(Int) /\ Len(ranked) = n
  <2>1. ranked \in [1..n -> Int]
    BY <1>4, <1>5, <1>6
  <2> QED
    BY <1>2, <2>1
<1>8. ASSUME NEW k \in 1..n, NEW l \in 1..n, k < l
      PROVE  abs(ranked[l]) <= abs(ranked[k])
  <2>1. PICK i \in U, j \in U : /\ i = h[k] /\ j = h[l]
                               /\ rank_of(rows, i) = k /\ rank_of(rows, j) = l
    BY <1>4
  <2>2. ~outranks(rows, j, i)
    <3>1. ASSUME outranks(rows, j, i) PROVE FALSE
      <4>1. rank_of(rows, j) < rank_of(rows, i)
        BY <1>1, <3>1, HigherRankIsLess
      <4> QED
        BY <1>2, <1>8, <2>1, <4>1
    <3> QED
      BY <3>1
  <2>3. ranked[l] = rows[j] /\ ranked[k] = rows[i]
    BY <1>5, <2>1
  <2>4. rows[i] \in Int /\ rows[j] \in Int
    BY <1>6
  <2> QED
    BY <2>2, <2>3, <2>4 DEF outranks, abs
<1>9. Range(ranked) = Range(rows) \ {None}
  <2>1. \A v \in Range(ranked) : v \in Range(rows) /\ v # None
    <3> SUFFICES ASSUME NEW k \in 1..n PROVE ranked[k] \in Range(rows) /\ ranked[k] # None
      BY <1>5 DEF Range
    <3>1. h[k] \in U /\ ranked[k] = rows[h[k]]
      BY <1>4, <1>5
    <3> QED
      BY <1>1, <3>1 DEF usable_rows, Range
  <2>2. ASSUME NEW v \in Range(rows), v # None PROVE v \in Range(ranked)
    <3>1. PICK i \in U : rows[i] = v
      BY <1>1, <2>2 DEF usable_rows, Range
    <3>2. PICK k \in 1..n : k = rank_of(rows, i)
      BY <1>2
    <3>3. h[k] = i
      BY <1>2, <1>4, <3>2
    <3> QED
      BY <1>5, <3>1, <3>3 DEF Range
  <2> QED
    BY <2>1, <2>2
<1> QED
  BY <1>7, <1>8, <1>9 DEF Ranked

---------------------------------------------------------------------------
(* The contributors of a page *)

\* The signs a sequence shows.
signs_of(s) == {sign_of(v) : v \in Range(s)}

\* The signs of a ranking by position: below a row of no effect there is none.
SignProfile(g, n) ==
    /\ g \in [1..n -> {-1, 0, 1}]
    /\ \A i, j \in 1..n : i < j /\ g[i] = 0 => g[j] = 0

\* Both show the same of the two sides.
SameSides(S, T) == {1, -1} \cap S = {1, -1} \cap T

LEMMA NothingMissing ==
    ASSUME NEW n \in Nat, NEW seats \in 1..n, NEW g, SignProfile(g, n),
           \A i \in seats + 1 .. n : \E j \in 1..seats : g[i] = g[j]
    PROVE  {g[i] : i \in 1..seats} = {g[i] : i \in 1..n}
<1>1. \A i \in 1..n : \E j \in 1..seats : g[i] = g[j]
  <2> SUFFICES ASSUME NEW i \in 1..n PROVE \E j \in 1..seats : g[i] = g[j]
    OBVIOUS
  <2>1. i \in 1..seats \/ i \in seats + 1 .. n
    OBVIOUS
  <2> QED
    BY <2>1
<1>2. 1..seats \subseteq 1..n
  OBVIOUS
<1> QED
  BY <1>1, <1>2

LEMMA TwoSignsAreEnough ==
    ASSUME NEW n \in Nat, NEW seats \in 1..n, NEW g, SignProfile(g, n),
           NEW i \in 1..seats, NEW j \in 1..seats, g[i] # g[j]
    PROVE  SameSides({g[k] : k \in 1..seats}, {g[k] : k \in 1..n})
<1>1. 1..seats \subseteq 1..n
  OBVIOUS
<1>2. ASSUME NEW k \in 1..n, g[k] # 0
      PROVE  \E l \in 1..seats : g[l] = g[k]
  <2>1. CASE k \in 1..seats
    BY <2>1
  <2>2. CASE k \notin 1..seats
    <3>1. i < k /\ j < k /\ i \in 1..n /\ j \in 1..n
      BY <2>2
    <3>2. g[i] # 0 /\ g[j] # 0 /\ {g[i], g[j], g[k]} \subseteq {-1, 0, 1}
      BY <1>2, <3>1 DEF SignProfile
    <3>3. g[k] = g[i] \/ g[k] = g[j]
      BY <1>2, <3>2
    <3> QED
      BY <3>3
  <2> QED
    BY <2>1, <2>2
<1> QED
  BY <1>1, <1>2 DEF SameSides

LEMMA OneSeatIsEnough ==
    ASSUME NEW n \in Nat, NEW seats \in 2..n, NEW g, SignProfile(g, n), NEW sigma,
           \A i \in 1..seats : g[i] = sigma,
           NEW m \in seats + 1 .. n, g[m] # sigma,
           \A i \in seats + 1 .. n : g[i] # sigma => m <= i
    PROVE  SameSides({g[i] : i \in 1 .. seats - 1} \cup {g[m]}, {g[i] : i \in 1..n})
<1>1. 1 \in 1 .. seats - 1 /\ 1 \in 1..seats /\ 1 \in 1..n /\ m \in 1..n /\ 1 < m
  OBVIOUS
<1>2. g[1] = sigma /\ sigma # 0 /\ sigma \in {-1, 0, 1} /\ g[m] \in {-1, 0, 1}
  BY <1>1 DEF SignProfile
<1>3. ASSUME NEW i \in 1..n, g[i] # 0
      PROVE  g[i] \in {sigma, g[m]}
  <2>1. CASE i \in 1..seats
    BY <2>1
  <2>2. CASE i \notin 1..seats /\ g[i] # sigma
    <3>1. i \in seats + 1 .. n
      BY <2>2
    <3>2. m <= i
      BY <2>2, <3>1
    <3>3. g[m] # 0
      BY <1>1, <1>3, <3>2 DEF SignProfile
    <3>4. g[i] \in {-1, 0, 1}
      BY DEF SignProfile
    <3> QED
      BY <1>2, <1>3, <2>2, <3>3, <3>4
  <2> QED
    BY <2>1, <2>2
<1>4. {g[i] : i \in 1 .. seats - 1} = {sigma}
  <2>1. \A i \in 1 .. seats - 1 : i \in 1..seats
    OBVIOUS
  <2> QED
    BY <1>1, <1>2, <2>1
<1>5. SameSides({sigma, g[m]}, {g[i] : i \in 1..n})
  BY <1>1, <1>2, <1>3 DEF SameSides
<1>6. {g[i] : i \in 1 .. seats - 1} \cup {g[m]} = {sigma, g[m]}
  BY <1>4
<1> QED
  BY <1>5, <1>6

\* The signs of a ranking.
LEMMA RankedSigns ==
    ASSUME NEW ranked, Ranked(ranked), NEW n, n = Len(ranked),
           NEW g, g = [i \in 1..n |-> sign_of(ranked[i])]
    PROVE  n \in Nat /\ SignProfile(g, n) /\ signs_of(ranked) = {g[i] : i \in 1..n}
<1>1. n \in Nat /\ ranked \in [1..n -> Int]
  BY DEF Ranked
<1>2. \A i \in 1..n : g[i] \in {-1, 0, 1}
  BY <1>1 DEF sign_of
<1>3. ASSUME NEW i \in 1..n, NEW j \in 1..n, i < j, g[i] = 0
      PROVE  g[j] = 0
  <2>1. PICK u \in Int, v \in Int : u = ranked[i] /\ v = ranked[j]
    BY <1>1
  <2>2. abs(v) <= abs(u)
    BY <1>3, <2>1 DEF Ranked
  <2>3. sign_of(u) = 0 => sign_of(v) = 0
    BY <2>2, SignFacts
  <2> QED
    BY <1>3, <2>1, <2>3
<1>4. Range(ranked) = {ranked[i] : i \in 1..n}
  BY <1>1 DEF Range
<1> QED
  BY <1>1, <1>2, <1>3, <1>4 DEF SignProfile, signs_of

LEMMA FirstRows ==
    ASSUME NEW s \in Seq(Int), NEW k \in 0..Len(s)
    PROVE  SubSeq(s, 1, k) = [i \in 1..k |-> s[i]] /\ SubSeq(s, 1, k) \in Seq(Int)
           /\ Len(SubSeq(s, 1, k)) = k
<1>1. PICK t : t = SubSeq(s, 1, k)
  OBVIOUS
<1>2. \A i \in 1..k : s[i] \in Int
  OBVIOUS
<1>3. t \in Seq(Int) /\ Len(t) = k /\ \A i \in 1..k : t[i] = s[i]
  <2>1. Len(t) = IF 1 <= k THEN k - 1 + 1 ELSE 0
    BY <1>1, <1>2, SubSeqProperties
  <2>2. t \in Seq(Int) /\ \A i \in 1 .. k - 1 + 1 : t[i] = s[1 + i - 1]
    BY <1>1, <1>2, SubSeqProperties
  <2>3. \A i \in 1..k : i \in 1 .. k - 1 + 1 /\ 1 + i - 1 = i
    OBVIOUS
  <2>4. \A i \in 1..k : t[i] = s[i]
    BY <2>2, <2>3
  <2> QED
    BY <2>1, <2>2, <2>4
<1>4. t = [i \in 1..k |-> s[i]]
  BY <1>3
<1> QED
  BY <1>1, <1>3, <1>4

\* A seat given up: all but the last row, and another after them.
SeatGivenUp(shown, s, k, x) ==
    /\ Len(shown) = k
    /\ \A i \in 1 .. k - 1 : shown[i] = s[i]
    /\ signs_of(shown) = {sign_of(s[i]) : i \in 1 .. k - 1} \cup {sign_of(x)}

LEMMA LastReplaced ==
    ASSUME NEW s \in Seq(Int), NEW k \in 2..Len(s), NEW x \in Int,
           NEW shown, shown = Append(Front(SubSeq(s, 1, k)), x)
    PROVE  SeatGivenUp(shown, s, k, x)
<1>1. PICK t, f : t = SubSeq(s, 1, k) /\ f = Front(t)
  OBVIOUS
<1>2. t = [i \in 1..k |-> s[i]] /\ t \in Seq(Int) /\ Len(t) = k
  BY <1>1, FirstRows
<1>3. f = SubSeq(t, 1, k - 1)
  BY <1>1, <1>2 DEF Front
<1>4. f = [i \in 1 .. k - 1 |-> t[i]] /\ f \in Seq(Int) /\ Len(f) = k - 1
  <2>1. k - 1 \in 0..Len(t)
    BY <1>2
  <2> QED
    BY <1>2, <1>3, <2>1, FirstRows
<1>5. shown = Append(f, x)
  BY <1>1
<1>6. \A i \in 1 .. k - 1 : f[i] = s[i]
  BY <1>2, <1>4
<1>7. /\ Len(shown) = k /\ DOMAIN shown = 1..k /\ shown[k] = x
      /\ \A i \in 1 .. k - 1 : shown[i] = f[i]
  <2>1. f \in Seq(Int) /\ Len(f) = k - 1
    BY <1>4
  <2>2. PICK l \in Nat : l = k - 1 /\ k = l + 1
    OBVIOUS
  <2>3. PICK h : h = shown
    OBVIOUS
  <2>4. /\ h \in Seq(Int) /\ Len(h) = l + 1 /\ h[l + 1] = x
        /\ \A i \in 1..l : h[i] = f[i]
    BY <1>5, <2>1, <2>2, <2>3, AppendProperties
  <2>5. DOMAIN h = 1 .. l + 1
    BY <2>4
  <2> QED
    BY <2>2, <2>3, <2>4, <2>5
<1>8. \A i : i \in 1..k <=> i \in 1 .. k - 1 \/ i = k
  OBVIOUS
<1>9. Range(shown) = {s[i] : i \in 1 .. k - 1} \cup {x}
  BY <1>6, <1>7, <1>8 DEF Range
<1> QED
  BY <1>6, <1>7, <1>9 DEF signs_of, SeatGivenUp

\* The seats of a page show each side of the ranking that has an effect, and all but the
\* last hold the largest.
LEMMA PresentationShowsBothSides ==
    ASSUME NEW ranked, Ranked(ranked), ranked # <<>>,
           NEW shown, shown = _presented_with_both_signs(ranked)
    PROVE  LET seats == Min({PRESENTED_CONTRIBUTOR_LIMIT, Len(ranked)})
           IN  /\ Len(shown) = seats
               /\ \A i \in 1 .. seats - 1 : shown[i] = ranked[i]
               /\ SameSides(signs_of(shown), signs_of(ranked))
<1>1. PICK limit, n, seats : /\ limit = PRESENTED_CONTRIBUTOR_LIMIT /\ n = Len(ranked)
                             /\ seats = Min({PRESENTED_CONTRIBUTOR_LIMIT, Len(ranked)})
  OBVIOUS
<1>2. limit \in Nat \ {0, 1} /\ n \in Nat \ {0} /\ ranked \in Seq(Int)
  BY <1>1, PackageAssumption DEF Ranked
<1>3. seats = IF limit <= n THEN limit ELSE n
  BY <1>1, <1>2, LesserOfTwo
<1>4. seats \in 1..n /\ (n > seats => seats = limit /\ seats \in 2..n)
  BY <1>2, <1>3
<1>5. PICK presented : presented = SubSeq(ranked, 1, seats)
  OBVIOUS
<1>6. /\ presented = [i \in 1..seats |-> ranked[i]]
      /\ Len(presented) = seats
  BY <1>1, <1>2, <1>4, <1>5, FirstRows
<1>7. PICK g : g = [i \in 1..n |-> sign_of(ranked[i])]
  OBVIOUS
<1>8. SignProfile(g, n) /\ signs_of(ranked) = {g[i] : i \in 1..n}
  BY <1>1, <1>7, RankedSigns
<1>9. signs_of(presented) = {g[i] : i \in 1..seats}
  <2>1. Range(presented) = {ranked[i] : i \in 1..seats}
    BY <1>6 DEF Range
  <2>2. \A i \in 1..seats : g[i] = sign_of(ranked[i])
    BY <1>2, <1>4, <1>7
  <2> QED
    BY <2>1, <2>2 DEF signs_of
<1>10. PICK signs, missing : /\ signs = {g[i] : i \in 1..seats}
                             /\ missing = {i \in limit + 1 .. n : sign_of(ranked[i]) \notin signs}
  OBVIOUS
<1>11. shown = IF Cardinality(signs) > 1 \/ missing = {} THEN presented
               ELSE Append(Front(presented), ranked[Min(missing)])
  BY <1>1, <1>5, <1>9, <1>10 DEF _presented_with_both_signs, signs_of
<1>12. ASSUME shown = presented, SameSides(signs, signs_of(ranked))
       PROVE  /\ Len(shown) = seats
              /\ \A i \in 1 .. seats - 1 : shown[i] = ranked[i]
              /\ SameSides(signs_of(shown), signs_of(ranked))
  <2>1. \A i \in 1 .. seats - 1 : i \in 1..seats
    BY <1>4
  <2>2. \A i \in 1 .. seats - 1 : shown[i] = ranked[i]
    BY <1>6, <1>12, <2>1
  <2> QED
    BY <1>6, <1>9, <1>10, <1>12, <2>2
<1>13. CASE missing = {}
  <2>1. \A i \in seats + 1 .. n : \E j \in 1..seats : g[i] = g[j]
    <3> SUFFICES ASSUME NEW i \in seats + 1 .. n PROVE g[i] \in signs
      BY <1>10
    <3>1. i \in limit + 1 .. n /\ i \in 1..n
      BY <1>2, <1>4
    <3> QED
      BY <1>7, <1>10, <1>13, <3>1
  <2>2. signs = signs_of(ranked)
    BY <1>2, <1>4, <1>8, <1>10, <2>1, NothingMissing
  <2>3. shown = presented /\ SameSides(signs, signs_of(ranked))
    BY <1>11, <1>13, <2>2 DEF SameSides
  <2> QED
    BY <1>1, <1>12, <2>3
<1>14. CASE missing # {} /\ Cardinality(signs) > 1
  <2>1. \E i, j \in 1..seats : g[i] # g[j]
    <3>1. ASSUME \A i, j \in 1..seats : g[i] = g[j]
          PROVE  FALSE
      <4>1. 1 \in 1..seats
        BY <1>4
      <4>2. PICK sigma : sigma = g[1]
        OBVIOUS
      <4>3. signs = {sigma}
        BY <1>10, <3>1, <4>1, <4>2
      <4>4. Cardinality(signs) = 1
        BY <4>3, FS_Singleton
      <4> QED
        BY <1>14, <4>4
    <3> QED
      BY <3>1
  <2>2. PICK i \in 1..seats, j \in 1..seats : g[i] # g[j]
    BY <2>1
  <2>3. SameSides({g[k] : k \in 1..seats}, {g[k] : k \in 1..n})
    <3>1. n \in Nat /\ seats \in 1..n /\ SignProfile(g, n)
      BY <1>2, <1>4, <1>8
    <3> QED
      BY Zenon, <2>2, <3>1, TwoSignsAreEnough
  <2>4. shown = presented /\ SameSides(signs, signs_of(ranked))
    BY <1>8, <1>10, <1>11, <1>14, <2>3
  <2> QED
    BY <1>1, <1>12, <2>4
<1>15. CASE missing # {} /\ ~(Cardinality(signs) > 1)
  <2>1. missing \in SUBSET Nat
    BY <1>2, <1>10
  <2>2. PICK m : m = Min(missing)
    OBVIOUS
  <2>3. m \in missing /\ \A i \in missing : m <= i
    BY <1>15, <2>1, <2>2, LeastOf
  <2>4. m \in seats + 1 .. n /\ m \in 1..n /\ seats = limit /\ seats \in 2..n
    <3>1. m \in limit + 1 .. n
      BY <1>10, <2>3
    <3>2. m \in Nat /\ limit < m /\ m <= n
      BY <1>2, <3>1
    <3>3. seats = limit
      BY <1>2, <1>3, <3>2
    <3> QED
      BY <1>2, <3>1, <3>2, <3>3
  <2>5. PICK sigma : sigma = g[1]
    OBVIOUS
  <2>6. signs = {sigma}
    <3>1. IsFiniteSet(signs) /\ signs # {}
      <4>1. signs \subseteq {-1, 0, 1}
        BY <1>2, <1>4, <1>8, <1>10 DEF SignProfile
      <4>2. IsFiniteSet({-1, 0, 1})
        <5>1. PICK a \in Int, b \in Int : a = -1 /\ b = 1
          OBVIOUS
        <5>2. {-1, 0, 1} = a..b
          BY <5>1
        <5>3. IsFiniteSet(a..b)
          BY FS_Interval
        <5> QED
          BY <5>2, <5>3
      <4>3. 1 \in 1..seats
        BY <1>4
      <4> QED
        BY <1>10, <4>1, <4>2, <4>3, FS_Subset
    <3>2. Cardinality(signs) \in Nat /\ Cardinality(signs) # 0
      BY <3>1, FS_CardinalityType, FS_EmptySet
    <3>3. Cardinality(signs) = 1
      BY <1>15, <3>2
    <3>4. PICK e : signs = {e}
      BY <3>1, <3>3, FS_Singleton
    <3>5. sigma \in signs
      BY <1>4, <1>10, <2>5
    <3> QED
      BY <3>4, <3>5
  <2>7. \A i \in 1..seats : g[i] = sigma
    BY <1>10, <2>6
  <2>8. g[m] # sigma /\ \A i \in seats + 1 .. n : g[i] # sigma => m <= i
    <3>1. \A i \in limit + 1 .. n : i \in 1..n /\ g[i] = sign_of(ranked[i])
      BY <1>2, <1>7
    <3>2. \A i \in limit + 1 .. n : i \in missing <=> g[i] # sigma
      BY <1>10, <2>6, <3>1
    <3> QED
      BY <2>3, <2>4, <3>2
  <2>9. SameSides({g[i] : i \in 1 .. seats - 1} \cup {g[m]}, {g[i] : i \in 1..n})
    <3>1. n \in Nat /\ SignProfile(g, n)
      BY <1>2, <1>8
    <3> QED
      BY Zenon, <2>4, <2>7, <2>8, <3>1, OneSeatIsEnough
  <2>10. PICK x \in Int : x = ranked[m]
    BY <1>1, <1>2, <2>4
  <2>11. shown = Append(Front(SubSeq(ranked, 1, seats)), x)
    BY <1>5, <1>11, <1>15, <2>2, <2>10
  <2>12. SeatGivenUp(shown, ranked, seats, x)
    <3>1. seats \in 2..Len(ranked)
      BY <1>1, <2>4
    <3> QED
      BY <1>2, <2>10, <2>11, <3>1, LastReplaced
  <2>13. signs_of(shown) = {g[i] : i \in 1 .. seats - 1} \cup {g[m]}
    <3>1. \A i \in 1 .. seats - 1 : i \in 1..n /\ g[i] = sign_of(ranked[i])
      BY <1>2, <1>7, <2>4
    <3>2. g[m] = sign_of(x)
      BY <1>7, <2>4, <2>10
    <3>3. {g[i] : i \in 1 .. seats - 1} = {sign_of(ranked[i]) : i \in 1 .. seats - 1}
      BY <3>1
    <3> QED
      BY <2>12, <3>2, <3>3 DEF SeatGivenUp
  <2> QED
    BY <1>1, <1>8, <2>9, <2>12, <2>13 DEF SeatGivenUp
<1> QED
  BY <1>13, <1>14, <1>15

\* The contributors of every composed review show each side the source supplied, give up at
\* most one seat for it and hold the largest effects otherwise (_presented_with_both_signs
\* over _ranked_contributors), however many rows there are and however they tie.
THEOREM RankingsShowBothSides == PackageSpec => []RankingShowsBothSides
<1>1. PackageInv => RankingShowsBothSides
  <2> SUFFICES ASSUME PackageInv, NEW p \in reviews, p.page.contributors.posture = "ready"
               PROVE  both_sides_shown(p.page.contributors.shown, jobs[p.job].snapshot.contribution.rows)
    BY DEF RankingShowsBothSides
  <2>1. PICK x : x = jobs[p.job]
    OBVIOUS
  <2>2. p.job \in 1..Len(jobs) /\ Faithful(p, x) /\ x.order.family = "portfolio_review"
    BY <2>1 DEF reviews, composed, PackageInv, PackagesOK
  <2>3. RowOK(x)
    BY <2>1, <2>2 DEF PackageInv, JobsOK
  <2>4. x.snapshot \in Snapshots["portfolio_review"] /\ p.page = page_of(x)
    BY <2>2, <2>3 DEF RowOK, ReviewSnapshotOK, Faithful
  <2>5. PICK c, ranking : c = x.snapshot.contribution /\ ranking = p.page.contributors
    OBVIOUS
  <2>6. ranking = build_contribution_ranking(c)
    BY <2>4, <2>5 DEF page_of, _page
  <2>7. PICK ranked : ranked = _ranked_contributors(c.rows)
    OBVIOUS
  <2>8. /\ c # None /\ ranked # <<>>
        /\ ranking.shown = _presented_with_both_signs(ranked)
    BY <2>5, <2>6, <2>7 DEF build_contribution_ranking
  <2>9. PICK rows, shown : rows = c.rows /\ shown = ranking.shown
    OBVIOUS
  <2>10. Supplied(rows)
    BY <2>4, <2>5, <2>8, <2>9, PackageAssumption DEF Supplied
  <2>11. Ranked(ranked) /\ Range(ranked) = Range(rows) \ {None}
    BY <2>7, <2>9, <2>10, RankingIsRanked
  <2>12. LET seats == Min({PRESENTED_CONTRIBUTOR_LIMIT, Len(ranked)})
         IN  /\ Len(shown) = seats
             /\ \A i \in 1 .. seats - 1 : shown[i] = ranked[i]
             /\ SameSides(signs_of(shown), signs_of(ranked))
    BY <2>8, <2>9, <2>11, PresentationShowsBothSides
  <2>13. signs_of(ranked) = {sign_of(v) : v \in Range(rows) \ {None}}
    BY <2>11 DEF signs_of
  <2>14. both_sides_shown(shown, rows)
    BY <2>7, <2>9, <2>12, <2>13 DEF both_sides_shown, SameSides, signs_of
  <2> QED
    BY <2>1, <2>5, <2>9, <2>14
<1> QED
  BY <1>1, PackageInvariance, PTL

---------------------------------------------------------------------------
(* The order of the calls of a portfolio review *)

placeOf ==
    [portfolio_summary |-> 1, portfolio_detail |-> 2, asset_allocation |-> 3, income_window |-> 4,
     positions |-> 5, transactions_window |-> 6, workspace_summary |-> 7, contribution |-> 8,
     drawdown |-> 9, attribution |-> 10, risk_history |-> 11, calculate_risk |-> 12,
     risk_by_period |-> 13, rolling_metrics |-> 14, risk_attribution |-> 15, commentary |-> 16,
     compose |-> 17]

LEMMA OrderFacts ==
    /\ Len(Order) = 17
    /\ Order[1] = "portfolio_summary" /\ Order[2] = "portfolio_detail"
    /\ Order[3] = "asset_allocation" /\ Order[4] = "income_window" /\ Order[5] = "positions"
    /\ Order[6] = "transactions_window" /\ Order[7] = "workspace_summary"
    /\ Order[8] = "contribution" /\ Order[9] = "drawdown" /\ Order[10] = "attribution"
    /\ Order[11] = "risk_history" /\ Order[12] = "calculate_risk"
    /\ Order[13] = "risk_by_period" /\ Order[14] = "rolling_metrics"
    /\ Order[15] = "risk_attribution" /\ Order[16] = "commentary" /\ Order[17] = "compose"
BY DEF Order

LEMMA OrderPlaces ==
    /\ \A i \in 1..17 : placeOf[Order[i]] = i
    /\ \A i \in 1..17 : (CHOOSE k \in 1..Len(Order) : Order[k] = Order[i]) = i
<1>1. \A i \in 1..17 : placeOf[Order[i]] = i
  <2> SUFFICES ASSUME NEW i \in 1..17 PROVE placeOf[Order[i]] = i
    OBVIOUS
  <2>1. \/ i = 1 \/ i = 2 \/ i = 3 \/ i = 4 \/ i = 5 \/ i = 6 \/ i = 7 \/ i = 8 \/ i = 9
        \/ i = 10 \/ i = 11 \/ i = 12 \/ i = 13 \/ i = 14 \/ i = 15 \/ i = 16 \/ i = 17
    OBVIOUS
  <2> QED
    BY <2>1, OrderFacts DEF placeOf
<1>2. ASSUME NEW i \in 1..17, NEW k \in 1..Len(Order), Order[k] = Order[i]
      PROVE  k = i
  <2>1. k \in 1..17
    BY OrderFacts
  <2>2. placeOf[Order[k]] = k /\ placeOf[Order[i]] = i
    BY <1>1, <2>1
  <2> QED
    BY <1>2, <2>2
<1>3. \A i \in 1..17 : i \in 1..Len(Order)
  BY OrderFacts
<1> QED
  BY <1>1, <1>2, <1>3

\* The next call is the first one due after this one; the composition always is.
LEMMA AfterIsLater ==
    ASSUME NEW i \in 1..16, NEW got, NEW past, NEW periods, NEW call, call = Order[i]
    PROVE  \E j \in i + 1 .. 17 : /\ after(call, got, past, periods) = Order[j]
                                  /\ due(Order[j], got, past, periods)
<1>1. PICK next : next = {k \in i + 1 .. Len(Order) : due(Order[k], got, past, periods)}
  OBVIOUS
<1>2. 17 \in next
  <2>1. due("compose", got, past, periods)
    BY DEF due
  <2> QED
    BY <1>1, <2>1, OrderFacts
<1>3. next \in SUBSET Nat /\ next # {}
  BY <1>1, <1>2, OrderFacts
<1>4. PICK j \in next : \A k \in next : j <= k
  BY <1>3, LeastOf
<1>5. \A k \in next : (\A l \in next : k <= l) => k = j
  BY <1>3, <1>4
<1>6. (CHOOSE k \in next : \A l \in next : k <= l) = j
  BY <1>4, <1>5
<1>7. (CHOOSE k \in 1..Len(Order) : Order[k] = call) = i
  <2>1. i \in 1..17
    OBVIOUS
  <2> QED
    BY Zenon, <2>1, OrderPlaces
<1>8. after(call, got, past, periods) = Order[j]
  BY <1>1, <1>6, <1>7 DEF after
<1> QED
  BY <1>1, <1>4, <1>8, OrderFacts

\* What is due after a closed window, and the first of it.
rest_after(i, got, past, periods) ==
    {k \in i + 1 .. Len(Order) : /\ Order[k] # "transactions_window"
                                 /\ due(Order[k], got, past, periods)}
first_of(S) == CHOOSE k \in S : \A l \in S : k <= l
place_in_order(call) == CHOOSE k \in 1..Len(Order) : Order[k] = call

\* The call after a closed window is a later one, and not the window again.
LEMMA AfterTheWindow ==
    ASSUME NEW i \in 1..16, NEW got, NEW past, NEW periods, NEW call, call = Order[i]
    PROVE  /\ place_in_order(call) = i
           /\ \E j \in i + 1 .. 17 : /\ first_of(rest_after(i, got, past, periods)) = j
                                     /\ Order[j] # "transactions_window"
                                     /\ due(Order[j], got, past, periods)
<1>0. PICK rest : rest = rest_after(i, got, past, periods)
  OBVIOUS
<1>1. 17 \in rest
  <2>1. due("compose", got, past, periods)
    BY DEF due
  <2> QED
    BY <1>0, <2>1, OrderFacts DEF rest_after
<1>2. rest \in SUBSET Nat /\ rest # {}
  BY <1>0, <1>1, OrderFacts DEF rest_after
<1>3. PICK j \in rest : \A k \in rest : j <= k
  BY <1>2, LeastOf
<1>4. \A k \in rest : (\A l \in rest : k <= l) => k = j
  BY <1>2, <1>3
<1>5. first_of(rest) = j
  BY <1>3, <1>4 DEF first_of
<1>6. place_in_order(call) = i
  <2>1. i \in 1..17
    OBVIOUS
  <2> QED
    BY Zenon, <2>1, OrderPlaces DEF place_in_order
<1>7. /\ j \in i + 1 .. 17 /\ Order[j] # "transactions_window"
      /\ due(Order[j], got, past, periods)
  BY <1>0, <1>3, OrderFacts DEF rest_after
<1> QED
  BY Zenon, <1>0, <1>5, <1>6, <1>7

---------------------------------------------------------------------------
(* The transaction window *)

LEMMA SlicePrefix ==
    ASSUME NEW S, NEW s \in Seq(S), NEW k \in 0..Len(s), NEW t, t = SubSeq(s, 1, k)
    PROVE  t \in Seq(S) /\ Len(t) = k /\ \A i \in 1..k : t[i] = s[i]
<1>1. \A i \in 1..k : s[i] \in S
  OBVIOUS
<1>2. /\ t \in Seq(S) /\ Len(t) = IF 1 <= k THEN k - 1 + 1 ELSE 0
      /\ \A i \in 1 .. k - 1 + 1 : t[i] = s[1 + i - 1]
  BY <1>1, SubSeqProperties
<1>3. \A i \in 1..k : i \in 1 .. k - 1 + 1 /\ 1 + i - 1 = i
  OBVIOUS
<1> QED
  BY <1>2, <1>3

Continues(s, k, page) ==
    /\ k + Len(page) \in 0..Len(s)
    /\ SubSeq(s, 1, k) \o page = SubSeq(s, 1, k + Len(page))

\* Consecutive slices of a sequence are one slice.
LEMMA SlicesJoin ==
    ASSUME NEW S, NEW s \in Seq(S), NEW k \in 0..Len(s), NEW e \in Int, e <= Len(s),
           NEW page, page = SubSeq(s, k + 1, e)
    PROVE  Continues(s, k, page)
<1>1. \A i \in k + 1 .. e : s[i] \in S
  OBVIOUS
<1>2. /\ page \in Seq(S)
      /\ Len(page) = IF k + 1 <= e THEN e - (k + 1) + 1 ELSE 0
      /\ \A i \in 1 .. e - (k + 1) + 1 : page[i] = s[k + 1 + i - 1]
  <2>1. k + 1 \in Int
    OBVIOUS
  <2> QED
    BY <1>1, <2>1, SubSeqProperties
<1>3. PICK p \in Nat : p = Len(page) /\ p = IF e > k THEN e - k ELSE 0
  BY <1>2
<1>4. k + p \in 0..Len(s)
  BY <1>3
<1>5. \A i \in 1..p : page[i] = s[k + i]
  <2>1. \A i \in 1..p : i \in 1 .. e - (k + 1) + 1 /\ k + 1 + i - 1 = k + i
    BY <1>3
  <2> QED
    BY <1>2, <2>1
<1>6. PICK front, whole : front = SubSeq(s, 1, k) /\ whole = SubSeq(s, 1, k + p)
  OBVIOUS
<1>7. front \in Seq(S) /\ Len(front) = k /\ \A i \in 1..k : front[i] = s[i]
  BY <1>6, SlicePrefix
<1>8. whole \in Seq(S) /\ Len(whole) = k + p /\ \A i \in 1 .. k + p : whole[i] = s[i]
  BY <1>4, <1>6, SlicePrefix
<1>9. PICK joined : joined = front \o page
  OBVIOUS
<1>10. /\ joined \in Seq(S) /\ Len(joined) = k + p
       /\ \A i \in 1 .. k + p : joined[i] = IF i <= k THEN front[i] ELSE page[i - k]
  <2>1. /\ joined \in Seq(S) /\ Len(joined) = Len(front) + Len(page)
        /\ \A i \in 1 .. Len(front) + Len(page) :
              joined[i] = IF i <= Len(front) THEN front[i] ELSE page[i - Len(front)]
    BY <1>2, <1>7, <1>9, ConcatProperties
  <2> QED
    BY <1>3, <1>7, <2>1
<1>11. \A i \in 1 .. k + p : joined[i] = whole[i]
  <2> SUFFICES ASSUME NEW i \in 1 .. k + p PROVE joined[i] = whole[i]
    OBVIOUS
  <2>1. CASE i <= k
    <3>1. i \in 1..k
      BY <2>1
    <3>2. front[i] = s[i] /\ whole[i] = s[i]
      BY <1>7, <1>8, <3>1
    <3>3. joined[i] = front[i]
      BY <1>10, <2>1
    <3> QED
      BY <3>2, <3>3
  <2>2. CASE ~(i <= k)
    <3>1. i - k \in 1..p /\ k + (i - k) = i
      BY <2>2
    <3>2. page[i - k] = s[i]
      BY <1>5, <3>1
    <3> QED
      BY <1>8, <1>10, <2>2, <3>2
  <2> QED
    BY <2>1, <2>2
<1>12. joined = whole
  BY <1>8, <1>10, <1>11
<1> QED
  BY <1>3, <1>4, <1>6, <1>9, <1>12 DEF Continues

ReviewWindow ==
    [rows : Seq(TransactionRows), skip : Nat, total : Nat \cup {None}, pages : Nat,
     revision : Nat \cup {None}, conflict : BOOLEAN, quality : BOOLEAN, trusted : BOOLEAN,
     wellformed : BOOLEAN,
     stop : {None, "max_rows_reached", "max_pages_reached"}, status : {None, "ready", "partial"}]

\* The pages taken are a slice of the one revision they name, until an identity is missing
\* or another one appears, or a page is not well formed.
OneRevision(w, led) ==
    /\ w.revision \in 1..Len(led)
    /\ w.skip <= Len(led[w.revision])
    /\ w.rows = SubSeq(led[w.revision], 1, w.skip)

WindowOK(w, led) ==
    /\ w \in ReviewWindow
    /\ w.skip = Len(w.rows)
    /\ w.pages = 0 => w.rows = <<>> /\ w.revision = None
    /\ w.pages # 0 /\ w.trusted /\ ~w.conflict /\ w.wellformed => OneRevision(w, led)
    /\ w.status = "ready" /\ w.wellformed => \E i \in 1..Len(led) : w.rows = led[i]

LedgerOK(led) == led \in Seq(Ledgers) /\ Len(led) \in Nat \ {0}

LEMMA LedgerRows ==
    ASSUME NEW led, LedgerOK(led), NEW i \in 1..Len(led)
    PROVE  led[i] \in Seq(TransactionRows) /\ Len(led[i]) \in Nat
<1>1. led[i] \in Ledgers
  BY DEF LedgerOK
<1> QED
  BY <1>1, ReviewAssumption

slice(s, skip, limit) == SubSeq(s, skip + 1, least(skip + limit, Len(s)))

grown(w, page, height, wf) ==
    [w EXCEPT !.rows = @ \o page, !.skip = @ + Len(page), !.pages = @ + 1, !.total = height,
              !.wellformed = wf]

stamp(w, rv, cf, ql, tr) ==
    [w EXCEPT !.revision = rv, !.conflict = cf, !.quality = ql, !.trusted = tr]

Stamped(t, w, rv, cf, ql, tr) ==
    /\ t \in ReviewWindow /\ t.rows = w.rows /\ t.skip = w.skip
    /\ t.pages = w.pages /\ t.total = w.total /\ t.revision = rv
    /\ t.conflict = cf /\ t.quality = ql /\ t.trusted = tr
    /\ t.status = w.status /\ t.wellformed = w.wellformed

LEMMA Restamped ==
    ASSUME NEW w \in ReviewWindow, NEW rv \in Nat \cup {None}, NEW cf \in BOOLEAN,
           NEW ql \in BOOLEAN, NEW tr \in BOOLEAN
    PROVE  Stamped(stamp(w, rv, cf, ql, tr), w, rv, cf, ql, tr)
BY DEF ReviewWindow, Stamped, stamp

Took(taken, led, now) ==
    /\ WindowOK(taken, led) /\ taken.status = None /\ taken.pages # 0
    /\ taken.wellformed => taken.total = Len(now)
    /\ taken.trusted /\ ~taken.conflict /\ taken.wellformed => taken.revision = Len(led)

\* One page: what is taken from the newest revision continues the slice, or the window is
\* marked.
LEMMA PageIsTaken ==
    ASSUME NEW led, led = ledger, LedgerOK(led), NEW w, WindowOK(w, led), w.status = None,
           NEW answer, NEW limit \in Int, NEW now, now = led[Len(led)],
           NEW page, page = rows_of(slice(now, w.skip, limit), answer),
           NEW wf, wf = (w.wellformed /\ answer \notin {"untotalled", "ragged"}),
           NEW more, more = grown(w, page, _to_int_total(answer), wf),
           NEW taken, taken = merge_transaction_source_product(more, answer)
    PROVE  Took(taken, led, now)
<1>1. PICK n \in Nat \ {0} : n = Len(led)
  BY DEF LedgerOK
<1>2. now \in Seq(TransactionRows) /\ Len(now) \in Nat
  BY <1>1, LedgerRows
<1>0. w \in ReviewWindow /\ w.rows \in Seq(TransactionRows) /\ w.skip \in Nat /\ w.pages \in Nat
      /\ w.revision \in Nat \cup {None}
      /\ {w.conflict, w.quality, w.trusted, w.wellformed} \subseteq BOOLEAN /\ w.skip = Len(w.rows)
  BY DEF WindowOK, ReviewWindow
<1>3. PICK k \in Nat, h \in Nat, e \in Int :
         /\ k = w.skip /\ h = Len(now) /\ e <= h
         /\ page = rows_of(SubSeq(now, k + 1, e), answer)
  <2>1. PICK k \in Nat, h \in Nat : k = w.skip /\ h = Len(now)
    BY <1>0, <1>2
  <2>2. PICK e : e = least(k + limit, h)
    OBVIOUS
  <2>3. e \in Int /\ e <= h
    BY <2>2 DEF least
  <2> QED
    BY <2>1, <2>2, <2>3 DEF slice
<1>19. PICK whole : whole = SubSeq(now, k + 1, e)
  OBVIOUS
<1>4. page \in Seq(TransactionRows) /\ Len(page) \in Nat
  <2>1. \A i \in k + 1 .. e : now[i] \in TransactionRows
    BY <1>2, <1>3
  <2>2. k + 1 \in Int
    OBVIOUS
  <2>3. whole \in Seq(TransactionRows) /\ Len(whole) \in Nat
    BY <1>19, <2>1, <2>2, SubSeqProperties
  <2>4. PICK l \in Nat : l = Len(whole)
    BY <2>3
  <2>8. PICK tail : tail = SubSeq(whole, 2, l)
    OBVIOUS
  <2>5. \A i \in 2..l : whole[i] \in TransactionRows
    BY <2>3, <2>4
  <2>6. tail \in Seq(TransactionRows)
    BY <2>3, <2>8, <2>5, SubSeqProperties
  <2>7. page = whole \/ page = tail
    BY <1>3, <1>19, <2>4, <2>8 DEF rows_of
  <2> QED
    BY <2>3, <2>6, <2>7
<1>17. wf \in BOOLEAN /\ (wf => w.wellformed /\ page = whole)
  BY <1>0, <1>3, <1>19 DEF rows_of
<1>18. PICK total \in Nat : total = _to_int_total(answer) /\ (wf => total = h)
  BY <1>3 DEF _to_int_total
<1>5. PICK p \in Nat : p = Len(page)
  BY <1>4
<1>6. PICK rows : rows = w.rows \o page
  OBVIOUS
<1>7. rows \in Seq(TransactionRows) /\ Len(rows) = k + p
  <2>1. PICK front \in Seq(TransactionRows) : front = w.rows /\ Len(front) = k
    BY <1>0, <1>3
  <2>2. front \o page \in Seq(TransactionRows) /\ Len(front \o page) = Len(front) + Len(page)
    BY <1>4, ConcatProperties
  <2> QED
    BY <1>5, <1>6, <2>1, <2>2
<1>8. more = [w EXCEPT !.rows = rows, !.skip = k + p, !.pages = w.pages + 1, !.total = total,
                       !.wellformed = wf]
  BY <1>0, <1>3, <1>5, <1>6, <1>18 DEF grown, ReviewWindow
<1>9. /\ more \in ReviewWindow /\ more.rows = rows /\ more.skip = k + p
      /\ more.pages = w.pages + 1 /\ more.total = total /\ more.revision = w.revision
      /\ more.conflict = w.conflict /\ more.quality = w.quality /\ more.trusted = w.trusted
      /\ more.stop = w.stop /\ more.status = None /\ more.wellformed = wf
  <2>1. k + p \in Nat /\ w.pages + 1 \in Nat /\ total \in Nat \cup {None}
    BY <1>0
  <2> QED
    BY <1>0, <1>7, <1>8, <1>17, <2>1 DEF ReviewWindow
<1>11. PICK states \in BOOLEAN : states = (answer # "untrusted")
  OBVIOUS
<1>12. /\ taken \in ReviewWindow /\ taken.rows = rows /\ taken.skip = k + p
       /\ taken.pages = w.pages + 1 /\ taken.total = total /\ taken.wellformed = wf
       /\ taken.revision = IF w.revision = None /\ states THEN n ELSE w.revision
       /\ taken.conflict = (w.conflict \/ (states /\ w.revision # None /\ w.revision # n))
       /\ taken.quality = (w.quality /\ answer # "partial")
       /\ taken.trusted = (w.trusted /\ states)
       /\ taken.status = None
  <2>1. PICK rv, cf, ql, tr : /\ rv = IF w.revision = None /\ states THEN n ELSE w.revision
                              /\ cf = (w.conflict \/ (states /\ w.revision # None /\ w.revision # n))
                              /\ ql = (w.quality /\ answer # "partial")
                              /\ tr = (w.trusted /\ states)
    OBVIOUS
  <2>2. rv \in Nat \cup {None} /\ cf \in BOOLEAN /\ ql \in BOOLEAN /\ tr \in BOOLEAN
    BY <1>0, <2>1
  <2>3. taken = stamp(more, rv, cf, ql, tr)
    <3>1. rv = IF more.revision = None /\ answer # "untrusted" THEN Len(ledger) ELSE more.revision
      BY <1>1, <1>9, <1>11, <2>1
    <3>2. cf = (more.conflict \/ (answer # "untrusted" /\ more.revision # None
                                    /\ more.revision # Len(ledger)))
      BY <1>1, <1>9, <1>11, <2>1
    <3>3. ql = (more.quality /\ answer # "partial") /\ tr = (more.trusted /\ answer # "untrusted")
      BY <1>9, <1>11, <2>1
    <3> QED
      BY Zenon, <3>1, <3>2, <3>3 DEF merge_transaction_source_product, stamp
  <2>4. Stamped(taken, more, rv, cf, ql, tr)
    <3>1. more \in ReviewWindow
      BY <1>9
    <3> QED
      BY <2>2, <2>3, <3>1, Restamped
  <2> QED
    BY <1>9, <2>1, <2>4 DEF Stamped
<1>13. taken.pages # 0
  BY <1>0, <1>12
<1>14. ASSUME taken.trusted, ~taken.conflict, taken.wellformed
       PROVE  taken.revision = n /\ OneRevision(taken, led)
  <2>1. /\ states /\ w.trusted /\ ~w.conflict /\ (w.revision = None \/ w.revision = n)
        /\ w.wellformed /\ page = SubSeq(now, k + 1, e)
    BY <1>0, <1>12, <1>14, <1>17, <1>19
  <2>2. taken.revision = n
    BY <1>12, <2>1
  <2>3. k \in 0..h /\ w.rows = SubSeq(now, 1, k)
    <3>1. CASE w.pages = 0
      <4>1. w.rows = <<>> /\ k = 0
        BY <1>0, <1>3, <3>1 DEF WindowOK
      <4>2. SubSeq(now, 1, 0) = <<>>
        BY <1>2, SubSeqEmpty
      <4> QED
        BY <4>1, <4>2
    <3>2. CASE w.pages # 0
      <4>1. OneRevision(w, led)
        BY <2>1, <3>2 DEF WindowOK
      <4>2. w.revision = n
        BY <2>1, <4>1, ReviewAssumption DEF OneRevision
      <4> QED
        BY <1>1, <1>3, <4>1, <4>2 DEF OneRevision
    <3> QED
      BY <3>1, <3>2
  <2>5. k + p \in 0..h /\ SubSeq(now, 1, k) \o page = SubSeq(now, 1, k + p)
    <3>1. k \in 0..Len(now) /\ e <= Len(now)
      BY <1>3, <2>3
    <3>2. PICK s \in Seq(TransactionRows) : s = now
      BY <1>2
    <3>3. k \in 0..Len(s) /\ e <= Len(s) /\ page = SubSeq(s, k + 1, e)
      BY <1>3, <2>1, <3>1, <3>2
    <3>4. Continues(s, k, page)
      BY <3>3, SlicesJoin
    <3> QED
      BY <1>3, <1>5, <3>2, <3>4 DEF Continues
  <2>6. rows = SubSeq(now, 1, k + p)
    BY <1>6, <2>3, <2>5
  <2>7. k + p <= h /\ n \in 1..n
    BY <2>5
  <2> QED
    BY <1>1, <1>3, <1>12, <2>2, <2>6, <2>7 DEF OneRevision
<1>15. WindowOK(taken, led)
  BY <1>1, <1>3, <1>7, <1>12, <1>13, <1>14, ReviewAssumption DEF WindowOK
<1> QED
  BY <1>1, <1>3, <1>12, <1>13, <1>14, <1>15, <1>18 DEF Took

\* A window that closes as ready is the whole of the newest revision.
LEMMA WindowCloses ==
    ASSUME NEW led, LedgerOK(led), NEW t, WindowOK(t, led), t.pages # 0,
           NEW now, now = led[Len(led)], t.wellformed => t.total = Len(now),
           t.trusted /\ ~t.conflict /\ t.wellformed => t.revision = Len(led),
           NEW stop \in {None, "max_rows_reached", "max_pages_reached"},
           NEW c, c = close(t, stop)
    PROVE  WindowOK(c, led) /\ c.status \in {"ready", "partial"} /\ c.status # None
<1>1. t \in ReviewWindow /\ t.wellformed \in BOOLEAN
  BY DEF WindowOK, ReviewWindow
<1>2. PICK d : d = [t EXCEPT !.stop = stop]
  OBVIOUS
<1>3. /\ d \in ReviewWindow /\ d.rows = t.rows /\ d.skip = t.skip /\ d.total = t.total
      /\ d.pages = t.pages /\ d.revision = t.revision /\ d.conflict = t.conflict
      /\ d.quality = t.quality /\ d.trusted = t.trusted /\ d.stop = stop /\ d.status = t.status
      /\ d.wellformed = t.wellformed
  BY <1>1, <1>2 DEF ReviewWindow
<1>4. PICK status : status = transaction_window_supportability(d)
  OBVIOUS
<1>5. /\ status \in {"ready", "partial"}
      /\ status = "ready" =>
            /\ t.trusted /\ ~t.conflict /\ ~(Len(t.rows) < t.total)
  BY <1>3, <1>4 DEF transaction_window_supportability, transaction_source_product_supportability_notes
<1>6. c = [d EXCEPT !.status = status]
  BY <1>2, <1>4 DEF close
<1>7. /\ c \in ReviewWindow /\ c.rows = d.rows /\ c.skip = d.skip
      /\ c.pages = d.pages /\ c.revision = d.revision /\ c.conflict = d.conflict
      /\ c.wellformed = d.wellformed /\ c.trusted = d.trusted /\ c.status = status
  BY <1>3, <1>5, <1>6 DEF ReviewWindow
<1>8. ASSUME status = "ready", t.wellformed
      PROVE  \E i \in 1..Len(led) : c.rows = led[i]
  <2>1. t.trusted /\ ~t.conflict /\ ~(Len(t.rows) < t.total)
    BY <1>5, <1>8
  <2>2. t.revision = Len(led) /\ OneRevision(t, led)
    BY <1>8, <2>1 DEF WindowOK
  <2>3. PICK n \in Nat \ {0}, h \in Nat, k \in Nat : n = Len(led) /\ h = Len(now) /\ k = t.skip
    BY <1>1, LedgerRows DEF LedgerOK, ReviewWindow
  <2>4. now \in Seq(TransactionRows)
    BY <2>3, LedgerRows
  <2>5. k <= h /\ t.rows = SubSeq(now, 1, k) /\ k = Len(t.rows)
    BY <2>2, <2>3 DEF OneRevision, WindowOK
  <2>6. k = h
    <3>1. k = Len(t.rows) /\ h = t.total
      BY <1>8, <2>3, <2>5
    <3>2. ~(k < h)
      BY <2>1, <3>1
    <3> QED
      BY <2>5, <3>2
  <2>7. PICK rows : rows = t.rows
    OBVIOUS
  <2>8. rows \in Seq(TransactionRows) /\ Len(rows) = h /\ \A i \in 1..h : rows[i] = now[i]
    <3>1. h \in 0..Len(now)
      BY <2>3
    <3> QED
      BY <2>4, <2>5, <2>6, <2>7, <3>1, SlicePrefix
  <2>9. rows = now
    BY <2>3, <2>4, <2>8
  <2>10. n \in 1..n
    OBVIOUS
  <2> QED
    BY <1>3, <1>7, <2>1, <2>3, <2>7, <2>9, <2>10
<1>9. OneRevision(t, led) => OneRevision(c, led)
  BY <1>3, <1>7 DEF OneRevision
<1> QED
  BY <1>3, <1>5, <1>7, <1>8, <1>9, ReviewAssumption DEF WindowOK

LEMMA NewerLedger ==
    ASSUME NEW led, LedgerOK(led), NEW l \in Ledgers, NEW longer, longer = Append(led, l),
           NEW w, WindowOK(w, led)
    PROVE  LedgerOK(longer) /\ WindowOK(w, longer)
<1>1. PICK n \in Nat \ {0} : n = Len(led)
  BY DEF LedgerOK
<1>2. /\ longer \in Seq(Ledgers) /\ Len(longer) = n + 1
      /\ \A i \in 1..n : longer[i] = led[i]
  BY <1>1, AppendProperties DEF LedgerOK
<1>3. \A i \in 1..n : i \in 1..Len(longer)
  BY <1>2
<1>4. OneRevision(w, led) => OneRevision(w, longer)
  BY <1>1, <1>2, <1>3 DEF OneRevision
<1>5. (\E i \in 1..Len(led) : w.rows = led[i]) => \E i \in 1..Len(longer) : w.rows = longer[i]
  BY <1>1, <1>2, <1>3
<1> QED
  BY <1>2, <1>4, <1>5 DEF LedgerOK, WindowOK

---------------------------------------------------------------------------
(* What the composition knows at each call *)

CallNames == {Order[i] : i \in 1..17}
Paged == {"income_window", "transactions_window"}
Early == {"portfolio_summary", "portfolio_detail", "asset_allocation"} \cup Paged

\* A call is made for a section that was ordered.
Needs(call) ==
    /\ call = "asset_allocation" => asked("ALLOCATION")
    /\ call = "income_window" =>
          asked("INCOME_AND_ACTIVITY") \/ asked("INCOME") \/ asked("ACTIVITY")
    /\ call = "positions" => asked("HOLDINGS") \/ asked("PNL")
    /\ call = "transactions_window" => asked("TRANSACTIONS") \/ asked("PNL")
    /\ call = "workspace_summary" => asked("PERFORMANCE")
    /\ call = "attribution" => asked("PERFORMANCE_ATTRIBUTION")
    /\ call \in {"calculate_risk", "risk_by_period", "rolling_metrics"} => asked("RISK_ANALYTICS")
    /\ call = "risk_attribution" => asked("RISK_ATTRIBUTION")
    /\ call = "commentary" => request.brief

\* Recorded calls are behind; only a window asks the same call again.
Behind(name) == placeOf[name] < placeOf[pc] \/ (name = pc /\ pc \in Paged)

PathOK ==
    /\ request \in Requests
    /\ pc \in CallNames \cup {"ended"}
    /\ window.status # None => pc \notin Early
    /\ \A c \in calls : c[1] \in CallNames
    /\ pc # "ended" => /\ outcome = "composing" /\ Needs(pc)
                       /\ \A c \in calls : Behind(c[1])

Supports == {None, "ready", "present", "partial", "unavailable", "pending", "included", "not_sourced"}
RiskStates == {"ready", "degraded", "empty"}

\* An ordered section that cannot be shown as it should.
Short(s) == asked(s) /\ response[s] \in {None, "partial", "unavailable", "pending"}

AnswersOK ==
    /\ response \in [Sections \cup Panels -> Supports]
    /\ response["RISK_ANALYTICS"] \in {None, "ready", "partial", "unavailable"}
    /\ response["ADVISOR_COMMENTARY"] = None
    /\ risk \in [left : SUBSET RiskPeriods, states : SUBSET RiskStates, failed : BOOLEAN]
    /\ request.kind = "review" /\ window.status = "partial" =>
          \E s \in {"INCOME_AND_ACTIVITY", "TRANSACTIONS"} : asked(s) /\ response[s] = "partial"

\* Risk is calculated at once, or period by period; a fault of a period is kept.
RiskOK ==
    /\ pc # "ended" /\ placeOf[pc] <= 12 =>
          /\ risk.left = {} /\ risk.states = {} /\ ~risk.failed
          /\ response["RISK_ANALYTICS"] = None
    /\ pc = "risk_by_period" => response["RISK_ANALYTICS"] = None
    /\ (risk.states \subseteq {"ready"} /\ ~risk.failed) \/ Short("RISK_ANALYTICS")

\* A recorded call that failed, or a risk result that is not complete.
Faulty(c) ==
    \/ c[2] \in {"error", "unavailable"}
    \/ c[2] # "complete" /\ c[1] \in {"calculate_risk", "rolling_metrics"}

\* What a faulty call leaves behind when it does not end the composition.
Spoils(name) ==
    \/ name \in Unshown
    \/ name = "workspace_summary" /\ Short("PERFORMANCE")
    \/ name = "attribution" /\ Short("PERFORMANCE_ATTRIBUTION")
    \/ name = "calculate_risk" /\ (Short("RISK_ANALYTICS") \/ (risk.states # {} /\ ~risk.failed))
    \/ name = "rolling_metrics" /\ Short("RISK_ANALYTICS")
    \/ name = "risk_attribution" /\ Short("RISK_ATTRIBUTION")
    \/ name = "commentary" /\ Short("ADVISOR_COMMENTARY")

CallsOK ==
    request.kind = "review" /\ pc # "ended" =>
        \A c \in calls : Faulty(c) => Spoils(c[1])

\* The performance section is written by the workspace summary and by no call before it.
PerformanceOK == pc # "ended" /\ placeOf[pc] <= 7 => response["PERFORMANCE"] = None

ReviewInv ==
    /\ PathOK /\ LedgerOK(ledger) /\ WindowOK(window, ledger)
    /\ AnswersOK /\ RiskOK /\ PerformanceOK /\ CallsOK
    /\ ClientReadyRestsOnAnswers

---------------------------------------------------------------------------
(* Going on to the next call *)

LEMMA NamesHavePlaces ==
    /\ \A c \in CallNames : placeOf[c] \in 1..17 /\ Order[placeOf[c]] = c
    /\ "ended" \notin CallNames /\ "compose" \in CallNames
    /\ {"portfolio_summary", "portfolio_detail", "asset_allocation", "income_window",
        "positions", "transactions_window", "workspace_summary", "contribution", "drawdown",
        "attribution", "risk_history", "calculate_risk", "risk_by_period", "rolling_metrics",
        "risk_attribution", "commentary"} \subseteq CallNames
<1>1. \A c \in CallNames : placeOf[c] \in 1..17 /\ Order[placeOf[c]] = c
  BY OrderPlaces DEF CallNames
<1>2. \A i \in 1..17 : Order[i] \in CallNames
  BY DEF CallNames
<1>3. \A i \in 1..17 : Order[i] # "ended"
  <2> SUFFICES ASSUME NEW i \in 1..17 PROVE Order[i] # "ended"
    OBVIOUS
  <2>1. \/ i = 1 \/ i = 2 \/ i = 3 \/ i = 4 \/ i = 5 \/ i = 6 \/ i = 7 \/ i = 8 \/ i = 9
        \/ i = 10 \/ i = 11 \/ i = 12 \/ i = 13 \/ i = 14 \/ i = 15 \/ i = 16 \/ i = 17
    OBVIOUS
  <2> QED
    BY <2>1, OrderFacts
<1>4. /\ Order[1] \in CallNames /\ Order[2] \in CallNames /\ Order[3] \in CallNames
      /\ Order[4] \in CallNames /\ Order[5] \in CallNames /\ Order[6] \in CallNames
      /\ Order[7] \in CallNames /\ Order[8] \in CallNames /\ Order[9] \in CallNames
      /\ Order[10] \in CallNames /\ Order[11] \in CallNames /\ Order[12] \in CallNames
      /\ Order[13] \in CallNames /\ Order[14] \in CallNames /\ Order[15] \in CallNames
      /\ Order[16] \in CallNames /\ Order[17] \in CallNames
  BY <1>2
<1>5. "ended" \notin CallNames
  BY <1>3 DEF CallNames
<1> QED
  BY <1>1, <1>4, <1>5, OrderFacts

LEMMA EarlyPlaces ==
    \A c \in CallNames : c \in Early <=> placeOf[c] <= 4 \/ c = "transactions_window"
<1> SUFFICES ASSUME NEW i \in 1..17
             PROVE  Order[i] \in Early <=> i <= 4 \/ Order[i] = "transactions_window"
  BY OrderPlaces DEF CallNames
<1>1. \/ i = 1 \/ i = 2 \/ i = 3 \/ i = 4 \/ i = 5 \/ i = 6 \/ i = 7 \/ i = 8 \/ i = 9
      \/ i = 10 \/ i = 11 \/ i = 12 \/ i = 13 \/ i = 14 \/ i = 15 \/ i = 16 \/ i = 17
  OBVIOUS
<1> QED
  BY <1>1, OrderFacts DEF Early, Paged

LEMMA AskedAgain ==
    ASSUME request' = request
    PROVE  (\A s : asked(s)' <=> asked(s)) /\ (\A c : Needs(c)' <=> Needs(c))
<1>1. \A s : asked(s)' <=> asked(s)
  BY DEF asked, _requested_sections
<1> QED
  BY <1>1 DEF Needs

LEMMA DueIsNeeded ==
    ASSUME NEW call, NEW got, NEW past, NEW periods, due(call, got, past, periods)
    PROVE  /\ Needs(call)
           /\ call = "risk_by_period" => periods.left # {}
           /\ call = "transactions_window" => window.status = None
BY DEF due, Needs

\* A later call keeps the path.
LEMMA PathStep ==
    ASSUME PathOK, pc \in CallNames, pc' \in CallNames, placeOf[pc] < placeOf[pc'],
           request' = request, outcome' = outcome, Needs(pc'),
           window'.status # None => pc' \notin Early,
           NEW rec \in CallNames, placeOf[rec] <= placeOf[pc], NEW p,
           calls' \subseteq calls \cup {<<rec, p>>}
    PROVE  PathOK'
<1>1. Needs(pc)'
  BY AskedAgain
<1>2. pc # "ended" /\ pc' # "ended"
  BY NamesHavePlaces
<1>3. \A c \in calls' : c[1] \in CallNames /\ placeOf[c[1]] <= placeOf[pc]
  BY <1>2, NamesHavePlaces DEF PathOK, Behind
<1>4. \A c \in calls' : placeOf[c[1]] < placeOf[pc']
  BY <1>3, NamesHavePlaces
<1> QED
  BY <1>1, <1>2, <1>3, <1>4 DEF PathOK, Behind

LEMMA AdvancePath ==
    ASSUME PathOK, NEW call \in CallNames, call # "compose", pc = call,
           NEW got, NEW past, NEW periods, proceed(call, got, past, periods),
           request' = request, window' = window,
           NEW rec \in CallNames, placeOf[rec] <= placeOf[call], NEW p,
           calls' \subseteq calls \cup {<<rec, p>>}
    PROVE  /\ PathOK' /\ pc' \in CallNames /\ placeOf[call] < placeOf[pc']
           /\ pc' = "risk_by_period" => periods.left # {}
<1>1. PICK i \in 1..16 : call = Order[i] /\ placeOf[call] = i
  <2>1. placeOf[call] \in 1..17 /\ Order[placeOf[call]] = call
    BY NamesHavePlaces
  <2>2. placeOf[call] # 17
    BY <2>1, OrderFacts
  <2> QED
    BY <2>1, <2>2
<1>2. PICK j \in i + 1 .. 17 : /\ after(call, got, past, periods) = Order[j]
                               /\ due(Order[j], got, past, periods)
  BY <1>1, AfterIsLater
<1>3. pc' = Order[j] /\ outcome' = outcome
  BY <1>2 DEF proceed
<1>4. j \in 1..17 /\ i < j
  OBVIOUS
<1>5. placeOf[pc'] = j /\ pc' \in CallNames
  BY <1>3, <1>4, OrderPlaces DEF CallNames
<1>6. /\ Needs(pc') /\ (pc' = "risk_by_period" => periods.left # {})
      /\ (pc' = "transactions_window" => window.status = None)
  BY <1>2, <1>3, DueIsNeeded
<1>7. window'.status # None => pc' \notin Early
  <2> SUFFICES ASSUME window.status # None PROVE pc' \notin Early
    OBVIOUS
  <2>1. call \notin Early
    BY DEF PathOK
  <2>2. ~(i <= 4)
    BY <1>1, <2>1, EarlyPlaces
  <2>3. ~(j <= 4) /\ pc' # "transactions_window"
    BY <1>4, <1>6, <2>2
  <2> QED
    BY <1>5, <2>3, EarlyPlaces
<1> QED
  BY <1>1, <1>3, <1>4, <1>5, <1>6, <1>7, PathStep

---------------------------------------------------------------------------
(* Steps of the composition *)

LEMMA ReadyClaimStands ==
    ASSUME outcome' # "composed"
    PROVE  ClientReadyRestsOnAnswers'
BY DEF ClientReadyRestsOnAnswers, review_composed

\* A mandatory source failed.
LEMMA FailStep ==
    ASSUME ReviewInv, NEW answer, fail(reporting_error(answer)),
           UNCHANGED <<request, ledger, window>>,
           \A c \in calls' : c[1] \in CallNames
    PROVE  ReviewInv'
<1>1. outcome' # "composed"
  BY DEF fail, reporting_error
<1>2. PathOK'
  BY DEF fail, ReviewInv, PathOK, Early, Paged
<1>3. LedgerOK(ledger)' /\ WindowOK(window, ledger)'
  BY DEF ReviewInv, LedgerOK, WindowOK, OneRevision
<1>4. UNCHANGED <<response, risk>> /\ pc' = "ended"
  BY DEF fail
<1>5. AnswersOK'
  BY <1>4, AskedAgain DEF ReviewInv, AnswersOK
<1>6. RiskOK'
  BY <1>4, AskedAgain DEF ReviewInv, RiskOK, Short
<1>7. CallsOK' /\ PerformanceOK'
  BY <1>4 DEF CallsOK, PerformanceOK
<1> QED
  BY <1>1, <1>2, <1>3, <1>5, <1>6, <1>7, ReadyClaimStands DEF ReviewInv

SectionOf ==
    [workspace_summary |-> "PERFORMANCE", attribution |-> "PERFORMANCE_ATTRIBUTION",
     calculate_risk |-> "RISK_ANALYTICS", rolling_metrics |-> "RISK_ANALYTICS",
     risk_attribution |-> "RISK_ATTRIBUTION", commentary |-> "ADVISOR_COMMENTARY"]

\* What an earlier call left behind stays while its section does.
LEMMA SpoilsKept ==
    ASSUME NEW n, Spoils(n), UNCHANGED <<request, risk>>,
           n \in DOMAIN SectionOf => response'[SectionOf[n]] = response[SectionOf[n]]
    PROVE  Spoils(n)'
BY AskedAgain DEF Spoils, Short, SectionOf

\* An answered call that leaves the risk section and the window alone.
LEMMA PlainCallStep ==
    ASSUME ReviewInv, NEW call \in CallNames \ Paged, call # "compose", pc = call,
           placeOf[call] # 13,
           NEW got, NEW past, proceed(call, got, past, risk),
           UNCHANGED <<request, ledger, window>>,
           NEW p, calls' \subseteq calls \cup {<<call, p>>},
           got \in [Sections \cup Panels -> Supports],
           \A s \in {"RISK_ANALYTICS", "ADVISOR_COMMENTARY", "INCOME_AND_ACTIVITY", "TRANSACTIONS"} :
              got[s] = response[s],
           \A n \in DOMAIN SectionOf : placeOf[n] < placeOf[call] => got[SectionOf[n]] = response[SectionOf[n]],
           placeOf[call] < 7 => got["PERFORMANCE"] = response["PERFORMANCE"],
           request.kind = "review" /\ Faulty(<<call, p>>) => Spoils(call)'
    PROVE  ReviewInv'
<1>1. response' = got /\ risk' = risk /\ outcome' = outcome
  BY DEF proceed
<1>2. /\ PathOK' /\ pc' \in CallNames /\ placeOf[call] < placeOf[pc']
      /\ pc' = "risk_by_period" => risk.left # {}
  <2>1. PICK periods : periods = risk
    OBVIOUS
  <2>2. proceed(call, got, past, periods)
    BY <2>1
  <2>3. placeOf[call] <= placeOf[call]
    BY NamesHavePlaces
  <2> QED
    BY <2>1, <2>2, <2>3, AdvancePath DEF ReviewInv
<1>3. call # "ended" /\ outcome = "composing"
  BY NamesHavePlaces DEF ReviewInv, PathOK
<1>4. LedgerOK(ledger)' /\ WindowOK(window, ledger)'
  BY DEF ReviewInv, LedgerOK, WindowOK, OneRevision
<1>5. AnswersOK'
  BY <1>1, AskedAgain DEF ReviewInv, AnswersOK
<1>6. Short("RISK_ANALYTICS")' <=> Short("RISK_ANALYTICS")
  BY <1>1, AskedAgain DEF Short
<1>7. RiskOK'
  <2>1. placeOf[call] \in Int /\ placeOf[pc'] \in Int
    BY <1>2, NamesHavePlaces
  <2>2. placeOf[pc'] <= 12 => placeOf[call] <= 12
    BY <1>2, <2>1
  <2>3. pc' = "risk_by_period" => placeOf[call] <= 12
    BY <1>2, <2>1 DEF placeOf
  <2> QED
    BY <1>1, <1>3, <1>6, <2>2, <2>3 DEF ReviewInv, RiskOK
<1>9. PerformanceOK'
  <2>1. placeOf[call] \in Int /\ placeOf[pc'] \in Int
    BY <1>2, NamesHavePlaces
  <2>2. placeOf[pc'] <= 7 => placeOf[call] < 7
    BY <1>2, <2>1
  <2> QED
    BY <1>1, <1>3, <2>1, <2>2 DEF ReviewInv, PerformanceOK
<1>8. CallsOK'
  <2> SUFFICES ASSUME request.kind = "review", NEW c \in calls', Faulty(c)
               PROVE  Spoils(c[1])'
    BY DEF CallsOK
  <2>1. CASE c \in calls
    <3>1. PICK n : n = c[1]
      OBVIOUS
    <3>2. Spoils(n) /\ n \in CallNames
      BY <1>3, <2>1, <3>1 DEF ReviewInv, CallsOK, PathOK
    <3>3. placeOf[n] < placeOf[call]
      BY <1>3, <2>1, <3>1 DEF ReviewInv, PathOK, Behind
    <3>4. n \in DOMAIN SectionOf => response'[SectionOf[n]] = response[SectionOf[n]]
      BY <1>1, <3>3
    <3> QED
      BY <1>1, <3>1, <3>2, <3>4, SpoilsKept
  <2>2. CASE c = <<call, p>>
    BY <2>2
  <2> QED
    BY <2>1, <2>2
<1> QED
  BY <1>1, <1>2, <1>3, <1>4, <1>5, <1>7, <1>8, <1>9, ReadyClaimStands DEF ReviewInv

Reserved == {"RISK_ANALYTICS", "ADVISOR_COMMENTARY", "INCOME_AND_ACTIVITY", "TRANSACTIONS"}

\* An answered call that writes one part of the response.
LEMMA PutStep ==
    ASSUME ReviewInv, NEW call \in CallNames \ Paged, call # "compose", pc = call,
           placeOf[call] # 13,
           NEW s \in (Sections \cup Panels) \ Reserved, NEW v \in Supports, NEW past,
           proceed(call, put(s, v), past, risk),
           UNCHANGED <<request, ledger, window>>,
           NEW p, calls' \subseteq calls \cup {<<call, p>>},
           \A n \in DOMAIN SectionOf : placeOf[n] < placeOf[call] => SectionOf[n] # s,
           placeOf[call] < 7 => s # "PERFORMANCE",
           request.kind = "review" /\ Faulty(<<call, p>>) => Spoils(call)'
    PROVE  ReviewInv'
<1>1. PICK got : got = put(s, v)
  OBVIOUS
<1>2. response \in [Sections \cup Panels -> Supports]
  BY DEF ReviewInv, AnswersOK
<1>3. /\ got \in [Sections \cup Panels -> Supports]
      /\ \A t \in Sections \cup Panels : t # s => got[t] = response[t]
  BY <1>1, <1>2 DEF put
<1>4. \A n \in DOMAIN SectionOf : SectionOf[n] \in Sections
  BY DEF SectionOf, Sections
<1>5. \A n \in DOMAIN SectionOf :
         placeOf[n] < placeOf[call] => got[SectionOf[n]] = response[SectionOf[n]]
  BY <1>3, <1>4
<1>6. \A t \in Reserved : got[t] = response[t]
  BY <1>3 DEF Reserved, Sections
<1>7. proceed(call, got, past, risk)
  BY <1>1
<1>8. placeOf[call] < 7 => got["PERFORMANCE"] = response["PERFORMANCE"]
  BY <1>3 DEF Sections
<1> QED
  BY <1>3, <1>5, <1>6, <1>7, <1>8, PlainCallStep DEF Reserved

\* What a call may leave in the record: nothing, or itself with one posture.
Recording(call, answer, p) ==
    /\ calls' \subseteq calls \cup {<<call, p>>}
    /\ p \in IF answer = "broken" THEN append_failure ELSE append_success(call, answer)

LEMMA RecordedOnce ==
    ASSUME NEW call, NEW answer, _record(call, answer)
    PROVE  \E p : Recording(call, answer, p)
<1>1. PICK some : some = IF answer = "broken" THEN append_failure ELSE append_success(call, answer)
  OBVIOUS
<1>2. CASE \E c \in call_record(call, answer) : calls' = calls \cup {c}
  BY <1>1, <1>2 DEF call_record, Recording
<1>3. CASE UNCHANGED calls
  <2>1. some # {}
    <3>1. {"unavailable", "error", "redacted"} \cap some # {} \/ some = append_success(call, answer)
      BY <1>1 DEF append_failure
    <3>2. append_success(call, answer) # {}
      BY DEF append_success, _classify_call, Failures
    <3> QED
      BY <3>1, <3>2
  <2> QED
    BY <1>1, <1>3, <2>1 DEF Recording
<1> QED
  BY <1>2, <1>3 DEF _record

LEMMA AnsweredCall ==
    ASSUME ReviewInv, NEW call \in CallNames, NEW answer, answered(call, answer)
    PROVE  /\ pc = call /\ UNCHANGED <<request, ledger, published>>
           /\ \A c \in calls' : c[1] \in CallNames
           /\ \E p : Recording(call, answer, p)
           /\ Needs(call) /\ outcome = "composing"
<1>1. call # "ended"
  BY NamesHavePlaces
<1>2. PICK p : Recording(call, answer, p)
  BY RecordedOnce DEF answered
<1>3. \A c \in calls' : c \in calls \/ c = <<call, p>>
  BY <1>2 DEF Recording
<1> QED
  BY <1>1, <1>2, <1>3 DEF answered, ReviewInv, PathOK

LEMMA FaultyCall ==
    ASSUME NEW call, NEW answer, NEW p, Recording(call, answer, p), Faulty(<<call, p>>),
           call \notin {"calculate_risk", "rolling_metrics"}
    PROVE  answer \in Failures
BY DEF Recording, Faulty, append_failure, append_success, _classify_call, Failures

\* A review asks for sections of a review.
LEMMA ReviewAsks ==
    ASSUME ReviewInv, request.kind = "review"
    PROVE  \A s \in Panels : ~asked(s)
<1>1. request.sections \subseteq Sections
  BY ReviewAssumption DEF ReviewInv, PathOK
<1>2. \A s \in Panels : s \notin Sections
  BY DEF Panels, Sections
<1> QED
  BY <1>1, <1>2 DEF asked, _requested_sections, Sections

LEMMA SummaryStep ==
    ASSUME ReviewInv, get_portfolio_summary
    PROVE  ReviewInv'
<1>1. PICK answer \in {"ok", "malformed"} \cup Failures :
         /\ answered("portfolio_summary", answer) /\ window' = window
         /\ IF answer = "ok"
            THEN proceed("portfolio_summary",
                         [response EXCEPT !["OVERVIEW"] = IF asked("OVERVIEW") THEN "ready" ELSE None,
                                          !["WEALTH"] = IF asked("WEALTH") THEN "ready" ELSE None],
                         history, risk)
            ELSE fail(reporting_error(IF answer = "invalid" THEN "unavailable" ELSE answer))
  BY DEF get_portfolio_summary
<1>2. "portfolio_summary" \in CallNames
  BY NamesHavePlaces
<1>3. /\ pc = "portfolio_summary" /\ UNCHANGED <<request, ledger>>
      /\ \A c \in calls' : c[1] \in CallNames
      /\ \E p : Recording("portfolio_summary", answer, p)
  BY <1>1, <1>2, AnsweredCall
<1>4. CASE answer = "ok"
  <2>1. PICK got, past, call, p, u, v :
           /\ u = (IF asked("OVERVIEW") THEN "ready" ELSE None)
           /\ v = (IF asked("WEALTH") THEN "ready" ELSE None)
           /\ got = [response EXCEPT !["OVERVIEW"] = u, !["WEALTH"] = v]
           /\ past = history /\ call = "portfolio_summary"
           /\ Recording(call, answer, p)
    BY <1>3
  <2>2. response \in [Sections \cup Panels -> Supports]
    BY DEF ReviewInv, AnswersOK
  <2>3. got \in [Sections \cup Panels -> Supports]
    BY <2>1, <2>2 DEF Supports
  <2>4. \A s \in {"RISK_ANALYTICS", "ADVISOR_COMMENTARY", "INCOME_AND_ACTIVITY", "TRANSACTIONS"} :
           got[s] = response[s]
    BY <2>1, <2>2 DEF Sections
  <2>5. \A n \in DOMAIN SectionOf : ~(placeOf[n] < placeOf[call])
    BY <2>1 DEF SectionOf, placeOf
  <2>6. ~Faulty(<<call, p>>)
    BY <1>4, <2>1, FaultyCall DEF Failures
  <2>7. proceed(call, got, past, risk)
    BY <1>1, <1>4, <2>1
  <2>8. call \in CallNames \ Paged /\ call # "compose" /\ pc = call /\ placeOf[call] # 13
    BY <1>2, <1>3, <2>1 DEF Paged, placeOf
  <2>9. calls' \subseteq calls \cup {<<call, p>>} /\ UNCHANGED <<request, ledger, window>>
    BY <1>1, <1>3, <2>1 DEF Recording
  <2>10. got["PERFORMANCE"] = response["PERFORMANCE"]
    BY <2>1, <2>2 DEF Sections
  <2> QED
    BY <2>3, <2>4, <2>5, <2>6, <2>7, <2>8, <2>9, <2>10, PlainCallStep
<1>5. CASE answer # "ok"
  <2>1. PICK a : a = IF answer = "invalid" THEN "unavailable" ELSE answer
    OBVIOUS
  <2>2. fail(reporting_error(a))
    BY <1>1, <1>5, <2>1
  <2> QED
    BY <1>1, <1>3, <2>2, FailStep
<1> QED
  BY <1>4, <1>5

\* A section that was ordered and got no usable answer is short.
LEMMA PutShort ==
    ASSUME ReviewInv, NEW s \in Sections, asked(s), request' = request,
           NEW v, v \in {None, "partial", "unavailable", "pending"}, response' = put(s, v)
    PROVE  Short(s)'
<1>1. response \in [Sections \cup Panels -> Supports]
  BY DEF ReviewInv, AnswersOK
<1>2. response'[s] = v
  BY <1>1 DEF put
<1> QED
  BY <1>2, AskedAgain DEF Short

\* A call answered with a supportability of one part of the response.
LEMMA AnsweredPut ==
    ASSUME ReviewInv, NEW call \in CallNames \ Paged, call # "compose", placeOf[call] # 13,
           NEW answer, answered(call, answer), window' = window,
           NEW s \in (Sections \cup Panels) \ Reserved, NEW v \in Supports, NEW past,
           proceed(call, put(s, v), past, risk),
           \A n \in DOMAIN SectionOf : placeOf[n] < placeOf[call] => SectionOf[n] # s,
           placeOf[call] < 7 => s # "PERFORMANCE",
           call \notin {"calculate_risk", "rolling_metrics"},
           request.kind = "review" /\ answer \in Failures => Spoils(call)'
    PROVE  ReviewInv'
<1>1. pc = call /\ UNCHANGED <<request, ledger>>
  BY AnsweredCall
<1>2. PICK p : Recording(call, answer, p)
  BY AnsweredCall
<1>3. calls' \subseteq calls \cup {<<call, p>>} /\ (Faulty(<<call, p>>) => answer \in Failures)
  BY <1>2, FaultyCall DEF Recording
<1> QED
  BY <1>1, <1>3, PutStep

LEMMA ProfileStep ==
    ASSUME ReviewInv, _portfolio_client_profile
    PROVE  ReviewInv'
<1>1. PICK call, past : call = "portfolio_detail" /\ past = history
  OBVIOUS
<1>2. PICK answer \in {"ok", "partial", "malformed"} \cup Failures :
         /\ answered(call, answer) /\ window' = window
         /\ IF answer = "broken" THEN fail(reporting_error(answer))
            ELSE proceed(call, put("CLIENT_PROFILE", CASE answer = "ok" -> "present"
                                                       [] answer = "partial" -> "partial"
                                                       [] OTHER -> "unavailable"), past, risk)
  BY <1>1 DEF _portfolio_client_profile
<1>3. /\ call \in CallNames \ Paged /\ call # "compose" /\ placeOf[call] = 2
      /\ call \notin {"calculate_risk", "rolling_metrics"}
  BY <1>1, NamesHavePlaces DEF Paged, placeOf
<1>4. CASE answer = "broken"
  BY <1>2, <1>3, <1>4, AnsweredCall, FailStep
<1>5. CASE answer # "broken"
  <2>1. PICK s, v : s = "CLIENT_PROFILE" /\ v = (CASE answer = "ok" -> "present"
                                                   [] answer = "partial" -> "partial"
                                                   [] OTHER -> "unavailable")
    OBVIOUS
  <2>2. s \in (Sections \cup Panels) \ Reserved /\ v \in Supports /\ s # "PERFORMANCE"
    BY <2>1 DEF Sections, Reserved, Supports
  <2>3. \A n \in DOMAIN SectionOf : SectionOf[n] # s
    BY <2>1 DEF SectionOf
  <2>4. Spoils(call)'
    BY <1>1 DEF Spoils, Unshown
  <2>5. proceed(call, put(s, v), past, risk)
    BY <1>2, <1>5, <2>1
  <2> QED
    BY <1>1, <1>2, <1>3, <2>2, <2>3, <2>4, <2>5, AnsweredPut
<1> QED
  BY <1>4, <1>5

LEMMA AllocationStep ==
    ASSUME ReviewInv, get_asset_allocation
    PROVE  ReviewInv'
<1>1. PICK call, past : call = "asset_allocation" /\ past = history
  OBVIOUS
<1>2. PICK answer \in {"ok", "partial", "malformed", "foreign"} \cup Failures :
         /\ answered(call, answer) /\ window' = window
         /\ IF answer \in {"ok", "partial", "malformed"}
            THEN proceed(call, put("ALLOCATION", map_source_allocation(answer)), past, risk)
            ELSE fail(reporting_error(answer))
  BY <1>1 DEF get_asset_allocation
<1>3. /\ call \in CallNames \ Paged /\ call # "compose" /\ placeOf[call] = 3
      /\ call \notin {"calculate_risk", "rolling_metrics"}
  BY <1>1, NamesHavePlaces DEF Paged, placeOf
<1>4. CASE answer \notin {"ok", "partial", "malformed"}
  BY <1>2, <1>3, <1>4, AnsweredCall, FailStep
<1>5. CASE answer \in {"ok", "partial", "malformed"}
  <2>1. PICK s, v : s = "ALLOCATION" /\ v = map_source_allocation(answer)
    OBVIOUS
  <2>2. /\ s \in (Sections \cup Panels) \ Reserved /\ s \in Sections /\ s # "PERFORMANCE"
        /\ v \in Supports
    BY <2>1 DEF Sections, Reserved, Supports, map_source_allocation
  <2>3. \A n \in DOMAIN SectionOf : placeOf[n] < placeOf[call] => SectionOf[n] # s
    BY <1>3, <2>1 DEF SectionOf, placeOf
  <2>5. proceed(call, put(s, v), past, risk)
    BY <1>2, <1>5, <2>1
  <2>4. answer \notin Failures
    BY <1>5 DEF Failures
  <2> QED
    BY <1>2, <1>3, <2>2, <2>3, <2>4, <2>5, AnsweredPut
<1> QED
  BY <1>4, <1>5

LEMMA PositionsStep ==
    ASSUME ReviewInv, get_portfolio_positions
    PROVE  ReviewInv'
<1>1. PICK call, past : call = "positions" /\ past = history
  OBVIOUS
<1>2. PICK answer \in {"ok", "empty", "partial", "uncosted", "malformed"} \cup Failures :
         /\ answered(call, answer) /\ window' = window
         /\ IF answer \in {"ok", "empty", "partial", "uncosted"}
            THEN proceed(call, [response EXCEPT !["HOLDINGS"] = _holdings_supportability(answer),
                                                !["PNL"] = _coverage_status(answer)], past, risk)
            ELSE fail(reporting_error(IF answer = "invalid" THEN "unavailable" ELSE answer))
  BY <1>1 DEF get_portfolio_positions
<1>3. call \in CallNames \ Paged /\ call # "compose" /\ placeOf[call] = 5
  BY <1>1, NamesHavePlaces DEF Paged, placeOf
<1>4. /\ pc = call /\ UNCHANGED <<request, ledger>> /\ Needs(call)
      /\ \A c \in calls' : c[1] \in CallNames
      /\ \E p : Recording(call, answer, p)
  BY <1>1, <1>2, <1>3, AnsweredCall
<1>5. CASE answer \notin {"ok", "empty", "partial", "uncosted"}
  <2>1. PICK a : a = IF answer = "invalid" THEN "unavailable" ELSE answer
    OBVIOUS
  <2>2. fail(reporting_error(a))
    BY <1>2, <1>5, <2>1
  <2> QED
    BY <1>2, <1>4, <2>2, FailStep
<1>6. CASE answer \in {"ok", "empty", "partial", "uncosted"}
  <2>1. PICK got, p, u, v : /\ u = _holdings_supportability(answer) /\ v = _coverage_status(answer)
                            /\ got = [response EXCEPT !["HOLDINGS"] = u, !["PNL"] = v]
                            /\ Recording(call, answer, p)
    BY <1>4
  <2>2. response \in [Sections \cup Panels -> Supports]
    BY DEF ReviewInv, AnswersOK
  <2>3. u \in Supports /\ v \in Supports
    BY <2>1 DEF _holdings_supportability, _coverage_status, Supports
  <2>4. /\ got \in [Sections \cup Panels -> Supports] /\ got["HOLDINGS"] = u
        /\ \A s \in Sections : s # "HOLDINGS" => got[s] = response[s]
    BY <2>1, <2>2, <2>3 DEF Sections, Panels
  <2>5. \A n \in DOMAIN SectionOf :
           placeOf[n] < placeOf[call] => SectionOf[n] # "HOLDINGS" /\ SectionOf[n] \in Sections
    BY <1>3 DEF SectionOf, placeOf, Sections
  <2>6. \A n \in DOMAIN SectionOf :
           placeOf[n] < placeOf[call] => got[SectionOf[n]] = response[SectionOf[n]]
    BY <2>4, <2>5
  <2>7. \A s \in {"RISK_ANALYTICS", "ADVISOR_COMMENTARY", "INCOME_AND_ACTIVITY", "TRANSACTIONS",
                  "PERFORMANCE"} : got[s] = response[s]
    BY <2>4 DEF Sections
  <2>8. proceed(call, got, past, risk)
    BY <1>2, <1>6, <2>1
  <2>9. ~Faulty(<<call, p>>)
    <3>1. answer \notin Failures
      BY <1>6 DEF Failures
    <3> QED
      BY <1>1, <2>1, <3>1, FaultyCall
  <2>10. calls' \subseteq calls \cup {<<call, p>>} /\ UNCHANGED <<request, ledger, window>>
    BY <1>2, <1>4, <2>1 DEF Recording
  <2>11. \A s \in {"RISK_ANALYTICS", "ADVISOR_COMMENTARY", "INCOME_AND_ACTIVITY", "TRANSACTIONS"} :
            got[s] = response[s]
    BY <2>7
  <2>12. got["PERFORMANCE"] = response["PERFORMANCE"] /\ placeOf[call] # 13 /\ pc = call
    BY <1>3, <1>4, <2>7
  <2>13. got \in [Sections \cup Panels -> Supports]
    BY <2>4
  <2> QED
    BY <1>3, <2>6, <2>8, <2>9, <2>10, <2>11, <2>12, <2>13, PlainCallStep
<1> QED
  BY <1>5, <1>6

\* A call answered without a change of the response.
LEMMA AnsweredPass ==
    ASSUME ReviewInv, NEW call \in CallNames \ Paged, call # "compose", placeOf[call] # 13,
           NEW answer, answered(call, answer), window' = window,
           NEW past, proceed(call, response, past, risk),
           call \notin {"calculate_risk", "rolling_metrics"},
           request.kind = "review" /\ answer \in Failures => Spoils(call)'
    PROVE  ReviewInv'
<1>1. pc = call /\ UNCHANGED <<request, ledger>>
  BY AnsweredCall
<1>6. PICK p : Recording(call, answer, p)
  BY AnsweredCall
<1>7. calls' \subseteq calls \cup {<<call, p>>} /\ (Faulty(<<call, p>>) => answer \in Failures)
  BY <1>6, FaultyCall DEF Recording
<1>2. PICK got : got = response
  OBVIOUS
<1>3. got \in [Sections \cup Panels -> Supports]
  BY <1>2 DEF ReviewInv, AnswersOK
<1>4. proceed(call, got, past, risk)
  BY <1>2
<1>5. \A s : got[s] = response[s]
  BY <1>2
<1> QED
  BY <1>1, <1>3, <1>4, <1>5, <1>7, PlainCallStep

LEMMA WorkspaceStep ==
    ASSUME ReviewInv, get_workspace_summary
    PROVE  ReviewInv'
<1>1. PICK call, past : call = "workspace_summary" /\ past = history
  OBVIOUS
<1>2. PICK answer \in Workspace \cup Failures :
         /\ answered(call, answer) /\ window' = window
         /\ IF answer = "broken" THEN fail(reporting_error(answer))
            ELSE IF workspace_summary_ready(answer)
            THEN proceed(call, put("PERFORMANCE", performance_supportability(answer)),
                         _extract_daily_returns_from_workspace_summary(answer), risk)
            ELSE proceed(call, response, past, risk)
  BY <1>1 DEF get_workspace_summary
<1>3. /\ call \in CallNames \ Paged /\ call # "compose" /\ placeOf[call] = 7
      /\ call \notin {"calculate_risk", "rolling_metrics"}
  BY <1>1, NamesHavePlaces DEF Paged, placeOf
<1>4. pc = call /\ UNCHANGED <<request, ledger>> /\ asked("PERFORMANCE")
  BY <1>1, <1>2, <1>3, AnsweredCall DEF Needs
<1>5. CASE answer = "broken"
  BY <1>2, <1>3, <1>5, AnsweredCall, FailStep
<1>6. CASE answer # "broken" /\ workspace_summary_ready(answer)
  <2>1. PICK s, v, kept : /\ s = "PERFORMANCE" /\ v = performance_supportability(answer)
                          /\ kept = _extract_daily_returns_from_workspace_summary(answer)
    OBVIOUS
  <2>2. s \in (Sections \cup Panels) \ Reserved /\ s \in Sections /\ v \in Supports
    BY <2>1 DEF Sections, Reserved, Supports, performance_supportability
  <2>3. \A n \in DOMAIN SectionOf : placeOf[n] < placeOf[call] => SectionOf[n] # s
    BY <1>3, <2>1 DEF SectionOf, placeOf
  <2>4. proceed(call, put(s, v), kept, risk)
    BY <1>2, <1>6, <2>1
  <2>5. answer \notin Failures
    BY <1>6 DEF workspace_summary_ready, Workspace, Failures
  <2>6. ~(placeOf[call] < 7) /\ placeOf[call] # 13
    BY <1>3
  <2> QED
    BY <1>2, <1>3, <2>2, <2>3, <2>4, <2>5, <2>6, AnsweredPut
<1>7. CASE answer # "broken" /\ ~workspace_summary_ready(answer)
  <2>1. proceed(call, response, past, risk)
    BY <1>2, <1>7
  <2>2. response["PERFORMANCE"] = None /\ response' = response
    BY <1>1, <1>3, <1>4, <2>1 DEF ReviewInv, PerformanceOK, proceed
  <2>3. Spoils(call)'
    BY <1>1, <1>4, <2>2, AskedAgain DEF Spoils, Short
  <2>4. placeOf[call] # 13
    BY <1>3
  <2> QED
    BY <1>2, <1>3, <2>1, <2>3, <2>4, AnsweredPass
<1> QED
  BY <1>5, <1>6, <1>7

LEMMA ContributionStep ==
    ASSUME ReviewInv, _map_performance_contribution
    PROVE  ReviewInv'
<1>1. PICK call, past : call = "contribution" /\ past = history
  OBVIOUS
<1>2. PICK answer \in {"ok"} \cup Failures :
         /\ answered(call, answer) /\ window' = window
         /\ IF answer = "broken" THEN fail(reporting_error(answer))
            ELSE proceed(call, put("CONTRIBUTION", IF answer = "ok" THEN "present" ELSE "unavailable"),
                         past, risk)
  BY <1>1 DEF _map_performance_contribution
<1>3. /\ call \in CallNames \ Paged /\ call # "compose" /\ placeOf[call] = 8
      /\ call \notin {"calculate_risk", "rolling_metrics"}
  BY <1>1, NamesHavePlaces DEF Paged, placeOf
<1>4. CASE answer = "broken"
  BY <1>2, <1>3, <1>4, AnsweredCall, FailStep
<1>5. CASE answer # "broken"
  <2>1. PICK s, v : s = "CONTRIBUTION" /\ v = IF answer = "ok" THEN "present" ELSE "unavailable"
    OBVIOUS
  <2>2. s \in (Sections \cup Panels) \ Reserved /\ v \in Supports /\ s # "PERFORMANCE"
    BY <2>1 DEF Panels, Reserved, Supports
  <2>3. \A n \in DOMAIN SectionOf : SectionOf[n] # s
    BY <2>1 DEF SectionOf
  <2>4. Spoils(call)' /\ placeOf[call] # 13
    BY <1>1, <1>3 DEF Spoils, Unshown
  <2>5. proceed(call, put(s, v), past, risk)
    BY <1>2, <1>5, <2>1
  <2> QED
    BY <1>2, <1>3, <2>2, <2>3, <2>4, <2>5, AnsweredPut
<1> QED
  BY <1>4, <1>5

LEMMA DrawdownStep ==
    ASSUME ReviewInv, drawdown_analytics
    PROVE  ReviewInv'
<1>1. PICK call, past : call = "drawdown" /\ past = history
  OBVIOUS
<1>2. PICK answer \in {"ok"} \cup Failures :
         /\ answered(call, answer) /\ window' = window
         /\ proceed(call, put("DRAWDOWN", IF answer = "ok" THEN "ready" ELSE "unavailable"),
                    past, risk)
  BY <1>1 DEF drawdown_analytics
<1>3. /\ call \in CallNames \ Paged /\ call # "compose" /\ placeOf[call] = 9
      /\ call \notin {"calculate_risk", "rolling_metrics"}
  BY <1>1, NamesHavePlaces DEF Paged, placeOf
<1>4. PICK s, v : s = "DRAWDOWN" /\ v = IF answer = "ok" THEN "ready" ELSE "unavailable"
  OBVIOUS
<1>5. s \in (Sections \cup Panels) \ Reserved /\ v \in Supports /\ s # "PERFORMANCE"
  BY <1>4 DEF Panels, Reserved, Supports
<1>6. \A n \in DOMAIN SectionOf : SectionOf[n] # s
  BY <1>4 DEF SectionOf
<1>7. Spoils(call)' /\ placeOf[call] # 13
  BY <1>1, <1>3 DEF Spoils, Unshown
<1>8. proceed(call, put(s, v), past, risk)
  BY <1>2, <1>4
<1> QED
  BY <1>2, <1>3, <1>5, <1>6, <1>7, <1>8, AnsweredPut

LEMMA AttributionStep ==
    ASSUME ReviewInv, capture_attribution
    PROVE  ReviewInv'
<1>1. PICK call, past : call = "attribution" /\ past = history
  OBVIOUS
<1>2. PICK answer \in {"ok", "accepted"} \cup Failures :
         /\ answered(call, answer) /\ window' = window
         /\ proceed(call, put("PERFORMANCE_ATTRIBUTION", CASE answer = "ok" -> "ready"
                                                           [] answer = "accepted" -> "pending"
                                                           [] OTHER -> "unavailable"), past, risk)
  BY <1>1 DEF capture_attribution, Failures
<1>3. /\ call \in CallNames \ Paged /\ call # "compose" /\ placeOf[call] = 10
      /\ call \notin {"calculate_risk", "rolling_metrics"}
  BY <1>1, NamesHavePlaces DEF Paged, placeOf
<1>4. PICK s, v : s = "PERFORMANCE_ATTRIBUTION" /\ v = (CASE answer = "ok" -> "ready"
                                                          [] answer = "accepted" -> "pending"
                                                          [] OTHER -> "unavailable")
  OBVIOUS
<1>5. s \in (Sections \cup Panels) \ Reserved /\ s \in Sections /\ v \in Supports /\ s # "PERFORMANCE"
  BY <1>4 DEF Sections, Reserved, Supports
<1>6. \A n \in DOMAIN SectionOf : placeOf[n] < placeOf[call] => SectionOf[n] # s
  BY <1>3, <1>4 DEF SectionOf, placeOf
<1>7. proceed(call, put(s, v), past, risk)
  BY <1>2, <1>4
<1>8. ASSUME answer \in Failures
      PROVE  Spoils(call)'
  <2>2. v = "unavailable" /\ response' = put(s, v)
    BY <1>4, <1>7, <1>8 DEF proceed, Failures
  <2>3. asked(s) /\ request' = request
    BY <1>1, <1>2, <1>3, <1>4, AnsweredCall DEF Needs
  <2>4. Short(s)'
    BY <1>5, <2>2, <2>3, PutShort
  <2> QED
    BY <1>1, <1>4, <2>4 DEF Spoils
<1>9. placeOf[call] # 13
  BY <1>3
<1> QED
  BY <1>2, <1>3, <1>5, <1>6, <1>7, <1>8, <1>9, AnsweredPut

LEMMA RiskAttributionStep ==
    ASSUME ReviewInv, _build_risk_attribution
    PROVE  ReviewInv'
<1>1. PICK call, past : call = "risk_attribution" /\ past = history
  OBVIOUS
<1>2. PICK answer \in {"ok"} \cup Failures :
         /\ answered(call, answer) /\ window' = window
         /\ proceed(call, put("RISK_ATTRIBUTION", IF answer = "ok" THEN "ready" ELSE "unavailable"),
                    past, risk)
  BY <1>1 DEF _build_risk_attribution
<1>3. /\ call \in CallNames \ Paged /\ call # "compose" /\ placeOf[call] = 15
      /\ call \notin {"calculate_risk", "rolling_metrics"}
  BY <1>1, NamesHavePlaces DEF Paged, placeOf
<1>4. PICK s, v : s = "RISK_ATTRIBUTION" /\ v = IF answer = "ok" THEN "ready" ELSE "unavailable"
  OBVIOUS
<1>5. s \in (Sections \cup Panels) \ Reserved /\ s \in Sections /\ v \in Supports /\ s # "PERFORMANCE"
  BY <1>4 DEF Sections, Reserved, Supports
<1>6. \A n \in DOMAIN SectionOf : placeOf[n] < placeOf[call] => SectionOf[n] # s
  BY <1>3, <1>4 DEF SectionOf, placeOf
<1>7. proceed(call, put(s, v), past, risk)
  BY <1>2, <1>4
<1>8. ASSUME answer \in Failures
      PROVE  Spoils(call)'
  <2>2. v = "unavailable" /\ response' = put(s, v)
    BY <1>4, <1>7, <1>8 DEF proceed, Failures
  <2>3. asked(s) /\ request' = request
    BY <1>1, <1>2, <1>3, <1>4, AnsweredCall DEF Needs
  <2>4. Short(s)'
    BY <1>5, <2>2, <2>3, PutShort
  <2> QED
    BY <1>1, <1>4, <2>4 DEF Spoils
<1>9. placeOf[call] # 13
  BY <1>3
<1> QED
  BY <1>2, <1>3, <1>5, <1>6, <1>7, <1>8, <1>9, AnsweredPut

LEMMA HistoryStep ==
    ASSUME ReviewInv, risk_return_history
    PROVE  ReviewInv'
<1>1. PICK call : call = "risk_history"
  OBVIOUS
<1>2. PICK answer \in Workspace \cup Failures :
         /\ answered(call, answer) /\ window' = window
         /\ IF answer = "broken" THEN fail(reporting_error(answer))
            ELSE proceed(call, response,
                         IF workspace_summary_ready(answer)
                         THEN _extract_daily_returns_from_workspace_summary(answer) ELSE "none", risk)
  BY <1>1 DEF risk_return_history
<1>3. /\ call \in CallNames \ Paged /\ call # "compose" /\ placeOf[call] = 11
      /\ call \notin {"calculate_risk", "rolling_metrics"}
  BY <1>1, NamesHavePlaces DEF Paged, placeOf
<1>4. CASE answer = "broken"
  BY <1>2, <1>3, <1>4, AnsweredCall, FailStep
<1>5. CASE answer # "broken"
  <2>1. PICK past : past = IF workspace_summary_ready(answer)
                           THEN _extract_daily_returns_from_workspace_summary(answer) ELSE "none"
    OBVIOUS
  <2>2. proceed(call, response, past, risk)
    BY <1>2, <1>5, <2>1
  <2>3. Spoils(call)' /\ placeOf[call] # 13
    BY <1>1, <1>3 DEF Spoils, Unshown
  <2> QED
    BY <1>2, <1>3, <2>2, <2>3, AnsweredPass
<1> QED
  BY <1>4, <1>5

\* No call writes the commentary section itself, so an order with a brief is never client
\* ready.
LEMMA CommentaryStep ==
    ASSUME ReviewInv, _resolve_advisor_commentary
    PROVE  ReviewInv'
<1>1. PICK call, past, gone : call = "commentary" /\ past = history /\ gone = "unavailable"
  OBVIOUS
<1>2. PICK answer \in Briefs \cup Failures :
         /\ answered(call, answer) /\ window' = window
         /\ IF answer \in {"broken", "unavailable"} THEN fail(reporting_error(gone))
            ELSE proceed(call, put("COMMENTARY_PACKAGE", _included_package(answer)), past, risk)
  BY <1>1 DEF _resolve_advisor_commentary
<1>3. /\ call \in CallNames \ Paged /\ call # "compose" /\ placeOf[call] = 16
      /\ call \notin {"calculate_risk", "rolling_metrics"}
  BY <1>1, NamesHavePlaces DEF Paged, placeOf
<1>4. CASE answer \in {"broken", "unavailable"}
  BY <1>2, <1>3, <1>4, AnsweredCall, FailStep
<1>5. CASE answer \notin {"broken", "unavailable"}
  <2>1. PICK s, v : s = "COMMENTARY_PACKAGE" /\ v = _included_package(answer)
    OBVIOUS
  <2>2. s \in (Sections \cup Panels) \ Reserved /\ v \in Supports /\ s # "PERFORMANCE"
    BY <2>1 DEF Panels, Reserved, Supports, _included_package
  <2>3. \A n \in DOMAIN SectionOf : SectionOf[n] # s
    BY <2>1 DEF SectionOf
  <2>4. proceed(call, put(s, v), past, risk)
    BY <1>2, <1>5, <2>1
  <2>5. ASSUME request.kind = "review" PROVE Spoils(call)'
    <3>1. request' = request /\ Needs(call)
      BY <1>2, <1>3, AnsweredCall
    <3>2. asked("ADVISOR_COMMENTARY")
      BY <1>1, <2>5, <3>1, ReviewAssumption
      DEF Needs, asked, _requested_sections, ReviewInv, PathOK
    <3>3. response'["ADVISOR_COMMENTARY"] = None
      <4>1. response["ADVISOR_COMMENTARY"] = None /\ response \in [Sections \cup Panels -> Supports]
        BY DEF ReviewInv, AnswersOK
      <4>2. response' = put(s, v)
        BY <2>4 DEF proceed
      <4> QED
        BY <2>1, <4>1, <4>2 DEF put, Sections
    <3> QED
      BY <1>1, <3>1, <3>2, <3>3, AskedAgain DEF Spoils, Short
  <2>6. placeOf[call] # 13
    BY <1>3
  <2> QED
    BY <1>2, <1>3, <2>2, <2>3, <2>4, <2>5, <2>6, AnsweredPut
<1> QED
  BY <1>4, <1>5

---------------------------------------------------------------------------
(* The risk section *)

RiskProgress == [left : SUBSET RiskPeriods, states : SUBSET RiskStates, failed : BOOLEAN]

\* A fault of the risk calculation is shown by the section.
FaultsShown(periods) ==
    (periods.states \subseteq {"ready"} /\ ~periods.failed) \/ Short("RISK_ANALYTICS")'

LEMMA OtherSpoilsKept ==
    ASSUME NEW n, Spoils(n), request' = request, n # "calculate_risk",
           n \in DOMAIN SectionOf => response'[SectionOf[n]] = response[SectionOf[n]]
    PROVE  Spoils(n)'
BY AskedAgain DEF Spoils, Short, SectionOf

\* An answered risk call that settles the section or goes on period by period.
LEMMA RiskCallStep ==
    ASSUME ReviewInv, NEW call \in {"calculate_risk", "risk_by_period", "rolling_metrics"}, pc = call,
           NEW got, NEW past, NEW periods \in RiskProgress, proceed(call, got, past, periods),
           UNCHANGED <<request, ledger, window>>,
           NEW rec \in {"calculate_risk", "rolling_metrics"}, placeOf[rec] <= placeOf[call],
           NEW p, calls' \subseteq calls \cup {<<rec, p>>},
           got \in [Sections \cup Panels -> Supports],
           got["RISK_ANALYTICS"] \in {None, "ready", "partial", "unavailable"},
           \A s \in Sections : s # "RISK_ANALYTICS" => got[s] = response[s],
           call = "calculate_risk" /\ periods.left # {} => got["RISK_ANALYTICS"] = None,
           FaultsShown(periods),
           call # "calculate_risk" /\ Spoils("calculate_risk") => Spoils("calculate_risk")',
           Faulty(<<rec, p>>) => Spoils(rec)'
    PROVE  ReviewInv'
<1>1. response' = got /\ risk' = periods /\ outcome' = outcome
  BY DEF proceed
<1>2. /\ call \in CallNames \ Paged /\ call # "compose" /\ placeOf[call] \in 12..14 /\ rec \in CallNames
      /\ placeOf[call] = 12 => call = "calculate_risk"
  BY NamesHavePlaces DEF Paged, placeOf
<1>3. /\ PathOK' /\ pc' \in CallNames /\ placeOf[call] < placeOf[pc']
      /\ pc' = "risk_by_period" => periods.left # {}
  BY <1>2, AdvancePath DEF ReviewInv
<1>4. call # "ended" /\ outcome = "composing"
  BY <1>2, NamesHavePlaces DEF ReviewInv, PathOK
<1>5. LedgerOK(ledger)' /\ WindowOK(window, ledger)'
  BY DEF ReviewInv, LedgerOK, WindowOK, OneRevision
<1>6. AnswersOK'
  <2>1. got["ADVISOR_COMMENTARY"] = None
    BY DEF ReviewInv, AnswersOK, Sections
  <2>2. \A s \in {"INCOME_AND_ACTIVITY", "TRANSACTIONS"} : got[s] = response[s]
    BY DEF Sections
  <2>3. (\E s \in {"INCOME_AND_ACTIVITY", "TRANSACTIONS"} : asked(s) /\ response[s] = "partial")
        => \E s \in {"INCOME_AND_ACTIVITY", "TRANSACTIONS"} : asked(s)' /\ response'[s] = "partial"
    BY <1>1, <2>2, AskedAgain
  <2> QED
    BY <1>1, <2>1, <2>3 DEF ReviewInv, AnswersOK, RiskProgress
<1>7. placeOf[pc'] \in Int /\ placeOf[call] \in Int /\ placeOf[pc'] > 12
  <2>1. placeOf[pc'] \in 1..17
    BY <1>3, NamesHavePlaces
  <2> QED
    BY <1>2, <1>3, <2>1
<1>8. RiskOK'
  <2>1. pc' = "risk_by_period" => call = "calculate_risk"
    BY <1>2, <1>3, <1>7 DEF placeOf
  <2> QED
    BY <1>1, <1>3, <1>7, <2>1 DEF RiskOK, FaultsShown
<1>9. PerformanceOK'
  BY <1>7 DEF PerformanceOK
<1>10. CallsOK'
  <2> SUFFICES ASSUME request.kind = "review", NEW c \in calls', Faulty(c)
               PROVE  Spoils(c[1])'
    BY DEF CallsOK
  <2>1. CASE c \in calls
    <3>1. PICK n : n = c[1]
      OBVIOUS
    <3>2. Spoils(n) /\ n \in CallNames /\ placeOf[n] < placeOf[call]
      BY <1>2, <1>4, <2>1, <3>1 DEF ReviewInv, CallsOK, PathOK, Behind
    <3>3. CASE n = "calculate_risk"
      <4>1. call # "calculate_risk"
        BY <3>2, <3>3 DEF placeOf
      <4> QED
        BY <3>1, <3>2, <3>3, <4>1
    <3>4. CASE n # "calculate_risk"
      <4>1. n # "rolling_metrics"
        BY <1>2, <3>2 DEF placeOf
      <4>2. n \in DOMAIN SectionOf => SectionOf[n] \in Sections /\ SectionOf[n] # "RISK_ANALYTICS"
        BY <3>4, <4>1 DEF SectionOf, Sections
      <4>3. n \in DOMAIN SectionOf => response'[SectionOf[n]] = response[SectionOf[n]]
        BY <1>1, <4>2
      <4> QED
        BY <1>2, <3>1, <3>2, <3>4, <4>3, OtherSpoilsKept
    <3> QED
      BY <3>3, <3>4
  <2>2. CASE c = <<rec, p>>
    BY <2>2
  <2> QED
    BY <2>1, <2>2
<1> QED
  BY <1>1, <1>3, <1>4, <1>5, <1>6, <1>8, <1>9, <1>10, ReadyClaimStands DEF ReviewInv

\* What the section says of an admitted state.
LEMMA RiskSupport ==
    ASSUME NEW state, NEW failed \in BOOLEAN, NEW bare \in BOOLEAN,
           NEW v, v = risk_supportability(state, failed, bare)
    PROVE  /\ v \in {"ready", "partial", "unavailable"}
           /\ v = "ready" => state = "ready" /\ ~failed
BY DEF risk_supportability, risk_source_supportability

\* The posture of a risk call is complete only for an admitted result.
LEMMA IncompleteRiskCall ==
    ASSUME NEW call \in {"calculate_risk", "rolling_metrics"}, NEW answer \in RiskAnswers,
           NEW p, Recording(call, answer, p), Faulty(<<call, p>>)
    PROVE  qualify_risk_response(answer) # "ready"
<1>1. p # "complete"
  BY DEF Faulty
<1> QED
  BY <1>1 DEF Recording, append_failure, append_success, risk_call_posture, RiskAnswers, Failures

LEMMA CalculationStep ==
    ASSUME ReviewInv, calculate_risk
    PROVE  ReviewInv'
<1>1. PICK call, past : call = "calculate_risk" /\ past = history
  OBVIOUS
<1>2. PICK answer \in RiskAnswers \cup Failures :
         /\ answered(call, answer) /\ window' = window
         /\ CASE answer = "broken" -> fail(reporting_error(answer))
              [] answer \in Failures \ {"broken"} ->
                    proceed(call, response, past, [risk EXCEPT !.left = RiskPeriods])
              [] OTHER ->
                    proceed(call, put("RISK_ANALYTICS",
                                      risk_supportability(qualify_risk_response(answer), FALSE,
                                                          answer = "unbenchmarked")), past, risk)
  BY <1>1 DEF calculate_risk
<1>3. call \in CallNames /\ call # "asset_allocation" /\ placeOf[call] = 12
  BY <1>1, NamesHavePlaces DEF placeOf
<1>4. /\ pc = call /\ UNCHANGED <<request, ledger>> /\ asked("RISK_ANALYTICS")
      /\ \A c \in calls' : c[1] \in CallNames
      /\ \E p : Recording(call, answer, p)
  BY <1>1, <1>2, <1>3, AnsweredCall DEF Needs
<1>5. /\ risk \in RiskProgress /\ risk.left = {} /\ risk.states = {} /\ risk.failed = FALSE
      /\ response["RISK_ANALYTICS"] = None /\ response \in [Sections \cup Panels -> Supports]
  BY <1>1, <1>3, <1>4 DEF ReviewInv, AnswersOK, RiskOK, RiskProgress
<1>6. "RISK_ANALYTICS" \in Sections
  BY DEF Sections
<1>7. PICK p : Recording(call, answer, p)
  BY <1>4
<1>8. CASE answer = "broken"
  BY <1>2, <1>4, <1>8, FailStep
<1>9. CASE answer \in Failures \ {"broken"}
  <2>1. PICK got, periods : got = response /\ periods = [risk EXCEPT !.left = RiskPeriods]
    OBVIOUS
  <2>2. /\ periods \in RiskProgress /\ periods.states = {} /\ ~periods.failed
    BY <1>5, <2>1 DEF RiskProgress
  <2>3. proceed(call, got, past, periods)
    BY <1>2, <1>9, <2>1
  <2>4. response' = got
    BY <2>3 DEF proceed
  <2>5. Short("RISK_ANALYTICS")'
    BY <1>4, <1>5, <2>1, <2>4, AskedAgain DEF Short
  <2>6. Spoils(call)' /\ FaultsShown(periods)
    BY <1>1, <2>5 DEF Spoils, FaultsShown
  <2>7. /\ got \in [Sections \cup Panels -> Supports] /\ got["RISK_ANALYTICS"] = None
        /\ \A s \in Sections : got[s] = response[s]
    BY <1>5, <2>1
  <2>8. calls' \subseteq calls \cup {<<call, p>>} /\ UNCHANGED <<request, ledger, window>>
    BY <1>2, <1>4, <1>7 DEF Recording
  <2>9. placeOf[call] <= placeOf[call]
    BY <1>3
  <2> QED
    BY <1>1, <1>4, <2>2, <2>3, <2>6, <2>7, <2>8, <2>9, RiskCallStep
<1>10. CASE answer \notin Failures
  <2>1. PICK state, bare, v : /\ state = qualify_risk_response(answer)
                              /\ bare = (answer = "unbenchmarked")
                              /\ v = risk_supportability(state, FALSE, bare)
    OBVIOUS
  <2>2. bare \in BOOLEAN
    BY <2>1
  <2>3. v \in {"ready", "partial", "unavailable"} /\ (v = "ready" => state = "ready")
    BY <2>1, <2>2, RiskSupport
  <2>4. PICK got, periods : got = put("RISK_ANALYTICS", v) /\ periods = risk
    OBVIOUS
  <2>5. /\ got \in [Sections \cup Panels -> Supports] /\ got["RISK_ANALYTICS"] = v
        /\ \A s \in Sections : s # "RISK_ANALYTICS" => got[s] = response[s]
    BY <1>5, <1>6, <2>3, <2>4 DEF put, Supports
  <2>6. proceed(call, got, past, periods)
    <3>1. answer # "broken" /\ answer \notin Failures \ {"broken"}
      BY <1>10 DEF Failures
    <3> QED
      BY <1>2, <2>1, <2>4, <3>1
  <2>7. response' = got
    BY <2>6 DEF proceed
  <2>8. periods \in RiskProgress /\ periods.left = {} /\ FaultsShown(periods)
    BY <1>5, <2>4 DEF FaultsShown
  <2>9. ASSUME Faulty(<<call, p>>) PROVE Spoils(call)'
    <3>1. state # "ready"
      BY <1>1, <1>7, <1>10, <2>1, <2>9, IncompleteRiskCall
    <3>2. Short("RISK_ANALYTICS")'
      BY <1>4, <2>3, <2>5, <2>7, <3>1, AskedAgain DEF Short
    <3> QED
      BY <1>1, <3>2 DEF Spoils
  <2>10. calls' \subseteq calls \cup {<<call, p>>} /\ UNCHANGED <<request, ledger, window>>
    BY <1>2, <1>4, <1>7 DEF Recording
  <2>11. placeOf[call] <= placeOf[call] /\ got["RISK_ANALYTICS"] \in {None, "ready", "partial", "unavailable"}
    BY <1>3, <2>3, <2>5
  <2> QED
    BY <1>1, <1>4, <2>5, <2>6, <2>8, <2>9, <2>10, <2>11, RiskCallStep
<1> QED
  BY <1>8, <1>9, <1>10

LEMMA Ranks ==
    rank("ready") = 1 /\ rank("degraded") = 2 /\ rank("empty") = 4
<1>1. /\ Len(Precedence) = 4 /\ Precedence[1] = "ready" /\ Precedence[2] = "degraded"
      /\ Precedence[3] = "unknown" /\ Precedence[4] = "empty"
  BY DEF Precedence
<1>2. \A i \in 1..Len(Precedence) : i = 1 \/ i = 2 \/ i = 3 \/ i = 4
  BY <1>1
<1>3. (CHOOSE i \in 1..Len(Precedence) : Precedence[i] = "ready") = 1
  <2>1. 1 \in 1..Len(Precedence) /\ \A i \in 1..Len(Precedence) : Precedence[i] = "ready" <=> i = 1
    BY <1>1, <1>2
  <2> QED
    BY <2>1
<1>4. (CHOOSE i \in 1..Len(Precedence) : Precedence[i] = "degraded") = 2
  <2>1. 2 \in 1..Len(Precedence) /\ \A i \in 1..Len(Precedence) : Precedence[i] = "degraded" <=> i = 2
    BY <1>1, <1>2
  <2> QED
    BY <2>1
<1>5. (CHOOSE i \in 1..Len(Precedence) : Precedence[i] = "empty") = 4
  <2>1. 4 \in 1..Len(Precedence) /\ \A i \in 1..Len(Precedence) : Precedence[i] = "empty" <=> i = 4
    BY <1>1, <1>2
  <2> QED
    BY <2>1
<1> QED
  BY <1>3, <1>4, <1>5 DEF rank

\* The worst state decides: periods that are not all ready are not ready together.
LEMMA WorstDecides ==
    ASSUME NEW states \in SUBSET RiskStates, states # {},
           NEW worst, worst = combine_risk_qualifications(states)
    PROVE  worst = "ready" => states \subseteq {"ready"}
<1>1. \E s \in states : \A o \in states : rank(o) <= rank(s)
  <2>1. CASE "empty" \in states
    BY <2>1, Ranks DEF RiskStates
  <2>2. CASE "empty" \notin states /\ "degraded" \in states
    BY <2>2, Ranks DEF RiskStates
  <2>3. CASE "empty" \notin states /\ "degraded" \notin states
    <3>1. states = {"ready"}
      BY <2>3 DEF RiskStates
    <3> QED
      BY <3>1, Ranks
  <2> QED
    BY <2>1, <2>2, <2>3
<1>2. worst \in states /\ \A o \in states : rank(o) <= rank(worst)
  BY <1>1 DEF combine_risk_qualifications
<1> QED
  BY <1>2, Ranks DEF RiskStates

LEMMA PeriodStep ==
    ASSUME ReviewInv, _calculate_risk_by_period
    PROVE  ReviewInv'
<1>1. PICK answer \in {"ready", "degraded", "empty"} \cup Failures :
         LET ok    == answer \notin Failures
             done  == [risk EXCEPT !.left = @ \ {CHOOSE q \in @ : TRUE},
                                   !.states = IF ok THEN @ \cup {answer} ELSE @,
                                   !.failed = @ \/ ~ok]
             result == IF done.states = {} THEN "unavailable"
                       ELSE risk_supportability(combine_risk_qualifications(done.states),
                                                done.failed, FALSE)
         IN  /\ pc = "risk_by_period"
             /\ _record("calculate_risk", answer)
             /\ UNCHANGED <<request, ledger, published, window>>
             /\ CASE answer = "broken" -> fail(reporting_error(answer))
                  [] done.left # {} /\ answer # "broken" ->
                        /\ risk' = done
                        /\ UNCHANGED <<pc, response, history, outcome>>
                  [] OTHER -> proceed("risk_by_period", put("RISK_ANALYTICS", result), history, done)
  BY DEF _calculate_risk_by_period
<1>2. PICK call, rec, past, ok, p : /\ call = "risk_by_period" /\ rec = "calculate_risk"
                                    /\ past = history /\ ok = (answer \notin Failures)
                                    /\ Recording(rec, answer, p)
  BY <1>1, RecordedOnce
<1>3. PICK done : done = [risk EXCEPT !.left = @ \ {CHOOSE q \in @ : TRUE},
                                      !.states = IF ok THEN @ \cup {answer} ELSE @,
                                      !.failed = @ \/ ~ok]
  OBVIOUS
<1>4. PICK result : result = IF done.states = {} THEN "unavailable"
                             ELSE risk_supportability(combine_risk_qualifications(done.states),
                                                      done.failed, FALSE)
  OBVIOUS
<1>5. /\ pc = call /\ _record(rec, answer) /\ UNCHANGED <<request, ledger, window>>
      /\ answer = "broken" => fail(reporting_error(answer))
      /\ answer # "broken" /\ done.left # {} =>
            risk' = done /\ UNCHANGED <<pc, response, history, outcome>>
      /\ answer # "broken" /\ done.left = {} =>
            proceed(call, put("RISK_ANALYTICS", result), past, done)
  BY <1>1, <1>2, <1>3, <1>4
<1>6. /\ call \in CallNames /\ rec \in CallNames /\ placeOf[call] = 13 /\ placeOf[rec] = 12
      /\ call # "ended" /\ call \notin Paged /\ rec # "asset_allocation"
  BY <1>2, NamesHavePlaces DEF placeOf, Paged
<1>7. calls' \subseteq calls \cup {<<rec, p>>} /\ \A c \in calls' : c[1] \in CallNames
  <2>1. \A c \in calls' : c \in calls \/ c = <<rec, p>>
    BY <1>2 DEF Recording
  <2> QED
    BY <1>6, <2>1 DEF ReviewInv, PathOK
<1>8. asked("RISK_ANALYTICS") /\ response["RISK_ANALYTICS"] = None /\ outcome = "composing"
  BY <1>2, <1>5, <1>6 DEF ReviewInv, PathOK, RiskOK, Needs
<1>9. risk \in RiskProgress /\ response \in [Sections \cup Panels -> Supports]
  BY DEF ReviewInv, AnswersOK, RiskProgress
<1>10. done \in RiskProgress
  <2>1. ok => answer \in RiskStates
    BY <1>2 DEF RiskStates
  <2>2. ok \in BOOLEAN
    BY <1>2
  <2>3. PICK l, t, f : /\ l = risk.left \ {CHOOSE q \in risk.left : TRUE}
                       /\ t = (IF ok THEN risk.states \cup {answer} ELSE risk.states)
                       /\ f = (risk.failed \/ ~ok)
    OBVIOUS
  <2>4. l \in SUBSET RiskPeriods /\ t \in SUBSET RiskStates /\ f \in BOOLEAN
    BY <1>9, <2>1, <2>2, <2>3 DEF RiskProgress
  <2>5. done = [risk EXCEPT !.left = l, !.states = t, !.failed = f]
    BY <1>3, <1>9, <2>3 DEF RiskProgress
  <2> QED
    BY <1>9, <2>4, <2>5 DEF RiskProgress
<1>11. CASE answer = "broken"
  BY <1>5, <1>7, <1>11, FailStep
<1>12. CASE answer # "broken" /\ done.left # {}
  <2>1. risk' = done /\ UNCHANGED <<pc, response, history, outcome>>
    BY <1>5, <1>12
  <2>2. Short("RISK_ANALYTICS")'
    BY <1>5, <1>8, <2>1, AskedAgain DEF Short
  <2>3. PathOK'
    <3>1. Needs(pc)' /\ pc' = call /\ window' = window
      BY <1>2, <1>5, <1>6, <2>1, AskedAgain DEF ReviewInv, PathOK
    <3>2. \A c \in calls' : Behind(c[1])'
      BY <1>5, <1>6, <1>7, <2>1 DEF ReviewInv, PathOK, Behind
    <3> QED
      BY <1>5, <1>6, <1>7, <2>1, <3>1, <3>2 DEF ReviewInv, PathOK
  <2>4. LedgerOK(ledger)' /\ WindowOK(window, ledger)'
    BY <1>5 DEF ReviewInv, LedgerOK, WindowOK, OneRevision
  <2>5. AnswersOK'
    BY <1>5, <1>10, <2>1, AskedAgain DEF ReviewInv, AnswersOK, RiskProgress
  <2>6. RiskOK' /\ PerformanceOK'
    BY <1>5, <1>6, <1>8, <2>1, <2>2 DEF RiskOK, PerformanceOK
  <2>7. CallsOK'
    <3> SUFFICES ASSUME request.kind = "review", NEW c \in calls', Faulty(c)
                 PROVE  Spoils(c[1])'
      BY <1>5 DEF CallsOK
    <3>1. PICK n : n = c[1]
      OBVIOUS
    <3>2. CASE n = "calculate_risk"
      BY <2>2, <3>1, <3>2 DEF Spoils
    <3>3. CASE n # "calculate_risk"
      <4>1. c \in calls
        BY <1>2, <1>7, <3>1, <3>3
      <4>2. Spoils(n)
        BY <1>5, <1>6, <3>1, <4>1 DEF ReviewInv, CallsOK
      <4> QED
        BY <1>5, <1>6, <2>1, <3>1, <3>3, <4>2, OtherSpoilsKept
    <3> QED
      BY <3>2, <3>3
  <2> QED
    BY <1>8, <2>1, <2>3, <2>4, <2>5, <2>6, <2>7, ReadyClaimStands DEF ReviewInv
<1>13. CASE answer # "broken" /\ done.left = {}
  <2>1. PICK got : got = put("RISK_ANALYTICS", result)
    OBVIOUS
  <2>2. /\ result \in {"ready", "partial", "unavailable"}
        /\ result = "ready" => done.states # {} /\ done.states \subseteq {"ready"} /\ ~done.failed
    <3>1. CASE done.states = {}
      BY <1>4, <3>1
    <3>2. CASE done.states # {}
      <4>1. PICK states, worst, failed : /\ states = done.states
                                         /\ worst = combine_risk_qualifications(states)
                                         /\ failed = done.failed
        OBVIOUS
      <4>2. states \in SUBSET RiskStates /\ failed \in BOOLEAN /\ states # {}
        BY <1>10, <3>2, <4>1 DEF RiskProgress
      <4>3. result = risk_supportability(worst, failed, FALSE)
        BY <1>4, <3>2, <4>1
      <4>4. /\ result \in {"ready", "partial", "unavailable"}
            /\ result = "ready" => worst = "ready" /\ ~failed
        BY <4>2, <4>3, RiskSupport
      <4>5. worst = "ready" => states \subseteq {"ready"}
        BY <4>1, <4>2, WorstDecides
      <4> QED
        BY <4>1, <4>2, <4>4, <4>5
    <3> QED
      BY <3>1, <3>2
  <2>3. /\ got \in [Sections \cup Panels -> Supports] /\ got["RISK_ANALYTICS"] = result
        /\ \A s \in Sections : s # "RISK_ANALYTICS" => got[s] = response[s]
    BY <1>9, <2>1, <2>2 DEF put, Supports, Sections
  <2>4. proceed(call, got, past, done)
    BY <1>5, <1>13, <2>1
  <2>5. response' = got /\ risk' = done
    BY <2>4 DEF proceed
  <2>6. result # "ready" => Short("RISK_ANALYTICS")'
    BY <1>5, <1>8, <2>2, <2>3, <2>5, AskedAgain DEF Short
  <2>7. FaultsShown(done) /\ Spoils(rec)' /\ Spoils("calculate_risk")'
    BY <1>2, <2>2, <2>5, <2>6 DEF FaultsShown, Spoils
  <2>8. placeOf[rec] <= placeOf[call] /\ got["RISK_ANALYTICS"] \in {None, "ready", "partial", "unavailable"}
    BY <1>6, <2>2, <2>3
  <2> QED
    BY <1>2, <1>5, <1>7, <1>10, <2>3, <2>4, <2>7, <2>8, RiskCallStep
<1> QED
  BY <1>11, <1>12, <1>13

LEMMA TrendStep ==
    ASSUME ReviewInv, rolling_metrics
    PROVE  ReviewInv'
<1>1. PICK call, past, periods : call = "rolling_metrics" /\ past = history /\ periods = risk
  OBVIOUS
<1>2. PICK answer \in {"ready", "degraded", "malformed"} \cup Failures :
         LET trend == IF answer \in Failures THEN "unavailable"
                      ELSE risk_source_supportability(qualify_risk_response(answer))
             calculation == IF sourced("RISK_ANALYTICS") THEN response["RISK_ANALYTICS"]
                            ELSE "unavailable"
         IN  /\ answered(call, answer) /\ window' = window
             /\ proceed(call,
                        [response EXCEPT
                            !["RISK_TREND"] = trend,
                            !["RISK_ANALYTICS"] =
                                combine_risk_section_supportability(calculation, trend)],
                        past, periods)
  BY <1>1 DEF rolling_metrics
<1>3. call \in CallNames /\ call # "asset_allocation" /\ placeOf[call] = 14
  BY <1>1, NamesHavePlaces DEF placeOf
<1>4. PICK trend, calculation, v, p :
         /\ trend = (IF answer \in Failures THEN "unavailable"
                     ELSE risk_source_supportability(qualify_risk_response(answer)))
         /\ calculation = (IF sourced("RISK_ANALYTICS") THEN response["RISK_ANALYTICS"]
                           ELSE "unavailable")
         /\ v = combine_risk_section_supportability(calculation, trend)
         /\ Recording(call, answer, p)
  BY <1>2, <1>3, AnsweredCall
<1>5. PICK got : got = [response EXCEPT !["RISK_TREND"] = trend, !["RISK_ANALYTICS"] = v]
  OBVIOUS
<1>6. answered(call, answer) /\ window' = window /\ proceed(call, got, past, periods)
  BY <1>2, <1>4, <1>5
<1>7. /\ pc = call /\ UNCHANGED <<request, ledger>> /\ asked("RISK_ANALYTICS")
      /\ calls' \subseteq calls \cup {<<call, p>>}
  BY <1>1, <1>3, <1>4, <1>6, AnsweredCall DEF Needs, Recording
<1>8. /\ response \in [Sections \cup Panels -> Supports] /\ risk \in RiskProgress
      /\ response["RISK_ANALYTICS"] \in {None, "ready", "partial", "unavailable"}
  BY DEF ReviewInv, AnswersOK, RiskProgress
<1>9. /\ trend \in {"ready", "partial", "unavailable"}
      /\ v \in {"ready", "partial", "unavailable"}
      /\ v = "ready" => trend = "ready" /\ response["RISK_ANALYTICS"] = "ready"
  BY <1>4, <1>8 DEF risk_source_supportability, sourced, combine_risk_section_supportability
<1>10. /\ got \in [Sections \cup Panels -> Supports] /\ got["RISK_ANALYTICS"] = v
       /\ \A s \in Sections : s # "RISK_ANALYTICS" => got[s] = response[s]
  <2>1. {trend, v} \subseteq Supports
    BY <1>9 DEF Supports
  <2>2. "RISK_ANALYTICS" \in Sections /\ "RISK_TREND" \in Panels /\ "RISK_TREND" \notin Sections
    BY DEF Sections, Panels
  <2> QED
    BY <1>5, <1>8, <2>1, <2>2
<1>11. response' = got /\ risk' = risk
  BY <1>1, <1>6 DEF proceed
<1>12. v # "ready" => Short("RISK_ANALYTICS")'
  BY <1>7, <1>9, <1>10, <1>11, AskedAgain DEF Short
<1>13. Short("RISK_ANALYTICS") => Short("RISK_ANALYTICS")'
  BY <1>9, <1>12, ReviewAssumption DEF Short
<1>14. FaultsShown(periods)
  BY <1>1, <1>13 DEF ReviewInv, RiskOK, FaultsShown
<1>15. Spoils("calculate_risk") => Spoils("calculate_risk")'
  BY <1>11, <1>13 DEF Spoils, Paged
<1>16. ASSUME Faulty(<<call, p>>) PROVE Spoils(call)'
  <2>1. trend # "ready"
    <3>1. CASE answer \in Failures
      BY <1>4, <3>1
    <3>2. CASE answer \notin Failures
      <4>1. qualify_risk_response(answer) # "ready"
        BY <1>1, <1>4, <1>16, <3>2, IncompleteRiskCall DEF RiskAnswers
      <4> QED
        BY <1>4, <3>2, <4>1 DEF risk_source_supportability
    <3> QED
      BY <3>1, <3>2
  <2> QED
    BY <1>1, <1>9, <1>12, <2>1 DEF Spoils
<1>17. placeOf[call] <= placeOf[call] /\ periods \in RiskProgress
       /\ got["RISK_ANALYTICS"] \in {None, "ready", "partial", "unavailable"}
  BY <1>1, <1>3, <1>8, <1>9, <1>10
<1> QED
  BY <1>1, <1>6, <1>7, <1>10, <1>14, <1>15, <1>16, <1>17, RiskCallStep

---------------------------------------------------------------------------
(* The pages of the transaction window *)

\* What one page makes of the window.
PageTaken(led, next) == WindowOK(next, led) /\ next.status \in {None, "ready", "partial"}

LEMMA PageIsRead ==
    ASSUME ReviewInv, NEW call \in Paged, NEW answer, pc = call, consume(call, answer)
    PROVE  PageTaken(ledger, window')
<1>1. PICK led, w : led = ledger /\ w = window
  OBVIOUS
<1>2. LedgerOK(led) /\ WindowOK(w, led) /\ w.status = None
  BY <1>1 DEF ReviewInv, PathOK, Early
<1>3. PICK limit : limit = least(Limit, MaxRows - Len(w.rows))
  OBVIOUS
<1>4. limit \in Int
  <2>1. w.rows \in Seq(TransactionRows)
    BY <1>2 DEF WindowOK, ReviewWindow
  <2> QED
    BY <1>3, <2>1, ReviewAssumption DEF least
<1>5. PICK now, page : now = led[Len(led)] /\ page = rows_of(slice(now, w.skip, limit), answer)
  OBVIOUS
<1>6. page = rows_of(page_rows(window.skip, limit), answer)
  BY <1>1, <1>5 DEF page_rows, slice
<1>7. PICK wf, more, taken :
         /\ wf = (w.wellformed /\ answer \notin {"untotalled", "ragged"})
         /\ more = grown(w, page, _to_int_total(answer), wf)
         /\ taken = merge_transaction_source_product(more, answer)
  OBVIOUS
<1>8. /\ WindowOK(taken, led) /\ taken.status = None /\ taken.pages # 0
      /\ taken.wellformed => taken.total = Len(now)
      /\ taken.trusted /\ ~taken.conflict /\ taken.wellformed => taken.revision = Len(led)
  <2>1. Took(taken, led, now)
    BY <1>1, <1>2, <1>4, <1>5, <1>7, PageIsTaken
  <2> QED
    BY <2>1 DEF Took
<1>9. more = [window EXCEPT !.rows = @ \o page, !.skip = @ + Len(page), !.pages = @ + 1,
                            !.total = _to_int_total(answer),
                            !.wellformed = @ /\ answer \notin {"untotalled", "ragged"}]
  BY <1>1, <1>2, <1>7 DEF grown, WindowOK, ReviewWindow
<1>10. \/ window' = taken
       \/ \E stop \in {None, "max_rows_reached", "max_pages_reached"} : window' = close(taken, stop)
  <2>1. PICK whole : whole = (page = <<>> \/ taken.skip >= taken.total)
    OBVIOUS
  <2>2. window' = IF Len(taken.rows) >= MaxRows THEN close(taken, "max_rows_reached")
                  ELSE IF whole THEN close(taken, None)
                  ELSE IF taken.pages >= MaxPages THEN close(taken, "max_pages_reached")
                  ELSE taken
    BY <1>1, <1>3, <1>6, <1>7, <1>9, <2>1 DEF consume
  <2> QED
    BY <2>2
<1>11. CASE window' = taken
  BY <1>1, <1>8, <1>11 DEF PageTaken
<1>12. CASE \E stop \in {None, "max_rows_reached", "max_pages_reached"} : window' = close(taken, stop)
  <2>1. PICK stop \in {None, "max_rows_reached", "max_pages_reached"} : window' = close(taken, stop)
    BY <1>12
  <2>2. PICK c : c = close(taken, stop)
    OBVIOUS
  <2>3. WindowOK(c, led) /\ c.status \in {"ready", "partial"}
    BY <1>2, <1>5, <1>8, <2>2, WindowCloses
  <2> QED
    BY <1>1, <1>8, <2>1, <2>2, <2>3 DEF PageTaken
<1> QED
  BY <1>10, <1>11, <1>12

\* Where the composition goes on once the window is closed.
window_exit(call) ==
    LET here == CHOOSE i \in 1..Len(Order) : Order[i] = call
        rest == {i \in here + 1 .. Len(Order) :
                    /\ Order[i] # "transactions_window"
                    /\ due(Order[i], response, history, risk)}
    IN  Order[CHOOSE i \in rest : \A j \in rest : i <= j]

LEMMA PagingEffects ==
    ASSUME NEW call, NEW answer, consume(call, answer)
    PROVE  /\ UNCHANGED <<history, risk, outcome>>
           /\ window'.status = None => UNCHANGED <<pc, response>>
           /\ window'.status # None =>
                 /\ response' = windowed(window')
                 /\ pc' = window_exit(call)
<1>1. PICK page : page = rows_of(page_rows(window.skip, least(Limit, MaxRows - Len(window.rows))), answer)
  OBVIOUS
<1>2. PICK taken : taken = merge_transaction_source_product(
                              [window EXCEPT !.rows = @ \o page, !.skip = @ + Len(page),
                                             !.pages = @ + 1, !.total = _to_int_total(answer),
                                             !.wellformed = @ /\ answer \notin {"untotalled", "ragged"}],
                              answer)
  OBVIOUS
<1>3. PICK next : next = IF Len(taken.rows) >= MaxRows THEN close(taken, "max_rows_reached")
                         ELSE IF page = <<>> \/ taken.skip >= taken.total THEN close(taken, None)
                         ELSE IF taken.pages >= MaxPages THEN close(taken, "max_pages_reached")
                         ELSE taken
  OBVIOUS
<1> QED
  BY Zenon, <1>1, <1>2, <1>3 DEF consume, window_exit

LEMMA ConsumeStep ==
    ASSUME ReviewInv, NEW call \in Paged, NEW answer \in Pages,
           answered(call, answer), consume(call, answer)
    PROVE  ReviewInv'
<1>1. call \in CallNames /\ call # "ended" /\ call # "compose" /\ placeOf[call] \in {4, 6}
  BY NamesHavePlaces DEF Paged, placeOf
<1>2. PICK p : Recording(call, answer, p)
  BY <1>1, AnsweredCall
<1>3. /\ pc = call /\ UNCHANGED <<request, ledger>> /\ Needs(call) /\ outcome = "composing"
      /\ calls' \subseteq calls \cup {<<call, p>>}
  BY <1>1, <1>2, AnsweredCall DEF Recording
<1>4. PageTaken(ledger, window')
  BY <1>3, PageIsRead
<1>5. /\ UNCHANGED <<history, risk, outcome>>
      /\ window'.status = None => UNCHANGED <<pc, response>>
      /\ window'.status # None =>
            /\ response' = windowed(window')
            /\ pc' = window_exit(call)
  BY PagingEffects
<1>6. ~Faulty(<<call, p>>)
  <2>1. answer \notin Failures /\ call \notin {"calculate_risk", "rolling_metrics"}
    BY DEF Pages, Failures, Paged
  <2> QED
    BY <1>2, <2>1, FaultyCall
<1>7. LedgerOK(ledger)' /\ WindowOK(window, ledger)'
  <2>1. PICK led, w : led = ledger /\ w = window'
    OBVIOUS
  <2>2. LedgerOK(led) /\ WindowOK(w, led)
    BY <1>4, <2>1 DEF PageTaken, ReviewInv
  <2>3. ledger' = led /\ window' = w
    BY <1>3, <2>1
  <2> QED
    BY <2>2, <2>3
<1>9. /\ risk.left = {} /\ risk.states = {} /\ ~risk.failed
      /\ response["RISK_ANALYTICS"] = None /\ response["PERFORMANCE"] = None
      /\ response \in [Sections \cup Panels -> Supports]
      /\ response["ADVISOR_COMMENTARY"] = None
  BY <1>1, <1>3 DEF ReviewInv, RiskOK, PerformanceOK, AnswersOK
<1>10. CASE window'.status = None
  <2>1. UNCHANGED <<pc, response>>
    BY <1>5, <1>10
  <2>2. PathOK'
    BY <1>1, <1>3, <1>5, <1>10, <2>1, AskedAgain DEF ReviewInv, PathOK, Behind
  <2>3. AnswersOK' /\ RiskOK' /\ PerformanceOK'
    <3>1. AnswersOK'
      BY <1>5, <1>10, <2>1, ReviewAssumption DEF ReviewInv, AnswersOK
    <3>2. RiskOK' /\ PerformanceOK'
      BY <1>3, <1>5, <1>9, <2>1 DEF RiskOK, PerformanceOK
    <3> QED
      BY <3>1, <3>2
  <2>4. CallsOK'
    <3> SUFFICES ASSUME request.kind = "review", NEW c \in calls', Faulty(c)
                 PROVE  Spoils(c[1])'
      BY <1>3 DEF CallsOK
    <3>1. CASE c \in calls
      <4>1. PICK n : n = c[1]
        OBVIOUS
      <4>2. Spoils(n)
        BY <1>1, <1>3, <3>1, <4>1 DEF ReviewInv, CallsOK
      <4> QED
        BY <1>3, <1>5, <2>1, <4>1, <4>2, SpoilsKept
    <3>2. CASE c = <<call, p>>
      BY <1>6, <3>2
    <3> QED
      BY <1>3, <3>1, <3>2
  <2> QED
    BY <1>3, <1>5, <1>7, <2>2, <2>3, <2>4, ReadyClaimStands DEF ReviewInv
<1>11. CASE window'.status # None
  <2>1. response' = windowed(window')
    BY <1>5, <1>11
  <2>2. PICK i \in 1..16 : call = Order[i] /\ placeOf[call] = i /\ i \in {4, 6}
    <3>1. Order[placeOf[call]] = call
      BY <1>1, NamesHavePlaces
    <3> QED
      BY <1>1, <3>1
  <2>3. PICK got, past, periods : got = response /\ past = history /\ periods = risk
    OBVIOUS
  <2>4. /\ place_in_order(call) = i
        /\ \E j \in i + 1 .. 17 : /\ first_of(rest_after(i, got, past, periods)) = j
                                  /\ Order[j] # "transactions_window"
                                  /\ due(Order[j], got, past, periods)
    BY <2>2, AfterTheWindow
  <2>5. PICK j \in i + 1 .. 17 : /\ first_of(rest_after(i, got, past, periods)) = j
                                 /\ Order[j] # "transactions_window"
                                 /\ due(Order[j], got, past, periods)
    BY <2>4
  <2>6. pc' = Order[first_of(rest_after(i, got, past, periods))]
    BY Zenon, <1>5, <1>11, <2>3, <2>4 DEF window_exit, place_in_order, first_of, rest_after
  <2>7. /\ pc' = Order[j] /\ pc' # "transactions_window"
        /\ due(Order[j], got, past, periods)
    BY <2>5, <2>6
  <2>8. Needs(pc')
    BY <2>7, DueIsNeeded
  <2>9. pc' \in CallNames /\ placeOf[pc'] = j /\ j \in 1..17 /\ i < j /\ pc' # "ended"
    <3>1. j \in 1..17 /\ i < j
      OBVIOUS
    <3>2. placeOf[Order[j]] = j /\ Order[j] \in CallNames
      BY <3>1, OrderPlaces DEF CallNames
    <3> QED
      BY <2>7, <3>1, <3>2, NamesHavePlaces
  <2>10. pc' \notin Early
    BY <2>2, <2>7, <2>9, EarlyPlaces
  <2>11. PathOK'
    <3>1. placeOf[call] <= placeOf[pc] /\ placeOf[pc] < placeOf[pc'] /\ pc \in CallNames
      BY <1>1, <1>3, <2>2, <2>9
    <3>2. request' = request /\ outcome' = outcome /\ PathOK
      BY <1>3, <1>5 DEF ReviewInv
    <3> QED
      BY <1>1, <1>3, <2>8, <2>9, <2>10, <3>1, <3>2, PathStep
  <2>12. \A s \in Sections \cup Panels :
            response'[s] = IF /\ asked(s)
                              /\ s \in {"INCOME_AND_ACTIVITY", "TRANSACTIONS", "INCOME", "ACTIVITY"}
                           THEN window'.status ELSE response[s]
    BY <1>11, <2>1 DEF windowed
  <2>13. response' \in [Sections \cup Panels -> Supports]
    <3>1. window'.status \in Supports
      BY <1>4 DEF PageTaken, Supports
    <3> QED
      BY <1>9, <1>11, <2>1, <3>1 DEF windowed
  <2>14. \A s \in Sections : s \notin {"INCOME_AND_ACTIVITY", "TRANSACTIONS"} => response'[s] = response[s]
    BY <2>12 DEF Sections
  <2>15. AnswersOK'
    <3>1. ASSUME request.kind = "review", window'.status = "partial"
          PROVE  \E s \in {"INCOME_AND_ACTIVITY", "TRANSACTIONS"} : asked(s)' /\ response'[s] = "partial"
      <4>1. PICK s \in {"INCOME_AND_ACTIVITY", "TRANSACTIONS"} : asked(s)
        BY <1>3, <3>1, ReviewAsks DEF Needs, Paged, Panels
      <4>2. s \in Sections
        BY <4>1 DEF Sections
      <4>3. response'[s] = "partial"
        BY <2>12, <3>1, <4>1, <4>2
      <4> QED
        BY <1>3, <4>1, <4>3, AskedAgain
    <3>2. response'["RISK_ANALYTICS"] = None /\ response'["ADVISOR_COMMENTARY"] = None
      BY <1>9, <2>14 DEF Sections
    <3> QED
      BY <1>3, <1>5, <2>13, <3>1, <3>2 DEF ReviewInv, AnswersOK
  <2>16. RiskOK' /\ PerformanceOK'
    BY <1>5, <1>9, <2>14 DEF RiskOK, PerformanceOK, Sections
  <2>17. CallsOK'
    <3> SUFFICES ASSUME request.kind = "review", NEW c \in calls', Faulty(c)
                 PROVE  Spoils(c[1])'
      BY <1>3 DEF CallsOK
    <3>1. CASE c \in calls
      <4>1. PICK n : n = c[1]
        OBVIOUS
      <4>2. Spoils(n)
        BY <1>1, <1>3, <3>1, <4>1 DEF ReviewInv, CallsOK
      <4>3. n \in DOMAIN SectionOf => /\ SectionOf[n] \in Sections
                                      /\ SectionOf[n] \notin {"INCOME_AND_ACTIVITY", "TRANSACTIONS"}
        BY DEF SectionOf, Sections
      <4>4. n \in DOMAIN SectionOf => response'[SectionOf[n]] = response[SectionOf[n]]
        BY <2>14, <4>3
      <4> QED
        BY <1>3, <1>5, <4>1, <4>2, <4>4, SpoilsKept
    <3>2. CASE c = <<call, p>>
      BY <1>6, <3>2
    <3> QED
      BY <1>3, <3>1, <3>2
  <2> QED
    BY <1>3, <1>5, <1>7, <2>11, <2>15, <2>16, <2>17, ReadyClaimStands DEF ReviewInv
<1> QED
  BY <1>10, <1>11

LEMMA WindowStep ==
    ASSUME ReviewInv, _list_transaction_rows_result
    PROVE  ReviewInv'
<1>1. PICK call \in Paged, answer \in Pages \cup {"malformed"} \cup Failures :
         /\ answered(call, answer)
         /\ IF answer \in Pages THEN consume(call, answer)
            ELSE fail(reporting_error(answer)) /\ UNCHANGED window
  BY DEF _list_transaction_rows_result, Paged
<1>2. CASE answer \in Pages
  BY <1>1, <1>2, ConsumeStep
<1>3. CASE answer \notin Pages
  <2>1. call \in CallNames
    BY NamesHavePlaces DEF Paged
  <2>2. UNCHANGED <<request, ledger>> /\ \A c \in calls' : c[1] \in CallNames
    BY <1>1, <2>1, AnsweredCall
  <2> QED
    BY <1>1, <1>3, <2>2, FailStep
<1> QED
  BY <1>2, <1>3

---------------------------------------------------------------------------
(* The composition, and the theorems about the review *)

\* A review marked ready for the client has no ordered section that falls short.
LEMMA ClientReadySections ==
    ASSUME NEW s \in Sections \ {"CLIENT_PROFILE", "OVERVIEW"},
           _review_audience(_build_client_sections)
    PROVE  ~Short(s)
<1>1. _build_review_section(s) \in {"ready", "not_applicable", "omitted_by_request"}
  <2>1. _build_client_sections[s] = _build_review_section(s)
    BY DEF _build_client_sections
  <2> QED
    BY <2>1 DEF _review_audience
<1>2. CASE ~asked(s)
  BY <1>2 DEF Short
<1>3. CASE asked(s) /\ ~sourced(s)
  BY <1>1, <1>3 DEF _build_review_section
<1>4. CASE asked(s) /\ sourced(s)
  <2>1. response[s] \notin {"partial", "unavailable", "pending"}
    BY <1>1, <1>4 DEF _build_review_section
  <2> QED
    BY <1>4, <2>1 DEF Short, sourced
<1> QED
  BY <1>2, <1>3, <1>4

LEMMA ComposeStep ==
    ASSUME ReviewInv, Compose
    PROVE  ReviewInv'
<1>1. /\ pc = "compose" /\ outcome' = "composed" /\ pc' = "ended"
      /\ UNCHANGED <<request, ledger, window, response, risk, calls>>
      /\ get_portfolio_review \/ get_summary
  BY DEF Compose
<1>2. PathOK'
  BY <1>1 DEF ReviewInv, PathOK, Early, Paged
<1>3. LedgerOK(ledger)' /\ WindowOK(window, ledger)'
  BY <1>1 DEF ReviewInv, LedgerOK, WindowOK, OneRevision
<1>4. AnswersOK'
  BY <1>1, AskedAgain DEF ReviewInv, AnswersOK
<1>5. RiskOK' /\ PerformanceOK' /\ CallsOK'
  BY <1>1, AskedAgain DEF ReviewInv, RiskOK, Short, PerformanceOK, CallsOK
<1>6. ClientReadyRestsOnAnswers'
  <2> SUFFICES ASSUME review_composed', published'.client_ready
               PROVE  (/\ \A c \in calls : Faulty(c) =>
                             \/ c[1] \in Unshown
                             \/ c[1] = "calculate_risk" /\ risk.states # {} /\ ~risk.failed
                       /\ risk.states \subseteq {"ready"})'
    BY DEF ClientReadyRestsOnAnswers, Faulty
  <2>1. request.kind = "review"
    BY <1>1 DEF review_composed
  <2>2. _review_audience(_build_client_sections)
    <3>1. get_portfolio_review
      BY <1>1, <2>1 DEF get_summary
    <3> QED
      BY <3>1 DEF get_portfolio_review
  <2>3. \A s \in Sections \ {"CLIENT_PROFILE", "OVERVIEW"} : ~Short(s)
    BY <2>2, ClientReadySections
  <2>4. /\ ~Short("ALLOCATION") /\ ~Short("HOLDINGS") /\ ~Short("PERFORMANCE")
        /\ ~Short("PERFORMANCE_ATTRIBUTION") /\ ~Short("RISK_ANALYTICS")
        /\ ~Short("RISK_ATTRIBUTION") /\ ~Short("ADVISOR_COMMENTARY")
        /\ ~Short("INCOME_AND_ACTIVITY") /\ ~Short("TRANSACTIONS")
    BY <2>3 DEF Sections
  <2>7. ASSUME NEW c \in calls, Faulty(c)
        PROVE  \/ c[1] \in Unshown
               \/ c[1] = "calculate_risk" /\ risk.states # {} /\ ~risk.failed
    <3>1. PICK n : n = c[1]
      OBVIOUS
    <3>2. Spoils(n)
      BY <1>1, <2>1, <2>7, <3>1 DEF ReviewInv, CallsOK
    <3> QED
      BY <2>4, <3>1, <3>2 DEF Spoils
  <2>8. risk.states \subseteq {"ready"}
    BY <2>4 DEF ReviewInv, RiskOK
  <2> QED
    BY <1>1, <2>7, <2>8 DEF Faulty
<1> QED
  BY <1>2, <1>3, <1>4, <1>5, <1>6 DEF ReviewInv

LEMMA RestateStep ==
    ASSUME ReviewInv, Restate
    PROVE  ReviewInv'
<1>1. PICK l \in Ledgers : ledger' = Append(ledger, l)
  BY DEF Restate
<1>2. UNCHANGED <<request, pc, window, response, risk, calls, outcome, published>> /\ pc \in Paged
  BY DEF Restate, Paged
<1>3. PICK led, w, longer : led = ledger /\ w = window /\ longer = Append(led, l)
  OBVIOUS
<1>4. LedgerOK(led) /\ WindowOK(w, led)
  BY <1>3 DEF ReviewInv
<1>5. LedgerOK(longer) /\ WindowOK(w, longer)
  BY <1>3, <1>4, NewerLedger
<1>6. ledger' = longer /\ window' = w
  BY <1>1, <1>2, <1>3
<1>7. LedgerOK(ledger)' /\ WindowOK(window, ledger)'
  BY <1>5, <1>6
<1>8. PathOK'
  BY <1>2, AskedAgain DEF ReviewInv, PathOK, Behind
<1>9. AnswersOK'
  BY <1>2, AskedAgain DEF ReviewInv, AnswersOK
<1>10. RiskOK' /\ PerformanceOK'
  BY <1>2, AskedAgain DEF ReviewInv, RiskOK, Short, PerformanceOK
<1>11. CallsOK'
  BY <1>2, AskedAgain DEF ReviewInv, CallsOK, Spoils, Short
<1>12. outcome' # "composed"
  BY <1>2 DEF ReviewInv, PathOK, Paged
<1> QED
  BY <1>7, <1>8, <1>9, <1>10, <1>11, <1>12, ReadyClaimStands DEF ReviewInv

\* A retry, the record of a failed capture and a stuttering step change none of it.
LEMMA IdleStep ==
    ASSUME ReviewInv, UNCHANGED <<request, pc, ledger, window, response, risk, calls, outcome>>,
           published' = published \/ outcome # "composed"
    PROVE  ReviewInv'
<1>1. PathOK'
  BY AskedAgain DEF ReviewInv, PathOK, Behind
<1>2. LedgerOK(ledger)' /\ WindowOK(window, ledger)'
  BY DEF ReviewInv, LedgerOK, WindowOK, OneRevision
<1>3. AnswersOK'
  BY AskedAgain DEF ReviewInv, AnswersOK
<1>4. RiskOK' /\ PerformanceOK'
  BY AskedAgain DEF ReviewInv, RiskOK, Short, PerformanceOK
<1>5. CallsOK'
  BY AskedAgain DEF ReviewInv, CallsOK, Spoils, Short
<1>6. ClientReadyRestsOnAnswers'
  BY AskedAgain DEF ReviewInv, ClientReadyRestsOnAnswers, review_composed
<1> QED
  BY <1>1, <1>2, <1>3, <1>4, <1>5, <1>6 DEF ReviewInv

LEMMA ReviewStarts == ReviewInit => ReviewInv
<1> SUFFICES ASSUME ReviewInit PROVE ReviewInv
  OBVIOUS
<1>1. /\ request \in Requests /\ pc = "portfolio_summary" /\ window = Fresh
      /\ response = [s \in Sections \cup Panels |-> None]
      /\ risk = [left |-> {}, states |-> {}, failed |-> FALSE]
      /\ calls = {} /\ outcome = "composing"
  BY DEF ReviewInit
<1>2. PICK l \in Ledgers : ledger = <<l>>
  BY DEF ReviewInit
<1>3. LedgerOK(ledger)
  BY <1>2 DEF LedgerOK
<1>4. WindowOK(window, ledger)
  <2>1. <<>> \in Seq(TransactionRows) /\ Len(<<>>) = 0
    OBVIOUS
  <2> QED
    BY <1>1, <2>1, ReviewAssumption DEF Fresh, WindowOK, ReviewWindow
<1>5. PathOK
  BY <1>1, NamesHavePlaces DEF PathOK, Fresh, Needs
<1>6. AnswersOK
  BY <1>1, ReviewAssumption DEF AnswersOK, Supports, Fresh, Sections
<1>7. RiskOK /\ PerformanceOK /\ CallsOK
  BY <1>1 DEF RiskOK, PerformanceOK, CallsOK, Sections
<1>8. ClientReadyRestsOnAnswers
  BY <1>1 DEF ClientReadyRestsOnAnswers, review_composed
<1> QED
  BY <1>3, <1>4, <1>5, <1>6, <1>7, <1>8 DEF ReviewInv

\* The inductive invariant of the composition: the calls follow their order, every page
\* taken continues one revision or marks the window, and an incomplete call leaves the
\* section that reads it short of ready until the review is composed
\* (reporting_read_service.py: get_portfolio_review and the calls it makes).
THEOREM ReviewInvariance == ReviewSpec => []ReviewInv
<1>1. ReviewInit => ReviewInv
  BY ReviewStarts
<1>2. ReviewInv /\ [ReviewNext]_review_vars => ReviewInv'
  <2> SUFFICES ASSUME ReviewInv, [ReviewNext]_review_vars PROVE ReviewInv'
    OBVIOUS
  <2>1. CASE _request_with_retry
    BY <2>1, IdleStep DEF _request_with_retry
  <2>2. CASE Restate
    BY <2>2, RestateStep
  <2>3. CASE get_portfolio_summary
    BY <2>3, SummaryStep
  <2>4. CASE _portfolio_client_profile
    BY <2>4, ProfileStep
  <2>5. CASE get_asset_allocation
    BY <2>5, AllocationStep
  <2>6. CASE get_portfolio_positions
    BY <2>6, PositionsStep
  <2>7. CASE _list_transaction_rows_result
    BY <2>7, WindowStep
  <2>8. CASE get_workspace_summary
    BY <2>8, WorkspaceStep
  <2>9. CASE _map_performance_contribution
    BY <2>9, ContributionStep
  <2>10. CASE capture_attribution
    BY <2>10, AttributionStep
  <2>11. CASE risk_return_history
    BY <2>11, HistoryStep
  <2>12. CASE calculate_risk
    BY <2>12, CalculationStep
  <2>13. CASE _calculate_risk_by_period
    BY <2>13, PeriodStep
  <2>14. CASE rolling_metrics
    BY <2>14, TrendStep
  <2>15. CASE drawdown_analytics
    BY <2>15, DrawdownStep
  <2>16. CASE _build_risk_attribution
    BY <2>16, RiskAttributionStep
  <2>17. CASE _resolve_advisor_commentary
    BY <2>17, CommentaryStep
  <2>18. CASE Compose
    BY <2>18, ComposeStep
  <2>19. CASE _failed_capture
    BY <2>19, IdleStep DEF _failed_capture
  <2>20. CASE UNCHANGED review_vars
    BY <2>20, IdleStep DEF review_vars
  <2> QED
    BY <2>1, <2>2, <2>3, <2>4, <2>5, <2>6, <2>7, <2>8, <2>9, <2>10, <2>11, <2>12, <2>13,
       <2>14, <2>15, <2>16, <2>17, <2>18, <2>19, <2>20 DEF ReviewNext
<1> QED
  BY <1>1, <1>2, PTL DEF ReviewSpec

\* However often lotus-core restates its ledger between two pages, a transaction window
\* that the paging loop reports as ready is, row for row, one revision of it, provided
\* every page stated its total and held only rows
\* (_list_transaction_rows_result, merge_transaction_source_product).
THEOREM ReadyWindowsAreOneRevision == ReviewSpec => []ReadyWindowIsOneRevision
<1>1. ReviewInv => ReadyWindowIsOneRevision
  <2> SUFFICES ASSUME ReviewInv, window.status = "ready", window.wellformed
               PROVE  \E i \in DOMAIN ledger : window.rows = ledger[i]
    BY DEF ReadyWindowIsOneRevision
  <2>1. PICK i \in 1..Len(ledger) : window.rows = ledger[i]
    BY DEF ReviewInv, WindowOK
  <2>2. DOMAIN ledger = 1..Len(ledger)
    BY DEF ReviewInv, LedgerOK
  <2> QED
    BY <2>1, <2>2
<1> QED
  BY <1>1, ReviewInvariance, PTL

\* A review whose audience claim is client ready recorded no call that failed and no risk
\* result that is less than complete, but for the calls whose failure no section shows and
\* a risk calculation that every period replaced (_review_audience over
\* _build_review_section, against what the recording clients appended).
THEOREM ClientReadyIsFounded == ReviewSpec => []ClientReadyRestsOnAnswers
<1>1. ReviewInv => ClientReadyRestsOnAnswers
  BY DEF ReviewInv
<1> QED
  BY <1>1, ReviewInvariance, PTL
==============================================================================
