--------------------------- MODULE EvdevKernelProofs ---------------------------
(***************************************************************************)
(* Lemmas on events and on the kernel's ring: the types of what it holds,  *)
(* and that the serials in the ring are distinct, ordered after what was   *)
(* read, and fewer than the ring has slots.                                *)
(***************************************************************************)
EXTENDS EvdevKernel, FiniteSetTheorems, WellFoundedInduction, TLAPS

-----------------------------------------------------------------------------
(* Numbers *)

\* A nonempty set of naturals has a least element.
LEMMA LeastNat ==
  ASSUME NEW S \in SUBSET Nat, S # {}
  PROVE  \E x \in S : \A y \in S : x <= y
<1> DEFINE R == {ss \in Nat \X Nat : ss[1] < ss[2]}
<1>1. IsWellFoundedOn(R, Nat)
  BY NatLessThanWellFounded DEF OpToRel
<1>2. PICK x \in S : \A y \in S : ~ (<<y, x>> \in R)
  <2> HIDE DEF R
  <2> QED BY <1>1, WFMin
<1>3. ASSUME NEW y \in S PROVE x <= y
  <2>1. ~ (<<y, x>> \in R) BY <1>2
  <2>2. <<y, x>> \in Nat \X Nat OBVIOUS
  <2>3. ~ (y < x) BY <2>1, <2>2
  <2>4. x \in Nat /\ y \in Nat OBVIOUS
  <2> QED BY <2>3, <2>4
<1> QED BY <1>3

\* A nonempty bounded set of naturals has a greatest element.
LEMMA GreatestNat ==
  ASSUME NEW S \in SUBSET Nat, S # {}, NEW n \in Nat, \A x \in S : x <= n
  PROVE  \E x \in S : \A y \in S : y <= x
<1> DEFINE T == {n - x : x \in S}
<1>1. T \in SUBSET Nat
  BY \A x \in S : n - x \in Nat
<1>2. T # {} OBVIOUS
<1>3. PICK t \in T : \A y \in T : t <= y BY <1>1, <1>2, LeastNat
<1>4. PICK m \in S : t = n - m BY <1>3
<1>5. ASSUME NEW y \in S PROVE y <= m
  <2>1. n - y \in T OBVIOUS
  <2>2. n - m <= n - y BY <2>1, <1>3, <1>4
  <2> QED BY <2>2
<1> QED BY <1>5

-----------------------------------------------------------------------------
(* Events *)

\* The three constructors make events.
LEMMA EventTypes ==
  ASSUME NEW n \in Nat
  PROVE  /\ Report(n) \in Event /\ Dropped(n) \in Event
         /\ \A c \in Control : \A v \in Raw(c) : Input(n, c, v) \in Event
<1>1. Report(n) \in Event BY DEF Report, Event, NoControl
<1>2. Dropped(n) \in Event BY DEF Dropped, Event, NoControl
<1>3. ASSUME NEW c \in Control, NEW v \in Raw(c)
      PROVE  Input(n, c, v) \in Event
  <2>1. c \in Int /\ v \in Int
    BY ControlAssumption, AxisValueAssumption DEF Raw, Level
  <2> QED BY <2>1 DEF Input, Event
<1> QED BY <1>1, <1>2, <1>3

\* process_event stores a level.
LEMMA StoredType ==
  ASSUME NEW c \in Control, NEW v \in Raw(c)
  PROVE  Stored(c, v) \in Level(c) /\ Level(c) \subseteq Int
BY ControlAssumption, AxisValueAssumption DEF Stored, Raw, Level, ControlType, BitsType

\* An empty cache holds levels.
LEMMA EmptyLevelsType == EmptyLevels \in Levels
BY AxisValueAssumption DEF EmptyLevels, Levels, Level

\* Setting one control to a level keeps levels.
LEMMA SetLevel ==
  ASSUME NEW s \in Levels, NEW c \in Control, NEW v \in Level(c)
  PROVE  [s EXCEPT ![c] = v] \in Levels
<1>1. v \in Int BY AxisValueAssumption DEF Level
<1>2. s \in [Control -> Int] BY DEF Levels
<1>3. [s EXCEPT ![c] = v] \in [Control -> Int] BY <1>1, <1>2
<1>4. \A d \in Control : [s EXCEPT ![c] = v][d] \in Level(d) BY <1>2 DEF Levels
<1> QED BY <1>3, <1>4 DEF Levels

\* Folding an event into levels gives levels.
LEMMA FoldType ==
  ASSUME NEW s \in Levels, NEW e \in Event
  PROVE  Fold(s, e) \in Levels
<1>1. CASE e.kind = "input"
  <2>1. e.ctl \in Control /\ e.val \in Raw(e.ctl) BY <1>1 DEF Event
  <2>2. Stored(e.ctl, e.val) \in Level(e.ctl) BY <2>1, StoredType
  <2> QED BY <1>1, <2>1, <2>2, SetLevel DEF Fold
<1>2. CASE e.kind # "input" BY <1>2 DEF Fold
<1> QED BY <1>1, <1>2

-----------------------------------------------------------------------------
(* The ring *)

Distinct(S) == \A e, f \in S : e.n = f.n => e = f

\* The open packet holds every event since the last report; the ring holds
\* distinct events that were passed to it, and always has a free slot.
RingInv ==
    /\ IsFiniteSet(kpend) /\ Distinct(kpend)
    /\ passed <= sent
    /\ Cardinality(kpend) = sent - passed /\ Cardinality(kpend) <= MaxPacket
    /\ \A e \in kpend : passed < e.n /\ e.n <= sent
    /\ IsFiniteSet(kqueue) /\ Distinct(kqueue)
    /\ Cardinality(kqueue) < RingSize
    /\ \A e \in kqueue : e.n <= passed

\* Distinct events with serials in an interval are at most as many as the
\* interval has numbers.
LEMMA SerialBound ==
  ASSUME NEW S \in SUBSET Event, Distinct(S), NEW a \in Int, NEW b \in Int,
         a <= b + 1, \A e \in S : a <= e.n /\ e.n <= b
  PROVE  IsFiniteSet(S) /\ Cardinality(S) <= b - a + 1
<1> DEFINE f == [e \in S |-> e.n]
<1>1. IsFiniteSet(a .. b) /\ Cardinality(a .. b) = IF a > b THEN 0 ELSE b - a + 1
  BY FS_Interval
<1>2. f \in [S -> a .. b]
  BY DEF Event
<1>3. \A e, g \in S : f[e] = f[g] => e = g
  BY DEF Distinct
<1>4. f \in Injection(S, a .. b)
  BY <1>2, <1>3 DEF Injection, IsInjective
<1>5. IsFiniteSet(S) /\ Cardinality(S) <= Cardinality(a .. b)
  BY <1>1, <1>4, FS_Injection
<1> QED BY <1>1, <1>5, FS_CardinalityType

\* Taking events out of the ring keeps the ring as it should be.
LEMMA RingSubset ==
  ASSUME KernelTypeOK, RingInv, kqueue' \subseteq kqueue,
         UNCHANGED <<kpend, sent, passed>>
  PROVE  RingInv'
<1>1. IsFiniteSet(kqueue') /\ Cardinality(kqueue') <= Cardinality(kqueue)
  BY FS_Subset DEF RingInv
<1>2. Cardinality(kqueue') \in Nat /\ Cardinality(kqueue) \in Nat
  BY <1>1, FS_CardinalityType DEF RingInv
<1>3. Cardinality(kqueue') < RingSize
  BY <1>1, <1>2, KernelAssumption DEF RingInv
<1>4. Distinct(kqueue') BY DEF RingInv, Distinct
<1>5. \A e \in kqueue' : e.n <= passed' BY DEF RingInv
<1> QED BY <1>1, <1>3, <1>4, <1>5 DEF RingInv, Distinct

\* The ring is empty and nothing is pending when the file is opened.
LEMMA RingInit == KernelInit => KernelTypeOK /\ RingInv
<1> SUFFICES ASSUME KernelInit PROVE KernelTypeOK /\ RingInv OBVIOUS
<1>1. KernelTypeOK BY DEF KernelInit, KernelTypeOK
<1>2. IsFiniteSet({}) /\ Cardinality({}) = 0 BY FS_EmptySet
<1>3. RingInv
  BY <1>2, KernelAssumption DEF KernelInit, RingInv, Distinct
<1> QED BY <1>1, <1>3

\* What the ring takes at SYN_REPORT: nothing of an empty ring is lost, and
\* the events it holds afterwards are newer than all it held before, or are
\* those and the packet.
LEMMA PacketTypes ==
  ASSUME KernelTypeOK, RingInv
  PROVE  /\ kpend \cup {Report(sent + 1)} \in SUBSET Event
         /\ FillsRing \in Nat /\ passed < FillsRing
         /\ Dropped(FillsRing - 1) \in Event
         /\ kqueue = {} => FillsRing > sent + 1
<1>1. Cardinality(kqueue) \in Nat BY FS_CardinalityType DEF RingInv
<1>2. FillsRing \in Nat /\ passed < FillsRing /\ FillsRing - 1 \in Nat
  BY <1>1, KernelAssumption DEF FillsRing, RingInv, KernelTypeOK
<1>3. Report(sent + 1) \in Event /\ Dropped(FillsRing - 1) \in Event
  BY <1>2, EventTypes DEF KernelTypeOK
<1>4. ASSUME kqueue = {} PROVE FillsRing > sent + 1
  <2>1. Cardinality(kqueue) = 0 BY <1>4, FS_EmptySet
  <2>2. Cardinality(kpend) \in Nat BY FS_CardinalityType DEF RingInv
  <2> QED BY <2>1, <2>2, KernelAssumption DEF FillsRing, RingInv, KernelTypeOK
<1> QED BY <1>2, <1>3, <1>4 DEF KernelTypeOK

\* An input event keeps the ring.
LEMMA RingKernelInput ==
  ASSUME KernelTypeOK, RingInv, NEW c \in Control, NEW v \in Raw(c),
         KernelInput(c, v)
  PROVE  KernelTypeOK' /\ RingInv'
<1> DEFINE e == Input(sent + 1, c, v)
<1>1. e \in Event /\ e.n = sent + 1
  BY EventTypes DEF KernelTypeOK, Input
<1>2. e \notin kpend
  BY <1>1 DEF RingInv, KernelTypeOK, Event
<1>3. /\ IsFiniteSet(kpend \cup {e})
      /\ Cardinality(kpend \cup {e}) = Cardinality(kpend) + 1
  BY <1>2, FS_AddElement DEF RingInv
<1>4. kstate' \in Levels
  BY StoredType, SetLevel DEF KernelInput, KernelTypeOK
<1>5. KernelTypeOK'
  BY <1>1, <1>4 DEF KernelTypeOK, KernelInput
<1>6. Cardinality(kpend) \in Nat BY FS_CardinalityType DEF RingInv
<1>7. Distinct(kpend')
  <2> SUFFICES ASSUME NEW f \in kpend', NEW g \in kpend', f.n = g.n
               PROVE  f = g
    BY DEF Distinct
  <2>1. \A h \in kpend : h.n # e.n
    BY <1>1 DEF RingInv, KernelTypeOK, Event
  <2>2. kpend' = kpend \cup {e} BY DEF KernelInput
  <2>3. \A h, i \in kpend : h.n = i.n => h = i BY DEF RingInv, Distinct
  <2> QED BY <2>1, <2>2, <2>3
<1>8. \A f \in kpend' : passed' < f.n /\ f.n <= sent'
  BY <1>1 DEF KernelInput, RingInv, KernelTypeOK, Event
<1>9. /\ Cardinality(kpend') = sent' - passed'
      /\ Cardinality(kpend') <= MaxPacket
      /\ passed' <= sent'
  BY <1>3, <1>6, KernelAssumption DEF KernelInput, RingInv, KernelTypeOK
<1> QED BY <1>3, <1>5, <1>7, <1>8, <1>9 DEF RingInv, KernelInput, Distinct

\* SYN_REPORT keeps the ring, and it never fills up twice for one packet.
LEMMA RingKernelReport ==
  ASSUME KernelTypeOK, RingInv, KernelReport
  PROVE  KernelTypeOK' /\ RingInv'
<1> DEFINE packet == kpend \cup {Report(sent + 1)}
           d == Dropped(FillsRing - 1)
           rest == {e \in packet : e.n >= FillsRing}
<1>1. /\ packet \in SUBSET Event /\ FillsRing \in Nat /\ passed < FillsRing
      /\ d \in Event /\ d.n = FillsRing - 1
      /\ Report(sent + 1).n = sent + 1
  BY PacketTypes DEF Dropped, Report
<1>2. \A e \in packet : passed < e.n /\ e.n <= sent + 1
  BY <1>1 DEF RingInv, KernelTypeOK, Event
<1>3. Distinct(packet)
  <2> SUFFICES ASSUME NEW e \in packet, NEW f \in packet, e.n = f.n
               PROVE  e = f
    BY DEF Distinct
  <2>1. \A h \in kpend : h.n # Report(sent + 1).n
    BY <1>1 DEF RingInv, KernelTypeOK, Event
  <2>2. \A h, i \in kpend : h.n = i.n => h = i BY DEF RingInv, Distinct
  <2> QED BY <2>1, <2>2
<1>4. /\ Cardinality(kqueue) \in Nat /\ Cardinality(kpend) \in Nat
      /\ sent \in Nat /\ passed \in Nat
  BY FS_CardinalityType DEF RingInv, KernelTypeOK
<1>5. kpend' = {} /\ sent' = sent + 1 /\ passed' = sent + 1
  BY DEF KernelReport
<1>6. IsFiniteSet(kpend') /\ Cardinality(kpend') = 0
  BY <1>5, FS_EmptySet
<1>7. CASE FillsRing > sent + 1
  <2>1. kqueue' = kqueue \cup packet BY <1>7 DEF KernelReport
  <2>2. IsFiniteSet(packet) /\ Cardinality(packet) = Cardinality(kpend) + 1
    <3>1. Report(sent + 1) \notin kpend
      BY <1>1 DEF RingInv, KernelTypeOK, Event
    <3> QED BY <3>1, FS_AddElement DEF RingInv
  <2>3. /\ IsFiniteSet(kqueue \cup packet)
        /\ Cardinality(kqueue \cup packet)
             <= Cardinality(kqueue) + Cardinality(packet)
    <3>1. IsFiniteSet(kqueue) BY DEF RingInv
    <3>2. /\ IsFiniteSet(kqueue \cup packet)
          /\ Cardinality(kqueue \cup packet)
               = Cardinality(kqueue) + Cardinality(packet)
                   - Cardinality(kqueue \cap packet)
      BY <3>1, <2>2, FS_Union
    <3>3. Cardinality(kqueue \cap packet) \in Nat
      BY <3>1, FS_Intersection, FS_CardinalityType
    <3> QED BY <3>2, <3>3, <2>2, <1>4
  <2>4. Cardinality(kqueue \cup packet) \in Nat
    BY <2>3, FS_CardinalityType
  <2>5. Cardinality(kqueue \cup packet) < RingSize
    <3>1. RingSize \in Int BY KernelAssumption
    <3>2. Cardinality(kpend) = sent - passed BY DEF RingInv
    <3> QED BY <3>1, <3>2, <2>2, <2>3, <2>4, <1>4, <1>7 DEF FillsRing
  <2>6. Distinct(kqueue \cup packet)
    <3>1. \A e \in kqueue : \A f \in packet : e.n # f.n
      BY <1>2, <1>1, <1>4 DEF RingInv, KernelTypeOK, Event
    <3>2. Distinct(kqueue) BY DEF RingInv
    <3> QED BY <3>1, <3>2, <1>3 DEF Distinct
  <2>7. \A e \in kqueue \cup packet : e.n <= sent + 1
    BY <1>1, <1>2, <1>4 DEF RingInv, KernelTypeOK, Event
  <2>8. KernelTypeOK'
    BY <2>1, <1>1, <1>4, <1>5 DEF KernelTypeOK, KernelReport
  <2> QED BY <2>1, <2>3, <2>5, <2>6, <2>7, <2>8, <1>4, <1>5, <1>6,
             KernelAssumption DEF RingInv, Distinct
<1>8. CASE ~ (FillsRing > sent + 1)
  <2>1. kqueue' = {d} \cup rest BY <1>8 DEF KernelReport
  <2>2. rest \in SUBSET Event /\ \A e \in rest : FillsRing <= e.n /\ e.n <= sent + 1
    BY <1>1, <1>2 DEF Event
  <2>3. Distinct({d} \cup rest)
    <3>1. \A e \in rest : e.n # d.n BY <2>2, <1>1 DEF Event
    <3>2. Distinct(rest) BY <1>3 DEF Distinct
    <3> QED BY <3>1, <3>2 DEF Distinct
  <2>4. {d} \cup rest \in SUBSET Event BY <2>2, <1>1
  <2>5. \A e \in {d} \cup rest : FillsRing - 1 <= e.n /\ e.n <= sent + 1
    BY <2>2, <1>1, <1>4, <1>8 DEF Event
  <2>6. /\ IsFiniteSet({d} \cup rest)
        /\ Cardinality({d} \cup rest) <= (sent + 1) - (FillsRing - 1) + 1
    <3>1. /\ FillsRing - 1 \in Int /\ sent + 1 \in Int
          /\ FillsRing - 1 <= (sent + 1) + 1
      BY <1>1, <1>4, <1>8
    <3> QED BY <3>1, <2>3, <2>4, <2>5, SerialBound
  <2>7. Cardinality({d} \cup rest) < RingSize
    <3>1. Cardinality({d} \cup rest) \in Nat BY <2>6, FS_CardinalityType
    <3>2. sent - passed <= MaxPacket BY DEF RingInv
    <3> QED BY <3>1, <3>2, <2>6, <1>1, <1>4, KernelAssumption
  <2>8. KernelTypeOK'
    BY <2>1, <2>4, <1>4, <1>5 DEF KernelTypeOK, KernelReport
  <2> QED BY <2>1, <2>3, <2>5, <2>6, <2>7, <2>8, <1>4, <1>5, <1>6,
             KernelAssumption DEF RingInv, Distinct
<1> QED BY <1>7, <1>8

\* Whatever was read stays older than whatever is in the ring.
LEMMA RingStaysAhead ==
  ASSUME KernelTypeOK, RingInv, KernelNext,
         NEW x \in Nat, x <= passed, \A e \in kqueue : x < e.n
  PROVE  /\ passed \in Nat /\ passed' \in Nat /\ passed <= passed'
         /\ x <= passed' /\ \A e \in kqueue' : x < e.n
<1>1. CASE KernelReport
  <2>1. /\ kpend \cup {Report(sent + 1)} \in SUBSET Event
        /\ FillsRing \in Nat /\ passed < FillsRing
        /\ kqueue = {} => FillsRing > sent + 1
    BY PacketTypes
  <2>2. \A e \in kpend \cup {Report(sent + 1)} : x < e.n
    BY <2>1 DEF RingInv, KernelTypeOK, Report, Event
  <2>3. passed' = sent + 1 /\ passed <= sent /\ sent \in Nat /\ passed \in Nat
    BY <1>1 DEF KernelReport, RingInv, KernelTypeOK
  <2>4. CASE FillsRing > sent + 1
    <3>1. kqueue' = kqueue \cup (kpend \cup {Report(sent + 1)})
      BY <1>1, <2>4 DEF KernelReport
    <3> QED BY <3>1, <2>2, <2>3
  <2>5. CASE ~ (FillsRing > sent + 1)
    <3>1. \A e \in kqueue' : \/ e = Dropped(FillsRing - 1)
                             \/ e \in kpend \cup {Report(sent + 1)}
      BY <1>1, <2>5 DEF KernelReport
    <3>2. PICK f \in kqueue : x < f.n BY <2>1, <2>5
    <3>3. f.n \in Nat /\ f.n <= passed BY DEF RingInv, KernelTypeOK, Event
    <3>4. x < Dropped(FillsRing - 1).n
      BY <3>2, <3>3, <2>1, <2>3 DEF Dropped
    <3> QED BY <3>1, <3>4, <2>2, <2>3
  <2> QED BY <2>4, <2>5
<1>2. CASE \E c \in Control : \E v \in Raw(c) : KernelInput(c, v)
  BY <1>2 DEF KernelInput, KernelTypeOK
<1> QED BY <1>1, <1>2 DEF KernelNext

\* Every step of the kernel keeps the ring.
LEMMA RingKernelNext ==
  ASSUME KernelTypeOK, RingInv, KernelNext
  PROVE  KernelTypeOK' /\ RingInv'
BY RingKernelInput, RingKernelReport DEF KernelNext

=============================================================================
