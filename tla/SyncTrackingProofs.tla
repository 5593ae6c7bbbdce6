-------------------------- MODULE SyncTrackingProofs --------------------------
(***************************************************************************)
(* Theorems about a Device no system call of which is interrupted: its     *)
(* cache follows the axes, and if its caller blocks and drives every       *)
(* iterator to the end, no gap in the events it gets goes unannounced.     *)
(***************************************************************************)
EXTENDS SyncDeviceProofs

-----------------------------------------------------------------------------
(* The events between the kernel and the cache *)

\* Not consumed yet: in the buffer behind consumed_to, in the ring, or in the
\* open packet.
Ahead == {event_buf[i] : i \in consumed_to + 1 .. Len(event_buf)} \cup kqueue \cup kpend

\* An event that decides what the cache will say of c.
Decides(e, c) == On(e, c) \/ e.kind = "SYN_DROPPED"

Axes == {c \in Control : TypeOf[c] = "ABSOLUTE"}

\* The newest event ahead on an axis has the kernel's position, unless a drop
\* came after it; when nothing ahead decides, the cache has it, or is about to
\* fetch it.  An axis that never moved has no events.
Tracking(c) ==
    /\ \A e \in Ahead : On(e, c) =>
         e.val = kstate[c] \/ \E f \in Ahead : e.n < f.n /\ Decides(f, c)
    /\ \/ \E e \in Ahead : Decides(e, c)
       \/ block_dropped \/ (pc = "sync" /\ c \in todo)
       \/ c \in fresh /\ state[c] = EmptyLevels[c]
       \/ state[c] = kstate[c]
    /\ c \in fresh => \A e \in Ahead : ~ On(e, c)

TrackInv == \A c \in Axes : Tracking(c)

\* While next() may still be called, the block it looks for starts where the
\* consumed part of the buffer ends.
PositionInv == pc = "iterate" /\ ~ done => range.end = consumed_to

\* The open packet holds input events.
PacketInv == \A e \in kpend : e.kind = "input"

\* What is ahead is an event, with a serial number.
LEMMA AheadEvents ==
  ASSUME EngineInv PROVE \A e \in Ahead : e \in Event /\ e.n \in Nat
<1>1. consumed_to \in Nat /\ Len(event_buf) \in Nat
  BY DEF EngineInv, EngineTypeOK
<1>2. \A i \in consumed_to + 1 .. Len(event_buf) : i \in 1 .. Len(event_buf)
  BY <1>1
<1>3. \A i \in consumed_to + 1 .. Len(event_buf) :
         event_buf[i] \in Event /\ event_buf[i].n \in Nat
  BY <1>2, BufElement DEF EngineInv
<1>4. \A e \in kqueue \cup kpend : e \in Event /\ e.n \in Nat
  BY DEF EngineInv, KernelTypeOK, Event
<1> QED BY <1>3, <1>4 DEF Ahead

\* Tracking depends on what is ahead, and on a few variables.
LEMMA TrackingUnchanged ==
  ASSUME TrackInv, Ahead' = Ahead,
         \A c \in Axes : (block_dropped \/ (pc = "sync" /\ c \in todo))
                            => (block_dropped \/ (pc = "sync" /\ c \in todo))',
         UNCHANGED <<kstate, fresh>>,
         \A c \in Axes : (\A e \in Ahead : ~ Decides(e, c)) => state'[c] = state[c]
  PROVE  TrackInv'
BY DEF TrackInv, Tracking, Axes, Decides, On

\* The same variables, the same events ahead.
LEMMA AheadUnchanged ==
  ASSUME UNCHANGED <<event_buf, consumed_to, kqueue, kpend>>
  PROVE  Ahead' = Ahead
BY DEF Ahead

\* Nothing ahead is newer than the last event produced, and what is in the
\* buffer is older than what is in the ring or in the open packet.
LEMMA AheadOrder ==
  ASSUME EngineInv
  PROVE  /\ \A e \in Ahead : e.n <= sent
         /\ \A i \in 1 .. Len(event_buf) : \A e \in kqueue \cup kpend :
              event_buf[i].n < e.n
<1>1. sent \in Nat /\ passed \in Nat /\ passed <= sent
  BY DEF EngineInv, KernelTypeOK, RingInv
<1>2. consumed_to \in Nat /\ Len(event_buf) \in Nat
  BY DEF EngineInv, EngineTypeOK
<1>3. \A i \in 1 .. Len(event_buf) : event_buf[i].n <= passed /\ event_buf[i].n \in Nat
  BY BufElement DEF EngineInv, OrderInv
<1>4. \A e \in kqueue : e.n <= passed /\ e.n \in Nat
  BY DEF EngineInv, RingInv, KernelTypeOK, Event
<1>5. \A e \in kpend : passed < e.n /\ e.n <= sent /\ e.n \in Nat
  BY DEF EngineInv, RingInv, KernelTypeOK, Event
<1>6. \A e \in kqueue \cup kpend : e.n <= sent
  BY <1>1, <1>4, <1>5
<1>7. \A i \in consumed_to + 1 .. Len(event_buf) : event_buf[i].n <= sent
  BY <1>1, <1>2, <1>3
<1>8. \A i \in 1 .. Len(event_buf) : \A e \in kpend : event_buf[i].n < e.n
  BY <1>1, <1>3, <1>5
<1>9. \A i \in 1 .. Len(event_buf) : \A e \in kqueue : event_buf[i].n < e.n
  BY DEF EngineInv, OrderInv
<1> QED BY <1>6, <1>7, <1>8, <1>9 DEF Ahead

\* Consuming a stretch of the buffer takes the oldest events away from ahead.
LEMMA AheadConsumed ==
  ASSUME EngineInv, NEW j \in consumed_to + 1 .. Len(event_buf), consumed_to' = j,
         UNCHANGED <<event_buf, kqueue, kpend>>
  PROVE  /\ Ahead = Ahead' \cup {event_buf[i] : i \in consumed_to + 1 .. j}
         /\ \A i \in consumed_to + 1 .. j : \A e \in Ahead' : event_buf[i].n < e.n
<1>1. consumed_to \in Nat /\ Len(event_buf) \in Nat /\ j \in Nat
  BY DEF EngineInv, EngineTypeOK
<1>2. consumed_to + 1 .. Len(event_buf)
        = (consumed_to + 1 .. j) \cup (j + 1 .. Len(event_buf))
  BY <1>1
<1>3. Ahead' = {event_buf[i] : i \in j + 1 .. Len(event_buf)} \cup kqueue \cup kpend
  BY DEF Ahead
<1>4. Ahead = {event_buf[i] : i \in (consumed_to + 1 .. j) \cup (j + 1 .. Len(event_buf))}
                \cup kqueue \cup kpend
  BY <1>2 DEF Ahead
<1>5. Ahead = Ahead' \cup {event_buf[i] : i \in consumed_to + 1 .. j}
  BY <1>3, <1>4
<1>6. \A i \in consumed_to + 1 .. j : \A k \in j + 1 .. Len(event_buf) :
         event_buf[i].n < event_buf[k].n
  BY <1>1 DEF EngineInv, OrderInv
<1>7. \A i \in consumed_to + 1 .. j : \A e \in kqueue \cup kpend : event_buf[i].n < e.n
  BY <1>1, AheadOrder
<1> QED BY <1>3, <1>5, <1>6, <1>7

\* Draining what was consumed leaves the same events ahead.
LEMMA AheadDrained ==
  ASSUME EngineInv, event_buf' = Drained(consumed_to), consumed_to' = 0,
         UNCHANGED <<kqueue, kpend>>
  PROVE  Ahead' = Ahead
<1>1. consumed_to \in 0 .. Len(event_buf) /\ consumed_to \in Nat /\ Len(event_buf) \in Nat
  BY DEF EngineInv, EngineTypeOK, OrderInv, InBounds
<1>2. /\ Len(event_buf') = Len(event_buf) - consumed_to
      /\ \A i \in 1 .. Len(event_buf') :
           /\ i + consumed_to \in 1 .. Len(event_buf)
           /\ event_buf'[i] = event_buf[i + consumed_to]
  BY <1>1, DrainedElements DEF EngineInv
<1>3. \A k \in consumed_to + 1 .. Len(event_buf) :
         /\ k - consumed_to \in 1 .. Len(event_buf')
         /\ event_buf'[k - consumed_to] = event_buf[k]
  BY <1>1, <1>2
<1>4. \A i \in 1 .. Len(event_buf') :
         /\ i + consumed_to \in consumed_to + 1 .. Len(event_buf)
         /\ event_buf'[i] = event_buf[i + consumed_to]
  BY <1>1, <1>2
<1>5. {event_buf'[i] : i \in 1 .. Len(event_buf')}
        = {event_buf[k] : k \in consumed_to + 1 .. Len(event_buf)}
  <2>1. ASSUME NEW x \in {event_buf'[i] : i \in 1 .. Len(event_buf')}
        PROVE  x \in {event_buf[k] : k \in consumed_to + 1 .. Len(event_buf)}
    <3>1. PICK i \in 1 .. Len(event_buf') : x = event_buf'[i] BY <2>1
    <3> QED BY <3>1, <1>4
  <2>2. ASSUME NEW x \in {event_buf[k] : k \in consumed_to + 1 .. Len(event_buf)}
        PROVE  x \in {event_buf'[i] : i \in 1 .. Len(event_buf')}
    <3>1. PICK k \in consumed_to + 1 .. Len(event_buf) : x = event_buf[k] BY <2>2
    <3> QED BY <3>1, <1>3
  <2> QED BY <2>1, <2>2
<1>6. Ahead' = {event_buf'[i] : i \in 1 .. Len(event_buf')} \cup kqueue \cup kpend
  BY DEF Ahead
<1> QED BY <1>5, <1>6 DEF Ahead

\* Reading an event leaves it ahead.
LEMMA AheadRead ==
  ASSUME EngineInv, FillOne PROVE Ahead' = Ahead
<1>1. PICK e \in kqueue : event_buf' = Append(event_buf, e) /\ kqueue' = kqueue \ {e}
  BY DEF FillOne
<1>2. event_buf \in Seq(Event) /\ e \in Event /\ Len(event_buf) \in Nat
  BY DEF EngineInv, EngineTypeOK, KernelTypeOK
<1>3. consumed_to \in Nat /\ consumed_to <= Len(event_buf) /\ consumed_to' = consumed_to
      /\ kpend' = kpend
  BY DEF EngineInv, EngineTypeOK, OrderInv, InBounds, FillOne, iterVars
<1>4. /\ Len(event_buf') = Len(event_buf) + 1
      /\ event_buf'[Len(event_buf) + 1] = e
      /\ \A i \in 1 .. Len(event_buf) : event_buf'[i] = event_buf[i]
  BY <1>1, <1>2
<1>5. consumed_to' + 1 .. Len(event_buf')
        = (consumed_to + 1 .. Len(event_buf)) \cup {Len(event_buf) + 1}
  BY <1>2, <1>3, <1>4
<1>6. {event_buf'[i] : i \in consumed_to' + 1 .. Len(event_buf')}
        = {event_buf[i] : i \in consumed_to + 1 .. Len(event_buf)} \cup {e}
  BY <1>2, <1>3, <1>4, <1>5
<1> QED BY <1>1, <1>3, <1>6 DEF Ahead

-----------------------------------------------------------------------------
(* The cache follows the axes *)

\* What processing a stretch of the buffer makes of an axis: the position of
\* the last event on it, or what it was.
LEMMA ProcessEventsAxis ==
  ASSUME EngineTypeOK, NEW lo \in Nat \ {0}, NEW hi \in 0 .. Len(event_buf), NEW c \in Axes
  PROVE  \/ /\ \A k \in lo .. hi : ~ On(event_buf[k], c)
            /\ ProcessEvents(state, lo, hi)[c] = state[c]
         \/ \E i \in lo .. hi :
              /\ On(event_buf[i], c)
              /\ \A k \in lo .. hi : On(event_buf[k], c) => k <= i
              /\ ProcessEvents(state, lo, hi)[c] = event_buf[i].val
<1> DEFINE touches == {i \in lo .. hi : On(event_buf[i], c)}
           latest == CHOOSE i \in touches : \A k \in touches : k <= i
<1>1. c \in Control /\ Tracked(c) /\ TypeOf[c] # "KEY" BY DEF Axes, Tracked
<1>2. ProcessEvents(state, lo, hi)[c]
        = IF touches # {} THEN event_buf[latest].val ELSE state[c]
  BY <1>1 DEF ProcessEvents, Stored
<1>3. CASE touches = {} BY <1>2, <1>3
<1>4. CASE touches # {}
  <2>1. touches \in SUBSET Nat /\ hi \in Nat /\ \A i \in touches : i <= hi
    BY DEF EngineTypeOK
  <2>2. \E i \in touches : \A k \in touches : k <= i
    <3> HIDE DEF touches
    <3> QED BY <2>1, <1>4, GreatestNat
  <2>3. latest \in touches /\ \A k \in touches : k <= latest
    <3> HIDE DEF touches
    <3> QED BY <2>2
  <2> HIDE DEF latest
  <2> QED BY <1>2, <1>4, <2>3
<1> QED BY <1>3, <1>4

\* A step of the kernel: an axis that moves has its event ahead; a ring that
\* overflows puts a drop ahead of everything it keeps.
LEMMA TrackKernelInput ==
  ASSUME EngineInv, TrackInv, NEW c \in Control, NEW v \in Raw(c), KernelInput(c, v),
         UNCHANGED engineVars
  PROVE  TrackInv'
<1> DEFINE new == Input(sent + 1, c, v)
<1>1. /\ kpend' = kpend \cup {new} /\ kstate' = [kstate EXCEPT ![c] = Stored(c, v)]
      /\ fresh' = fresh \ {c}
      /\ UNCHANGED <<kqueue, event_buf, consumed_to, block_dropped, pc, todo, state>>
  BY DEF KernelInput, engineVars, deviceVars, callVars, iterVars
<1>2. Ahead' = Ahead \cup {new} BY <1>1 DEF Ahead
<1>3. On(new, c) /\ new.n = sent + 1 /\ new.val = v /\ new.kind = "input"
      /\ \A d \in Control : d # c => ~ On(new, d)
  BY DEF Input, On
<1>4. \A e \in Ahead : e.n < new.n
  BY <1>3, AheadOrder, AheadEvents DEF EngineInv, KernelTypeOK
<1>5. kstate \in [Control -> Int] BY DEF EngineInv, KernelTypeOK, Levels
<1> SUFFICES ASSUME NEW d \in Axes PROVE Tracking(d)' BY DEF TrackInv, Axes
<1>6. Tracking(d) /\ d \in Control /\ TypeOf[d] = "ABSOLUTE" BY DEF TrackInv, Axes
<1> HIDE DEF new
<1>7. CASE d = c
  <2>1. kstate'[d] = v BY <1>1, <1>5, <1>6, <1>7 DEF Stored
  <2> QED BY <2>1, <1>1, <1>2, <1>3, <1>4, <1>7 DEF Tracking, Decides
<1>8. CASE d # c
  <2>1. kstate'[d] = kstate[d] /\ ~ On(new, d) BY <1>1, <1>3, <1>5, <1>6, <1>8
  <2>2. \A e \in Ahead' : On(e, d) => e \in Ahead BY <1>2, <2>1
  <2>3. ASSUME NEW e \in Ahead', On(e, d)
        PROVE  e.val = kstate'[d] \/ \E f \in Ahead' : e.n < f.n /\ Decides(f, d)
    BY <2>1, <2>2, <2>3, <1>2, <1>6 DEF Tracking
  <2>4. (\E e \in Ahead : Decides(e, d)) => \E e \in Ahead' : Decides(e, d) BY <1>2
  <2>5. d \in fresh' => d \in fresh BY <1>1
  <2>6. \/ \E e \in Ahead' : Decides(e, d)
        \/ block_dropped' \/ (pc' = "sync" /\ d \in todo')
        \/ d \in fresh' /\ state'[d] = EmptyLevels[d]
        \/ state'[d] = kstate'[d]
    <3>1. d \in fresh => d \in fresh' BY <1>1, <1>8
    <3> QED BY <3>1, <2>1, <2>4, <1>1, <1>6 DEF Tracking
  <2>7. d \in fresh' => \A e \in Ahead' : ~ On(e, d) BY <2>2, <2>5, <1>6 DEF Tracking
  <2> QED BY <2>3, <2>6, <2>7 DEF Tracking, Decides, On
<1> QED BY <1>7, <1>8

LEMMA TrackKernelReport ==
  ASSUME EngineInv, TrackInv, KernelReport, UNCHANGED engineVars
  PROVE  TrackInv'
<1> DEFINE report == Report(sent + 1)
           drop == Dropped(FillsRing - 1)
           buffered == {event_buf[i] : i \in consumed_to + 1 .. Len(event_buf)}
<1>1. /\ UNCHANGED <<event_buf, consumed_to, block_dropped, pc, todo, state, kstate, fresh>>
      /\ kpend' = {}
  BY DEF KernelReport, engineVars, deviceVars, callVars, iterVars
<1>2. /\ Ahead = buffered \cup kqueue \cup kpend
      /\ Ahead' = buffered \cup kqueue'
  BY <1>1 DEF Ahead
<1>3. \A c \in Control : ~ On(report, c) /\ ~ Decides(report, c) /\ ~ On(drop, c) /\ Decides(drop, c)
  BY DEF Report, Dropped, On, Decides
<1>4. FillsRing \in Nat /\ passed < FillsRing /\ passed \in Nat /\ drop.n = FillsRing - 1
  BY PacketTypes DEF EngineInv, KernelTypeOK, Dropped
<1> SUFFICES ASSUME NEW d \in Axes PROVE Tracking(d)' BY DEF TrackInv, Axes
<1>5. Tracking(d) /\ d \in Control BY DEF TrackInv, Axes
<1>6. CASE FillsRing > sent + 1
  <2>1. kqueue' = kqueue \cup (kpend \cup {report}) BY <1>6 DEF KernelReport
  <2>2. Ahead' = Ahead \cup {report} BY <2>1, <1>2
  <2> HIDE DEF report
  <2>3. \A e \in Ahead' : On(e, d) => e \in Ahead BY <2>2, <1>3, <1>5
  <2>4. (\E e \in Ahead : Decides(e, d)) => \E e \in Ahead' : Decides(e, d) BY <2>2
  <2>5. ASSUME NEW e \in Ahead', On(e, d)
        PROVE  e.val = kstate[d] \/ \E f \in Ahead' : e.n < f.n /\ Decides(f, d)
    BY <2>2, <2>3, <2>5, <1>5 DEF Tracking
  <2> QED BY <2>3, <2>4, <2>5, <1>1, <1>5 DEF Tracking, Decides, On
<1>7. CASE ~ (FillsRing > sent + 1)
  <2>1. kqueue' = {drop} \cup {e \in kpend \cup {report} : e.n >= FillsRing}
    BY <1>7 DEF KernelReport
  <2>2. drop \in Ahead' /\ Decides(drop, d) BY <2>1, <1>2, <1>3, <1>5
  <2>3. \A e \in Ahead' : \/ e \in buffered \/ e = drop \/ e = report
                          \/ e \in kpend /\ e.n >= FillsRing
    BY <2>1, <1>2
  <2>4. kqueue # {} BY <1>7, PacketTypes DEF EngineInv
  <2>5. \A i \in 1 .. Len(event_buf) : event_buf[i].n < FillsRing - 1
    <3>1. PICK q \in kqueue : TRUE BY <2>4
    <3>2. q.n <= passed /\ q.n \in Nat
      BY DEF EngineInv, RingInv, KernelTypeOK, Event
    <3>3. \A i \in 1 .. Len(event_buf) : event_buf[i].n < q.n /\ event_buf[i].n \in Nat
      BY BufElement DEF EngineInv, OrderInv
    <3> QED BY <3>2, <3>3, <1>4
  <2>6. ASSUME NEW e \in Ahead', On(e, d)
        PROVE  e.val = kstate[d] \/ \E f \in Ahead' : e.n < f.n /\ Decides(f, d)
    <3>1. CASE e \in buffered
      <4>1. PICK i \in consumed_to + 1 .. Len(event_buf) : e = event_buf[i] BY <3>1
      <4>2. i \in 1 .. Len(event_buf)
        BY DEF EngineInv, EngineTypeOK
      <4>3. e.n < drop.n BY <4>1, <4>2, <2>5, <1>4
      <4> QED BY <4>3, <2>2
    <3>2. CASE e \in kpend /\ e.n >= FillsRing
      <4>1. e \in Ahead BY <3>2, <1>2
      <4>2. CASE e.val = kstate[d] BY <4>2
      <4>3. CASE \E f \in Ahead : e.n < f.n /\ Decides(f, d)
        <5>1. PICK f \in Ahead : e.n < f.n /\ Decides(f, d) BY <4>3
        <5>2. f.n \in Nat /\ e.n \in Nat BY <4>1, AheadEvents
        <5>3. passed < f.n /\ FillsRing <= f.n BY <5>1, <5>2, <3>2, <1>4
        <5>4. f \in kpend
          <6>1. consumed_to \in Nat /\ Len(event_buf) \in Nat
            BY DEF EngineInv, EngineTypeOK
          <6>2. \A i \in consumed_to + 1 .. Len(event_buf) : event_buf[i].n <= passed
            BY <6>1 DEF EngineInv, OrderInv
          <6>3. \A q \in kqueue : q.n <= passed BY DEF EngineInv, RingInv
          <6> QED BY <6>2, <6>3, <5>2, <5>3, <1>2, <1>4
        <5>5. f \in kqueue' BY <5>2, <5>3, <5>4, <2>1, <1>4
        <5> QED BY <5>1, <5>5, <1>2
      <4> QED BY <4>1, <4>2, <4>3, <2>6, <1>5 DEF Tracking
    <3> QED BY <3>1, <3>2, <2>3, <2>6, <1>3, <1>5
  <2>7. ASSUME d \in fresh, NEW e \in Ahead' PROVE ~ On(e, d)
    <3>1. e \in Ahead \/ e = drop \/ e = report BY <2>3, <1>2
    <3> QED BY <3>1, <2>7, <1>3, <1>5 DEF Tracking
  <2> HIDE DEF drop, report
  <2> QED BY <2>2, <2>6, <2>7, <1>1 DEF Tracking, Decides, On
<1> QED BY <1>6, <1>7

\* The ioctls that flush take neither events of axes nor drops out of the ring.
LEMMA TrackSyncBits ==
  ASSUME EngineInv, TrackInv, NEW t \in BitsType, SyncBits(t)
  PROVE  TrackInv'
<1>1. /\ kqueue' = Flush(kqueue, t)
      /\ state' = [c \in Control |-> IF TypeOf[c] = t THEN kstate[c] ELSE state[c]]
      /\ todo' = {c \in todo : TypeOf[c] # t}
      /\ UNCHANGED <<kstate, kpend, fresh, block_dropped, event_buf, consumed_to, pc>>
  BY DEF SyncBits, iterVars
<1> SUFFICES ASSUME NEW d \in Axes PROVE Tracking(d)' BY DEF TrackInv, Axes
<1>2. Tracking(d) /\ d \in Control /\ TypeOf[d] = "ABSOLUTE" /\ t # "ABSOLUTE"
  BY DEF TrackInv, Axes, BitsType
<1>3. Ahead' \subseteq Ahead BY <1>1 DEF Ahead, Flush
<1>4. \A e \in Ahead : Decides(e, d) => e \in Ahead'
  BY <1>1, <1>2 DEF Ahead, Flush, Decides, On, OfType, EmptyGroup
<1>5. state'[d] = state[d] /\ (d \in todo => d \in todo') BY <1>1, <1>2
<1>6. ASSUME NEW e \in Ahead', On(e, d)
      PROVE  e.val = kstate'[d] \/ \E f \in Ahead' : e.n < f.n /\ Decides(f, d)
  BY <1>1, <1>2, <1>3, <1>4, <1>6 DEF Tracking
<1>7. \/ \E e \in Ahead' : Decides(e, d)
      \/ block_dropped' \/ (pc' = "sync" /\ d \in todo')
      \/ d \in fresh' /\ state'[d] = EmptyLevels[d]
      \/ state'[d] = kstate'[d]
  BY <1>1, <1>2, <1>4, <1>5 DEF Tracking
<1>8. d \in fresh' => \A e \in Ahead' : ~ On(e, d) BY <1>1, <1>2, <1>3 DEF Tracking
<1> QED BY <1>6, <1>7, <1>8 DEF Tracking, Decides, On

\* EVIOCGABS gives the cache the kernel's position.
LEMMA TrackSyncAxis ==
  ASSUME EngineInv, TrackInv, SyncAxis
  PROVE  TrackInv'
<1>1. PICK c \in todo : /\ TypeOf[c] = "ABSOLUTE"
                        /\ state' = [state EXCEPT ![c] = kstate[c]] /\ todo' = todo \ {c}
  BY DEF SyncAxis
<1>2. UNCHANGED <<kstate, kqueue, kpend, fresh, block_dropped, event_buf, consumed_to, pc>>
  BY DEF SyncAxis, iterVars, kernelVars
<1>3. Ahead' = Ahead BY <1>2, AheadUnchanged
<1>4. state \in [Control -> Int] BY DEF EngineInv, EngineTypeOK, Levels
<1> SUFFICES ASSUME NEW d \in Axes PROVE Tracking(d)' BY DEF TrackInv, Axes
<1>5. Tracking(d) /\ d \in Control BY DEF TrackInv, Axes
<1>6. d = c \/ (state'[d] = state[d] /\ (d \in todo => d \in todo')) BY <1>1, <1>4, <1>5
<1>7. d = c => state'[d] = kstate[d] BY <1>1, <1>4, <1>5
<1> QED BY <1>2, <1>3, <1>5, <1>6, <1>7 DEF Tracking, Decides, On

\* Every step of an uninterrupted fetch_events.
LEMMA TrackFetch ==
  ASSUME IInv, TrackInv, ~ MayInterrupt, Fetch
  PROVE  TrackInv'
<1> USE DEF deviceVars, callVars, iterVars, historyVars, kernelVars
<1>1. EngineInv /\ IdleInv BY DEF IInv
<1>2. CASE FetchEvents
  <2>1. Ahead' = Ahead /\ UNCHANGED <<kstate, fresh, state>>
    BY <1>2, AheadUnchanged DEF FetchEvents
  <2>2. \A c \in Axes : (block_dropped \/ (pc = "sync" /\ c \in todo))
                            => (block_dropped \/ (pc = "sync" /\ c \in todo))'
    BY <1>2 DEF FetchEvents, TakeDropped, Axes
  <2> QED BY <2>1, <2>2, TrackingUnchanged
<1>3. CASE \E t \in BitsType : SyncBits(t) BY <1>1, <1>3, TrackSyncBits
<1>4. CASE SyncAxis BY <1>1, <1>4, TrackSyncAxis
<1>5. CASE SyncStateDone
  <2>1. Ahead' = Ahead /\ UNCHANGED <<kstate, fresh, state, block_dropped>> /\ todo = {}
    BY <1>5, AheadUnchanged DEF SyncStateDone
  <2> QED BY <2>1, TrackingUnchanged
<1>6. CASE FillOne
  <2>1. Ahead' = Ahead BY <1>1, <1>6, AheadRead
  <2> QED BY <2>1, <1>6, TrackingUnchanged DEF FillOne
<1>7. CASE FillError \/ FillDone
  <2>1. consumed_to' = consumed_to
    BY <1>1, <1>7 DEF FillError, FillDone, IdleInv, ReadReturns
  <2>2. Ahead' = Ahead BY <2>1, <1>7, AheadUnchanged DEF FillError, FillDone
  <2>3. pc # "sync" /\ UNCHANGED <<kstate, fresh, state, block_dropped>>
    BY <1>7 DEF FillError, ReadFails, FillDone, ReadReturns
  <2> QED BY <2>2, <2>3, TrackingUnchanged
<1> QED BY <1>2, <1>3, <1>4, <1>5, <1>6, <1>7 DEF Fetch, SyncStateError

\* A block enters the cache as a whole: its last event on an axis decided, or
\* something newer does.
LEMMA TrackConsumed ==
  ASSUME EngineInv, TrackInv, RangeIsEmpty, range.end = consumed_to,
         NEW j \in range.end + 1 .. Len(event_buf), consumed_to' = j,
         block_dropped' \/ ~ BlockIsDropped(j), block_dropped => block_dropped',
         state' = ProcessEvents(state, range.end + 1, j), pc # "sync",
         UNCHANGED <<kstate, kqueue, kpend, fresh, event_buf>>
  PROVE  TrackInv'
<1>1. /\ consumed_to \in Nat /\ Len(event_buf) \in Nat /\ j \in 0 .. Len(event_buf)
      /\ range.end + 1 \in Nat \ {0}
  BY DEF EngineInv, EngineTypeOK
<1>2. /\ Ahead = Ahead' \cup {event_buf[i] : i \in consumed_to + 1 .. j}
      /\ \A i \in consumed_to + 1 .. j : \A e \in Ahead' : event_buf[i].n < e.n
  BY <1>1, AheadConsumed
<1>3. \A e \in Ahead : e.n \in Nat BY AheadEvents
<1> SUFFICES ASSUME NEW d \in Axes PROVE Tracking(d)' BY DEF TrackInv, Axes
<1>4. Tracking(d) BY DEF TrackInv
<1>5. \A e \in Ahead' : \A f \in Ahead : e.n < f.n => f \in Ahead'
  <2> SUFFICES ASSUME NEW e \in Ahead', NEW f \in Ahead, e.n < f.n, f \notin Ahead'
               PROVE  FALSE
    OBVIOUS
  <2>1. PICK i \in consumed_to + 1 .. j : f = event_buf[i] BY <1>2
  <2>2. f.n < e.n BY <2>1, <1>2
  <2>3. e \in Ahead BY <1>2
  <2> QED BY <2>2, <2>3, <1>3
<1>6. ASSUME NEW e \in Ahead', On(e, d)
      PROVE  e.val = kstate[d] \/ \E f \in Ahead' : e.n < f.n /\ Decides(f, d)
  BY <1>2, <1>4, <1>5, <1>6 DEF Tracking
<1>7. ASSUME ~ block_dropped', \A e \in Ahead' : ~ Decides(e, d)
      PROVE  (d \in fresh /\ state'[d] = EmptyLevels[d]) \/ state'[d] = kstate[d]
  <2>1. \A i \in range.end + 1 .. j : event_buf[i].kind # "SYN_DROPPED"
    BY <1>7 DEF BlockIsDropped
  <2>2. CASE /\ \A k \in range.end + 1 .. j : ~ On(event_buf[k], d)
             /\ state'[d] = state[d]
    <3>1. \A e \in Ahead : ~ Decides(e, d) BY <2>1, <2>2, <1>2, <1>7 DEF Decides
    <3> QED BY <3>1, <2>2, <1>4, <1>7 DEF Tracking
  <2>3. CASE \E i \in range.end + 1 .. j :
               /\ On(event_buf[i], d)
               /\ \A k \in range.end + 1 .. j : On(event_buf[k], d) => k <= i
               /\ state'[d] = event_buf[i].val
    <3>1. PICK i \in range.end + 1 .. j :
             /\ On(event_buf[i], d)
             /\ \A k \in range.end + 1 .. j : On(event_buf[k], d) => k <= i
             /\ state'[d] = event_buf[i].val
      BY <2>3
    <3>2. event_buf[i] \in Ahead BY <1>2
    <3>3. CASE event_buf[i].val = kstate[d] BY <3>1, <3>3
    <3>4. CASE \E f \in Ahead : event_buf[i].n < f.n /\ Decides(f, d)
      <4>1. PICK f \in Ahead : event_buf[i].n < f.n /\ Decides(f, d) BY <3>4
      <4>2. PICK k \in range.end + 1 .. j : f = event_buf[k] BY <4>1, <1>2, <1>7
      <4>3. On(event_buf[k], d) BY <4>1, <4>2, <2>1 DEF Decides
      <4>4. k <= i /\ k \in 1 .. Len(event_buf) /\ i \in 1 .. Len(event_buf)
        BY <4>3, <3>1, <1>1
      <4>5. k = i \/ event_buf[k].n < event_buf[i].n
        BY <4>4 DEF EngineInv, OrderInv
      <4> QED BY <4>1, <4>2, <4>5, <3>2, <1>3
    <3> QED BY <3>1, <3>2, <3>3, <3>4, <1>4 DEF Tracking
  <2> QED BY <2>2, <2>3, <1>1, ProcessEventsAxis DEF EngineInv
<1>8. d \in fresh => \A e \in Ahead' : ~ On(e, d) BY <1>2, <1>4 DEF Tracking
<1> QED BY <1>6, <1>7, <1>8 DEF Tracking, Decides, On

\* Every call of next().
LEMMA TrackIterNext ==
  ASSUME IInv, PositionInv, TrackInv, IterNext
  PROVE  TrackInv'
<1> USE DEF callVars, historyVars, kernelVars
<1>1. /\ EngineInv /\ pc = "iterate" /\ ~ done /\ range.end = consumed_to
      /\ EngineTypeOK
  BY DEF IInv, EngineInv, IterNext, PositionInv
<1>2. CASE CompensateControl(TRUE) \/ CompensateReport \/ NextFromBlock
  <2>1. /\ UNCHANGED <<event_buf, consumed_to, kstate, kqueue, kpend, fresh,
                       state, block_dropped, todo, pc>>
    BY <1>2 DEF CompensateControl, CompensateReport, NextFromBlock, deviceVars
  <2>2. Ahead' = Ahead BY <2>1, AheadUnchanged
  <2> QED BY <2>1, <2>2, TrackingUnchanged
<1>3. CASE NextNewBlock
  <2>1. PICK j \in 1 .. Len(event_buf) :
           /\ RangeIsEmpty /\ EndsBlock(j) /\ ~ BlockIsDropped(j) /\ consumed_to' = j
           /\ state' = ProcessEvents(state, range.end + 1, j)
    BY <1>3 DEF NextNewBlock
  <2>2. j \in range.end + 1 .. Len(event_buf) BY <2>1 DEF EndsBlock
  <2>3. UNCHANGED <<kstate, kqueue, kpend, fresh, event_buf, block_dropped>>
    BY <1>3 DEF NextNewBlock
  <2> QED BY <1>1, <2>1, <2>2, <2>3, TrackConsumed
<1>4. CASE NextDropped
  <2>1. PICK j \in 1 .. Len(event_buf) : DroppedBlock(j) /\ consumed_to' = j
    BY <1>4 DEF NextDropped
  <2>2. /\ RangeIsEmpty /\ j \in range.end + 1 .. Len(event_buf) /\ block_dropped'
        /\ state' = ProcessEvents(state, range.end + 1, j)
    BY <2>1 DEF DroppedBlock, EndsBlock
  <2>3. UNCHANGED <<kstate, kqueue, kpend, fresh, event_buf>>
    BY <1>4 DEF NextDropped
  <2> QED BY <1>1, <2>1, <2>2, <2>3, TrackConsumed
<1>5. CASE NextNone
  <2>1. /\ UNCHANGED <<event_buf, consumed_to, kstate, kqueue, kpend, fresh,
                       block_dropped, todo, pc>>
        /\ state' = ProcessEvents(state, range.end + 1, Len(event_buf))
    BY <1>5 DEF NextNone, NoBlock
  <2>2. Ahead' = Ahead BY <2>1, AheadUnchanged
  <2>3. /\ range.end + 1 \in Nat \ {0} /\ Len(event_buf) \in 0 .. Len(event_buf)
    BY <1>1 DEF EngineTypeOK
  <2>4. ASSUME NEW c \in Axes, \A e \in Ahead : ~ Decides(e, c)
        PROVE  state'[c] = state[c]
    <3>1. \A k \in range.end + 1 .. Len(event_buf) : ~ On(event_buf[k], c)
      BY <1>1, <2>4 DEF Ahead, Decides
    <3> QED BY <3>1, <2>1, <2>3, <1>1, ProcessEventsAxis
  <2> QED BY <2>1, <2>2, <2>4, TrackingUnchanged
<1> QED BY <1>2, <1>3, <1>4, <1>5 DEF IterNext, FromBuffer

LEMMA TrackDropIterator ==
  ASSUME IInv, TrackInv, DropIterator
  PROVE  TrackInv'
<1>1. /\ UNCHANGED <<kstate, fresh, kqueue, kpend, state, block_dropped>>
      /\ pc = "iterate" /\ event_buf' = Drained(consumed_to) /\ consumed_to' = 0
  BY DEF DropIterator, kernelVars
<1>2. Ahead' = Ahead BY <1>1, AheadDrained DEF IInv
<1> QED BY <1>1, <1>2, TrackingUnchanged

LEMMA TrackInit == Init => TrackInv
<1> SUFFICES ASSUME Init PROVE TrackInv OBVIOUS
<1>1. /\ consumed_to = 0 /\ event_buf = <<>> /\ kqueue = {} /\ kpend = {}
      /\ fresh = Control /\ state = EmptyLevels
  BY DEF Init, KernelInit, EngineInit
<1>2. Ahead = {} BY <1>1 DEF Ahead
<1> QED BY <1>1, <1>2 DEF TrackInv, Tracking, Axes

LEMMA PositionNext == IInv /\ PositionInv /\ [Next]_vars => PositionInv'
<1> SUFFICES ASSUME IInv, PositionInv, [Next]_vars PROVE PositionInv' OBVIOUS
<1> USE DEF PositionInv, iterVars, engineVars
<1>1. CASE Kernel BY <1>1 DEF Kernel
<1>2. CASE Fetch
  BY <1>2 DEF Fetch, FetchEvents, TakeDropped, SyncBits, SyncAxis, SyncStateDone,
              SyncStateError, FillOne, FillError, FillDone, Range0
<1>3. CASE (NextFromBlock \/ CompensateControl(TRUE) \/ CompensateReport) /\ UNCHANGED done
  <2>1. range'.end = range.end
    BY <1>3 DEF IInv, EngineInv, EngineTypeOK, NextFromBlock, CompensateControl,
                CompensateReport
  <2>2. UNCHANGED <<pc, consumed_to>>
    BY <1>3 DEF NextFromBlock, CompensateControl, CompensateReport
  <2> QED BY <2>1, <2>2, <1>3
<1>4. CASE NextNewBlock BY <1>4 DEF NextNewBlock
<1>5. CASE NextDropped \/ NextNone BY <1>5 DEF NextDropped, NextNone
<1>6. CASE DropIterator BY <1>6 DEF DropIterator
<1>7. CASE UNCHANGED vars BY <1>7 DEF vars
<1> QED BY <1>1, <1>2, <1>3, <1>4, <1>5, <1>6, <1>7 DEF Next, IterNext, FromBuffer

LEMMA PacketNext == PacketInv /\ [Next]_vars => PacketInv'
<1> SUFFICES ASSUME PacketInv, [Next]_vars PROVE PacketInv' OBVIOUS
<1>1. CASE Kernel
  BY <1>1 DEF Kernel, KernelNext, KernelInput, KernelReport, PacketInv, Input
<1>2. CASE ~ Kernel
  <2>1. kpend' = kpend
    BY <1>2 DEF Next, Fetch, FetchEvents, SyncBits, SyncAxis, SyncStateDone,
                SyncStateError, FillOne, FillError, FillDone, IterNext,
                CompensateControl, CompensateReport, FromBuffer, NextFromBlock,
                NextNewBlock, NextDropped, NextNone, DropIterator, kernelVars, vars
  <2> QED BY <2>1 DEF PacketInv
<1> QED BY <1>1, <1>2

LEMMA TrackNext ==
  ASSUME ~ MayInterrupt
  PROVE  IInv /\ PositionInv /\ TrackInv /\ [Next]_vars => TrackInv'
<1> SUFFICES ASSUME IInv, PositionInv, TrackInv, [Next]_vars PROVE TrackInv' OBVIOUS
<1>1. CASE Kernel
  BY <1>1, TrackKernelInput, TrackKernelReport DEF Kernel, KernelNext, IInv
<1>2. CASE Fetch BY <1>2, TrackFetch
<1>3. CASE IterNext BY <1>3, TrackIterNext
<1>4. CASE DropIterator BY <1>4, TrackDropIterator
<1>5. CASE UNCHANGED vars
  <2>1. UNCHANGED <<event_buf, consumed_to, kstate, kqueue, kpend, fresh, state,
                    block_dropped, todo, pc>>
    BY <1>5 DEF vars, kernelVars, engineVars, deviceVars, callVars, iterVars
  <2>2. Ahead' = Ahead BY <2>1, AheadUnchanged
  <2> QED BY <2>1, <2>2, TrackingUnchanged
<1> QED BY <1>1, <1>2, <1>3, <1>4, <1>5 DEF Next

\* Unless a signal interrupts an ioctl, cached_state follows every axis
\* through overflows, resynchronisations, leftover blocks, abandoned iterators
\* and reads that find nothing.
THEOREM CacheFollowsAxes ==
  ASSUME ~ MayInterrupt
  PROVE  Spec => []CacheTracksAxes
<1>1. Init => IInv /\ PositionInv /\ PacketInv /\ TrackInv
  BY IInvInit, TrackInit DEF Init, KernelInit, PositionInv, PacketInv
<1>2. IInv /\ PositionInv /\ PacketInv /\ TrackInv /\ [Next]_vars
        => IInv' /\ PositionInv' /\ PacketInv' /\ TrackInv'
  BY IInvNext, PositionNext, PacketNext, TrackNext
<1>3. PacketInv /\ TrackInv => CacheTracksAxes
  <2> SUFFICES ASSUME PacketInv, TrackInv, NEW c \in Control, TypeOf[c] = "ABSOLUTE"
               PROVE  CacheTracks(c)
    BY DEF CacheTracksAxes
  <2>1. Tracking(c) BY DEF TrackInv, Axes
  <2>2. CASE \E e \in Ahead : Decides(e, c)
    <3>1. PICK e \in Ahead : Decides(e, c) BY <2>2
    <3>2. e \in kpend => e.kind # "SYN_DROPPED" BY DEF PacketInv
    <3> QED BY <3>1, <3>2 DEF Ahead, Decides, CacheTracks, Unprocessed, DropAhead
  <2>3. CASE ~ \E e \in Ahead : Decides(e, c)
    BY <2>1, <2>3 DEF Tracking, CacheTracks, DropAhead
  <2> QED BY <2>2, <2>3
<1> QED BY <1>1, <1>2, <1>3, PTL DEF Spec

-----------------------------------------------------------------------------
(* Gaps are announced *)

\* The caller blocks, drives every iterator to its end and gets no signal, and
\* the device has axes only: no ioctl takes events out of the ring.
Undisturbed ==
    /\ ~ NonBlocking /\ ~ MayInterrupt /\ ~ MayAbandon
    /\ \A c \in Control : TypeOf[c] = "ABSOLUTE"

\* The prefix of the buffer the caller is through with.
CaughtUp == IF pc = "iterate" /\ ~ done THEN range.start ELSE consumed_to

\* What the caller may still get, its serial numbers and the next one.
Rest(k) == {event_buf[i] : i \in k + 1 .. Len(event_buf)} \cup kqueue \cup kpend
Coming == Rest(CaughtUp)
Numbers == {e.n : e \in Coming} \cup {sent + 1}

\* A compensation is on its way, or was completed after the last event.
Due == block_dropped \/ pc = "sync" \/ Compensating \/ resynced

\* A number whose predecessor is missing is the next one the caller gets,
\* with a compensation before it, or belongs to a SYN_DROPPED.
GapInv ==
    \A n \in Numbers :
        \/ n = last + 1 \/ n - 1 \in Numbers
        \/ Due /\ \A m \in Numbers : n <= m
        \/ \E e \in Coming : e.n = n /\ e.kind = "SYN_DROPPED"

\* block_dropped is looked at before any event is returned, an iterator that
\* came to its end has no compensation left, and a block being returned has
\* no SYN_DROPPED.
FlagInv ==
    /\ block_dropped => pc = "idle" \/ (pc = "iterate" /\ done)
    /\ pc = "iterate" /\ done => ~ Compensating
    /\ pc = "iterate" => \A i \in range.start + 1 .. range.end :
                            event_buf[i].kind # "SYN_DROPPED"

LEMMA FlagNext == IInv /\ FlagInv /\ [Next]_vars => FlagInv'
<1> SUFFICES ASSUME IInv, FlagInv, [Next]_vars PROVE FlagInv' OBVIOUS
<1> USE DEF FlagInv, Compensating, iterVars, deviceVars
<1>1. /\ range.start \in Nat /\ range.end \in Nat /\ range \in [start : Nat, end : Nat]
      /\ event_buf \in Seq(Event)
  BY DEF IInv, EngineInv, EngineTypeOK
<1>2. CASE Kernel BY <1>2 DEF Kernel, engineVars
<1>3. CASE Fetch
  BY <1>3 DEF Fetch, FetchEvents, TakeDropped, SyncBits, SyncAxis, SyncStateDone,
              SyncStateError, FillOne, FillError, ReadFails, FillDone, ReadReturns,
              Range0
<1>4. CASE IterNext
  <2>1. pc = "iterate" /\ ~ done /\ ~ block_dropped BY <1>4 DEF IterNext
  <2>2. CASE (CompensateControl(TRUE) \/ CompensateReport) /\ UNCHANGED done
    BY <2>1, <2>2 DEF CompensateControl, CompensateReport
  <2>3. CASE NextFromBlock /\ UNCHANGED done
    <3>1. range'.start = range.start + 1 /\ range'.end = range.end
      BY <1>1, <2>3 DEF NextFromBlock
    <3>2. UNCHANGED <<event_buf, block_dropped, pc, done>> BY <2>3 DEF NextFromBlock
    <3> QED BY <1>1, <2>1, <3>1, <3>2
  <2>4. CASE NextNewBlock /\ UNCHANGED done
    <3>1. PICK j \in 1 .. Len(event_buf) :
             ~ BlockIsDropped(j) /\ range' = [start |-> range.end + 1, end |-> j]
      BY <2>4 DEF NextNewBlock
    <3>2. UNCHANGED <<event_buf, block_dropped, pc, done>> BY <2>4 DEF NextNewBlock
    <3>3. \A i \in range'.start + 1 .. range'.end : i \in range.end + 1 .. j
      BY <1>1, <3>1
    <3> QED BY <2>1, <3>1, <3>2, <3>3 DEF BlockIsDropped
  <2>5. CASE NextDropped
    <3>1. range' = [start |-> Len(event_buf), end |-> Len(event_buf)] /\ ~ Compensating
      BY <2>5 DEF NextDropped, DroppedBlock
    <3>2. \A i \in range'.start + 1 .. range'.end : FALSE BY <3>1, <1>1
    <3> QED BY <2>1, <2>5, <3>1, <3>2 DEF NextDropped
  <2>6. CASE NextNone BY <2>1, <2>6 DEF NextNone, NoBlock
  <2> QED BY <2>2, <2>3, <2>4, <2>5, <2>6, <1>4 DEF IterNext, FromBuffer
<1>5. CASE DropIterator BY <1>5 DEF DropIterator
<1>6. CASE UNCHANGED vars BY <1>6 DEF vars, engineVars
<1> QED BY <1>2, <1>3, <1>4, <1>5, <1>6 DEF Next

\* The front of the buffer goes, and is older than what stays.
LEMMA RestSplit ==
  ASSUME EngineInv, NEW k \in Nat, NEW j \in k + 1 .. Len(event_buf)
  PROVE  /\ Rest(k) = Rest(j) \cup {event_buf[i] : i \in k + 1 .. j}
         /\ \A i \in k + 1 .. j : \A e \in Rest(j) : event_buf[i].n < e.n
<1>1. Len(event_buf) \in Nat /\ j \in Nat BY DEF EngineInv, EngineTypeOK
<1>2. k + 1 .. Len(event_buf) = (k + 1 .. j) \cup (j + 1 .. Len(event_buf))
  BY <1>1
<1>3. Rest(k) = {event_buf[i] : i \in (k + 1 .. j) \cup (j + 1 .. Len(event_buf))}
                \cup kqueue \cup kpend
  BY <1>2 DEF Rest
<1>4. \A i \in k + 1 .. j : \A m \in j + 1 .. Len(event_buf) :
         event_buf[i].n < event_buf[m].n
  BY <1>1 DEF EngineInv, OrderInv
<1>5. \A i \in k + 1 .. j : \A e \in kqueue \cup kpend : event_buf[i].n < e.n
  BY <1>1, AheadOrder
<1> QED BY <1>3, <1>4, <1>5 DEF Rest

\* What the caller may still get has numbers up to sent.
LEMMA ComingNumbers ==
  ASSUME IInv
  PROVE  /\ CaughtUp \in Nat /\ sent \in Nat /\ last \in Nat
         /\ \A e \in Coming : e \in Event /\ e.n \in Nat /\ e.n <= sent
         /\ \A n \in Numbers : n \in Nat /\ n <= sent + 1
<1>1. /\ CaughtUp \in Nat /\ Len(event_buf) \in Nat /\ sent \in Nat /\ last \in Nat
      /\ passed \in Nat /\ passed <= sent
  BY DEF IInv, EngineInv, EngineTypeOK, KernelTypeOK, CaughtUp, RingInv
<1>2. \A i \in CaughtUp + 1 .. Len(event_buf) :
         event_buf[i] \in Event /\ event_buf[i].n \in Nat /\ event_buf[i].n <= passed
  BY <1>1, BufElement DEF IInv, EngineInv, OrderInv
<1>3. \A e \in kqueue \cup kpend : e \in Event /\ e.n \in Nat /\ e.n <= sent
  BY <1>1, AheadOrder DEF IInv, EngineInv, KernelTypeOK, RingInv, Event
<1>4. \A e \in Coming : e \in Event /\ e.n \in Nat /\ e.n <= sent
  BY <1>1, <1>2, <1>3 DEF Coming, Rest
<1> QED BY <1>1, <1>4 DEF Numbers

\* While next() may be called and no block is being returned, the caller is
\* through with what was consumed.
LEMMA CaughtUpConsumed ==
  ASSUME IInv, PositionInv, pc = "iterate" /\ ~ done => RangeIsEmpty
  PROVE  CaughtUp = consumed_to /\ Coming = Ahead
<1>1. CaughtUp = consumed_to
  BY DEF IInv, EngineInv, EngineTypeOK, OrderInv, PositionInv, CaughtUp, RangeIsEmpty
<1> QED BY <1>1 DEF Coming, Rest, Ahead

LEMMA GapUnchanged ==
  ASSUME GapInv, Coming' = Coming, UNCHANGED <<sent, last>>, Due => Due'
  PROVE  GapInv'
BY DEF GapInv, Numbers

\* A new event has the number after sent.
LEMMA GapGrows ==
  ASSUME IInv, GapInv, NEW new, new.n = sent + 1, Coming' = Coming \cup {new},
         sent' = sent + 1, UNCHANGED <<last, block_dropped, pc, sync, resynced>>
  PROVE  GapInv'
<1>1. Numbers' = Numbers \cup {sent + 2}
  BY ComingNumbers DEF Numbers
<1>2. Due' <=> Due BY DEF Due, Compensating
<1> SUFFICES ASSUME NEW n \in Numbers'
             PROVE  \/ n = last + 1 \/ n - 1 \in Numbers'
                    \/ Due /\ \A m \in Numbers' : n <= m
                    \/ \E e \in Coming' : e.n = n /\ e.kind = "SYN_DROPPED"
  BY <1>2 DEF GapInv
<1>3. CASE n = sent + 2
  <2>1. n - 1 = sent + 1 BY <1>3, ComingNumbers
  <2>2. sent + 1 \in Numbers BY DEF Numbers
  <2> QED BY <2>1, <2>2, <1>1
<1>4. CASE n \in Numbers
  <2>1. n <= sent + 2 BY <1>4, ComingNumbers
  <2> HIDE DEF Numbers
  <2> QED BY <2>1, <1>1, <1>4 DEF GapInv
<1> QED BY <1>1, <1>3, <1>4

LEMMA GapKernel ==
  ASSUME IInv, PacketInv, GapInv, Kernel
  PROVE  GapInv'
<1>1. UNCHANGED <<event_buf, range, consumed_to, last, block_dropped, pc, sync,
                  resynced, done>>
  BY DEF Kernel, engineVars, deviceVars, iterVars, historyVars
<1>2. CaughtUp' = CaughtUp BY <1>1 DEF CaughtUp
<1> DEFINE buffered == {event_buf[i] : i \in CaughtUp + 1 .. Len(event_buf)}
<1>3. Coming = buffered \cup kqueue \cup kpend /\ Coming' = buffered \cup kqueue' \cup kpend'
  BY <1>1, <1>2 DEF Coming, Rest
<1> HIDE DEF buffered
<1>4. CASE \E c \in Control : \E v \in Raw(c) : KernelInput(c, v)
  <2>1. PICK c \in Control : \E v \in Raw(c) : KernelInput(c, v) BY <1>4
  <2>2. PICK v \in Raw(c) : KernelInput(c, v) BY <2>1
  <2>3. /\ kpend' = kpend \cup {Input(sent + 1, c, v)} /\ sent' = sent + 1
        /\ kqueue' = kqueue
    BY <2>2 DEF KernelInput
  <2>4. Coming' = Coming \cup {Input(sent + 1, c, v)} BY <2>3, <1>3
  <2>5. Input(sent + 1, c, v).n = sent + 1 BY DEF Input
  <2> QED BY <2>3, <2>4, <2>5, <1>1, GapGrows
<1>5. CASE KernelReport /\ FillsRing > sent + 1
  <2>1. kqueue' = kqueue \cup (kpend \cup {Report(sent + 1)}) /\ kpend' = {} /\ sent' = sent + 1
    BY <1>5 DEF KernelReport
  <2>2. Coming' = Coming \cup {Report(sent + 1)} BY <2>1, <1>3
  <2>3. Report(sent + 1).n = sent + 1 BY DEF Report
  <2> QED BY <2>1, <2>2, <2>3, <1>1, GapGrows
<1>6. CASE KernelReport /\ ~ (FillsRing > sent + 1)
  <2> DEFINE drop == Dropped(FillsRing - 1)
             report == Report(sent + 1)
  <2>1. /\ kqueue' = {drop} \cup {e \in kpend \cup {report} : e.n >= FillsRing}
        /\ kpend' = {} /\ sent' = sent + 1
    BY <1>6 DEF KernelReport
  <2>2. /\ drop.n = FillsRing - 1 /\ drop.kind = "SYN_DROPPED"
        /\ report.n = sent + 1
    BY DEF Dropped, Report
  <2> HIDE DEF drop, report
  <2>3. /\ FillsRing \in Nat /\ passed < FillsRing /\ kqueue # {} /\ passed \in Nat
        /\ FillsRing <= sent + 1 /\ last <= passed /\ sent \in Nat /\ last \in Nat
    BY <1>6, PacketTypes DEF IInv, EngineInv, KernelTypeOK, OrderInv, EngineTypeOK
  <2>4. Coming' = buffered \cup {drop} \cup {e \in kpend \cup {report} : e.n >= FillsRing}
    BY <2>1, <1>3
  <2>5. /\ \A e \in buffered \cup kqueue : e.n \in Nat /\ e.n <= passed
        /\ \A e \in buffered : \A f \in kqueue : e.n < f.n
        /\ \A e \in kpend : e.n \in Nat /\ passed < e.n /\ e.n <= sent
    <3>1. \A i \in CaughtUp + 1 .. Len(event_buf) : i \in 1 .. Len(event_buf)
      BY ComingNumbers DEF IInv, EngineInv, EngineTypeOK
    <3>2. \A e \in buffered : e.n <= passed /\ \A f \in kqueue : e.n < f.n
      BY <3>1 DEF IInv, EngineInv, OrderInv, buffered
    <3>3. \A e \in kqueue : e.n <= passed BY DEF IInv, EngineInv, RingInv
    <3>4. \A e \in kpend : passed < e.n /\ e.n <= sent BY DEF IInv, EngineInv, RingInv
    <3>5. \A e \in buffered \cup kqueue \cup kpend : e.n \in Nat
      BY <1>3, ComingNumbers
    <3> QED BY <3>2, <3>3, <3>4, <3>5
  <2>6. PICK q \in kqueue : TRUE BY <2>3
  <2>7. q.n \in Numbers /\ q.n <= passed /\ q.n \in Nat BY <2>5, <1>3 DEF Numbers
  <2>8. /\ drop \in Coming' /\ report \in Coming'
        /\ \A e \in buffered : e \in Coming'
        /\ \A e \in kpend : e.n >= FillsRing => e \in Coming'
    BY <2>2, <2>3, <2>4
  <2>9. ASSUME NEW n \in Numbers, n > FillsRing PROVE n - 1 \in Numbers'
    \* The packet has no holes.
    <3>1. n \in Nat /\ n <= sent + 1 BY ComingNumbers
    <3>2. n # last + 1 BY <3>1, <2>3, <2>9
    <3>3. ~ \A m \in Numbers : n <= m BY <3>1, <2>3, <2>7, <2>9
    <3>4. ~ \E e \in Coming : e.n = n /\ e.kind = "SYN_DROPPED"
      <4> SUFFICES ASSUME NEW e \in Coming, e.n = n, e.kind = "SYN_DROPPED" PROVE FALSE
        OBVIOUS
      <4>1. e \notin buffered \cup kqueue BY <2>3, <2>5, <2>9, <3>1
      <4>2. e \in kpend BY <4>1, <1>3
      <4> QED BY <4>2 DEF PacketInv
    <3>5. n - 1 \in Numbers BY <3>2, <3>3, <3>4 DEF GapInv
    <3>6. PICK e \in Coming : e.n = n - 1 BY <3>1, <3>5, <2>3 DEF Numbers
    <3>7. e \in kpend
      <4>1. e.n > passed BY <3>1, <3>6, <2>3, <2>9
      <4>2. e \notin buffered \cup kqueue BY <4>1, <2>3, <2>5
      <4> QED BY <4>2, <1>3
    <3>8. e.n >= FillsRing BY <3>1, <3>6, <2>3, <2>9
    <3> QED BY <3>6, <3>7, <3>8, <2>8 DEF Numbers
  <2>10. Due' <=> Due BY <1>1 DEF Due, Compensating
  <2> SUFFICES ASSUME NEW n \in Numbers'
               PROVE  \/ n = last + 1 \/ n - 1 \in Numbers'
                      \/ Due /\ \A m \in Numbers' : n <= m
                      \/ \E e \in Coming' : e.n = n /\ e.kind = "SYN_DROPPED"
    BY <1>1, <2>10 DEF GapInv
  <2>11. CASE n = sent' + 1
    <3>1. n - 1 = report.n BY <2>1, <2>2, <2>3, <2>11
    <3> QED BY <3>1, <2>8 DEF Numbers
  <2>12. CASE n = FillsRing - 1 BY <2>2, <2>8, <2>12
  <2>13. CASE n = FillsRing
    <3>1. n - 1 = drop.n BY <2>2, <2>3, <2>13
    <3> QED BY <3>1, <2>8 DEF Numbers
  <2>14. CASE n \in Numbers /\ n > FillsRing BY <2>9, <2>14
  <2>15. CASE \E e \in buffered : n = e.n
    <3>1. PICK e \in buffered : n = e.n BY <2>15
    <3>2. n \in Numbers /\ n \in Nat /\ n <= passed BY <3>1, <2>5, <1>3 DEF Numbers
    <3>3. CASE n - 1 \in Numbers
      <4>1. PICK f \in Coming : f.n = n - 1 BY <3>2, <3>3, <2>3, ComingNumbers DEF Numbers
      <4>2. f \in buffered
        <5>1. f \notin kpend BY <2>3, <2>5, <3>2, <4>1
        <5>2. f \notin kqueue BY <2>5, <3>1, <3>2, <4>1
        <5> QED BY <5>1, <5>2, <1>3
      <4> QED BY <4>1, <4>2, <2>8 DEF Numbers
    <3>4. CASE Due /\ \A m \in Numbers : n <= m
      <4>1. \A m \in Numbers' : n <= m
        <5> SUFFICES ASSUME NEW m \in Numbers' PROVE n <= m OBVIOUS
        <5>1. m = sent' + 1 \/ \E f \in Coming' : m = f.n BY DEF Numbers
        <5>2. CASE m = sent' + 1 BY <5>2, <3>2, <2>1, <2>3, ComingNumbers
        <5>3. CASE \E f \in Coming' : m = f.n
          <6>1. PICK f \in Coming' : m = f.n BY <5>3
          <6>2. CASE f \in Coming BY <6>1, <6>2, <3>4 DEF Numbers
          <6>3. CASE f = drop BY <6>1, <6>3, <2>2, <2>3, <3>2
          <6>4. CASE f = report BY <6>1, <6>4, <2>2, <3>2, ComingNumbers
          <6> QED BY <6>1, <6>2, <6>3, <6>4, <2>4, <1>3
        <5> QED BY <5>1, <5>2, <5>3
      <4> QED BY <4>1, <3>4
    <3>5. CASE \E f \in Coming : f.n = n /\ f.kind = "SYN_DROPPED"
      <4>1. PICK f \in Coming : f.n = n /\ f.kind = "SYN_DROPPED" BY <3>5
      <4>2. f \in buffered
        <5>1. f \notin kpend BY <2>3, <2>5, <3>2, <4>1
        <5>2. f \notin kqueue BY <2>5, <3>1, <3>2, <4>1
        <5> QED BY <5>1, <5>2, <1>3
      <4> QED BY <4>1, <4>2, <2>8
    <3> QED BY <3>2, <3>3, <3>4, <3>5 DEF GapInv
  <2>16. CASE \E e \in kpend \cup {report} : e.n >= FillsRing /\ n = e.n
    <3>1. n \in Numbers /\ n >= FillsRing /\ n \in Nat
      BY <2>16, <2>2, <2>3, <2>5, <1>3 DEF Numbers
    <3> QED BY <3>1, <2>3, <2>13, <2>14
  <2> QED BY <2>2, <2>4, <2>11, <2>12, <2>15, <2>16 DEF Numbers
<1> QED BY <1>4, <1>5, <1>6 DEF Kernel, KernelNext

LEMMA GapFetch ==
  ASSUME Undisturbed, IInv, PositionInv, FlagInv, GapInv, Fetch
  PROVE  GapInv'
<1> USE DEF deviceVars, callVars, iterVars, historyVars, kernelVars, Due, Compensating
<1>1. pc # "iterate"
  BY DEF Fetch, FetchEvents, SyncBits, SyncAxis, SyncStateDone, SyncStateError,
         FillOne, FillError, ReadFails, FillDone, ReadReturns
<1>2. CaughtUp = consumed_to /\ Coming = Ahead BY <1>1, CaughtUpConsumed
<1>3. ASSUME pc' # "iterate", UNCHANGED consumed_to, Ahead' = Ahead
      PROVE  Coming' = Coming
  BY <1>2, <1>3 DEF CaughtUp, Coming, Rest, Ahead
<1>4. UNCHANGED <<sent, last>>
  BY DEF Fetch, FetchEvents, SyncBits, SyncAxis, SyncStateDone, SyncStateError,
         FillOne, FillError, FillDone
<1>5. CASE FetchEvents
  <2>1. pc' # "iterate" /\ UNCHANGED <<event_buf, consumed_to, kqueue, kpend>> /\ (Due => Due')
    BY <1>5 DEF FetchEvents, TakeDropped
  <2>2. Ahead' = Ahead BY <2>1, AheadUnchanged
  <2> QED BY <2>1, <2>2, <1>3, <1>4, GapUnchanged
<1>6. ASSUME NEW t \in BitsType, SyncBits(t) PROVE FALSE
  BY <1>6 DEF SyncBits, BitsType, Undisturbed, NextToFetch, IInv, EngineInv, EngineTypeOK
<1>7. CASE SyncAxis \/ SyncStateDone
  <2>1. pc' # "iterate" /\ UNCHANGED <<event_buf, consumed_to, kqueue, kpend>> /\ (Due => Due')
    BY <1>7 DEF SyncAxis, SyncStateDone, NoSync
  <2>2. Ahead' = Ahead BY <2>1, AheadUnchanged
  <2> QED BY <2>1, <2>2, <1>3, <1>4, GapUnchanged
<1>8. CASE FillOne
  <2>1. Ahead' = Ahead BY <1>8, AheadRead DEF IInv
  <2>2. pc' # "iterate" /\ UNCHANGED consumed_to /\ (Due => Due')
    BY <1>8, <1>1 DEF FillOne
  <2> QED BY <2>1, <2>2, <1>3, <1>4, GapUnchanged
<1>9. ~ SyncStateError /\ ~ FillError
  BY DEF SyncStateError, FillError, ReadFails, Undisturbed
<1>10. CASE FillDone
  <2>1. consumed_to = 0 BY <1>1 DEF IInv, IdleInv
  <2>2. CaughtUp' = 0 /\ UNCHANGED <<event_buf, kqueue, kpend>> /\ (Due => Due')
    BY <1>10 DEF FillDone, ReadReturns, CaughtUp, Range0
  <2>3. Coming' = Coming BY <2>1, <2>2, <1>2 DEF Coming, Rest
  <2> QED BY <2>2, <2>3, <1>4, GapUnchanged
<1> QED BY <1>5, <1>6, <1>7, <1>8, <1>9, <1>10 DEF Fetch

\* The next event of the buffer is the oldest the caller may still get: it
\* follows the last one, or a compensation was completed in between.
LEMMA GapDeliver ==
  ASSUME IInv, GapInv, NEW i \in 1 .. Len(event_buf), i = CaughtUp + 1, CaughtUp' = i,
         event_buf[i].kind # "SYN_DROPPED", last' = event_buf[i].n,
         ~ block_dropped, pc # "sync", ~ Compensating,
         UNCHANGED <<event_buf, kqueue, kpend, sent>>
  PROVE  GapInv' /\ (last' = last + 1 \/ resynced)
<1> DEFINE e == event_buf[i]
<1>1. /\ CaughtUp \in Nat /\ i \in CaughtUp + 1 .. Len(event_buf) /\ CaughtUp + 1 .. i = {i}
      /\ EngineInv
  BY ComingNumbers DEF IInv
<1>2. /\ Coming = Rest(i) \cup {event_buf[k] : k \in CaughtUp + 1 .. i}
      /\ \A k \in CaughtUp + 1 .. i : \A f \in Rest(i) : event_buf[k].n < f.n
  BY <1>1, RestSplit DEF Coming
<1>3. Coming' = Rest(i) BY DEF Coming, Rest
<1>4. Coming = Coming' \cup {e} /\ \A f \in Coming' : e.n < f.n
  BY <1>1, <1>2, <1>3
<1>5. e.kind # "SYN_DROPPED" /\ last' = e.n OBVIOUS
<1> HIDE DEF e
<1>6. /\ e.n \in Nat /\ e.n <= sent /\ sent \in Nat /\ last \in Nat
      /\ \A f \in Coming : f.n \in Nat
  BY <1>4, ComingNumbers
<1>7. \A n \in Numbers : e.n <= n BY <1>4, <1>6 DEF Numbers
<1>8. Numbers = Numbers' \cup {e.n} /\ \A n \in Numbers' : e.n < n /\ n \in Nat
  BY <1>4, <1>6 DEF Numbers
<1> HIDE DEF Numbers
<1>9. last' = last + 1 \/ resynced
  <2>1. e.n - 1 \notin Numbers BY <1>6, <1>7
  <2>2. ~ \E f \in Coming : f.n = e.n /\ f.kind = "SYN_DROPPED"
    BY <1>4, <1>5, <1>6
  <2>3. e.n \in Numbers BY <1>8
  <2> QED BY <2>1, <2>2, <2>3, <1>5 DEF GapInv, Due
<1>10. last' >= last + 1
  <2>1. i \in 1 .. Len(event_buf) /\ (i > consumed_to \/ i > range.start)
    BY <1>1 DEF CaughtUp, IInv, EngineInv, EngineTypeOK
  <2>2. last < event_buf[i].n BY <2>1 DEF IInv, EngineInv, OrderInv
  <2> QED BY <2>2, <1>6 DEF e
<1>11. GapInv'
  <2> SUFFICES ASSUME NEW n \in Numbers'
               PROVE  \/ n = last' + 1 \/ n - 1 \in Numbers'
                      \/ \E f \in Coming' : f.n = n /\ f.kind = "SYN_DROPPED"
    BY DEF GapInv
  <2>1. n \in Numbers /\ e.n < n /\ n \in Nat BY <1>8
  <2>2. n # last + 1 BY <2>1, <1>5, <1>6, <1>10
  <2>3. ~ \A m \in Numbers : n <= m BY <2>1, <1>6, <1>8
  <2>4. CASE n - 1 \in Numbers BY <2>4, <2>1, <1>5, <1>6, <1>8
  <2>5. CASE \E f \in Coming : f.n = n /\ f.kind = "SYN_DROPPED"
    BY <2>5, <1>4, <1>5
  <2> QED BY <2>1, <2>2, <2>3, <2>4, <2>5 DEF GapInv
<1> QED BY <1>9, <1>11

\* A dropped block goes: the next event will have a compensation before it.
LEMMA GapDropped ==
  ASSUME IInv, GapInv, NEW j \in CaughtUp + 1 .. Len(event_buf), CaughtUp' = j,
         block_dropped',
         UNCHANGED <<event_buf, kqueue, kpend, sent, last>>
  PROVE  GapInv'
<1>1. CaughtUp \in Nat /\ EngineInv BY ComingNumbers DEF IInv
<1> DEFINE gone == {event_buf[i] : i \in CaughtUp + 1 .. j}
<1>2. Coming' = Rest(j) BY DEF Coming, Rest
<1>3. Coming = Coming' \cup gone /\ \A g \in gone : \A f \in Coming' : g.n < f.n
  <2>1. /\ Rest(CaughtUp) = Rest(j) \cup gone
        /\ \A i \in CaughtUp + 1 .. j : \A e \in Rest(j) : event_buf[i].n < e.n
    BY <1>1, RestSplit
  <2> QED BY <2>1, <1>2 DEF Coming
<1> HIDE DEF gone
<1>4. /\ \A f \in Coming : f.n \in Nat /\ f.n <= sent
      /\ sent \in Nat
  BY ComingNumbers
<1>5. \A g \in gone : \A n \in Numbers' : g.n < n /\ n \in Nat /\ g.n \in Nat
  BY <1>3, <1>4 DEF Numbers
<1>6. Numbers = Numbers' \cup {g.n : g \in gone} BY <1>3 DEF Numbers
<1> SUFFICES ASSUME NEW n \in Numbers'
             PROVE  \/ n = last + 1 \/ n - 1 \in Numbers'
                    \/ \A m \in Numbers' : n <= m
                    \/ \E e \in Coming' : e.n = n /\ e.kind = "SYN_DROPPED"
  BY DEF GapInv, Due
<1>7. n \in Numbers /\ n \in Nat BY <1>3, <1>4, <1>6 DEF Numbers
<1>8. CASE n - 1 \in Numbers
  <2>1. CASE n - 1 \in Numbers' BY <2>1
  <2>2. CASE \E g \in gone : n - 1 = g.n
    <3>1. PICK g \in gone : n - 1 = g.n BY <2>2
    <3>2. \A m \in Numbers' : n - 1 < m /\ m \in Nat BY <3>1, <1>5
    <3> QED BY <3>2, <1>7
  <2> QED BY <2>1, <2>2, <1>6, <1>8
<1>9. CASE \A m \in Numbers : n <= m BY <1>9, <1>6
<1>10. CASE \E e \in Coming : e.n = n /\ e.kind = "SYN_DROPPED"
  <2>1. PICK e \in Coming : e.n = n /\ e.kind = "SYN_DROPPED" BY <1>10
  <2>2. e \notin gone BY <2>1, <1>5
  <2> QED BY <2>1, <2>2, <1>3
<1> QED BY <1>7, <1>8, <1>9, <1>10 DEF GapInv

\* Every call of next(); the event it returns leaves no gap unannounced.
LEMMA GapIterNext ==
  ASSUME IInv, PositionInv, FlagInv, GapInv, IterNext
  PROVE  GapInv' /\ (FromBuffer => last' = last + 1 \/ resynced)
<1> USE DEF callVars, historyVars, kernelVars
<1>1. /\ pc = "iterate" /\ ~ done /\ ~ block_dropped
      /\ range.end = consumed_to /\ CaughtUp = range.start
      /\ range.start \in Nat /\ range.end \in Nat /\ range.start <= range.end
      /\ range \in [start : Nat, end : Nat]
      /\ Len(event_buf) \in Nat
      /\ consumed_to <= Len(event_buf)
  BY DEF IterNext, FlagInv, PositionInv, CaughtUp, IInv, EngineInv, EngineTypeOK,
         OrderInv, InBounds
<1>2. CASE (CompensateControl(TRUE) \/ CompensateReport) /\ UNCHANGED done
  <2>1. /\ UNCHANGED <<event_buf, consumed_to, range, kqueue, kpend, sent, last, pc, done>>
        /\ ~ FromBuffer
    BY <1>2 DEF CompensateControl, CompensateReport, deviceVars, FromBuffer,
                NextFromBlock, NextNewBlock
  <2>2. Coming' = Coming BY <2>1 DEF Coming, Rest, CaughtUp
  <2>3. Due'
    <3>1. CASE CompensateReport BY <3>1 DEF CompensateReport, Due
    <3>2. CASE CompensateControl(TRUE)
      <4>1. PICK c \in Control : sync' = c + 1 BY <3>2 DEF CompensateControl, After
      <4> QED BY <4>1, ControlAssumption DEF Due, Compensating, NoSync
    <3> QED BY <1>2, <3>1, <3>2
  <2> QED BY <2>1, <2>2, <2>3, GapUnchanged
<1>3. CASE NextFromBlock /\ UNCHANGED done
  <2>1. /\ range' = [range EXCEPT !.start = @ + 1] /\ last' = event_buf[range.start + 1].n
        /\ ~ Compensating /\ range.start < range.end
        /\ UNCHANGED <<event_buf, kqueue, kpend, sent, pc, done>>
    BY <1>1, <1>3 DEF NextFromBlock, Deliver, RangeIsEmpty, deviceVars
  <2>2. CaughtUp' = range.start + 1 BY <2>1, <1>1 DEF CaughtUp
  <2>3. range.start + 1 \in 1 .. Len(event_buf) BY <2>1, <1>1
  <2>4. event_buf[range.start + 1].kind # "SYN_DROPPED"
    BY <2>1, <1>1 DEF FlagInv
  <2> HIDE DEF GapInv
  <2> QED BY <2>1, <2>2, <2>3, <2>4, <1>1, GapDeliver
<1>4. CASE NextNewBlock /\ UNCHANGED done
  <2>1. PICK j \in 1 .. Len(event_buf) :
           /\ EndsBlock(j) /\ ~ BlockIsDropped(j)
           /\ range' = [start |-> range.end + 1, end |-> j]
    BY <1>4 DEF NextNewBlock
  <2>2. /\ ~ Compensating /\ range.start = range.end /\ last' = event_buf[range.end + 1].n
        /\ UNCHANGED <<event_buf, kqueue, kpend, sent, pc, done>>
    BY <1>1, <1>4 DEF NextNewBlock, Deliver, RangeIsEmpty
  <2>3. CaughtUp' = range.end + 1 BY <2>1, <2>2, <1>1 DEF CaughtUp
  <2>4. j \in range.end + 1 .. Len(event_buf) BY <2>1 DEF EndsBlock
  <2>5. range.end + 1 \in 1 .. Len(event_buf) BY <2>4, <1>1
  <2>6. event_buf[range.end + 1].kind # "SYN_DROPPED"
    BY <2>1, <2>4, <1>1 DEF BlockIsDropped
  <2> HIDE DEF GapInv
  <2> QED BY <2>2, <2>3, <2>5, <2>6, <1>1, GapDeliver
<1>5. CASE NextDropped
  <2>1. PICK j \in 1 .. Len(event_buf) : DroppedBlock(j) /\ consumed_to' = j
    BY <1>5 DEF NextDropped
  <2>2. /\ j \in range.end + 1 .. Len(event_buf) /\ range.start = range.end
        /\ block_dropped'
    BY <2>1, <1>1 DEF DroppedBlock, EndsBlock, RangeIsEmpty
  <2>3. /\ UNCHANGED <<event_buf, kqueue, kpend, sent, last>> /\ ~ FromBuffer
        /\ CaughtUp' = j
    BY <1>5, <2>1 DEF NextDropped, DroppedBlock, CaughtUp, FromBuffer, NextFromBlock,
                      NextNewBlock, RangeIsEmpty, BlockIsDropped, EndsBlock
  <2> QED BY <2>2, <2>3, <1>1, GapDropped
<1>6. CASE NextNone
  <2>1. /\ UNCHANGED <<event_buf, consumed_to, kqueue, kpend, sent, last, block_dropped, pc,
                       sync, resynced>>
        /\ ~ FromBuffer /\ done' /\ range.start = range.end
    BY <1>1, <1>6 DEF NextNone, NoBlock, FromBuffer, NextFromBlock, NextNewBlock, RangeIsEmpty
  <2>2. CaughtUp' = CaughtUp BY <2>1, <1>1 DEF CaughtUp
  <2>3. Coming' = Coming BY <2>1, <2>2 DEF Coming, Rest
  <2>4. Due => Due' BY <2>1 DEF Due, Compensating
  <2> QED BY <2>1, <2>3, <2>4, GapUnchanged
<1> QED BY <1>2, <1>3, <1>4, <1>5, <1>6 DEF IterNext, FromBuffer

LEMMA GapDropIterator ==
  ASSUME Undisturbed, IInv, PositionInv, FlagInv, GapInv, DropIterator
  PROVE  GapInv'
<1>1. /\ pc = "iterate" /\ done /\ event_buf' = Drained(consumed_to) /\ consumed_to' = 0
      /\ pc' = "idle" /\ UNCHANGED <<kqueue, kpend, sent, last, block_dropped, resynced>>
  BY DEF DropIterator, Undisturbed, kernelVars, historyVars
<1>2. Coming = Ahead BY <1>1, CaughtUpConsumed
<1>3. Ahead' = Ahead BY <1>1, AheadDrained DEF IInv
<1>4. Coming' = Ahead' BY <1>1 DEF Coming, Rest, CaughtUp, Ahead
<1>5. Due => Due' BY <1>1 DEF Due, FlagInv
<1> QED BY <1>1, <1>2, <1>3, <1>4, <1>5, GapUnchanged

\* A caller that blocks and drives every iterator to its end gets no gap
\* without a compensation before the event that comes after it.
THEOREM GapsAreAnnounced ==
  ASSUME Undisturbed
  PROVE  Spec => ImplementsAnnouncingChannel
<1> DEFINE AInv == IInv /\ PositionInv /\ PacketInv /\ FlagInv /\ GapInv
<1>1. Init => AInv /\ Announcing!Init
  <2> SUFFICES ASSUME Init PROVE AInv /\ Announcing!Init OBVIOUS
  <2>1. /\ event_buf = <<>> /\ kqueue = {} /\ kpend = {} /\ sent = 0 /\ last = 0
        /\ consumed_to = 0 /\ pc = "idle" /\ ~ block_dropped
        /\ passed = 0 /\ resynced = FALSE
    BY DEF Init, KernelInit, EngineInit
  <2>2. Numbers = {1} BY <2>1 DEF Numbers, Coming, Rest, CaughtUp
  <2>3. GapInv BY <2>1, <2>2 DEF GapInv
  <2> QED BY <2>1, <2>3, IInvInit DEF PositionInv, PacketInv, FlagInv, Announcing!Init
<1>2. AInv /\ [Next]_vars => GapInv'
  <2> SUFFICES ASSUME AInv, [Next]_vars PROVE GapInv' OBVIOUS
  <2>1. CASE UNCHANGED vars
    <3> USE <2>1 DEF vars, kernelVars, engineVars, deviceVars, callVars, iterVars, historyVars
    <3>1. Coming' = Coming BY DEF Coming, Rest, CaughtUp
    <3>2. Due' <=> Due BY DEF Due, Compensating
    <3> QED BY <3>1, <3>2, GapUnchanged
  <2> QED BY <2>1, GapKernel, GapFetch, GapIterNext, GapDropIterator DEF Next
<1>3. AInv /\ [Next]_vars => AInv'
  BY <1>2, IInvNext, PositionNext, PacketNext, FlagNext
<1>4. AInv /\ [Next]_vars => [Announcing!Next]_<<passed, last, resynced>>
  <2> SUFFICES ASSUME AInv, [Next]_vars, ~ UNCHANGED <<passed, last, resynced>>
               PROVE  Announcing!Next
    OBVIOUS
  <2> USE DEF deviceVars, callVars, iterVars, historyVars, kernelVars, engineVars
  <2>1. EngineInv /\ last \in Nat /\ passed \in Nat /\ passed <= sent /\ sent \in Nat
    BY DEF IInv, EngineInv, EngineTypeOK, KernelTypeOK, RingInv
  <2>2. CASE Kernel
    <3>1. KernelReport \/ UNCHANGED passed BY <2>2 DEF Kernel, KernelNext, KernelInput
    <3>2. UNCHANGED <<last, resynced>> BY <2>2 DEF Kernel
    <3>3. passed' \in Nat /\ passed' > passed
      BY <2>1, <3>1, <3>2 DEF KernelReport
    <3>4. Announcing!Pass BY <3>2, <3>3 DEF Announcing!Pass
    <3> QED BY <3>4 DEF Announcing!Next
  <2>3. CASE Fetch
    BY <2>3 DEF Fetch, FetchEvents, TakeDropped, SyncBits, SyncAxis, SyncStateDone,
                SyncStateError, FillOne, FillError, FillDone
  <2>4. CASE IterNext /\ FromBuffer
    <3>1. last' = last + 1 \/ resynced BY <2>4, GapIterNext
    <3>2. /\ EngineInv' /\ last' > last /\ last' <= passed /\ passed' = passed
      BY <2>1, <2>4, EngineNextFromBlock, EngineNextNewBlock DEF FromBuffer, IterNext
    <3>3. resynced' = FALSE
      BY <2>4 DEF FromBuffer, NextFromBlock, NextNewBlock, Deliver
    <3>4. last' \in Nat BY <3>2 DEF EngineInv, EngineTypeOK
    <3>5. last' \in last + 1 .. passed BY <2>1, <3>2, <3>4
    <3>6. Announcing!Deliver BY <3>1, <3>2, <3>3, <3>5 DEF Announcing!Deliver
    <3> QED BY <3>6 DEF Announcing!Next
  <2>5. CASE CompensateReport
    <3>1. Announcing!Compensate BY <2>5 DEF CompensateReport, Announcing!Compensate
    <3> QED BY <3>1 DEF Announcing!Next
  <2>6. CASE CompensateControl(TRUE) BY <2>6 DEF CompensateControl
  <2>7. CASE NextDropped \/ NextNone BY <2>7 DEF NextDropped, NextNone
  <2>8. CASE DropIterator BY <2>8 DEF DropIterator
  <2>9. CASE UNCHANGED vars BY <2>9 DEF vars
  <2> QED BY <2>2, <2>3, <2>4, <2>5, <2>6, <2>7, <2>8, <2>9 DEF Next, IterNext
<1> HIDE DEF AInv
<1> QED BY <1>1, <1>3, <1>4, PTL DEF Spec, ImplementsAnnouncingChannel, Announcing!Spec

=============================================================================
