--------------------------- MODULE SyncEngineProofs ---------------------------
(***************************************************************************)
(* The invariant of the synchronization engine and its preservation by the *)
(* steps both front ends share.                                            *)
(***************************************************************************)
EXTENDS SyncProperties, EvdevKernelProofs

-----------------------------------------------------------------------------
(* The invariant *)

\* Delivered, then buffered, then queued: serials grow along the way of an
\* event, and no position the front end holds points outside the buffer or
\* back at something delivered.
OrderInv ==
    /\ last <= passed
    /\ \A e \in kqueue : last < e.n
    /\ \A i \in 1 .. Len(event_buf) :
          /\ event_buf[i].n <= passed
          /\ \A e \in kqueue : event_buf[i].n < e.n
    /\ \A i, j \in 1 .. Len(event_buf) : i < j => event_buf[i].n < event_buf[j].n
    /\ range.start <= range.end
    /\ InBounds
    /\ \A i \in 1 .. Len(event_buf) :
          i > consumed_to \/ i > range.start => last < event_buf[i].n

\* What a reader that agreed with the cache knows while the cache is being
\* compared with its snapshot: the new levels below the cursor, the old ones
\* from there on.
SyncInv ==
    /\ pc \notin {"iterate", "read"} => sync = NoSync
    /\ pc = "sync" => \A c \in agree : view[c] = prev_state[c]
    /\ Compensating =>
          \A c \in agree :
             view[c] = IF c < sync THEN state[c] ELSE prev_state[c]

EngineInv ==
    /\ KernelTypeOK /\ EngineTypeOK
    /\ RingInv /\ OrderInv /\ SyncInv

-----------------------------------------------------------------------------
(* The operators of the engine *)

\* The element of a sequence of events at a position is an event.
LEMMA BufElement ==
  ASSUME EngineTypeOK, NEW i \in 1 .. Len(event_buf)
  PROVE  event_buf[i] \in Event /\ event_buf[i].n \in Nat
BY DEF EngineTypeOK, Event

\* Processing any stretch of the buffer gives levels.
LEMMA ProcessEventsType ==
  ASSUME EngineTypeOK, NEW lo \in Nat \ {0}, NEW hi \in 0 .. Len(event_buf)
  PROVE  ProcessEvents(state, lo, hi) \in Levels
<1> DEFINE touches(c) == {i \in lo .. hi : On(event_buf[i], c)}
           latest(c) == CHOOSE i \in touches(c) : \A k \in touches(c) : k <= i
<1>1. ASSUME NEW c \in Control, touches(c) # {}
      PROVE  Stored(c, event_buf[latest(c)].val) \in Level(c)
  <2>1. hi \in Nat /\ touches(c) \in SUBSET Nat /\ \A i \in touches(c) : i <= hi
    BY DEF EngineTypeOK
  <2>2. \E i \in touches(c) : \A k \in touches(c) : k <= i
    <3> HIDE DEF touches
    <3> QED BY <2>1, <1>1, GreatestNat
  <2>3. latest(c) \in touches(c)
    <3> HIDE DEF touches
    <3> QED BY <2>2
  <2>4. latest(c) \in 1 .. Len(event_buf) /\ On(event_buf[latest(c)], c)
    BY <2>3 DEF EngineTypeOK
  <2>5. event_buf[latest(c)].val \in Raw(c)
    <3> HIDE DEF latest
    <3> QED BY <2>4, BufElement DEF On, Event
  <2> QED BY <2>5, StoredType
<1>2. ASSUME NEW c \in Control
      PROVE  ProcessEvents(state, lo, hi)[c] \in Level(c)
  <2>1. ProcessEvents(state, lo, hi)[c]
          = IF Tracked(c) /\ touches(c) # {}
              THEN Stored(c, event_buf[latest(c)].val) ELSE state[c]
    BY DEF ProcessEvents
  <2>2. state[c] \in Level(c) BY DEF EngineTypeOK, Levels
  <2> HIDE DEF touches, latest
  <2> QED BY <1>1, <2>1, <2>2
<1>3. \A c \in Control : Level(c) \subseteq Int BY AxisValueAssumption DEF Level
<1>4. ProcessEvents(state, lo, hi) = [c \in Control |-> ProcessEvents(state, lo, hi)[c]]
  BY DEF ProcessEvents
<1>5. ProcessEvents(state, lo, hi) \in [Control -> Int]
  BY <1>2, <1>3, <1>4
<1> QED BY <1>2, <1>5 DEF Levels

\* Draining a prefix of the buffer shifts the positions of the rest.
LEMMA DrainedElements ==
  ASSUME EngineTypeOK, NEW n \in 0 .. Len(event_buf)
  PROVE  /\ Drained(n) \in Seq(Event)
         /\ Len(Drained(n)) = Len(event_buf) - n
         /\ \A i \in 1 .. Len(Drained(n)) :
               /\ i + n \in 1 .. Len(event_buf)
               /\ Drained(n)[i] = event_buf[i + n]
<1>1. event_buf \in Seq(Event) /\ n \in Nat /\ Len(event_buf) \in Nat
  BY DEF EngineTypeOK
<1>2. Len(Drained(n)) = Len(event_buf) - n
  BY <1>1 DEF Drained
<1>3. \A i \in 1 .. Len(Drained(n)) :
         i + n \in 1 .. Len(event_buf) /\ Drained(n)[i] = event_buf[i + n]
  BY <1>1, <1>2 DEF Drained
<1>4. Drained(n) \in Seq(Event)
  BY <1>1 DEF Drained
<1> QED BY <1>2, <1>3, <1>4

-----------------------------------------------------------------------------
(* The steps both front ends share *)

\* The invariant holds when the device has been opened.
LEMMA EngineInvInit ==
  ASSUME KernelInit, EngineInit PROVE EngineInv
<1>1. KernelTypeOK /\ RingInv BY RingInit
<1>2. EngineTypeOK
  <2>1. event_buf \in Seq(Event) BY DEF EngineInit
  <2>2. range \in [start : Nat, end : Nat] BY DEF EngineInit, Range0
  <2> QED BY <2>1, <2>2, EmptyLevelsType DEF EngineInit, EngineTypeOK
<1>3. OrderInv
  <2>1. Len(event_buf) = 0 /\ consumed_to = 0 /\ last = 0 /\ passed = 0 /\ kqueue = {}
    BY DEF EngineInit, KernelInit
  <2>2. range.start = 0 /\ range.end = 0 BY DEF EngineInit, Range0
  <2>3. \A i \in 1 .. Len(event_buf) : FALSE BY <2>1
  <2> QED BY <2>1, <2>2, <2>3 DEF OrderInv, InBounds, RangeIsEmpty
<1>4. SyncInv BY DEF EngineInit, SyncInv, Compensating, NoSync
<1> QED BY <1>1, <1>2, <1>3, <1>4 DEF EngineInv

\* A step of the kernel: what was read stays older than the ring.
LEMMA EngineKernel ==
  ASSUME EngineInv, KernelNext, UNCHANGED engineVars
  PROVE  EngineInv'
<1> USE DEF engineVars, deviceVars, callVars, iterVars, historyVars
<1>1. KernelTypeOK' /\ RingInv' BY RingKernelNext DEF EngineInv
<1>2. EngineTypeOK' BY DEF EngineInv, EngineTypeOK
<1>3. last' <= passed' /\ \A e \in kqueue' : last' < e.n
  BY RingStaysAhead DEF EngineInv, OrderInv, EngineTypeOK
<1>4. ASSUME NEW i \in 1 .. Len(event_buf)
      PROVE  /\ event_buf[i].n <= passed'
             /\ \A e \in kqueue' : event_buf[i].n < e.n
  <2>1. event_buf[i].n \in Nat BY BufElement DEF EngineInv
  <2> QED BY <2>1, RingStaysAhead DEF EngineInv, OrderInv
<1>5. OrderInv'
  BY <1>3, <1>4 DEF EngineInv, OrderInv, InBounds, RangeIsEmpty
<1>6. SyncInv' BY DEF EngineInv, SyncInv, Compensating
<1> QED BY <1>1, <1>2, <1>5, <1>6 DEF EngineInv

\* OrderInv is about a few variables only, and taking events out of the ring
\* does not disturb it.
LEMMA OrderUnchanged ==
  ASSUME OrderInv, kqueue' \subseteq kqueue,
         UNCHANGED <<passed, last, event_buf, range, consumed_to>>
  PROVE  OrderInv'
BY DEF OrderInv, InBounds, RangeIsEmpty

\* The invariant of the ring is about the kernel's variables only.
LEMMA RingUnchanged ==
  ASSUME KernelTypeOK, RingInv, UNCHANGED kernelVars
  PROVE  KernelTypeOK' /\ RingInv'
BY DEF kernelVars, KernelTypeOK, RingInv, Distinct

\* mem::take and the snapshot.
LEMMA EngineTakeDropped ==
  ASSUME EngineInv, TakeDropped, sync = NoSync,
         UNCHANGED <<kernelVars, state, event_buf, iterVars, view, last, resynced>>
  PROVE  EngineInv'
<1> USE DEF iterVars
<1>1. KernelTypeOK' /\ RingInv' BY RingUnchanged DEF EngineInv
<1>2. EngineTypeOK' BY DEF EngineInv, EngineTypeOK, TakeDropped
<1>3. OrderInv' BY OrderUnchanged DEF EngineInv, kernelVars
<1>4. SyncInv' BY DEF SyncInv, TakeDropped, Compensating
<1> QED BY <1>1, <1>2, <1>3, <1>4 DEF EngineInv

\* EVIOCGKEY, EVIOCGSW or EVIOCGLED.
LEMMA EngineSyncBits ==
  ASSUME EngineInv, NEW t \in BitsType, SyncBits(t)
  PROVE  EngineInv'
<1> USE DEF iterVars, historyVars
<1>1. kqueue' \subseteq kqueue BY DEF SyncBits, Flush
<1>2. RingInv' BY <1>1, RingSubset DEF EngineInv, SyncBits
<1>3. KernelTypeOK' BY <1>1 DEF EngineInv, KernelTypeOK, SyncBits
<1>4. state' \in Levels
  BY DEF SyncBits, EngineInv, EngineTypeOK, KernelTypeOK, Levels
<1>5. EngineTypeOK' BY <1>4 DEF EngineInv, EngineTypeOK, SyncBits
<1>6. OrderInv' BY <1>1, OrderUnchanged DEF EngineInv, SyncBits
<1>7. SyncInv' BY DEF EngineInv, SyncInv, SyncBits, Compensating
<1> QED BY <1>2, <1>3, <1>5, <1>6, <1>7 DEF EngineInv

\* EVIOCGABS for one axis.
LEMMA EngineSyncAxis == ASSUME EngineInv, SyncAxis PROVE EngineInv'
<1> USE DEF iterVars, historyVars
<1>1. KernelTypeOK' /\ RingInv' BY RingUnchanged DEF EngineInv, SyncAxis
<1>2. state' \in Levels
  <2>1. PICK c \in Control : state' = [state EXCEPT ![c] = kstate[c]]
    BY DEF SyncAxis, EngineInv, EngineTypeOK
  <2>2. kstate[c] \in Level(c) BY DEF EngineInv, KernelTypeOK, Levels
  <2> QED BY <2>1, <2>2, SetLevel DEF EngineInv, EngineTypeOK
<1>3. EngineTypeOK' BY <1>2 DEF EngineInv, EngineTypeOK, SyncAxis
<1>4. OrderInv' BY OrderUnchanged DEF EngineInv, SyncAxis, kernelVars
<1>5. SyncInv' BY DEF EngineInv, SyncInv, SyncAxis, Compensating
<1> QED BY <1>1, <1>3, <1>4, <1>5 DEF EngineInv

\* sync_state returns: the cursor starts at the first control, where nothing
\* has been reported yet.
LEMMA EngineSyncStateDone == ASSUME EngineInv, SyncStateDone PROVE EngineInv'
<1> USE DEF deviceVars, callVars, historyVars
<1>1. KernelTypeOK' /\ RingInv' BY RingUnchanged DEF EngineInv, SyncStateDone
<1>2. EngineTypeOK' BY DEF EngineInv, EngineTypeOK, SyncStateDone
<1>3. OrderInv' BY OrderUnchanged DEF EngineInv, SyncStateDone, kernelVars
<1>4. SyncInv'
  BY ControlAssumption DEF EngineInv, EngineTypeOK, SyncInv, SyncStateDone, Compensating
<1> QED BY <1>1, <1>2, <1>3, <1>4 DEF EngineInv

\* The read takes the oldest event of the ring, which is newer than all the
\* buffer holds and older than all the ring keeps.
LEMMA EngineFillOne == ASSUME EngineInv, FillOne PROVE EngineInv'
<1> USE DEF iterVars, historyVars
<1>1. PICK e \in kqueue : /\ Oldest(kqueue, e)
                          /\ event_buf' = Append(event_buf, e)
                          /\ kqueue' = kqueue \ {e}
  BY DEF FillOne
<1>2. e \in Event /\ e.n \in Nat
  BY DEF EngineInv, KernelTypeOK, Event
<1>3. RingInv' BY <1>1, RingSubset DEF EngineInv, FillOne
<1>4. KernelTypeOK' BY <1>1 DEF EngineInv, KernelTypeOK, FillOne
<1>5. event_buf \in Seq(Event) /\ Len(event_buf) \in Nat
  BY DEF EngineInv, EngineTypeOK
<1>6. event_buf' \in Seq(Event) BY <1>1, <1>2, <1>5
<1>7. EngineTypeOK' BY <1>6 DEF EngineInv, EngineTypeOK, FillOne
<1>8. /\ Len(event_buf') = Len(event_buf) + 1
      /\ event_buf'[Len(event_buf) + 1] = e
      /\ \A i \in 1 .. Len(event_buf) : event_buf'[i] = event_buf[i]
  BY <1>1, <1>2, <1>5
<1>9. /\ \A f \in kqueue' : f \in kqueue /\ e.n < f.n /\ f.n \in Nat
      /\ e.n <= passed /\ last < e.n
  BY <1>1, <1>2 DEF EngineInv, KernelTypeOK, Event, RingInv, Distinct, Oldest, OrderInv
<1>10. \A i \in 1 .. Len(event_buf) :
          event_buf[i].n \in Nat /\ event_buf[i].n < e.n
  BY <1>1, BufElement DEF EngineInv, OrderInv
<1>11. OrderInv'
  <2>1. \A i \in 1 .. Len(event_buf') :
           i \in 1 .. Len(event_buf) \/ i = Len(event_buf) + 1
    BY <1>5, <1>8
  <2>2. UNCHANGED <<passed, last, range, consumed_to>> BY DEF FillOne
  <2>3. \A i \in 1 .. Len(event_buf') :
           /\ event_buf'[i].n <= passed'
           /\ \A f \in kqueue' : event_buf'[i].n < f.n
    BY <2>1, <2>2, <1>8, <1>9 DEF EngineInv, OrderInv
  <2>4. \A i, j \in 1 .. Len(event_buf') :
           i < j => event_buf'[i].n < event_buf'[j].n
    BY <2>1, <1>5, <1>8, <1>10 DEF EngineInv, OrderInv
  <2>5. \A i \in 1 .. Len(event_buf') :
           i > consumed_to' \/ i > range'.start => last' < event_buf'[i].n
    BY <2>1, <2>2, <1>8, <1>9 DEF EngineInv, OrderInv
  <2>6. InBounds'
    BY <2>2, <1>5, <1>8 DEF EngineInv, EngineTypeOK, OrderInv, InBounds, RangeIsEmpty
  <2>7. last' <= passed' /\ \A f \in kqueue' : last' < f.n
    BY <2>2, <1>9 DEF EngineInv, OrderInv
  <2> QED BY <2>2, <2>3, <2>4, <2>5, <2>6, <2>7 DEF EngineInv, OrderInv
<1>12. SyncInv' BY DEF EngineInv, SyncInv, FillOne, Compensating
<1> QED BY <1>3, <1>4, <1>7, <1>11, <1>12 DEF EngineInv

\* A fake event: the reader learns one difference and the cursor moves past
\* it; below the difference there was none.
LEMMA EngineCompensateControl ==
  ASSUME EngineInv, NEW recordIt \in BOOLEAN, CompensateControl(recordIt)
  PROVE  EngineInv'
<1> USE DEF callVars
<1>1. KernelTypeOK' /\ RingInv'
  BY RingUnchanged DEF EngineInv, CompensateControl
<1>2. PICK c \in Control :
         /\ NextDifference(c)
         /\ sync' = c + 1
         /\ prev_state' = IF recordIt /\ Tracked(c)
                            THEN [prev_state EXCEPT ![c] = state[c]]
                            ELSE prev_state
         /\ view' = [view EXCEPT ![c] = state[c]]
  BY DEF CompensateControl, After
<1>3. c \in Nat /\ c + 1 \in Nat /\ state[c] \in Level(c)
  BY ControlAssumption DEF EngineInv, EngineTypeOK, Levels
<1>4. view' \in Levels /\ prev_state' \in Levels
  BY <1>2, <1>3, SetLevel DEF EngineInv, EngineTypeOK
<1>5. EngineTypeOK'
  BY <1>2, <1>3, <1>4 DEF EngineInv, EngineTypeOK, CompensateControl
<1>6. OrderInv' BY OrderUnchanged DEF EngineInv, CompensateControl, kernelVars
<1>7. SyncInv'
  <2>1. sync \in Nat
    BY DEF EngineInv, EngineTypeOK, CompensateControl, Compensating
  <2>2. pc \in {"iterate", "read"} /\ pc' = pc /\ state' = state /\ agree' = agree
    BY DEF EngineInv, SyncInv, CompensateControl, Compensating
  <2>3. view \in [Control -> Int] /\ prev_state \in [Control -> Int]
    BY DEF EngineInv, EngineTypeOK, Levels
  <2>4. ASSUME NEW d \in agree
        PROVE  view'[d] = IF d < sync' THEN state'[d] ELSE prev_state'[d]
    <3>1. d \in Control /\ d \in Nat
      BY ControlAssumption DEF EngineInv, EngineTypeOK
    <3>2. view[d] = IF d < sync THEN state[d] ELSE prev_state[d]
      BY DEF EngineInv, SyncInv, CompensateControl
    <3>3. CASE d = c
      BY <3>1, <3>3, <1>2, <1>3, <2>2, <2>3
    <3>4. CASE d < c
      <4>1. d < sync \/ prev_state[d] = state[d]
        BY <3>1, <3>4, <1>2, <1>3, <2>1 DEF NextDifference, Differs
      <4>2. view'[d] = view[d] BY <3>1, <3>4, <1>2, <1>3, <2>3
      <4> QED BY <4>1, <4>2, <3>1, <3>2, <3>4, <1>2, <1>3, <2>2
    <3>5. CASE d > c
      <4>1. sync <= c BY <1>2 DEF NextDifference, Differs
      <4>2. view'[d] = view[d] /\ prev_state'[d] = prev_state[d]
        BY <3>1, <3>5, <1>2, <1>3, <2>3
      <4> QED BY <4>1, <4>2, <3>1, <3>2, <3>5, <1>2, <1>3, <2>1
    <3> QED BY <3>1, <3>3, <3>4, <3>5, <1>3
  <2> QED BY <2>2, <2>4 DEF SyncInv
<1> QED BY <1>1, <1>5, <1>6, <1>7 DEF EngineInv

\* The fake SYN_REPORT.
LEMMA EngineCompensateReport ==
  ASSUME EngineInv, CompensateReport
  PROVE  EngineInv' /\ \A c \in agree : view'[c] = state'[c]
<1> USE DEF deviceVars, callVars
<1>1. KernelTypeOK' /\ RingInv'
  BY RingUnchanged DEF EngineInv, CompensateReport
<1>2. EngineTypeOK'
  BY DEF EngineInv, EngineTypeOK, CompensateReport, NoSync
<1>3. OrderInv' BY OrderUnchanged DEF EngineInv, CompensateReport, kernelVars
<1>4. SyncInv'
  BY DEF EngineInv, SyncInv, CompensateReport, Compensating
<1>5. ASSUME NEW c \in agree PROVE view'[c] = state'[c]
  <2>1. c \in Control /\ c \in Nat /\ sync \in Nat
    BY ControlAssumption DEF EngineInv, EngineTypeOK, CompensateReport, Compensating
  <2>2. view[c] = IF c < sync THEN state[c] ELSE prev_state[c]
    BY DEF EngineInv, SyncInv, CompensateReport
  <2>3. c < sync \/ prev_state[c] = state[c]
    BY <2>1 DEF CompensateReport, Differs
  <2> QED BY <2>2, <2>3 DEF CompensateReport
<1> QED BY <1>1, <1>2, <1>3, <1>4, <1>5 DEF EngineInv

\* The next event of the block: newer than what was delivered before.
LEMMA EngineNextFromBlock ==
  ASSUME EngineInv, NextFromBlock, pc = "iterate"
  PROVE  EngineInv' /\ last' > last /\ last' <= passed /\ passed' = passed
<1> USE DEF deviceVars, callVars
<1> DEFINE s == range.start + 1
<1>1. KernelTypeOK' /\ RingInv' BY RingUnchanged DEF EngineInv, NextFromBlock
<1>2. /\ range.start \in Nat /\ range.end \in Nat /\ consumed_to \in Nat
      /\ Len(event_buf) \in Nat
  BY DEF EngineInv, EngineTypeOK
<1>3. /\ s \in 1 .. Len(event_buf) /\ s <= range.end /\ s <= consumed_to
      /\ range.end <= consumed_to
  BY <1>2 DEF EngineInv, OrderInv, InBounds, NextFromBlock, RangeIsEmpty
<1>4. event_buf[s] \in Event /\ event_buf[s].n \in Nat
  BY <1>3, BufElement DEF EngineInv
<1>5. last' = event_buf[s].n /\ view' = Fold(view, event_buf[s])
  BY DEF NextFromBlock, Deliver
<1>6. last < event_buf[s].n /\ event_buf[s].n <= passed
  BY <1>2, <1>3 DEF EngineInv, OrderInv
<1>7. range' = [range EXCEPT !.start = s] /\ range'.start = s /\ range'.end = range.end
  BY DEF NextFromBlock, EngineInv, EngineTypeOK
<1>8. UNCHANGED <<kernelVars, event_buf, consumed_to, state, prev_state,
                  block_dropped, todo, nread, sync, agree, pc>>
  BY DEF NextFromBlock, Deliver
<1>9. EngineTypeOK'
  <2>1. view' \in Levels BY <1>4, <1>5, FoldType DEF EngineInv, EngineTypeOK
  <2>2. range' \in [start : Nat, end : Nat]
    BY <1>2, <1>7 DEF EngineInv, EngineTypeOK
  <2>3. resynced' = FALSE BY DEF NextFromBlock, Deliver
  <2> QED BY <2>1, <2>2, <2>3, <1>4, <1>5, <1>8 DEF EngineInv, EngineTypeOK
<1>10. OrderInv'
  <2>1. \A e \in kqueue' : last' < e.n
    BY <1>3, <1>5, <1>8 DEF EngineInv, OrderInv, kernelVars
  <2>2. \A i \in 1 .. Len(event_buf') :
           i > consumed_to' \/ i > range'.start => last' < event_buf'[i].n
    <3> SUFFICES ASSUME NEW i \in 1 .. Len(event_buf),
                        i > consumed_to \/ i > s
                 PROVE  event_buf[s].n < event_buf[i].n
      BY <1>5, <1>7, <1>8
    <3>1. s < i BY <1>2, <1>3
    <3> QED BY <3>1, <1>3 DEF EngineInv, OrderInv
  <2>3. range'.start <= range'.end /\ InBounds'
    <3>1. range'.start <= range'.end /\ range'.end <= consumed_to'
      BY <1>3, <1>7, <1>8
    <3>2. consumed_to' <= Len(event_buf')
      BY <1>8 DEF EngineInv, OrderInv, InBounds
    <3> QED BY <3>1, <3>2 DEF InBounds
  <2> QED BY <2>1, <2>2, <2>3, <1>5, <1>6, <1>8 DEF EngineInv, OrderInv, kernelVars
<1>11. SyncInv'
  BY <1>8 DEF EngineInv, SyncInv, Compensating, NextFromBlock
<1> QED BY <1>1, <1>5, <1>6, <1>8, <1>9, <1>10, <1>11 DEF EngineInv, kernelVars

\* The first event of the next block.
LEMMA EngineNextNewBlock ==
  ASSUME EngineInv, NextNewBlock, pc = "iterate"
  PROVE  EngineInv' /\ last' > last /\ last' <= passed /\ passed' = passed
<1> USE DEF callVars
<1> DEFINE b == range.end + 1
<1>1. KernelTypeOK' /\ RingInv' BY RingUnchanged DEF EngineInv, NextNewBlock
<1>2. PICK j \in 1 .. Len(event_buf) :
         /\ EndsBlock(j)
         /\ state' = ProcessEvents(state, b, j)
         /\ range' = [start |-> b, end |-> j]
         /\ consumed_to' = j
  BY DEF NextNewBlock
<1>3. /\ range.start \in Nat /\ range.end \in Nat /\ Len(event_buf) \in Nat
      /\ range.start = range.end
  BY DEF EngineInv, EngineTypeOK, OrderInv, NextNewBlock, RangeIsEmpty
<1>4. b \in 1 .. Len(event_buf) /\ b <= j /\ range.start < b /\ b \in Nat \ {0}
  BY <1>2, <1>3 DEF EndsBlock
<1>5. event_buf[b] \in Event /\ event_buf[b].n \in Nat
  BY <1>4, BufElement DEF EngineInv
<1>6. last' = event_buf[b].n /\ view' = Fold(view, event_buf[b])
  BY DEF NextNewBlock, Deliver
<1>7. last < event_buf[b].n /\ event_buf[b].n <= passed
  BY <1>3, <1>4 DEF EngineInv, OrderInv
<1>8. UNCHANGED <<kernelVars, event_buf, prev_state, block_dropped, todo,
                  nread, sync, agree, pc>>
  BY DEF NextNewBlock, Deliver
<1>9. EngineTypeOK'
  <2>1. view' \in Levels BY <1>5, <1>6, FoldType DEF EngineInv, EngineTypeOK
  <2>2. state' \in Levels
    BY <1>2, <1>4, ProcessEventsType DEF EngineInv
  <2>3. range' \in [start : Nat, end : Nat] /\ consumed_to' \in Nat
    BY <1>2, <1>4
  <2>4. resynced' = FALSE BY DEF NextNewBlock, Deliver
  <2> QED BY <2>1, <2>2, <2>3, <2>4, <1>5, <1>6, <1>8 DEF EngineInv, EngineTypeOK
<1>10. OrderInv'
  <2>1. \A e \in kqueue' : last' < e.n
    BY <1>4, <1>6, <1>8 DEF EngineInv, OrderInv, kernelVars
  <2>2. \A i \in 1 .. Len(event_buf') :
           i > consumed_to' \/ i > range'.start => last' < event_buf'[i].n
    <3> SUFFICES ASSUME NEW i \in 1 .. Len(event_buf), i > j \/ i > b
                 PROVE  event_buf[b].n < event_buf[i].n
      BY <1>2, <1>6, <1>8
    <3>1. b < i BY <1>2, <1>3, <1>4
    <3> QED BY <3>1, <1>4 DEF EngineInv, OrderInv
  <2>3. range'.start <= range'.end /\ InBounds'
    <3>1. range'.start <= range'.end /\ range'.end <= consumed_to'
      BY <1>2, <1>4
    <3>2. consumed_to' <= Len(event_buf')
      BY <1>2, <1>3, <1>8
    <3> QED BY <3>1, <3>2 DEF InBounds
  <2> QED BY <2>1, <2>2, <2>3, <1>6, <1>7, <1>8 DEF EngineInv, OrderInv, kernelVars
<1>11. SyncInv'
  BY <1>8 DEF EngineInv, SyncInv, Compensating, NextNewBlock
<1> QED BY <1>1, <1>6, <1>7, <1>8, <1>9, <1>10, <1>11 DEF EngineInv, kernelVars

\* A dropped block ends after everything delivered.
LEMMA EngineDroppedBlock ==
  ASSUME EngineInv, NEW j \in 1 .. Len(event_buf), DroppedBlock(j)
  PROVE  /\ state' \in Levels
         /\ range' \in [start : Nat, end : Nat]
         /\ range'.start = range'.end /\ range'.end = Len(event_buf)
         /\ j \in 0 .. Len(event_buf) /\ j \in Nat
         /\ \A i \in 1 .. Len(event_buf) : i > j => last < event_buf[i].n
<1>1. /\ range.start \in Nat /\ range.end \in Nat /\ Len(event_buf) \in Nat
      /\ range.start = range.end
  BY DEF EngineInv, EngineTypeOK, OrderInv, DroppedBlock, RangeIsEmpty
<1>2. j \in range.end + 1 .. Len(event_buf) /\ j \in 0 .. Len(event_buf)
  BY <1>1 DEF DroppedBlock, EndsBlock
<1>3. state' \in Levels
  BY <1>1, <1>2, ProcessEventsType DEF EngineInv, DroppedBlock
<1>4. \A i \in 1 .. Len(event_buf) : i > j => last < event_buf[i].n
  BY <1>1, <1>2 DEF EngineInv, OrderInv
<1> QED BY <1>1, <1>2, <1>3, <1>4 DEF DroppedBlock

\* Processing the unfinished block gives levels.
LEMMA EngineNoBlock ==
  ASSUME EngineInv, NoBlock PROVE state' \in Levels
<1>1. range.end + 1 \in Nat \ {0} /\ Len(event_buf) \in 0 .. Len(event_buf)
  BY DEF EngineInv, EngineTypeOK
<1> QED BY <1>1, ProcessEventsType DEF EngineInv, NoBlock

\* Draining what was consumed keeps the order and the type of the buffer.
LEMMA EngineDrained ==
  ASSUME EngineInv, NEW n \in 0 .. Len(event_buf),
         \A i \in 1 .. Len(event_buf) : i > n => last < event_buf[i].n,
         event_buf' = Drained(n), consumed_to' = 0,
         range' \in [start : Nat, end : Nat], range'.start = range'.end,
         UNCHANGED <<kernelVars, last>>
  PROVE  event_buf' \in Seq(Event) /\ OrderInv'
<1>1. /\ event_buf' \in Seq(Event)
      /\ Len(event_buf') = Len(event_buf) - n
      /\ \A i \in 1 .. Len(event_buf') :
            i + n \in 1 .. Len(event_buf) /\ event_buf'[i] = event_buf[i + n]
  BY DrainedElements DEF EngineInv
<1>2. n \in Nat /\ Len(event_buf) \in Nat /\ Len(event_buf') \in Nat
  BY <1>1 DEF EngineInv, EngineTypeOK
<1>3. \A i \in 1 .. Len(event_buf') :
         /\ event_buf'[i].n <= passed'
         /\ \A e \in kqueue' : event_buf'[i].n < e.n
  BY <1>1 DEF EngineInv, OrderInv, kernelVars
<1>4. \A i, k \in 1 .. Len(event_buf') :
         i < k => event_buf'[i].n < event_buf'[k].n
  <2>1. SUFFICES ASSUME NEW i \in 1 .. Len(event_buf'),
                        NEW k \in 1 .. Len(event_buf'), i < k
                 PROVE  event_buf'[i].n < event_buf'[k].n
    OBVIOUS
  <2>2. /\ i + n \in 1 .. Len(event_buf) /\ event_buf'[i] = event_buf[i + n]
        /\ k + n \in 1 .. Len(event_buf) /\ event_buf'[k] = event_buf[k + n]
    BY <1>1
  <2>3. i + n < k + n
    BY <1>2, <2>1
  <2>4. event_buf[i + n].n < event_buf[k + n].n
    BY <2>2, <2>3 DEF EngineInv, OrderInv
  <2> QED BY <2>2, <2>4
<1>5. \A i \in 1 .. Len(event_buf') : last' < event_buf'[i].n
  BY <1>1, <1>2
<1>6. InBounds' /\ range'.start <= range'.end
  BY <1>2 DEF InBounds, RangeIsEmpty
<1>7. last' <= passed' /\ \A e \in kqueue' : last' < e.n
  BY DEF EngineInv, OrderInv, kernelVars
<1> QED BY <1>1, <1>3, <1>4, <1>5, <1>6, <1>7 DEF OrderInv

=============================================================================
