--------------------------- MODULE SyncDeviceProofs ---------------------------
(***************************************************************************)
(* Theorems about Device::fetch_events and FetchEventsSynced, for every    *)
(* set of controls, ring size and batch size, and for blocking and         *)
(* nonblocking, interrupted and abandoned use alike.                       *)
(***************************************************************************)
EXTENDS SyncDevice, SyncEngineProofs

-----------------------------------------------------------------------------
(* The inductive invariant *)

\* Between two iterators no position of the buffer is held.
IdleInv == pc # "iterate" => range = Range0 /\ consumed_to = 0

IInv == TypeOK /\ EngineInv /\ IdleInv

\* The invariant holds initially.
LEMMA IInvInit == Init => IInv
<1> SUFFICES ASSUME Init PROVE IInv OBVIOUS
<1>1. EngineInv BY EngineInvInit DEF Init
<1> QED BY <1>1 DEF Init, IInv, TypeOK, EngineInv, IdleInv, EngineInit

\* Every step of fetch_events keeps it.
LEMMA IInvFetch == IInv /\ Fetch => IInv'
<1> SUFFICES ASSUME IInv, Fetch PROVE IInv' OBVIOUS
<1> USE DEF iterVars, historyVars, deviceVars, callVars
<1>1. EngineInv /\ IdleInv /\ TypeOK BY DEF IInv
<1>2. EngineInv' => KernelTypeOK' /\ EngineTypeOK' BY DEF EngineInv
<1>3. CASE FetchEvents
  <2>1. sync = NoSync BY <1>1, <1>3 DEF EngineInv, SyncInv, FetchEvents
  <2>2. EngineInv' BY <2>1, <1>1, <1>3, EngineTakeDropped DEF FetchEvents
  <2> QED BY <2>2, <1>1, <1>2, <1>3 DEF IInv, TypeOK, IdleInv, FetchEvents, TakeDropped
<1>4. CASE (\E t \in BitsType : SyncBits(t)) /\ UNCHANGED done
  <2>1. EngineInv' BY <1>1, <1>4, EngineSyncBits
  <2> QED BY <2>1, <1>1, <1>2, <1>4 DEF IInv, TypeOK, IdleInv, SyncBits
<1>5. CASE SyncAxis /\ UNCHANGED done
  <2>1. EngineInv' BY <1>1, <1>5, EngineSyncAxis
  <2> QED BY <2>1, <1>1, <1>2, <1>5 DEF IInv, TypeOK, IdleInv, SyncAxis
<1>6. CASE SyncStateDone /\ UNCHANGED done
  <2>1. EngineInv' BY <1>1, <1>6, EngineSyncStateDone
  <2> QED BY <2>1, <1>1, <1>2, <1>6 DEF IInv, TypeOK, IdleInv, SyncStateDone
<1>7. CASE SyncStateError
  <2>1. KernelTypeOK' /\ RingInv'
    BY <1>1, <1>7, RingUnchanged DEF EngineInv, SyncStateError
  <2>2. OrderInv'
    BY <1>1, <1>7, OrderUnchanged DEF EngineInv, SyncStateError, kernelVars
  <2>3. EngineTypeOK' BY <1>1, <1>7 DEF EngineInv, EngineTypeOK, SyncStateError
  <2>4. SyncInv'
    BY <1>1, <1>7 DEF EngineInv, SyncInv, SyncStateError, Compensating
  <2> QED BY <2>1, <2>2, <2>3, <2>4, <1>1, <1>7
          DEF IInv, TypeOK, EngineInv, IdleInv, SyncStateError
<1>8. CASE FillOne /\ UNCHANGED done
  <2>1. EngineInv' BY <1>1, <1>8, EngineFillOne
  <2> QED BY <2>1, <1>1, <1>2, <1>8 DEF IInv, TypeOK, IdleInv, FillOne
<1>9. CASE FillError
  <2>1. KernelTypeOK' /\ RingInv'
    BY <1>1, <1>9, RingUnchanged DEF EngineInv, FillError
  <2>2. OrderInv'
    BY <1>1, <1>9, OrderUnchanged DEF EngineInv, FillError, kernelVars
  <2>3. EngineTypeOK' BY <1>1, <1>9 DEF EngineInv, EngineTypeOK, FillError
  <2>4. SyncInv'
    BY <1>1, <1>9 DEF EngineInv, SyncInv, FillError, Compensating
  <2> QED BY <2>1, <2>2, <2>3, <2>4, <1>1, <1>9
          DEF IInv, TypeOK, EngineInv, IdleInv, FillError, ReadFails
<1>10. CASE FillDone
  <2>1. KernelTypeOK' /\ RingInv'
    BY <1>1, <1>10, RingUnchanged DEF EngineInv, FillDone
  <2>2. range = Range0 /\ consumed_to = 0
    BY <1>1, <1>10 DEF IdleInv, FillDone, ReadReturns
  <2>3. OrderInv'
    BY <2>2, <1>1, <1>10, OrderUnchanged DEF EngineInv, FillDone, kernelVars
  <2>4. EngineTypeOK'
    BY <2>2, <1>1, <1>10 DEF EngineInv, EngineTypeOK, FillDone
  <2>5. SyncInv'
    BY <1>1, <1>10 DEF EngineInv, SyncInv, FillDone, ReadReturns, Compensating
  <2> QED BY <2>1, <2>3, <2>4, <2>5, <1>1, <1>10
          DEF IInv, TypeOK, EngineInv, IdleInv, FillDone
<1> QED BY <1>3, <1>4, <1>5, <1>6, <1>7, <1>8, <1>9, <1>10 DEF Fetch

\* Every call of next() keeps it.
LEMMA IInvIterNext == IInv /\ IterNext => IInv'
<1> SUFFICES ASSUME IInv, IterNext PROVE IInv' OBVIOUS
<1> USE DEF historyVars, callVars
<1>1. EngineInv /\ IdleInv /\ TypeOK /\ pc = "iterate" BY DEF IInv, IterNext
<1>2. EngineInv' => KernelTypeOK' /\ EngineTypeOK' BY DEF EngineInv
<1>3. CASE CompensateControl(TRUE) /\ UNCHANGED done
  <2>1. EngineInv' BY <1>1, <1>3, EngineCompensateControl
  <2> QED BY <2>1, <1>1, <1>2, <1>3 DEF IInv, TypeOK, IdleInv, CompensateControl
<1>4. CASE CompensateReport /\ UNCHANGED done
  <2>1. EngineInv' BY <1>1, <1>4, EngineCompensateReport
  <2> QED BY <2>1, <1>1, <1>2, <1>4 DEF IInv, TypeOK, IdleInv, CompensateReport
<1>5. CASE NextFromBlock /\ UNCHANGED done
  <2>1. EngineInv' BY <1>1, <1>5, EngineNextFromBlock
  <2> QED BY <2>1, <1>1, <1>2, <1>5 DEF IInv, TypeOK, IdleInv, NextFromBlock
<1>6. CASE NextNewBlock /\ UNCHANGED done
  <2>1. EngineInv' BY <1>1, <1>6, EngineNextNewBlock
  <2> QED BY <2>1, <1>1, <1>2, <1>6 DEF IInv, TypeOK, IdleInv, NextNewBlock
<1>7. CASE NextDropped
  <2>1. PICK j \in 1 .. Len(event_buf) : DroppedBlock(j) /\ consumed_to' = j
    BY <1>7 DEF NextDropped
  <2>2. /\ state' \in Levels
        /\ range' \in [start : Nat, end : Nat]
        /\ range'.start = range'.end /\ range'.end = Len(event_buf)
        /\ j \in 0 .. Len(event_buf) /\ j \in Nat
        /\ \A i \in 1 .. Len(event_buf) : i > j => last < event_buf[i].n
    BY <2>1, <1>1, EngineDroppedBlock
  <2>3. KernelTypeOK' /\ RingInv'
    BY <1>1, <1>7, RingUnchanged DEF EngineInv, NextDropped
  <2>4. UNCHANGED <<kernelVars, prev_state, event_buf, todo, nread, sync,
                    view, last, resynced, agree, pc>> /\ block_dropped' = TRUE
    BY <2>1, <1>7 DEF NextDropped, DroppedBlock
  <2>5. EngineTypeOK'
    BY <2>1, <2>2, <2>4, <1>1 DEF EngineInv, EngineTypeOK
  <2>6. OrderInv'
    <3>1. InBounds' /\ range'.start <= range'.end
      BY <2>1, <2>2, <2>4 DEF InBounds, RangeIsEmpty
    <3>2. \A i \in 1 .. Len(event_buf') :
             i > consumed_to' \/ i > range'.start => last' < event_buf'[i].n
      BY <2>1, <2>2, <2>4
    <3> QED BY <3>1, <3>2, <2>4, <1>1 DEF EngineInv, OrderInv, kernelVars
  <2>7. SyncInv'
    BY <2>1, <2>4, <1>1 DEF EngineInv, SyncInv, DroppedBlock, Compensating
  <2> QED BY <2>3, <2>4, <2>5, <2>6, <2>7, <1>1, <1>7
          DEF IInv, TypeOK, EngineInv, IdleInv, NextDropped
<1>8. CASE NextNone
  <2>1. state' \in Levels BY <1>1, <1>8, EngineNoBlock DEF NextNone
  <2>2. KernelTypeOK' /\ RingInv'
    BY <1>1, <1>8, RingUnchanged DEF EngineInv, NextNone
  <2>3. OrderInv'
    BY <1>1, <1>8, OrderUnchanged DEF EngineInv, NextNone, NoBlock, kernelVars
  <2>4. EngineTypeOK'
    BY <2>1, <1>1, <1>8 DEF EngineInv, EngineTypeOK, NextNone, NoBlock
  <2>5. SyncInv'
    BY <1>1, <1>8 DEF EngineInv, SyncInv, NextNone, NoBlock, Compensating
  <2> QED BY <2>2, <2>3, <2>4, <2>5, <1>1, <1>8
          DEF IInv, TypeOK, EngineInv, IdleInv, NextNone
<1> QED BY <1>3, <1>4, <1>5, <1>6, <1>7, <1>8 DEF IterNext, FromBuffer

\* Dropping the iterator keeps it.
LEMMA IInvDropIterator == IInv /\ DropIterator => IInv'
<1> SUFFICES ASSUME IInv, DropIterator PROVE IInv' OBVIOUS
<1> USE DEF historyVars, callVars
<1>1. EngineInv /\ TypeOK BY DEF IInv
<1>2. range' = Range0 /\ consumed_to' = 0 /\ sync' = NoSync /\ pc' = "idle"
  BY DEF DropIterator
<1>3. /\ range' \in [start : Nat, end : Nat]
      /\ range'.start = range'.end
  BY <1>2 DEF Range0
<1>4. consumed_to \in 0 .. Len(event_buf)
  BY <1>1 DEF EngineInv, EngineTypeOK, OrderInv, InBounds
<1>5. event_buf' \in Seq(Event) /\ OrderInv'
  <2>1. \A i \in 1 .. Len(event_buf) : i > consumed_to => last < event_buf[i].n
    BY <1>1 DEF EngineInv, OrderInv
  <2> QED BY <2>1, <1>1, <1>2, <1>3, <1>4, EngineDrained DEF DropIterator
<1>6. KernelTypeOK' /\ RingInv'
  BY <1>1, RingUnchanged DEF EngineInv, DropIterator
<1>7. EngineTypeOK'
  BY <1>1, <1>2, <1>3, <1>5 DEF EngineInv, EngineTypeOK, DropIterator
<1>8. SyncInv' BY <1>2 DEF SyncInv, Compensating
<1> QED BY <1>1, <1>2, <1>5, <1>6, <1>7, <1>8
        DEF IInv, TypeOK, EngineInv, IdleInv, DropIterator

\* So does every step.
LEMMA IInvNext == IInv /\ [Next]_vars => IInv'
<1> SUFFICES ASSUME IInv, [Next]_vars PROVE IInv' OBVIOUS
<1>1. CASE Kernel
  <2>1. EngineInv' BY <1>1, EngineKernel DEF IInv, Kernel
  <2> QED BY <2>1, <1>1
          DEF IInv, TypeOK, EngineInv, IdleInv, Kernel, engineVars, iterVars
<1>2. CASE Fetch BY <1>2, IInvFetch
<1>3. CASE IterNext BY <1>3, IInvIterNext
<1>4. CASE DropIterator BY <1>4, IInvDropIterator
<1>5. CASE UNCHANGED vars
  <2> USE <1>5 DEF vars, engineVars, deviceVars, callVars, iterVars, historyVars
  <2>1. KernelTypeOK' /\ RingInv' BY RingUnchanged DEF IInv, EngineInv
  <2>2. OrderInv' BY OrderUnchanged DEF IInv, EngineInv, kernelVars
  <2>3. EngineTypeOK' BY DEF IInv, EngineInv, EngineTypeOK
  <2>4. SyncInv' BY DEF IInv, EngineInv, SyncInv, Compensating
  <2> QED BY <2>1, <2>2, <2>3, <2>4 DEF IInv, TypeOK, EngineInv, IdleInv
<1> QED BY <1>1, <1>2, <1>3, <1>4, <1>5 DEF Next

\* The invariant holds of every behaviour.
LEMMA Invariance == Spec => []IInv
<1>1. Init => IInv BY IInvInit
<1>2. IInv /\ [Next]_vars => IInv' BY IInvNext
<1> QED BY <1>1, <1>2, PTL DEF Spec

-----------------------------------------------------------------------------
(* Theorems *)

\* Every variable of the device, the call and the ring has its type.
THEOREM TypeCorrect == Spec => []TypeOK
<1>1. IInv => TypeOK BY DEF IInv
<1> QED BY <1>1, Invariance, PTL

\* No caller gets an event twice or out of order, whatever reads return,
\* whichever blocks are dropped and wherever iterators are abandoned.
THEOREM DeliveryIsOrdered == Spec => OrderedDelivery
<1>1. IInv => [pc = "iterate" /\ FromBuffer => last' > last]_engineVars
  BY EngineNextFromBlock, EngineNextNewBlock DEF IInv, FromBuffer
<1> QED BY <1>1, Invariance, PTL DEF OrderedDelivery

\* A compensation that reaches its SYN_REPORT has told a reader all it needs.
THEOREM CompensationIsExact == Spec => CompensationExact
<1> DEFINE P == Compensating /\ sync' = NoSync /\ pc = "iterate" /\ pc' = "iterate"
                  => \A c \in agree : view'[c] = state'[c]
<1>1. IInv /\ [Next]_vars => P
  <2> SUFFICES ASSUME IInv, [Next]_vars, Compensating, sync' = NoSync,
                      pc = "iterate", pc' = "iterate"
               PROVE  \A c \in agree : view'[c] = state'[c]
    OBVIOUS
  <2>1. EngineInv /\ sync # NoSync BY DEF IInv, Compensating
  <2>2. CASE CompensateReport BY <2>1, <2>2, EngineCompensateReport
  <2>3. CASE CompensateControl(TRUE)
    <3>1. PICK c \in Control : sync' = c + 1
      BY <2>3 DEF CompensateControl, After
    <3> QED BY <3>1, ControlAssumption DEF NoSync
  <2>4. CASE Kernel
    BY <2>4, <2>1 DEF Kernel, engineVars, iterVars
  <2>5. CASE Fetch
    BY <2>5 DEF Fetch, FetchEvents, SyncBits, SyncAxis, SyncStateDone,
                SyncStateError, FillOne, FillError, ReadFails, FillDone, ReadReturns
  <2>6. CASE FromBuffer \/ NextDropped \/ NextNone
    BY <2>6 DEF FromBuffer, NextFromBlock, NextNewBlock, NextDropped,
                DroppedBlock, NextNone, NoBlock
  <2>7. CASE DropIterator BY <2>7 DEF DropIterator
  <2>8. CASE UNCHANGED vars
    BY <2>8, <2>1 DEF vars, engineVars, iterVars
  <2> QED BY <2>2, <2>3, <2>4, <2>5, <2>6, <2>7, <2>8 DEF Next, IterNext
<1>2. IInv /\ [Next]_vars => [P]_engineVars BY <1>1
<1> QED BY <1>2, Invariance, PTL DEF Spec, CompensationExact

\* The device is a channel that delivers events of the ring in order: every
\* step is a step of the channel or leaves it alone.
THEOREM DeviceImplementsChannel == Spec => ImplementsChannel
<1>1. Init => Lossy!Init
  BY DEF Init, KernelInit, EngineInit, Lossy!Init
<1>2. IInv /\ [Next]_vars => [Lossy!Next]_<<passed, last, resynced>>
  <2> SUFFICES ASSUME IInv, [Next]_vars, ~ UNCHANGED <<passed, last, resynced>>
               PROVE  Lossy!Next
    OBVIOUS
  <2> USE DEF deviceVars, callVars, iterVars, historyVars, kernelVars, engineVars
  <2>1. EngineInv /\ last \in Nat /\ passed \in Nat /\ passed <= sent /\ sent \in Nat
    BY DEF IInv, EngineInv, EngineTypeOK, KernelTypeOK, RingInv
  <2>2. CASE Kernel
    <3>1. KernelReport \/ UNCHANGED passed BY <2>2 DEF Kernel, KernelNext, KernelInput
    <3>2. UNCHANGED <<last, resynced>> BY <2>2 DEF Kernel
    <3>3. passed' \in Nat /\ passed' > passed
      BY <2>1, <3>1, <3>2 DEF KernelReport
    <3>4. Lossy!Pass BY <3>2, <3>3 DEF Lossy!Pass
    <3> QED BY <3>4 DEF Lossy!Next
  <2>3. CASE Fetch
    BY <2>3 DEF Fetch, FetchEvents, TakeDropped, SyncBits, SyncAxis, SyncStateDone,
                SyncStateError, FillOne, FillError, FillDone
  <2>4. CASE pc = "iterate" /\ FromBuffer
    <3>1. /\ EngineInv' /\ last' > last /\ last' <= passed /\ passed' = passed
      BY <2>1, <2>4, EngineNextFromBlock, EngineNextNewBlock DEF FromBuffer
    <3>2. resynced' = FALSE
      BY <2>4 DEF FromBuffer, NextFromBlock, NextNewBlock, Deliver
    <3>3. last' \in Nat BY <3>1 DEF EngineInv, EngineTypeOK
    <3>4. last' \in last + 1 .. passed BY <2>1, <3>1, <3>3
    <3>5. Lossy!Deliver BY <3>1, <3>2, <3>4 DEF Lossy!Deliver
    <3> QED BY <3>5 DEF Lossy!Next
  <2>5. CASE CompensateReport
    <3>1. Lossy!Compensate BY <2>5 DEF CompensateReport, Lossy!Compensate
    <3> QED BY <3>1 DEF Lossy!Next
  <2>6. CASE CompensateControl(TRUE) BY <2>6 DEF CompensateControl
  <2>7. CASE NextDropped \/ NextNone BY <2>7 DEF NextDropped, NextNone
  <2>8. CASE DropIterator BY <2>8 DEF DropIterator
  <2>9. CASE UNCHANGED vars BY <2>9 DEF vars
  <2> QED BY <2>2, <2>3, <2>4, <2>5, <2>6, <2>7, <2>8, <2>9 DEF Next, IterNext
<1> QED BY <1>1, <1>2, Invariance, PTL DEF Spec, ImplementsChannel, Lossy!Spec

=============================================================================
