--------------------------- MODULE EventStreamProofs ---------------------------
(***************************************************************************)
(* Theorems about EventStream, for every set of controls, ring size and    *)
(* batch size, and however the reactor and the kernel interleave with the  *)
(* task.                                                                   *)
(***************************************************************************)
EXTENDS EventStream, SyncEngineProofs

-----------------------------------------------------------------------------
(* The inductive invariant *)

\* Once poll_event waits for the file nothing of the buffer is consumed and
\* not drained.  event_range may hold positions of a buffer that is gone.
WaitInv == pc # "iterate" => consumed_to = 0

IInv == TypeOK /\ EngineInv /\ WaitInv

\* The invariant holds initially.
LEMMA IInvInit == Init => IInv
<1> SUFFICES ASSUME Init PROVE IInv OBVIOUS
<1>1. EngineInv BY EngineInvInit DEF Init
<1> QED BY <1>1 DEF Init, IInv, TypeOK, EngineInv, WaitInv

\* Every step of the inner loop keeps it.
LEMMA IInvFetch == IInv /\ Fetch => IInv'
<1> SUFFICES ASSUME IInv, Fetch PROVE IInv' OBVIOUS
<1> USE DEF iterVars, historyVars, deviceVars, callVars, reactorVars
<1>1. EngineInv /\ WaitInv /\ TypeOK BY DEF IInv
<1>2. EngineInv' => KernelTypeOK' /\ EngineTypeOK' BY DEF EngineInv
<1>3. CASE PollPending \/ SyncStateError
  <2> USE DEF PollPending, SyncStateError
  <2>1. KernelTypeOK' /\ RingInv' BY <1>1, <1>3, RingUnchanged DEF EngineInv
  <2>2. OrderInv' BY <1>1, <1>3, OrderUnchanged DEF EngineInv, kernelVars
  <2>3. EngineTypeOK' BY <1>1, <1>3 DEF EngineInv, EngineTypeOK
  <2>4. SyncInv' BY <1>1, <1>3 DEF EngineInv, SyncInv, Compensating
  <2> QED BY <2>1, <2>2, <2>3, <2>4, <1>1, <1>3
          DEF IInv, TypeOK, EngineInv, WaitInv
<1>4. CASE FetchEventsInner
  <2>1. sync = NoSync BY <1>1, <1>4 DEF EngineInv, SyncInv, FetchEventsInner
  <2>2. EngineInv' BY <2>1, <1>1, <1>4, EngineTakeDropped DEF FetchEventsInner
  <2> QED BY <2>2, <1>1, <1>2, <1>4
          DEF IInv, TypeOK, WaitInv, FetchEventsInner, TakeDropped
<1>5. CASE (\E t \in BitsType : SyncBits(t)) /\ UNCHANGED reactorVars
  <2>1. EngineInv' BY <1>1, <1>5, EngineSyncBits
  <2> QED BY <2>1, <1>1, <1>2, <1>5 DEF IInv, TypeOK, WaitInv, SyncBits
<1>6. CASE SyncAxis /\ UNCHANGED reactorVars
  <2>1. EngineInv' BY <1>1, <1>6, EngineSyncAxis
  <2> QED BY <2>1, <1>1, <1>2, <1>6 DEF IInv, TypeOK, WaitInv, SyncAxis
<1>7. CASE SyncStateDone /\ UNCHANGED reactorVars
  <2>1. EngineInv' BY <1>1, <1>7, EngineSyncStateDone
  <2> QED BY <2>1, <1>1, <1>2, <1>7 DEF IInv, TypeOK, WaitInv, SyncStateDone
<1>8. CASE FillOne /\ UNCHANGED reactorVars
  <2>1. EngineInv' BY <1>1, <1>8, EngineFillOne
  <2> QED BY <2>1, <1>1, <1>2, <1>8 DEF IInv, TypeOK, WaitInv, FillOne
<1>9. CASE FillError
  <2>1. KernelTypeOK' /\ RingInv'
    BY <1>1, <1>9, RingUnchanged DEF EngineInv, FillError
  <2>2. OrderInv'
    BY <1>1, <1>9, OrderUnchanged DEF EngineInv, FillError, kernelVars
  <2>3. EngineTypeOK' BY <1>1, <1>9 DEF EngineInv, EngineTypeOK, FillError
  <2>4. SyncInv' BY <1>9 DEF SyncInv, FillError, Compensating
  <2> QED BY <2>1, <2>2, <2>3, <2>4, <1>1, <1>9
          DEF IInv, TypeOK, EngineInv, WaitInv, FillError, ReadFails
<1>10. CASE FillDone
  <2>1. KernelTypeOK' /\ RingInv'
    BY <1>1, <1>10, RingUnchanged DEF EngineInv, FillDone
  <2>2. consumed_to = 0 /\ range'.start = 0 /\ range'.end = 0
    BY <1>1, <1>10 DEF WaitInv, FillDone, ReadReturns, Range0
  <2>3. EngineTypeOK'
    BY <2>2, <1>1, <1>10 DEF EngineInv, EngineTypeOK, FillDone, Range0
  <2>4. OrderInv'
    <3>1. InBounds' /\ range'.start <= range'.end
      BY <2>2, <1>1, <1>10 DEF EngineInv, OrderInv, InBounds, RangeIsEmpty, FillDone
    <3>2. \A i \in 1 .. Len(event_buf) : last < event_buf[i].n
      BY <2>2, <1>1 DEF EngineInv, OrderInv
    <3> QED BY <3>1, <3>2, <1>1, <1>10 DEF EngineInv, OrderInv, FillDone, kernelVars
  <2>5. SyncInv'
    BY <1>1, <1>10 DEF EngineInv, SyncInv, FillDone, ReadReturns, Compensating
  <2> QED BY <2>1, <2>3, <2>4, <2>5, <1>1, <1>10
          DEF IInv, TypeOK, EngineInv, WaitInv, FillDone
<1> QED BY <1>3, <1>4, <1>5, <1>6, <1>7, <1>8, <1>9, <1>10 DEF Fetch

\* A poll that finds no event drains the buffer and waits.
LEMMA IInvPollWaits == IInv /\ pc = "iterate" /\ (PollDropped \/ PollNone)
                         /\ UNCHANGED reactorVars => IInv'
<1> SUFFICES ASSUME IInv, PollDropped \/ PollNone, UNCHANGED reactorVars
             PROVE  IInv'
  OBVIOUS
<1> USE DEF historyVars, callVars
<1>1. EngineInv /\ TypeOK BY DEF IInv
<1>2. PICK n \in 0 .. Len(event_buf) :
         /\ state' \in Levels
         /\ range' \in [start : Nat, end : Nat] /\ range'.start = range'.end
         /\ Consume(n) /\ block_dropped' \in BOOLEAN
         /\ \A i \in 1 .. Len(event_buf) : i > n => last < event_buf[i].n
         /\ sync = NoSync
  <2>1. CASE PollDropped
    <3>1. PICK j \in 1 .. Len(event_buf) : DroppedBlock(j) /\ Consume(j)
      BY <2>1 DEF PollDropped
    <3>2. block_dropped' = TRUE /\ sync = NoSync
      BY <3>1 DEF DroppedBlock, Compensating
    <3> QED BY <3>1, <3>2, <1>1, EngineDroppedBlock
  <2>2. CASE PollNone
    <3>1. consumed_to \in 0 .. Len(event_buf)
      BY <1>1 DEF EngineInv, EngineTypeOK, OrderInv, InBounds
    <3>2. range \in [start : Nat, end : Nat] /\ range.start = range.end
      BY <1>1, <2>2 DEF EngineInv, EngineTypeOK, OrderInv, PollNone, NoBlock, RangeIsEmpty
    <3>3. \A i \in 1 .. Len(event_buf) : i > consumed_to => last < event_buf[i].n
      BY <1>1 DEF EngineInv, OrderInv
    <3>4. state' \in Levels BY <1>1, <2>2, EngineNoBlock DEF PollNone
    <3> QED BY <3>1, <3>2, <3>3, <3>4, <1>1, <2>2
            DEF PollNone, NoBlock, Compensating, EngineInv, EngineTypeOK
  <2> QED BY <2>1, <2>2
<1>3. UNCHANGED <<kernelVars, prev_state, todo, nread, sync, view, last,
                  resynced, agree>> /\ pc' = "wait"
  BY DEF PollDropped, PollNone
<1>4. consumed_to' = 0 /\ event_buf' = Drained(n) BY <1>2 DEF Consume
<1>5. event_buf' \in Seq(Event) /\ OrderInv'
  BY <1>1, <1>2, <1>3, <1>4, EngineDrained
<1>6. KernelTypeOK' /\ RingInv' BY <1>1, <1>3, RingUnchanged DEF EngineInv
<1>7. EngineTypeOK'
  BY <1>1, <1>2, <1>3, <1>4, <1>5 DEF EngineInv, EngineTypeOK
<1>8. SyncInv' BY <1>2, <1>3 DEF SyncInv, Compensating
<1> QED BY <1>1, <1>3, <1>4, <1>5, <1>6, <1>7, <1>8
        DEF IInv, TypeOK, EngineInv, WaitInv, reactorVars

\* Every poll keeps it.
LEMMA IInvPollNext == IInv /\ PollNext => IInv'
<1> SUFFICES ASSUME IInv, PollNext PROVE IInv' OBVIOUS
<1> USE DEF historyVars, callVars, reactorVars
<1>1. EngineInv /\ TypeOK /\ pc = "iterate" /\ UNCHANGED reactorVars
  BY DEF IInv, PollNext
<1>2. EngineInv' => KernelTypeOK' /\ EngineTypeOK' BY DEF EngineInv
<1>3. CASE CompensateControl(FALSE)
  <2>1. EngineInv' BY <1>1, <1>3, EngineCompensateControl
  <2> QED BY <2>1, <1>1, <1>2, <1>3 DEF IInv, TypeOK, WaitInv, CompensateControl
<1>4. CASE CompensateReport
  <2>1. EngineInv' BY <1>1, <1>4, EngineCompensateReport
  <2> QED BY <2>1, <1>1, <1>2, <1>4 DEF IInv, TypeOK, WaitInv, CompensateReport
<1>5. CASE NextFromBlock
  <2>1. EngineInv' BY <1>1, <1>5, EngineNextFromBlock
  <2> QED BY <2>1, <1>1, <1>2, <1>5 DEF IInv, TypeOK, WaitInv, NextFromBlock
<1>6. CASE NextNewBlock
  <2>1. EngineInv' BY <1>1, <1>6, EngineNextNewBlock
  <2> QED BY <2>1, <1>1, <1>2, <1>6 DEF IInv, TypeOK, WaitInv, NextNewBlock
<1>7. CASE PollDropped \/ PollNone BY <1>1, <1>7, IInvPollWaits
<1> QED BY <1>3, <1>4, <1>5, <1>6, <1>7 DEF PollNext, FromBuffer

\* So does every step.
LEMMA IInvNext == IInv /\ [Next]_vars => IInv'
<1> SUFFICES ASSUME IInv, [Next]_vars PROVE IInv' OBVIOUS
<1>1. CASE Kernel
  <2>1. EngineInv' BY <1>1, EngineKernel DEF IInv, Kernel
  <2>2. edge' \in BOOLEAN /\ ready' \in BOOLEAN
    BY <1>1 DEF Kernel, IInv, TypeOK
  <2> QED BY <2>1, <2>2, <1>1
          DEF IInv, TypeOK, EngineInv, WaitInv, Kernel, engineVars, iterVars
<1>2. CASE Fetch BY <1>2, IInvFetch
<1>3. CASE PollNext BY <1>3, IInvPollNext
<1>4. CASE Reactor \/ PollAgain \/ UNCHANGED vars
  <2> USE <1>4 DEF Reactor, PollAgain, vars, engineVars, deviceVars, callVars,
                   iterVars, historyVars, reactorVars
  <2>1. KernelTypeOK' /\ RingInv' BY RingUnchanged DEF IInv, EngineInv
  <2>2. OrderInv' BY OrderUnchanged DEF IInv, EngineInv, kernelVars
  <2>3. EngineTypeOK' BY DEF IInv, EngineInv, EngineTypeOK
  <2>4. SyncInv' BY DEF IInv, EngineInv, SyncInv, Compensating
  <2> QED BY <2>1, <2>2, <2>3, <2>4 DEF IInv, TypeOK, EngineInv, WaitInv
<1> QED BY <1>1, <1>2, <1>3, <1>4 DEF Next

\* The invariant holds of every behaviour.
LEMMA Invariance == Spec => []IInv
<1>1. Init => IInv BY IInvInit
<1>2. IInv /\ [Next]_vars => IInv' BY IInvNext
<1> QED BY <1>1, <1>2, PTL DEF Spec

-----------------------------------------------------------------------------
(* Theorems *)

\* Every variable of the stream has its type.
THEOREM StreamTypeCorrect == Spec => []TypeOK
<1>1. IInv => TypeOK BY DEF IInv
<1> QED BY <1>1, Invariance, PTL

\* poll_event never indexes or drains beyond the buffer, although event_range
\* survives the drain and the buffer it was computed for.
THEOREM StreamInBounds == Spec => []InBounds
<1>1. IInv => InBounds BY DEF IInv, EngineInv, OrderInv
<1> QED BY <1>1, Invariance, PTL

\* The stream never yields an event twice or out of order.
THEOREM StreamIsOrdered == Spec => OrderedDelivery
<1>1. IInv => [pc = "iterate" /\ FromBuffer => last' > last]_engineVars
  BY EngineNextFromBlock, EngineNextNewBlock DEF IInv, FromBuffer
<1> QED BY <1>1, Invariance, PTL DEF OrderedDelivery

\* A compensation that reaches its SYN_REPORT has told a reader all it needs.
THEOREM StreamCompensationIsExact == Spec => CompensationExact
<1> DEFINE P == Compensating /\ sync' = NoSync /\ pc = "iterate" /\ pc' = "iterate"
                  => \A c \in agree : view'[c] = state'[c]
<1>1. IInv /\ [Next]_vars => P
  <2> SUFFICES ASSUME IInv, [Next]_vars, Compensating, sync' = NoSync,
                      pc = "iterate", pc' = "iterate"
               PROVE  \A c \in agree : view'[c] = state'[c]
    OBVIOUS
  <2>1. EngineInv /\ sync # NoSync BY DEF IInv, Compensating
  <2>2. CASE CompensateReport BY <2>1, <2>2, EngineCompensateReport
  <2>3. CASE CompensateControl(FALSE)
    <3>1. PICK c \in Control : sync' = c + 1
      BY <2>3 DEF CompensateControl, After
    <3> QED BY <3>1, ControlAssumption DEF NoSync
  <2>4. CASE Kernel \/ Reactor \/ UNCHANGED vars
    BY <2>4, <2>1 DEF Kernel, Reactor, vars, engineVars, iterVars
  <2>5. CASE Fetch \/ PollAgain
    BY <2>5 DEF Fetch, PollPending, FetchEventsInner, SyncBits, SyncAxis,
                SyncStateDone, SyncStateError, FillOne, FillError, ReadFails,
                FillDone, ReadReturns, PollAgain
  <2>6. CASE FromBuffer \/ PollDropped \/ PollNone
    BY <2>6 DEF FromBuffer, NextFromBlock, NextNewBlock, PollDropped,
                DroppedBlock, PollNone, NoBlock
  <2> QED BY <2>2, <2>3, <2>4, <2>5, <2>6 DEF Next, PollNext
<1>2. IInv /\ [Next]_vars => [P]_engineVars BY <1>1
<1> QED BY <1>2, Invariance, PTL DEF Spec, CompensationExact

\* The stream, too, is a channel that delivers events of the ring in order.
THEOREM StreamImplementsChannel == Spec => ImplementsChannel
<1>1. Init => Lossy!Init
  BY DEF Init, KernelInit, EngineInit, Lossy!Init
<1>2. IInv /\ [Next]_vars => [Lossy!Next]_<<passed, last, resynced>>
  <2> SUFFICES ASSUME IInv, [Next]_vars, ~ UNCHANGED <<passed, last, resynced>>
               PROVE  Lossy!Next
    OBVIOUS
  <2> USE DEF deviceVars, callVars, iterVars, historyVars, kernelVars, engineVars
  <2>1. EngineInv /\ last \in Nat /\ passed \in Nat /\ passed <= sent /\ sent \in Nat
    BY DEF IInv, EngineInv, EngineTypeOK, KernelTypeOK, RingInv
  <2>2. CASE Kernel
    <3>1. KernelReport \/ UNCHANGED passed BY <2>2 DEF Kernel, KernelNext, KernelInput
    <3>2. UNCHANGED <<last, resynced>> BY <2>2 DEF Kernel
    <3>3. passed' \in Nat /\ passed' > passed
      BY <2>1, <3>1, <3>2 DEF KernelReport
    <3>4. Lossy!Pass BY <3>2, <3>3 DEF Lossy!Pass
    <3> QED BY <3>4 DEF Lossy!Next
  <2>3. CASE Fetch
    BY <2>3 DEF Fetch, PollPending, FetchEventsInner, TakeDropped, SyncBits, SyncAxis,
                SyncStateDone, SyncStateError, FillOne, FillError, FillDone
  <2>4. CASE pc = "iterate" /\ FromBuffer
    <3>1. /\ EngineInv' /\ last' > last /\ last' <= passed /\ passed' = passed
      BY <2>1, <2>4, EngineNextFromBlock, EngineNextNewBlock DEF FromBuffer
    <3>2. resynced' = FALSE
      BY <2>4 DEF FromBuffer, NextFromBlock, NextNewBlock, Deliver
    <3>3. last' \in Nat BY <3>1 DEF EngineInv, EngineTypeOK
    <3>4. last' \in last + 1 .. passed BY <2>1, <3>1, <3>3
    <3>5. Lossy!Deliver BY <3>1, <3>2, <3>4 DEF Lossy!Deliver
    <3> QED BY <3>5 DEF Lossy!Next
  <2>5. CASE CompensateReport
    <3>1. Lossy!Compensate BY <2>5 DEF CompensateReport, Lossy!Compensate
    <3> QED BY <3>1 DEF Lossy!Next
  <2>6. CASE CompensateControl(FALSE) BY <2>6 DEF CompensateControl
  <2>7. CASE PollDropped \/ PollNone BY <2>7 DEF PollDropped, PollNone
  <2>8. CASE Reactor \/ PollAgain \/ UNCHANGED vars
    BY <2>8 DEF Reactor, PollAgain, vars
  <2> QED BY <2>2, <2>3, <2>4, <2>5, <2>6, <2>7, <2>8 DEF Next, PollNext
<1> QED BY <1>1, <1>2, Invariance, PTL DEF Spec, ImplementsChannel, Lossy!Spec

=============================================================================
