------------------------------ MODULE EventStream ------------------------------
(***************************************************************************)
(* The asynchronous front end of a Device: tokio_stream::EventStream.  A   *)
(* task polls it; a poll returns an event, or Pending after it has asked   *)
(* AsyncFd to wake the task.  AsyncFd (external) caches the readiness of   *)
(* the file: the reactor sets the flag when epoll reports an edge, and     *)
(* try_io clears it only when the call came back with WouldBlock.          *)
(***************************************************************************)
EXTENDS SyncProperties

\* EventStream::new calls set_nonblocking(true).
ASSUME StreamAssumption == NonBlocking = TRUE

VARIABLES
    ready,  \* AsyncFd's readiness flag
    edge    \* epoll has an edge the reactor has not taken

reactorVars == <<ready, edge>>
vars == <<kernelVars, engineVars, reactorVars>>

TypeOK ==
    /\ KernelTypeOK /\ EngineTypeOK
    /\ pc \in {"iterate", "wait", "pending", "sync", "read"}
    /\ ready \in BOOLEAN /\ edge \in BOOLEAN

Init == /\ KernelInit /\ EngineInit
        /\ pc = "iterate" /\ ready = FALSE /\ edge = FALSE

\* Passing a packet to the ring wakes the pollers of the file.
Kernel ==
    /\ KernelNext
    /\ edge' = (edge \/ passed' # passed)
    /\ UNCHANGED <<engineVars, ready>>

Reactor ==
    /\ edge
    /\ edge' = FALSE /\ ready' = TRUE
    /\ UNCHANGED <<kernelVars, engineVars>>

-----------------------------------------------------------------------------
(* poll_event, up to the point where it waits for the file *)

ConsumeOnly(n) == event_buf' = Drained(n) /\ UNCHANGED consumed_to
ConsumeSubtract(n) == event_buf' = Drained(n) /\ consumed_to' = consumed_to - n

\* event_buf.drain(..consumed_to), consumed_to = 0; event_range keeps
\* positions of the buffer as it was.
Consume(n) == event_buf' = Drained(n) /\ consumed_to' = 0

\* sync_events has no event.
PollDropped ==
    /\ \E j \in 1 .. Len(event_buf) :
          DroppedBlock(j) /\ Consume(j)
    /\ pc' = "wait"
    /\ UNCHANGED <<kernelVars, prev_state, callVars, sync, historyVars>>

PollNone ==
    /\ NoBlock
    /\ Consume(consumed_to)
    /\ pc' = "wait"
    /\ UNCHANGED <<kernelVars, prev_state, callVars, sync, historyVars>>

PollNext ==
    /\ pc = "iterate"
    /\ CompensateControl(FALSE) \/ CompensateReport \/ FromBuffer
         \/ PollDropped \/ PollNone
    /\ UNCHANGED reactorVars

-----------------------------------------------------------------------------
(* The inner loop: poll_read_ready_mut and try_io(fetch_events_inner) *)

\* Not ready: the waker is registered and poll_event returns Pending.
PollPending ==
    /\ pc = "wait" /\ ~ ready
    /\ pc' = "pending"
    /\ UNCHANGED <<kernelVars, deviceVars, callVars, iterVars, historyVars,
                   reactorVars>>

\* The task is polled again, because it was woken or for reasons of its own;
\* poll_event starts over from the top.
PollAgain ==
    /\ pc = "pending"
    /\ pc' = "iterate"
    /\ UNCHANGED <<kernelVars, deviceVars, callVars, iterVars, historyVars,
                   reactorVars>>

FetchEventsInner ==
    /\ pc = "wait" /\ ready
    /\ TakeDropped
    /\ UNCHANGED <<kernelVars, state, event_buf, iterVars, view, last,
                   resynced, reactorVars>>

\* An ioctl fails: poll_event returns the error, readiness is kept.
SyncStateError ==
    /\ MayInterrupt
    /\ pc = "sync" /\ todo # {}
    /\ pc' = "iterate"
    /\ UNCHANGED <<kernelVars, deviceVars, callVars, iterVars, historyVars,
                   reactorVars>>

\* The read would block: the SyncState is gone, readiness is cleared and the
\* inner loop goes round.
FillError ==
    /\ ReadFails
    /\ sync' = NoSync
    /\ ready' = FALSE
    /\ pc' = "wait"
    /\ UNCHANGED <<kernelVars, deviceVars, callVars, range, consumed_to,
                   historyVars, edge>>

FillDoneNotReady ==
    /\ ReadReturns
    /\ range' = Range0
    /\ ready' = FALSE
    /\ pc' = "iterate"
    /\ UNCHANGED <<kernelVars, deviceVars, callVars, consumed_to, sync,
                   historyVars, edge>>

\* The read returns; try_io leaves the readiness flag alone.
FillDone ==
    /\ ReadReturns
    /\ range' = Range0
    /\ pc' = "iterate"
    /\ UNCHANGED <<kernelVars, deviceVars, callVars, consumed_to, sync,
                   historyVars, reactorVars>>

Fetch ==
    \/ PollPending
    \/ FetchEventsInner
    \/ (\E t \in BitsType : SyncBits(t)) /\ UNCHANGED reactorVars
    \/ SyncAxis /\ UNCHANGED reactorVars
    \/ SyncStateDone /\ UNCHANGED reactorVars
    \/ SyncStateError
    \/ FillOne /\ UNCHANGED reactorVars
    \/ FillError
    \/ FillDone

Next == Kernel \/ Reactor \/ PollNext \/ PollAgain \/ Fetch

Spec == Init /\ [][Next]_vars

\* The reactor runs, the task keeps asking for the next event, and a task
\* that was woken is polled; one that was not may never be polled again.
Fairness ==
    /\ WF_vars(Reactor) /\ WF_vars(PollNext) /\ WF_vars(Fetch)
    /\ WF_vars(ready /\ PollAgain)

FairSpec == Spec /\ Fairness

=============================================================================
