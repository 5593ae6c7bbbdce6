------------------------------ MODULE SyncDevice ------------------------------
(***************************************************************************)
(* Device::fetch_events and the iterator it returns, FetchEventsSynced,    *)
(* driven by a caller that fetches, takes events with next() until it gets *)
(* None (or, if MayAbandon, stops before), and drops the iterator.         *)
(***************************************************************************)
EXTENDS SyncProperties

CONSTANT MayAbandon   \* whether the caller drops iterators it has not finished

ASSUME AbandonAssumption == MayAbandon \in BOOLEAN

VARIABLE done         \* next() has returned None

vars == <<kernelVars, engineVars, done>>

TypeOK ==
    /\ KernelTypeOK /\ EngineTypeOK
    /\ pc \in {"idle", "sync", "read", "iterate"}
    /\ done \in BOOLEAN

Init == KernelInit /\ EngineInit /\ pc = "idle" /\ done = FALSE

Kernel == KernelNext /\ UNCHANGED <<engineVars, done>>

-----------------------------------------------------------------------------
FetchEvents ==
    /\ pc = "idle"
    /\ TakeDropped
    /\ UNCHANGED <<kernelVars, state, event_buf, iterVars, view, last,
                   resynced, done>>

\* An ioctl is interrupted: fetch_events returns the error.  block_dropped
\* has been taken and is not put back.
SyncStateError ==
    /\ MayInterrupt
    /\ pc = "sync" /\ todo # {}
    /\ pc' = "idle"
    /\ UNCHANGED <<kernelVars, deviceVars, callVars, iterVars, historyVars,
                   done>>

\* The read fails: fetch_events returns the error and the SyncState with it
\* is gone.
FillError ==
    /\ ReadFails
    /\ sync' = NoSync
    /\ pc' = "idle"
    /\ UNCHANGED <<kernelVars, deviceVars, callVars, range, consumed_to,
                   historyVars, done>>

\* The read returns and fetch_events hands out a new iterator.
FillDone ==
    /\ ReadReturns
    /\ range' = Range0 /\ consumed_to' = 0
    /\ done' = FALSE
    /\ pc' = "iterate"
    /\ UNCHANGED <<kernelVars, deviceVars, callVars, sync, historyVars>>

Fetch ==
    \/ FetchEvents
    \/ (\E t \in BitsType : SyncBits(t)) /\ UNCHANGED done
    \/ SyncAxis /\ UNCHANGED done
    \/ SyncStateDone /\ UNCHANGED done
    \/ SyncStateError
    \/ FillOne /\ UNCHANGED done
    \/ FillError
    \/ FillDone

-----------------------------------------------------------------------------
\* next() returns None.
NextDropped ==
    /\ \E j \in 1 .. Len(event_buf) : DroppedBlock(j) /\ consumed_to' = j
    /\ done' = TRUE
    /\ UNCHANGED <<kernelVars, prev_state, event_buf, callVars, sync,
                   historyVars, pc>>

NextNone ==
    /\ NoBlock
    /\ done' = TRUE
    /\ UNCHANGED <<kernelVars, prev_state, event_buf, callVars, consumed_to,
                   sync, historyVars, pc>>

\* FetchEventsSynced::next
IterNext ==
    /\ pc = "iterate" /\ ~ done
    /\ \/ (CompensateControl(TRUE) \/ CompensateReport) /\ UNCHANGED done
       \/ FromBuffer /\ UNCHANGED done
       \/ NextDropped
       \/ NextNone

\* Drop for FetchEventsSynced: the rest of a compensation goes with it.
DropIterator ==
    /\ pc = "iterate"
    /\ done \/ MayAbandon
    /\ event_buf' = Drained(consumed_to)
    /\ range' = Range0 /\ consumed_to' = 0 /\ sync' = NoSync
    /\ pc' = "idle"
    /\ UNCHANGED <<kernelVars, state, prev_state, block_dropped, callVars,
                   historyVars, done>>

Next == Kernel \/ Fetch \/ IterNext \/ DropIterator

Spec == Init /\ [][Next]_vars

\* The caller fetches in a tight loop and drives every iterator to its end;
\* a read returns once it has something.  Nothing is asked of the device.
Fairness == WF_vars(Fetch) /\ WF_vars(IterNext) /\ WF_vars(DropIterator)

FairSpec == Spec /\ Fairness

=============================================================================
