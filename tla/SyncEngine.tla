------------------------------ MODULE SyncEngine ------------------------------
(***************************************************************************)
(* What Device's two front ends share: the cache (state, prev_state), the  *)
(* buffer of events read but not consumed, fetch_events_inner with the     *)
(* ioctls and the read it makes, compensate_events and sync_events.  A     *)
(* system call is a step, and a read takes one event at a time, as the     *)
(* kernel lets events arrive between any two of them.                      *)
(***************************************************************************)
EXTENDS EvdevKernel, Sequences

CONSTANTS
    Batch,          \* EVENT_BATCH_SIZE: what a read has room for, at least
    NonBlocking,    \* whether the file has O_NONBLOCK
    MayInterrupt    \* whether a signal may interrupt a system call

ASSUME EngineAssumption ==
    /\ Batch \in Nat \ {0}
    /\ NonBlocking \in BOOLEAN /\ MayInterrupt \in BOOLEAN

VARIABLES
    state, prev_state,  \* Device: the cache, and what the caller was told
    block_dropped,      \* Device: the next fetch has to sync first
    event_buf,          \* RawDevice: events read and not yet consumed
    pc,                 \* where the thread that drives the device is
    todo,               \* controls sync_state has yet to fetch
    nread,              \* events this read has returned so far
    range,              \* the rest of the block being returned
    consumed_to,        \* prefix of event_buf to delete
    sync,               \* SyncState: the next control to compare, or NoSync
    \* history, for the properties:
    view,               \* levels a reader derives from the events it got
    last,               \* serial of the last kernel event delivered
    resynced,           \* a compensation was completed after that event
    agree               \* controls on which view and cache agreed when the
                        \* last resynchronisation began

deviceVars == <<state, prev_state, block_dropped, event_buf>>
callVars == <<todo, nread>>
iterVars == <<range, consumed_to, sync>>
historyVars == <<view, last, resynced, agree>>
engineVars == <<deviceVars, callVars, iterVars, historyVars, pc>>

NoSync == -1

Range0 == [start |-> 0, end |-> 0]

EngineTypeOK ==
    /\ state \in Levels /\ prev_state \in Levels
    /\ block_dropped \in BOOLEAN
    /\ event_buf \in Seq(Event)
    /\ todo \subseteq Control /\ nread \in Nat
    /\ range \in [start : Nat, end : Nat]
    /\ consumed_to \in Nat
    /\ sync \in Nat \cup {NoSync}
    /\ view \in Levels
    /\ last \in Nat /\ resynced \in BOOLEAN
    /\ agree \subseteq Control

\* Device::from_raw_device: both copies of the cache start empty, whatever
\* the levels in the kernel are.
EngineInit ==
    /\ state = EmptyLevels /\ prev_state = EmptyLevels
    /\ block_dropped = FALSE
    /\ event_buf = <<>>
    /\ todo = {} /\ nread = 0
    /\ range = Range0 /\ consumed_to = 0 /\ sync = NoSync
    /\ view = EmptyLevels /\ last = 0 /\ resynced = FALSE /\ agree = {}

-----------------------------------------------------------------------------
(* fetch_events_inner and the calls it makes *)

\* Up to the first system call: mem::take(block_dropped), and a snapshot of
\* the cache when a resynchronisation is due.
TakeDropped ==
    /\ block_dropped' = FALSE
    /\ nread' = 0
    /\ IF block_dropped
         THEN /\ prev_state' = state
              /\ todo' = Control
              /\ agree' = {c \in Control : view[c] = state[c]}
              /\ pc' = "sync"
         ELSE /\ pc' = "read"
              /\ UNCHANGED <<prev_state, todo, agree>>

NextToFetch(c) == c \in todo /\ \A d \in todo : c <= d

\* update_key_state, update_switch_state, update_led_state: one ioctl each.
SyncBits(t) ==
    /\ pc = "sync"
    /\ \E c \in todo : NextToFetch(c) /\ TypeOf[c] = t
    /\ state' = [c \in Control |->
                   IF TypeOf[c] = t THEN kstate[c] ELSE state[c]]
    /\ todo' = {c \in todo : TypeOf[c] # t}
    /\ kqueue' = Flush(kqueue, t)
    /\ UNCHANGED <<kstate, kpend, sent, passed, fresh, prev_state,
                   block_dropped, event_buf, nread, iterVars, historyVars, pc>>

\* update_abs_state: an ioctl for every axis.
SyncAxis ==
    /\ pc = "sync"
    /\ \E c \in todo :
          /\ NextToFetch(c) /\ TypeOf[c] = "ABSOLUTE"
          /\ state' = [state EXCEPT ![c] = kstate[c]]
          /\ todo' = todo \ {c}
    /\ UNCHANGED <<kernelVars, prev_state, block_dropped, event_buf, nread,
                   iterVars, historyVars, pc>>

\* sync_state is done: SyncState::KeyTypes { start: 0 }, and on to the read.
SyncStateDone ==
    /\ pc = "sync" /\ todo = {}
    /\ sync' = 0
    /\ pc' = "read"
    /\ UNCHANGED <<kernelVars, deviceVars, callVars, range, consumed_to,
                   historyVars>>

\* fill_events: the read returns the events of the ring one after the other.
FillOne ==
    /\ pc = "read"
    /\ \E e \in kqueue :
          /\ Oldest(kqueue, e)
          /\ event_buf' = Append(event_buf, e)
          /\ kqueue' = kqueue \ {e}
    /\ nread' = nread + 1
    /\ UNCHANGED <<kstate, kpend, sent, passed, fresh, state, prev_state,
                   block_dropped, todo, iterVars, historyVars, pc>>

ReadReturnsFull == pc = "read" /\ nread >= Batch

\* The read has something and the ring is empty or the buffer full.  The
\* spare capacity of a Vec may exceed Batch.
ReadReturns == pc = "read" /\ nread > 0 /\ (kqueue = {} \/ nread >= Batch)

\* EAGAIN or EINTR: the read fails having returned nothing.
ReadFails ==
    /\ pc = "read" /\ nread = 0 /\ kqueue = {}
    /\ NonBlocking \/ MayInterrupt

-----------------------------------------------------------------------------
(* compensate_events *)

DiffersFromNext(c) == sync < c /\ prev_state[c] # state[c]

\* The next control whose cached level differs from the snapshot.
Differs(c) == sync <= c /\ prev_state[c] # state[c]
NextDifference(c) == /\ c \in Control /\ Differs(c)
                     /\ \A d \in Control : Differs(d) => c <= d

Compensating == sync # NoSync

\* $start.0 = typ.0 + 1
AfterSelf(c) == c
After(c) == c + 1

\* A fake event for the next difference.  Only FetchEventsSynced feeds it to
\* prev_state, and process_event ignores switches and LEDs.
CompensateControl(recordIt) ==
    /\ Compensating
    /\ \E c \in Control :
          /\ NextDifference(c)
          /\ sync' = After(c)
          /\ prev_state' = IF recordIt /\ Tracked(c)
                             THEN [prev_state EXCEPT ![c] = state[c]]
                             ELSE prev_state
          /\ view' = [view EXCEPT ![c] = state[c]]
    /\ UNCHANGED <<kernelVars, state, block_dropped, event_buf, callVars,
                   range, consumed_to, last, resynced, agree, pc>>

\* No difference is left: a fake SYN_REPORT ends the compensation.
CompensateReport ==
    /\ Compensating
    /\ \A c \in Control : ~ Differs(c)
    /\ sync' = NoSync
    /\ resynced' = TRUE
    /\ UNCHANGED <<kernelVars, deviceVars, callVars, range, consumed_to,
                   view, last, agree, pc>>

-----------------------------------------------------------------------------
(* sync_events *)

ProcessAllButFirst(levels, lo, hi) ==
    [c \in Control |->
       LET touches == {i \in lo + 1 .. hi : On(event_buf[i], c)}
       IN  IF Tracked(c) /\ touches # {}
             THEN Stored(c, event_buf[CHOOSE i \in touches :
                                        \A k \in touches : k <= i].val)
             ELSE levels[c]]

\* process_event on every event of positions lo .. hi: the last one on a
\* control decides.
ProcessEvents(levels, lo, hi) ==
    [c \in Control |->
       LET touches == {i \in lo .. hi : On(event_buf[i], c)}
       IN  IF Tracked(c) /\ touches # {}
             THEN Stored(c, event_buf[CHOOSE i \in touches :
                                        \A k \in touches : k <= i].val)
             ELSE levels[c]]

\* j is the position of the SYN_REPORT that ends the block after range.
EndsBlock(j) ==
    /\ j \in range.end + 1 .. Len(event_buf)
    /\ event_buf[j].kind = "SYN_REPORT"
    /\ \A i \in range.end + 1 .. j - 1 : event_buf[i].kind # "SYN_REPORT"

BlockStartsDropped(j) == event_buf[range.end + 1].kind = "SYN_DROPPED"
BlockIsDropped(j) ==
    \E i \in range.end + 1 .. j : event_buf[i].kind = "SYN_DROPPED"

RangeIsEmpty == range.start >= range.end

\* next() returns the kernel event e.
Deliver(e) ==
    /\ view' = Fold(view, e)
    /\ last' = e.n
    /\ resynced' = FALSE
    /\ UNCHANGED agree

\* range.next(): the block being returned has another event.
NextFromBlock ==
    /\ ~ Compensating /\ ~ RangeIsEmpty
    /\ range' = [range EXCEPT !.start = @ + 1]
    /\ Deliver(event_buf[range.start + 1])
    /\ UNCHANGED <<kernelVars, deviceVars, callVars, consumed_to, sync, pc>>

\* The next block is whole: the cache takes all of it, the caller its first
\* event.
NextNewBlock ==
    /\ ~ Compensating /\ RangeIsEmpty
    /\ \E j \in 1 .. Len(event_buf) :
          /\ EndsBlock(j) /\ ~ BlockIsDropped(j)
          /\ state' = ProcessEvents(state, range.end + 1, j)
          /\ range' = [start |-> range.end + 1, end |-> j]
          /\ consumed_to' = j
    /\ Deliver(event_buf[range.end + 1])
    /\ UNCHANGED <<kernelVars, prev_state, block_dropped, event_buf, callVars,
                   sync, pc>>

FromBuffer == NextFromBlock \/ NextNewBlock

\* The block that ends at j holds a SYN_DROPPED: the cache takes its events
\* too, the caller gets none, and whatever follows stays for the next fetch.
DroppedBlock(j) ==
    /\ ~ Compensating /\ RangeIsEmpty
    /\ EndsBlock(j) /\ BlockIsDropped(j)
    /\ state' = ProcessEvents(state, range.end + 1, j)
    /\ range' = [start |-> Len(event_buf), end |-> Len(event_buf)]
    /\ block_dropped' = TRUE

\* No SYN_REPORT ahead: the cache takes the events of the unfinished block.
NoBlock ==
    /\ ~ Compensating /\ RangeIsEmpty
    /\ \A j \in 1 .. Len(event_buf) : ~ EndsBlock(j)
    /\ state' = ProcessEvents(state, range.end + 1, Len(event_buf))
    /\ UNCHANGED <<range, block_dropped>>

\* event_buf.drain(..n)
NothingDrained(n) == event_buf
Drained(n) == SubSeq(event_buf, n + 1, Len(event_buf))

=============================================================================
