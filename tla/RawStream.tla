------------------------------- MODULE RawStream -------------------------------
(***************************************************************************)
(* The asynchronous stream over a RawDevice, raw_stream.rs's EventStream,  *)
(* word for word also VirtualEventStream: an index into event_buf, which   *)
(* is cleared and refilled when the index reaches its end.  device_mut     *)
(* lets the caller use fetch_events, which drains the same buffer, between *)
(* two polls.  The events come from a virtual device (Emitter); AsyncFd    *)
(* and its reactor are external, as in EventStream.                        *)
(***************************************************************************)
EXTENDS Emitter

CONSTANTS
    Batch,       \* room a read has at least (EVENT_BATCH_SIZE)
    MayMix       \* whether fetch_events is called between polls

ASSUME RawStreamAssumption == Batch \in Nat \ {0} /\ MayMix \in BOOLEAN

VARIABLES
    event_buf, index,  \* of the device and of the stream
    pc,      \* "poll", in the inner loop ("wait"), returned "pending" or "error"
    ready,   \* AsyncFd's readiness flag
    edge,    \* epoll has an edge the reactor has not taken
    taken    \* history: serial of the newest event anybody got

readVars == <<event_buf, index, pc, ready, edge, taken>>
vars == <<emitVars, readVars>>

TypeOK ==
    /\ EmitterTypeOK
    /\ event_buf \in Seq(1 .. sent)
    /\ index \in Nat /\ (event_buf # <<>> => index <= Len(event_buf))
    /\ pc \in {"poll", "wait", "pending", "error"}
    /\ ready \in BOOLEAN /\ edge \in BOOLEAN
    /\ taken \in 0 .. sent

Init ==
    /\ EmitterInit
    /\ event_buf = <<>> /\ index = 0 /\ pc = "poll"
    /\ ready = FALSE /\ edge = FALSE /\ taken = 0

\* A packet in the ring wakes the pollers of the file, and so does its end.
Emitting ==
    /\ EmitterNext
    /\ edge' = (edge \/ ring' # ring \/ gone' # gone)
    /\ UNCHANGED <<event_buf, index, pc, ready, taken>>

Reactor ==
    /\ edge
    /\ edge' = FALSE /\ ready' = TRUE
    /\ UNCHANGED <<emitVars, event_buf, index, pc, taken>>

-----------------------------------------------------------------------------
(* fill_events: the read appends to event_buf what the ring has, as far as *)
(* there is room; a Vec may have more room than was reserved.              *)

ReadUpTo(k) ==
    /\ ~ gone
    /\ k \in 1 .. Len(ring) /\ (k >= Batch \/ k = Len(ring))
    /\ ring' = SubSeq(ring, k + 1, Len(ring))
    /\ UNCHANGED <<emits, asked, wpc, data, packet, sent, torn, untaken, gone>>

FillEvents(k) == ReadUpTo(k) /\ event_buf' = event_buf \o SubSeq(ring, 1, k)

\* RawDevice::fetch_events: fill_events, then everything in the buffer is
\* drained, whether the caller looks at all of it (got events) or not.
FetchEvents(k, got) ==
    LET all == event_buf \o SubSeq(ring, 1, k)
    IN  /\ ReadUpTo(k)
        /\ event_buf' = <<>>
        /\ got \in 0 .. Len(all)
        /\ taken' = IF got = 0 \/ all[got] < taken THEN taken ELSE all[got]

-----------------------------------------------------------------------------
(* poll_event *)

\* event_buf.get(index) is an event: it is returned and the task polls again.
PollReturn ==
    /\ pc = "poll" /\ index < Len(event_buf)
    /\ index' = index + 1
    /\ taken' = event_buf[index + 1]
    /\ UNCHANGED <<emitVars, event_buf, pc, ready, edge>>

ClearKeepsIndex == event_buf' = <<>> /\ UNCHANGED index
ClearKeepsBuffer == index' = 0 /\ UNCHANGED event_buf
Clear == event_buf' = <<>> /\ index' = 0

PollClear ==
    /\ pc = "poll" /\ index >= Len(event_buf)
    /\ Clear
    /\ pc' = "wait"
    /\ UNCHANGED <<emitVars, ready, edge, taken>>

\* poll_read_ready_mut is not ready: the waker is registered.
PollPending ==
    /\ pc = "wait" /\ ~ ready
    /\ pc' = "pending"
    /\ UNCHANGED <<emitVars, event_buf, index, ready, edge, taken>>

PollAgain ==
    /\ pc \in {"pending", "error"}
    /\ pc' = "poll"
    /\ UNCHANGED <<emitVars, event_buf, index, ready, edge, taken>>

PollFillOnce ==
    /\ pc = "wait" /\ ready
    /\ \E k \in 1 .. Len(ring) : FillEvents(k)
    /\ pc' = "poll" /\ ready' = FALSE
    /\ UNCHANGED <<index, edge, taken>>

\* try_io: the read succeeds and the outer loop goes round.
PollFill ==
    /\ pc = "wait" /\ ready
    /\ \E k \in 1 .. Len(ring) : FillEvents(k)
    /\ pc' = "poll"
    /\ UNCHANGED <<index, ready, edge, taken>>

\* The read would block: readiness is cleared and the inner loop goes round.
PollWouldBlock ==
    /\ pc = "wait" /\ ready /\ ring = <<>> /\ ~ gone
    /\ ready' = FALSE
    /\ UNCHANGED <<emitVars, event_buf, index, pc, edge, taken>>

PollErrorClears ==
    /\ pc = "wait" /\ ready /\ gone
    /\ pc' = "wait" /\ ready' = FALSE
    /\ UNCHANGED <<emitVars, event_buf, index, edge, taken>>

\* The read fails with ENODEV: poll_event returns that and keeps readiness.
PollError ==
    /\ pc = "wait" /\ ready /\ gone
    /\ pc' = "error"
    /\ UNCHANGED <<emitVars, event_buf, index, ready, edge, taken>>

Poll == PollReturn \/ PollClear \/ PollPending \/ PollFill
          \/ PollWouldBlock \/ PollError

\* device_mut().fetch_events() between two polls.  If the read fails it
\* returns before it touches the buffer.
DeviceMut ==
    /\ MayMix /\ pc # "wait"
    /\ \E k \in 1 .. Len(ring) :
         \E got \in 0 .. Len(event_buf) + k : FetchEvents(k, got)
    /\ UNCHANGED <<index, pc, ready, edge>>

Next == Emitting \/ Reactor \/ Poll \/ PollAgain \/ DeviceMut

Spec == Init /\ [][Next]_vars

\* The reactor runs, the task asks for events for as long as it runs, and it
\* is polled again when readiness was set.  Nobody has to emit or to mix.
Fairness == WF_vars(Reactor) /\ WF_vars(Poll) /\ WF_vars(ready /\ PollAgain)

FairSpec == Spec /\ Fairness

-----------------------------------------------------------------------------
\* A packet that reaches the readers ends with the events of the emit under
\* way, each of them once and all of them but those that a write took none of,
\* and holds no others unless an earlier emit was over without a SYN_REPORT and
\* left its own in the open packet (VirtualDevice::emit, fd_write_all): short
\* and failing writes neither lose, repeat nor split a batch.
PacketsAreBatches ==
    [][ PassPacket /\ packet # <<>> =>
          LET own == [i \in 1 .. asked - untaken |-> emits]
          IN  IsSuffix(own, packet) /\ (torn \/ packet = own) ]_vars

\* The stream never returns an event that somebody has had before, be it
\* through the stream or through device_mut().fetch_events(), and never goes
\* back in time (poll_event's index against the buffer fetch_events drains).
StreamAscending == [][ PollReturn => taken' > taken ]_vars

Max2(x, y) == IF x < y THEN y ELSE x

Unread == SubSeq(event_buf, index + 1, Len(event_buf)) \o ring

\* Events leave in order and none is passed over: the stream implements the
\* channel, also when fetch_events is mixed in.
Channel == INSTANCE RawChannel WITH Direct <- MayMix, queue <- Unread, last <- taken
ImplementsRawChannel == Channel!Spec

\* An event in the ring or in the buffer is returned, or taken through
\* device_mut, or lost to an overflow or with the device: a task that is
\* only polled again once readiness was set never sleeps on it (poll_event,
\* try_io).
Serials == 1 .. MaxEmits * (1 + FoldSet(Max2, 0, Batches))

EventuallyTaken ==
    \A n \in Serials : Contains(Unread, n) ~> ~ Contains(Unread, n)

\* Once the device is gone the task gets an error, and gets it again when it
\* asks again: it does not sleep for ever (poll_event, the ? after try_io).
GoneIsReported == gone ~> pc = "error"

=============================================================================
