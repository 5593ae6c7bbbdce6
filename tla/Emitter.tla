-------------------------------- MODULE Emitter --------------------------------
(***************************************************************************)
(* VirtualDevice::emit and the way of its events to the readers.  emit     *)
(* makes two calls of write_events, the batch and then a SYN_REPORT; each  *)
(* is a loop of write(2) in fd_write_all that may be cut short, fail, or   *)
(* be interrupted (and then tries again, changing nothing).  The input     *)
(* core (external) collects what is written into a packet that SYN_REPORT  *)
(* passes to the ring of an open evdev file.  Events are told apart by a   *)
(* serial number, given when the input core takes them.                    *)
(***************************************************************************)
EXTENDS Integers, SequencesExt

CONSTANTS
    Batches,     \* the lengths of the batches a caller emits
    RingSize,    \* slots in the ring of an open file
    MaxEmits,    \* bound: calls of emit
    MayFailWrite \* whether write(2) may fail

ASSUME EmitterAssumption ==
    /\ Batches \subseteq Nat /\ MaxEmits \in Nat /\ MayFailWrite \in BOOLEAN
    /\ RingSize \in Nat /\ RingSize > 2

VARIABLES
    emits,    \* calls of emit so far; names the batch
    asked,    \* how many events the call is to emit
    wpc,      \* where emit is: "idle", in the "batch" or in the "report"
    data,     \* how many events fd_write_all still has to write
    packet,   \* the packet open in the input core: the batch of each event
    ring,     \* serials of whole packets, not yet read
    sent,     \* serial of the last event written
    torn,     \* an emit that is over has left events in the open packet
    untaken,  \* history: how many events of the batch were left when a write
              \* took none of them and fd_write_all called that success
    gone      \* the device is gone: its owner has dropped it, or died

emitVars == <<emits, asked, wpc, data, packet, ring, sent, torn, untaken,
              gone>>

EmitterTypeOK ==
    /\ emits \in 0 .. MaxEmits
    /\ asked \in {0} \cup Batches
    /\ wpc \in {"idle", "batch", "report"}
    /\ data \in 0 .. asked + 1
    /\ packet \in Seq(1 .. MaxEmits)
    /\ sent \in Nat /\ ring \in Seq(1 .. sent) /\ Len(ring) < RingSize
    /\ torn \in BOOLEAN /\ untaken \in 0 .. asked /\ gone \in BOOLEAN

EmitterInit ==
    /\ emits = 0 /\ asked = 0 /\ wpc = "idle" /\ data = 0
    /\ packet = <<>> /\ ring = <<>> /\ sent = 0
    /\ torn = FALSE /\ untaken = 0 /\ gone = FALSE

-----------------------------------------------------------------------------
(* The input core and the ring *)

\* What a ring holds after the events lo .. hi.  A ring that would be full
\* starts over with two slots: a SYN_DROPPED, which takes the place of the last
\* event lost, and the event that did not fit.
Pushed(q, lo, hi) ==
    LET over == Len(q) + (hi - lo + 1) - RingSize
        kept == 2 + (over % (RingSize - 2))
    IN  IF over < 0 THEN q \o [i \in 1 .. hi - lo + 1 |-> lo - 1 + i]
                    ELSE [i \in 1 .. kept |-> hi - kept + i]

\* SYN_REPORT ends the packet; one that ends nothing is not passed on.
PassPacket ==
    /\ sent' = sent + 1
    /\ packet' = <<>> /\ torn' = FALSE
    /\ ring' = IF packet = <<>> THEN ring
               ELSE Pushed(ring, sent - Len(packet) + 1, sent + 1)

-----------------------------------------------------------------------------
(* emit, write_events, fd_write_all *)

Emit(k) ==
    /\ wpc = "idle" /\ emits < MaxEmits /\ ~ gone
    /\ emits' = emits + 1 /\ asked' = k
    /\ wpc' = "batch" /\ data' = k /\ untaken' = 0
    /\ UNCHANGED <<packet, ring, sent, torn, gone>>

\* write(2) took k events; the loop goes on with those after them.
RemainingNone(k) == 0
Remaining(k) == data - k

WriteSome(k) ==
    /\ k \in 1 .. data
    /\ IF wpc = "report"
         THEN PassPacket
         ELSE /\ packet' = packet \o [i \in 1 .. k |-> emits]
              /\ sent' = sent + k
              /\ UNCHANGED <<ring, torn>>
    /\ data' = Remaining(k)
    /\ UNCHANGED <<emits, asked, wpc, untaken, gone>>

\* write(2) returns 0, be it that nothing is left or that it takes none of what
\* is.  fd_write_all does not tell the two apart, and write_events is done: emit
\* goes on with the SYN_REPORT, and after that returns Ok.
WriteEnds ==
    /\ wpc # "idle"
    /\ IF wpc = "batch"
         THEN /\ wpc' = "report" /\ data' = 1 /\ untaken' = data
              /\ UNCHANGED torn
         ELSE /\ wpc' = "idle" /\ data' = 0 /\ torn' = (packet # <<>>)
              /\ UNCHANGED untaken
    /\ UNCHANGED <<emits, asked, packet, ring, sent, gone>>

\* write(2) fails, be it the empty one at the end: emit returns the error.
WriteFails ==
    /\ MayFailWrite /\ wpc # "idle"
    /\ wpc' = "idle" /\ data' = 0
    /\ torn' = (packet # <<>>)
    /\ UNCHANGED <<emits, asked, packet, ring, sent, untaken, gone>>

\* The uinput descriptor is closed, in the middle of emit if its process is
\* killed.  What the ring still holds cannot be read any more.
Vanish ==
    /\ ~ gone
    /\ gone' = TRUE
    /\ wpc' = "idle" /\ data' = 0 /\ packet' = <<>> /\ ring' = <<>>
    /\ UNCHANGED <<emits, asked, sent, torn, untaken>>

EmitterNext ==
    \/ \E k \in Batches : Emit(k)
    \/ \E k \in 1 .. data : WriteSome(k)
    \/ WriteEnds
    \/ WriteFails
    \/ Vanish

=============================================================================
