----------------------------- MODULE EvdevKernel -----------------------------
(***************************************************************************)
(* The kernel's side of an open evdev file, as the crate relies on it      *)
(* (external: not code of the repository).  The input core keeps the level *)
(* of every control and collects events into a packet; SYN_REPORT passes   *)
(* the packet to the ring of the open file.  A ring that fills up loses    *)
(* everything unread and starts over with SYN_DROPPED and the event that   *)
(* did not fit.  The EVIOCG{KEY,SW,LED} ioctls return the levels and       *)
(* remove the queued events of that type; EVIOCGABS only returns a level.  *)
(***************************************************************************)
EXTENDS InputEvents, FiniteSets

CONSTANTS
    RingSize,   \* slots in the ring of an open file
    MaxPacket,  \* bound: input events in one packet
    MaxSent     \* bound: events the device ever produces

ASSUME KernelAssumption ==
    /\ RingSize \in Nat /\ MaxPacket \in Nat /\ MaxSent \in Nat
    /\ RingSize > MaxPacket + 2   \* one packet overflows the ring only once

VARIABLES
    kstate,     \* level of every control in the input core
    kpend,      \* events of the packet still open
    kqueue,     \* events in the ring; their serials give the order
    sent,       \* serial of the last event produced
    passed,     \* serial of the last event passed to the ring
    fresh       \* controls that have not moved since the file was opened

kernelVars == <<kstate, kpend, kqueue, sent, passed, fresh>>

KernelTypeOK ==
    /\ kstate \in Levels
    /\ kpend \subseteq Event /\ kqueue \subseteq Event
    /\ sent \in Nat /\ passed \in Nat
    /\ fresh \subseteq Control

KernelInit ==
    /\ kstate \in {s \in [Control -> AxisValue \cup {0, 1}] : s \in Levels}
    /\ kpend = {} /\ kqueue = {}
    /\ sent = 0 /\ passed = 0
    /\ fresh = Control

-----------------------------------------------------------------------------
\* A control moves, or a held key repeats: the level changes at once, the
\* event waits for the end of its packet.
KernelInput(c, v) ==
    /\ Cardinality(kpend) < MaxPacket
    /\ sent + 1 < MaxSent
    /\ \/ v \in Level(c) \ {kstate[c]}
       \/ TypeOf[c] = "KEY" /\ kstate[c] = 1 /\ v = 2
    /\ kstate' = [kstate EXCEPT ![c] = Stored(c, v)]
    /\ kpend' = kpend \cup {Input(sent + 1, c, v)}
    /\ sent' = sent + 1
    /\ fresh' = fresh \ {c}
    /\ UNCHANGED <<kqueue, passed>>

\* The serial of the event that would fill the last free slot of the ring.
FillsRing == passed + RingSize - Cardinality(kqueue)

\* SYN_REPORT ends the packet and passes it to the ring.
KernelReport ==
    LET packet == kpend \cup {Report(sent + 1)}
    IN  /\ kpend # {}
        /\ kqueue' = IF FillsRing > sent + 1
                       THEN kqueue \cup packet
                       ELSE {Dropped(FillsRing - 1)}
                              \cup {e \in packet : e.n >= FillsRing}
        /\ kpend' = {}
        /\ sent' = sent + 1 /\ passed' = sent + 1
        /\ UNCHANGED <<kstate, fresh>>

KernelNext ==
    \/ \E c \in Control : \E v \in Raw(c) : KernelInput(c, v)
    \/ KernelReport

-----------------------------------------------------------------------------
OfType(e, t) == e.kind = "input" /\ TypeOf[e.ctl] = t

\* A SYN_REPORT that ends a packet left empty once the events of type t are
\* gone.  The first report of the ring is kept whatever precedes it.
EmptyGroup(q, e, t) ==
    /\ e.kind = "SYN_REPORT"
    /\ \E r \in q : /\ r.kind = "SYN_REPORT" /\ r.n < e.n
                    /\ \A f \in q : r.n < f.n /\ f.n < e.n => OfType(f, t)

\* What EVIOCGKEY, EVIOCGSW and EVIOCGLED leave in the ring.
Flush(q, t) == {e \in q : ~ OfType(e, t) /\ ~ EmptyGroup(q, e, t)}

Oldest(q, e) == e \in q /\ \A f \in q : e.n <= f.n

=============================================================================
