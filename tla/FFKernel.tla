-------------------------------- MODULE FFKernel --------------------------------
(***************************************************************************)
(* The kernel's side of force feedback on a virtual device (external: the  *)
(* evdev, ff-core and uinput drivers as the crate uses them).  A client's  *)
(* EVIOCSFF or EVIOCRMFF becomes a request that the process holding the    *)
(* uinput descriptor learns of by an event and answers with two ioctls;    *)
(* the client waits, for 30 s at most.  The ioctls of all clients are      *)
(* serialized, so one call is under way at a time.                         *)
(***************************************************************************)
EXTENDS Integers, SequencesExt

CONSTANTS
    Devices, RawDevices,  \* the handles clients have, of either type
    None,                 \* no file, no handle
    Slots,                \* the effect slots of the device
    MaxRequests,          \* bound: uploads and updates
    MaxQueue              \* bound: events of plays wait only behind fewer

Handles == Devices \cup RawDevices

\* Open files of the evdev node go by the handle that opened them.
Files == Handles

ASSUME FFAssumption ==
    /\ Devices \cap RawDevices = {} /\ None \notin Handles
    /\ Slots \subseteq Nat /\ Slots # {} /\ IsFiniteSet(Slots)
    /\ MaxRequests \in Nat /\ MaxQueue \in Nat

VARIABLES
    hfile,      \* the file behind the descriptor of each handle
    grabbed,    \* RawDevice.grabbed of each handle
    effects,    \* the FFEffects alive: number, file and slot
    alive,      \* the virtual device exists
    owner,      \* whose effect is in each slot
    grab,       \* the file that has the device for itself
    call,       \* the ioctl under way
    req,        \* the uinput request of that call; orphan (history): the owner
                \* has lost the event that begins it, or what would end it
    queue,      \* events for the uinput descriptor, not yet read
    closing,    \* files without descriptors, and the slots to flush in each
    serial,     \* uploads and updates so far; numbers effects
    requests    \* number of the last request, modulo 3: tells it from the
                \* one before and the one before that

clientVars == <<hfile, grabbed, effects>>
kernelVars == <<alive, owner, grab, call, req, queue, closing, serial, requests>>

Codes == {"upload", "erase"}
Effect == [n : 1 .. MaxRequests, file : Files, slot : Slots]
UInputEvent == [code : Codes \cup {"play"}, slot : Slots, n : 0 .. 2]
Closing == [file : Files, todo : SUBSET Slots]

NoCall == [op |-> "none", by |-> None, file |-> None, slot |-> 0]
NoReq == [code |-> "none", n |-> 0, slot |-> 0, done |-> FALSE, retval |-> 0,
          orphan |-> FALSE]

KernelTypeOK ==
    /\ alive \in BOOLEAN
    /\ owner \in [Slots -> Files \cup {None}]
    /\ grab \in Files \cup {None}
    /\ \/ call = NoCall /\ req = NoReq
       \/ /\ call \in [op : {"upload", "update", "erase", "flush"},
                       by : Handles \cup {None}, file : Files, slot : Slots]
          /\ req \in [code : Codes, n : 0 .. 2, slot : Slots,
                      done : BOOLEAN, retval : {0, -1}, orphan : BOOLEAN]
    /\ queue \in Seq(UInputEvent)
    /\ closing \subseteq Closing
    /\ serial \in 0 .. MaxRequests /\ requests \in 0 .. 2

KernelInit ==
    /\ alive = TRUE
    /\ owner = [s \in Slots |-> None]
    /\ grab = None /\ call = NoCall /\ req = NoReq
    /\ queue = <<>> /\ closing = {} /\ serial = 0 /\ requests = 0

-----------------------------------------------------------------------------
Busy == call.op # "none"
Pending == req.code # "none" /\ ~ req.done

\* The descriptors of a file: of handles, of FFEffects, and of an FFEffect
\* that is being dropped, which closes its own after the ioctl.
HasDescriptor(f) ==
    \/ \E h \in Handles : hfile[h] = f
    \/ \E e \in effects : e.file = f
    \/ call.op = "erase" /\ call.file = f

Releasing(f) == \E c \in closing : c.file = f

Free(f) == ~ HasDescriptor(f) /\ ~ Releasing(f) /\ \A s \in Slots : owner[s] # f

\* Asks the owner of the device; the caller waits.
Submit(op, h, f, s, code, before) ==
    /\ call' = [op |-> op, by |-> h, file |-> f, slot |-> s]
    /\ requests' = (requests + 1) % 3
    /\ req' = [code |-> code, n |-> requests', slot |-> s,
               done |-> FALSE, retval |-> 0, orphan |-> FALSE]
    /\ queue' = queue \o before
                  \o <<[code |-> code, slot |-> s, n |-> requests']>>

\* ff-core stops an effect before it is erased and gives its slot back.
Erase(op, f, s) ==
    /\ owner' = [owner EXCEPT ![s] = None]
    /\ Submit(op, None, f, s, "erase", <<[code |-> "play", slot |-> s, n |-> 0]>>)

\* The last descriptor of f is closed, as hfile' and effects' say: its effects
\* are flushed and its grab ends, unless there is no device any more.
Closed(f) ==
    closing' =
      IF \/ \E h \in Handles : hfile'[h] = f
         \/ \E e \in effects' : e.file = f
         \/ call'.op = "erase" /\ call'.file = f
         \/ ~ alive
      THEN closing
      ELSE closing \cup {[file |-> f, todo |-> Slots]}

\* One step of the release of a file: the next effect of it is erased, or
\* there is none left.
Release(f) ==
    /\ alive /\ ~ Busy
    /\ \E c \in {x \in closing : x.file = f} :
         LET mine == {s \in c.todo : owner[s] = c.file}
             s == Min(mine)
         IN  IF mine # {}
               THEN /\ Erase("flush", c.file, s)
                    /\ closing' = (closing \ {c}) \cup
                                  {[c EXCEPT !.todo = {t \in @ : t > s}]}
                    /\ UNCHANGED grab
               ELSE /\ closing' = closing \ {c}
                    /\ grab' = IF grab = c.file THEN None ELSE grab
                    /\ UNCHANGED <<owner, call, req, queue, requests>>
    /\ UNCHANGED <<alive, serial, clientVars>>

=============================================================================
