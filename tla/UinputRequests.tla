------------------------------ MODULE UinputRequests ------------------------------
(***************************************************************************)
(* The process that owns the virtual device.  It reads events, either with *)
(* VirtualDevice::fetch_events or through VirtualEventStream, turns those  *)
(* that announce a request into an FFUploadEvent or FFEraseEvent, and      *)
(* answers by dropping that, in any order and when it likes.  Whether to   *)
(* answer 0 or -1, and to keep an effect if it answered 0, is the way of   *)
(* the program above the crate (external, examples/virtual_ff.rs).         *)
(***************************************************************************)
EXTENDS DeviceHandles

VARIABLES
    vdev,       \* "device", "stream" (into_event_stream) or "dropped"
    event_buf, index,  \* of the VirtualDevice and of its stream
    inbox,      \* events delivered, not yet looked at
    held,       \* the FFUploadEvents and FFEraseEvents alive
    store       \* slots of the effects the program keeps

ownerVars == <<vdev, event_buf, index, inbox, held, store>>
vars == <<clientVars, kernelVars, historyVars, ownerVars>>

OwnerTypeOK ==
    /\ vdev \in {"device", "stream", "dropped"}
    /\ event_buf \in Seq(UInputEvent) /\ index \in 0 .. Len(event_buf)
    /\ inbox \in Seq(UInputEvent)
    /\ held \subseteq [code : Codes, slot : Slots, n : 0 .. 2]
    /\ store \subseteq Slots

\* into_event_stream may come later, but fetch_events leaves no event in the
\* buffer that the stream would take over.
OwnerInit ==
    /\ vdev \in {"device", "stream"} /\ event_buf = <<>> /\ index = 0
    /\ inbox = <<>> /\ held = {} /\ store = {}

-----------------------------------------------------------------------------
(* Reading: fill_events gets the whole queue, which holds less than        *)
(* EVENT_BATCH_SIZE events.                                                *)

\* fetch_events, all of it collected by the caller.
FetchEvents ==
    /\ vdev = "device" /\ inbox = <<>> /\ queue # <<>>
    /\ inbox' = event_buf \o queue
    /\ event_buf' = <<>> /\ queue' = <<>>
    /\ UNCHANGED <<vdev, index, held, store, clientVars, historyVars>>
    /\ UNCHANGED <<alive, owner, grab, call, req, closing, serial, requests>>

AdvanceNot == UNCHANGED index
Advance == index' = index + 1

RewindNot == index' = index + 1
RewindPast == index' = Len(queue)
Rewind == index' = 1

\* poll_event: the next event of the buffer, or the first of a new filling.
PollEvent ==
    /\ vdev = "stream" /\ inbox = <<>>
    /\ \/ /\ index < Len(event_buf)
          /\ inbox' = <<event_buf[index + 1]>>
          /\ Advance
          /\ UNCHANGED <<event_buf, queue>>
       \/ /\ index = Len(event_buf) /\ queue # <<>>
          /\ event_buf' = queue /\ queue' = <<>> /\ Rewind
          /\ inbox' = <<queue[1]>>
    /\ UNCHANGED <<vdev, held, store, clientVars, historyVars>>
    /\ UNCHANGED <<alive, owner, grab, call, req, closing, serial, requests>>

-----------------------------------------------------------------------------
(* Requests *)

\* What the begin ioctl finds under the event's id: the request of the call
\* under way, if it is of this kind.
Begun == [code |-> req.code, slot |-> req.slot, n |-> req.n]

Process(code) ==
    /\ inbox # <<>> /\ Head(inbox).code = code
    /\ inbox' = Tail(inbox)
    /\ \/ /\ req.code = code
          /\ held' = held \cup {Begun}
          /\ UNCHANGED <<req, faults>>
       \/ /\ req.code = code /\ Fault    \* the ioctl is interrupted, or try_clone
          /\ req' = [req EXCEPT !.orphan = TRUE]
          /\ UNCHANGED held
       \/ /\ req.code # code               \* EINVAL
          /\ UNCHANGED <<held, req, faults>>
    /\ UNCHANGED <<vdev, event_buf, index, store, clientVars, lost, abandoned, late>>
    /\ UNCHANGED <<alive, owner, grab, call, queue, closing, serial, requests>>

ProcessFFUpload == Process("upload")
ProcessFFErase == Process("erase")

\* EV_FF: the program plays or stops the effect.
PlayEffect ==
    /\ inbox # <<>> /\ Head(inbox).code = "play"
    /\ inbox' = Tail(inbox)
    /\ UNCHANGED <<vdev, event_buf, index, held, store>>
    /\ UNCHANGED <<clientVars, kernelVars, historyVars>>

\* Dropping the event ends the request that has its id now; no such request
\* is an error nobody sees.
EndOk(code, retval) ==
    req' = IF req.code = code THEN [req EXCEPT !.done = TRUE, !.retval = 0]
                              ELSE req
End(code, retval) ==
    req' = IF req.code = code THEN [req EXCEPT !.done = TRUE, !.retval = retval]
                              ELSE req

\* A signal interrupts the ioctl, and the request waits on: Drop discards the
\* error and with it what could have ended the request.
EndInterrupted(code) ==
    /\ req.code = code /\ Fault
    /\ req' = [req EXCEPT !.orphan = TRUE]

\* The descriptor of an event is one of the device's.
CloseLast ==
    IF vdev' = "dropped" /\ held' = {}
      THEN alive' = FALSE /\ queue' = <<>> /\ closing' = {}
      ELSE UNCHANGED <<alive, queue, closing>>

DropFFUpload(ev, retval) ==
    /\ ev \in held /\ ev.code = "upload"
    /\ held' = held \ {ev}
    /\ store' = IF retval = 0 THEN store \cup {ev.slot} ELSE store
    /\ \/ End("upload", retval) /\ UNCHANGED faults
       \/ EndInterrupted("upload")
    /\ UNCHANGED <<vdev, event_buf, index, inbox>>
    /\ CloseLast
    /\ UNCHANGED <<owner, grab, call, serial, requests, clientVars>>
    /\ UNCHANGED <<lost, abandoned, late>>

DropFFErase(ev, retval) ==
    /\ ev \in held /\ ev.code = "erase"
    /\ held' = held \ {ev}
    /\ store' = IF retval = 0 THEN store \ {ev.slot} ELSE store
    /\ \/ End("erase", retval) /\ IF retval = 0 THEN UNCHANGED faults ELSE Fault
       \/ EndInterrupted("erase")
    /\ UNCHANGED <<vdev, event_buf, index, inbox>>
    /\ CloseLast
    /\ UNCHANGED <<owner, grab, call, serial, requests, clientVars>>
    /\ UNCHANGED <<lost, abandoned, late>>

\* VirtualDevice or its stream is dropped; its process may have died.  Bound:
\* while something is under way, for nothing follows otherwise.
DropVirtualDevice ==
    /\ vdev # "dropped" /\ (Busy \/ held # {})
    /\ vdev' = "dropped"
    /\ event_buf' = <<>> /\ index' = 0 /\ inbox' = <<>>
    /\ UNCHANGED <<held, store>>
    /\ CloseLast
    /\ UNCHANGED <<owner, grab, call, req, serial, requests, clientVars, historyVars>>

\* Nobody is there any more to answer the request that waits.
AnswerGone ==
    /\ ~ alive /\ Pending
    /\ req' = [req EXCEPT !.done = TRUE, !.retval = -1]
    /\ UNCHANGED <<alive, owner, grab, call, queue, closing, serial, requests>>
    /\ UNCHANGED <<clientVars, historyVars, ownerVars>>

=============================================================================
