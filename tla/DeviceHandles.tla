------------------------------ MODULE DeviceHandles ------------------------------
(***************************************************************************)
(* What clients do with a device that has force feedback: handles of type  *)
(* Device and RawDevice, several of which may share an open file, the grab *)
(* each believes to have, and the FFEffects uploaded through them, each    *)
(* with a descriptor of its own that may outlive the handle.               *)
(***************************************************************************)
EXTENDS FFKernel

CONSTANT MaxFaults   \* bound: what goes wrong in a behaviour, as faults counts it

ASSUME HandlesAssumption == MaxFaults \in Nat

VARIABLES
    lost,       \* history: slots whose FFEffect is gone without being erased
    abandoned,  \* history: files whose grab no handle knows of any more
    late,       \* history: a request timed out
    faults      \* failures of try_clone, ioctls interrupted, erases refused
                \* and timeouts with an owner that could still have answered

historyVars == <<lost, abandoned, late, faults>>

HandlesTypeOK ==
    /\ hfile \in [Handles -> Files \cup {None}]
    /\ grabbed \in [Handles -> BOOLEAN]
    /\ effects \subseteq Effect
    /\ lost \subseteq Slots /\ abandoned \subseteq Files /\ late \in BOOLEAN
    /\ faults \in 0 .. MaxFaults

HandlesInit ==
    /\ hfile = [h \in Handles |-> None]
    /\ grabbed = [h \in Handles |-> FALSE]
    /\ effects = {} /\ lost = {} /\ abandoned = {} /\ late = FALSE /\ faults = 0

Fault == faults < MaxFaults /\ faults' = faults + 1

IsOpen(h) == hfile[h] # None
Uses(h) == call.op = "upload" /\ call.by = h

-----------------------------------------------------------------------------
(* Handles: open, from_fd, grab, ungrab, drop *)

Open(h) ==
    /\ alive /\ ~ IsOpen(h) /\ Free(h)
    /\ hfile' = [hfile EXCEPT ![h] = h]
    /\ grabbed' = [grabbed EXCEPT ![h] = FALSE]
    /\ UNCHANGED <<effects, kernelVars, historyVars>>

\* from_fd or try_from on a duplicate of another handle's descriptor.
FromFd(h, g) ==
    /\ alive /\ ~ IsOpen(h) /\ IsOpen(g)
    /\ hfile' = [hfile EXCEPT ![h] = hfile[g]]
    /\ grabbed' = [grabbed EXCEPT ![h] = FALSE]
    /\ UNCHANGED <<effects, kernelVars, historyVars>>

\* The ioctl says EBUSY if any file has the device, this one included.
Grab(h) ==
    /\ alive /\ ~ Busy /\ IsOpen(h) /\ ~ grabbed[h]
    /\ grab = None
    /\ grab' = hfile[h]
    /\ grabbed' = [grabbed EXCEPT ![h] = TRUE]
    /\ UNCHANGED <<hfile, effects, historyVars>>
    /\ UNCHANGED <<alive, owner, call, req, queue, closing, serial, requests>>

Ungrab(h) ==
    /\ alive /\ ~ Busy /\ IsOpen(h) /\ grabbed[h]
    /\ grab' = None
    /\ grabbed' = [grabbed EXCEPT ![h] = FALSE]
    /\ UNCHANGED <<hfile, effects, historyVars>>
    /\ UNCHANGED <<alive, owner, call, req, queue, closing, serial, requests>>

\* Device::drop ungrabs; RawDevice has no drop of its own.  The ioctl waits
\* for the call under way, which a signal may interrupt.
NeverUngrabs(h) == FALSE
Ungrabs(h) == h \in Devices /\ grabbed[h]

DropHandle(h) ==
    LET f == hfile[h]
    IN  /\ alive /\ IsOpen(h) /\ ~ Uses(h)
        /\ \/ /\ Ungrabs(h) /\ ~ Busy
              /\ grab' = None
              /\ UNCHANGED <<abandoned, faults>>
           \/ /\ ~ Ungrabs(h)
              /\ abandoned' = IF grabbed[h] /\ h \in RawDevices
                              THEN abandoned \cup {f} ELSE abandoned
              /\ UNCHANGED <<grab, faults>>
           \/ /\ Ungrabs(h) /\ Busy /\ Fault
              /\ abandoned' = abandoned \cup {f}
              /\ UNCHANGED grab
        /\ hfile' = [hfile EXCEPT ![h] = None]
        /\ grabbed' = [grabbed EXCEPT ![h] = FALSE]
        /\ UNCHANGED <<effects, call>>
        /\ Closed(f)
        /\ UNCHANGED <<alive, owner, req, queue, serial, requests, lost, late>>

-----------------------------------------------------------------------------
(* Effects: upload, update, play, drop *)

FreeSlots == {s \in Slots : owner[s] = None}

\* The first free slot for an effect with id -1; ENOSPC if there is none.
SlotFor(f) == IF FreeSlots = {} THEN {} ELSE {Min(FreeSlots)}

\* RawDevice::upload_ff_effect, up to the ioctl.
Upload(h) ==
    /\ alive /\ ~ Busy /\ IsOpen(h) /\ serial < MaxRequests
    /\ serial' = serial + 1
    /\ \E s \in SlotFor(hfile[h]) : Submit("upload", h, hfile[h], s, "upload", <<>>)
    /\ UNCHANGED <<clientVars, historyVars, alive, owner, grab, closing>>

\* FFEffect::update.
Update(e) ==
    /\ alive /\ ~ Busy /\ serial < MaxRequests
    /\ owner[e.slot] = e.file
    /\ serial' = serial + 1
    /\ Submit("update", None, e.file, e.slot, "upload", <<>>)
    /\ UNCHANGED <<clientVars, historyVars, alive, owner, grab, closing>>

\* FFEffect::play and stop: the kernel plays what is in the slot.
Play(e) ==
    /\ alive /\ ~ Busy /\ Len(queue) < MaxQueue
    /\ owner[e.slot] # None
    /\ queue' = Append(queue, [code |-> "play", slot |-> e.slot, n |-> 0])
    /\ UNCHANGED <<clientVars, historyVars>>
    /\ UNCHANGED <<alive, owner, grab, call, req, closing, serial, requests>>

\* FFEffect::drop: the ioctl, whose result nobody looks at, and the close of
\* the descriptor after it.
DropSilently(e) ==
    /\ effects' = effects \ {e}
    /\ UNCHANGED <<owner, call, req, queue, requests, lost>>
    /\ Closed(e.file)

DropErases(e) ==
    /\ effects' = effects \ {e}
    /\ IF owner[e.slot] = e.file
         THEN Erase("erase", e.file, e.slot) /\ UNCHANGED <<lost, closing>>
         ELSE UNCHANGED <<owner, call, req, queue, requests, lost>> /\ Closed(e.file)

DropEffect(e) ==
    /\ alive /\ ~ Busy
    /\ UNCHANGED <<hfile, grabbed, alive, grab, serial, abandoned, late, faults>>
    /\ DropErases(e)

\* Another call holds the device up and a signal interrupts the wait.
DropInterrupted(e) ==
    /\ alive /\ Busy /\ Fault
    /\ ~ (call.op = "update" /\ call.slot = e.slot)
    /\ effects' = effects \ {e}
    /\ lost' = lost \cup {e.slot}
    /\ UNCHANGED <<hfile, grabbed, alive, owner, grab, call, req, queue>>
    /\ UNCHANGED <<serial, requests, abandoned, late>>
    /\ Closed(e.file)

-----------------------------------------------------------------------------
(* The ioctl returns retval, to upload_ff_effect, update, drop or close.   *)

NewEffectStaleId == [n |-> serial, file |-> call.file, slot |-> Min(Slots)]
NewEffect == [n |-> serial, file |-> call.file, slot |-> call.slot]

Return(retval, cloned) ==
    /\ call' = NoCall /\ req' = NoReq
    /\ \/ /\ call.op = "upload" /\ retval = 0
          /\ owner' = [owner EXCEPT ![call.slot] = call.file]
          /\ IF cloned
               THEN effects' = effects \cup {NewEffect} /\ UNCHANGED lost
               ELSE lost' = lost \cup {call.slot} /\ UNCHANGED effects
       \/ /\ call.op \in {"erase", "flush"} /\ retval # 0
          /\ owner' = [owner EXCEPT ![call.slot] = call.file]
          /\ lost' = lost \cup {call.slot}
          /\ UNCHANGED effects
       \/ /\ call.op \in {"erase", "flush"} /\ retval = 0
          /\ lost' = lost \ {call.slot}
          /\ UNCHANGED <<owner, effects>>
       \/ /\ call.op = "update" \/ (call.op = "upload" /\ retval # 0)
          /\ UNCHANGED <<owner, effects, lost>>
    /\ UNCHANGED <<hfile, grabbed>>
    /\ IF call.op = "erase" THEN Closed(call.file) ELSE UNCHANGED closing
    /\ UNCHANGED <<alive, grab, queue, serial, requests, abandoned>>

ReleaseFile(f) ==
    /\ Release(f)
    /\ abandoned' = abandoned \ {f}
    /\ UNCHANGED <<lost, late, faults>>

CallReturns ==
    /\ Busy /\ req.done
    /\ \/ Return(req.retval, TRUE) /\ UNCHANGED faults
       \/ Return(req.retval, FALSE) /\ call.op = "upload" /\ req.retval = 0 /\ Fault
    /\ UNCHANGED late

\* 30 s without an answer.
TimesOut ==
    /\ Busy /\ ~ req.done
    /\ Return(-1, TRUE)
    /\ late' = TRUE
    /\ IF req.orphan THEN UNCHANGED faults ELSE Fault

=============================================================================
