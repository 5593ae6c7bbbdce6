------------------------------ MODULE ForceFeedback ------------------------------
(***************************************************************************)
(* Clients of a virtual device and its owner together: effects uploaded,   *)
(* updated, played and dropped through the evdev node while the owner      *)
(* answers the requests, fails to, or goes away.                           *)
(***************************************************************************)
EXTENDS UinputRequests

TypeOK == KernelTypeOK /\ HandlesTypeOK /\ OwnerTypeOK

Init == KernelInit /\ HandlesInit /\ OwnerInit

Client ==
    \/ \E h, g \in Handles : FromFd(h, g)
    \/ \E h \in Handles : Open(h) \/ Grab(h) \/ Ungrab(h) \/ DropHandle(h) \/ Upload(h)
    \/ \E e \in effects :
          Update(e) \/ Play(e) \/ DropEffect(e) \/ DropInterrupted(e)

Answer ==
    \E ev \in held, retval \in {0, -1} :
        DropFFUpload(ev, retval) \/ DropFFErase(ev, retval)

Owner ==
    \/ FetchEvents \/ PollEvent
    \/ ProcessFFUpload \/ ProcessFFErase \/ PlayEffect

Kernel ==
    /\ \/ \E f \in Files : ReleaseFile(f)
       \/ CallReturns
    /\ UNCHANGED ownerVars

Next ==
    \/ Client /\ UNCHANGED ownerVars
    \/ Kernel
    \/ TimesOut /\ UNCHANGED ownerVars
    \/ AnswerGone
    \/ Owner \/ Answer
    \/ DropVirtualDevice

Spec == Init /\ [][Next]_vars

\* The owner reads on and answers what it holds; the kernel does its part.
\* No client has to do anything, and nothing has to time out.
Fairness ==
    /\ WF_vars(Owner) /\ WF_vars(Answer) /\ WF_vars(AnswerGone)
    /\ WF_vars(Kernel)

FairSpec == Spec /\ Fairness

-----------------------------------------------------------------------------
\* The effects clients hold are in the device, each in a slot of its own that
\* belongs to the file it was uploaded through: neither the handles' nor the
\* effects' dropping takes a slot from an effect alive (upload_ff_effect,
\* FFEffect::drop).
EffectsOwned ==
    alive => \A e \in effects :
        /\ owner[e.slot] = e.file
        /\ \A other \in effects : other.slot = e.slot => other = e

\* A slot is taken only for an effect a client holds, by the call under way,
\* or by one whose FFEffect was lost: a failed try_clone after the upload, an
\* erase that failed or was interrupted (upload_ff_effect, FFEffect::drop).
SlotsAccounted ==
    alive => \A s \in Slots : owner[s] # None =>
        s \in lost \/ \E e \in effects : e.slot = s

\* As long as no request has timed out the owner keeps exactly the effects
\* the kernel has, whatever was refused, lost or flushed (process_ff_upload,
\* process_ff_erase, set_retval and the drops of both events).
TablesAgree ==
    vdev # "dropped" /\ ~ late /\ ~ Busy => store = {s \in Slots : owner[s] # None}

\* As long as no request has timed out the owner is never told to play or to
\* stop an effect that it does not keep (FFEffect::play, the order of events
\* and answers).
PlaysStored ==
    [][ PlayEffect /\ ~ late => Head(inbox).slot \in store ]_vars

\* As long as no request has timed out, dropping an event answers the request
\* that the event was made for and no other, though all have the same id.
AnswersOwnRequest ==
    [][ \A ev \in held : ev \notin held' /\ ~ late => ev.n = req.n ]_vars

\* A handle that believes to have the grab has it, and a grab is known to a
\* handle, or ends with the file: but for a RawDevice, which is dropped
\* without ungrabbing, and a Device whose ungrab was interrupted (grab,
\* ungrab, Device::drop).
GrabKnown ==
    alive =>
      /\ \A h \in Handles : grabbed[h] => grab = hfile[h]
      /\ grab # None => \/ \E h \in Handles : hfile[h] = grab /\ grabbed[h]
                        \/ grab \in abandoned \/ Releasing(grab)

\* A client that waits for an answer gets one, also when the owner goes away
\* before it has read, begun or ended the request: but for requests the owner
\* has lost to a failed try_clone or an interrupted ioctl (process_ff_upload,
\* process_ff_erase, the drops of both events).
RequestsAnswered == Pending ~> ~ Pending \/ req.orphan

=============================================================================
