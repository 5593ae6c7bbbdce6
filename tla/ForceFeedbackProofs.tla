--------------------------- MODULE ForceFeedbackProofs ---------------------------
(***************************************************************************)
(* Theorems about force feedback on a virtual device: clients of either    *)
(* type, as many as there are, every set of slots, every owner.            *)
(***************************************************************************)
EXTENDS ForceFeedback, TLAPS, WellFoundedInduction

-----------------------------------------------------------------------------
(* The inductive invariant *)

\* The call under way and the request made for it; a handle that uploads
\* stays open; a slot is empty while it is being filled or erased.
CallInv ==
    Busy =>
      /\ req.slot = call.slot
      /\ req.code = IF call.op \in {"upload", "update"} THEN "upload" ELSE "erase"
      /\ IF call.op = "update" THEN owner[call.slot] # None ELSE owner[call.slot] = None
      /\ call.op = "upload" =>
            call.by \in Handles /\ hfile[call.by] = call.file /\ serial >= 1

\* A file being released has no descriptor; a handle with the grab is open,
\* and there is one at most.
FileInv ==
    /\ alive => \A c \in closing : ~ HasDescriptor(c.file)
    /\ \A h \in Handles : grabbed[h] => IsOpen(h)
    /\ \A g, h \in Handles : grabbed[g] /\ grabbed[h] => g = h

\* What is left of the owner.
OwnerInv ==
    /\ vdev # "stream" => index = 0 /\ event_buf = <<>>
    /\ vdev = "dropped" => inbox = <<>>
    /\ ~ alive => vdev = "dropped" /\ held = {} /\ queue = <<>>

Awaited == Busy /\ ~ req.done

\* Nothing is delivered, or will be.
Drained == inbox = <<>> /\ index = Len(event_buf) /\ queue = <<>>

\* A request on its way is that of the call under way, and the last event; it
\* is held once, and answered once.
RequestInv ==
    /\ \A i \in 1 .. Len(inbox) : inbox[i].code # "play" =>
          /\ inbox[i] = Begun /\ Awaited /\ held = {}
          /\ i = Len(inbox) /\ index = Len(event_buf) /\ queue = <<>>
    /\ \A i \in index + 1 .. Len(event_buf) : event_buf[i].code # "play" =>
          /\ event_buf[i] = Begun /\ Awaited /\ held = {}
          /\ i = Len(event_buf) /\ queue = <<>>
    /\ \A i \in 1 .. Len(queue) : queue[i].code # "play" =>
          /\ queue[i] = Begun /\ Awaited /\ held = {} /\ i = Len(queue)
    /\ held \subseteq {Begun}
    /\ held # {} => Awaited /\ Drained

\* A request the owner has lost waits on, and nothing follows it.
OrphanInv == req.orphan => Awaited /\ held = {} /\ Drained

\* What the owner keeps is what the kernel has, but for the slot of the call;
\* nobody knows what it has made of a request that it has lost.
Owned == {s \in Slots : owner[s] # None}
Answered == req.done /\ req.retval = 0

Kept ==
    IF \/ call.op = "upload" /\ Answered
       \/ call.op \in {"erase", "flush"} /\ ~ Answered
      THEN Owned \cup {call.slot} ELSE Owned

StoreInv ==
    /\ req.orphan \/ store = Kept
    /\ \A i \in 1 .. Len(inbox) : inbox[i].code = "play" => inbox[i].slot \in store
    /\ \A i \in index + 1 .. Len(event_buf) :
          event_buf[i].code = "play" => event_buf[i].slot \in store
    /\ \A i \in 1 .. Len(queue) : queue[i].code = "play" => queue[i].slot \in store

IInv ==
    /\ TypeOK /\ CallInv /\ FileInv /\ OwnerInv
    /\ EffectsOwned /\ SlotsAccounted /\ GrabKnown
    /\ ~ late => RequestInv
    /\ ~ late /\ vdev # "dropped" => StoreInv /\ OrphanInv

-----------------------------------------------------------------------------
(* Helpers of the model *)

\* The least of a nonempty set of slots is one of them.
LEMMA MinSlot ==
  ASSUME NEW S \in SUBSET Slots, S # {}
  PROVE  Min(S) \in S
<1>1. S \in SUBSET Nat BY FFAssumption
<1> DEFINE R == {ss \in Nat \X Nat : ss[1] < ss[2]}
<1>2. IsWellFoundedOn(R, Nat)
  BY NatLessThanWellFounded DEF OpToRel
<1>3. PICK x \in S : \A y \in S : ~ (<<y, x>> \in R)
  <2> HIDE DEF R
  <2> QED BY <1>1, <1>2, WFMin
<1>4. \A y \in S : x <= y
  <2> SUFFICES ASSUME NEW y \in S PROVE x <= y OBVIOUS
  <2>1. x \in Nat /\ y \in Nat BY <1>1
  <2>2. ~ (y < x) BY <1>3, <2>1
  <2> QED BY <2>1, <2>2
<1> HIDE DEF R
<1> QED BY <1>4 DEF Min

\* Descriptors and slots belong to files, and None is none.
LEMMA Names ==
  ASSUME TypeOK
  PROVE  /\ None \notin Files /\ Files = Handles /\ Slots \subseteq Nat
         /\ \A h \in Handles : IsOpen(h) => hfile[h] \in Files
         /\ \A e \in effects : e.file \in Files /\ e.slot \in Slots
         /\ \A c \in closing : c.file \in Files /\ c.todo \subseteq Slots
         /\ \A s \in Slots : owner[s] # None => owner[s] \in Files
         /\ Busy => /\ call.op \in {"upload", "update", "erase", "flush"}
                    /\ call.file \in Files /\ call.slot \in Slots
                    /\ req.code \in Codes /\ req.n \in 0 .. 2 /\ req.slot \in Slots
                    /\ req.retval \in {0, -1} /\ req.done \in BOOLEAN
         /\ ~ Busy => call = NoCall /\ req = NoReq
<1>1. None \notin Files /\ Files = Handles /\ Slots \subseteq Nat
  BY FFAssumption DEF Files
<1>2. \A h \in Handles : IsOpen(h) => hfile[h] \in Files
  BY DEF TypeOK, HandlesTypeOK, IsOpen
<1>3. \A e \in effects : e.file \in Files /\ e.slot \in Slots
  BY DEF TypeOK, HandlesTypeOK, Effect
<1>4. \A c \in closing : c.file \in Files /\ c.todo \subseteq Slots
  BY DEF TypeOK, KernelTypeOK, Closing
<1>5. \A s \in Slots : owner[s] # None => owner[s] \in Files
  BY DEF TypeOK, KernelTypeOK
<1>6. Busy => /\ call.op \in {"upload", "update", "erase", "flush"}
              /\ call.file \in Files /\ call.slot \in Slots
              /\ req.code \in Codes /\ req.n \in 0 .. 2 /\ req.slot \in Slots
              /\ req.retval \in {0, -1} /\ req.done \in BOOLEAN
  BY DEF TypeOK, KernelTypeOK, Busy, NoCall
<1>7. ~ Busy => call = NoCall /\ req = NoReq
  BY DEF TypeOK, KernelTypeOK, Busy
<1> QED BY <1>1, <1>2, <1>3, <1>4, <1>5, <1>6, <1>7

\* A request is submitted: the call, its request and its event.
LEMMA Submitted ==
  ASSUME KernelTypeOK, NEW op \in {"upload", "update", "erase", "flush"},
         NEW h \in Handles \cup {None}, NEW f \in Files, NEW s \in Slots,
         NEW code \in Codes, NEW before \in Seq(UInputEvent), Submit(op, h, f, s, code, before)
  PROVE  /\ call' \in [op : {"upload", "update", "erase", "flush"},
                       by : Handles \cup {None}, file : Files, slot : Slots]
         /\ req' \in [code : Codes, n : 0 .. 2, slot : Slots,
                      done : BOOLEAN, retval : {0, -1}, orphan : BOOLEAN]
         /\ queue' \in Seq(UInputEvent) /\ requests' \in 0 .. 2
         /\ call'.op = op /\ call'.by = h /\ call'.file = f /\ call'.slot = s
         /\ req'.code = code /\ req'.slot = s /\ req'.done = FALSE /\ Busy'
<1>1. requests' \in 0 .. 2 BY DEF KernelTypeOK, Submit
<1> DEFINE ev == [code |-> code, slot |-> s, n |-> requests']
<1>2. ev \in UInputEvent BY <1>1 DEF UInputEvent
<1>3. queue' = queue \o before \o <<ev>> BY DEF Submit
<1> HIDE DEF ev
<1>4. queue' \in Seq(UInputEvent)
  <2>1. queue \in Seq(UInputEvent) BY DEF KernelTypeOK
  <2> HIDE DEF UInputEvent
  <2> QED BY <1>2, <1>3, <2>1
<1>5. call' = [op |-> op, by |-> h, file |-> f, slot |-> s]
      /\ req' = [code |-> code, n |-> requests', slot |-> s,
                 done |-> FALSE, retval |-> 0, orphan |-> FALSE]
  BY DEF Submit
<1>6. Busy' BY <1>5 DEF Busy
<1> QED BY <1>1, <1>4, <1>5, <1>6

\* A file is closed: nothing happens, or it is released from now on.
LEMMA ClosedFile ==
  ASSUME closing \subseteq Closing, NEW f \in Files, Closed(f)
  PROVE  /\ closing' \subseteq Closing /\ closing \subseteq closing'
         /\ \A c \in closing' : \/ c \in closing
                                \/ alive /\ c.file = f /\ ~ HasDescriptor(f)'
<1>1. [file |-> f, todo |-> Slots] \in Closing BY DEF Closing
<1> QED BY <1>1 DEF Closed, HasDescriptor

-----------------------------------------------------------------------------
(* Types *)

LEMMA TypesClient ==
  ASSUME TypeOK, CallInv, Client, UNCHANGED ownerVars
  PROVE  TypeOK'
<1> USE DEF Files
<1>1. KernelTypeOK /\ HandlesTypeOK /\ OwnerTypeOK BY DEF TypeOK
<1>2. /\ None \notin Files
      /\ \A h \in Handles : IsOpen(h) => hfile[h] \in Files
      /\ \A e \in effects : e.file \in Files /\ e.slot \in Slots
  BY Names
<1>3. closing \subseteq Closing BY <1>1 DEF KernelTypeOK
<1>4. OwnerTypeOK' BY <1>1 DEF OwnerTypeOK, ownerVars
<1>5. ASSUME NEW h \in Handles, NEW g \in Handles, FromFd(h, g)
      PROVE  TypeOK'
  <2>1. hfile' \in [Handles -> Files \cup {None}] /\ grabbed' \in [Handles -> BOOLEAN]
    BY <1>1, <1>5 DEF FromFd, HandlesTypeOK
  <2>2. UNCHANGED <<effects, kernelVars, historyVars>> BY <1>5 DEF FromFd
  <2>3. HandlesTypeOK' BY <1>1, <2>1, <2>2 DEF HandlesTypeOK, historyVars
  <2>4. KernelTypeOK' BY <1>1, <2>2 DEF KernelTypeOK, kernelVars
  <2> QED BY <1>4, <2>3, <2>4 DEF TypeOK
<1>6. ASSUME NEW h \in Handles, Open(h)
      PROVE  TypeOK'
  <2>1. hfile' \in [Handles -> Files \cup {None}] /\ grabbed' \in [Handles -> BOOLEAN]
    BY <1>1, <1>6 DEF Open, HandlesTypeOK
  <2>2. UNCHANGED <<effects, kernelVars, historyVars>> BY <1>6 DEF Open
  <2>3. HandlesTypeOK' BY <1>1, <2>1, <2>2 DEF HandlesTypeOK, historyVars
  <2>4. KernelTypeOK' BY <1>1, <2>2 DEF KernelTypeOK, kernelVars
  <2> QED BY <1>4, <2>3, <2>4 DEF TypeOK
<1>7. ASSUME NEW h \in Handles, Grab(h) \/ Ungrab(h)
      PROVE  TypeOK'
  <2>1. grabbed' \in [Handles -> BOOLEAN] /\ grab' \in Files \cup {None}
    BY <1>1, <1>7 DEF Grab, Ungrab, HandlesTypeOK
  <2>2. UNCHANGED <<hfile, effects, historyVars>>
        /\ UNCHANGED <<alive, owner, call, req, queue, closing, serial, requests>>
    BY <1>7 DEF Grab, Ungrab
  <2>3. HandlesTypeOK' BY <1>1, <2>1, <2>2 DEF HandlesTypeOK, historyVars
  <2>4. KernelTypeOK' BY <1>1, <2>1, <2>2 DEF KernelTypeOK
  <2> QED BY <1>4, <2>3, <2>4 DEF TypeOK
<1>8. ASSUME NEW h \in Handles, DropHandle(h)
      PROVE  TypeOK'
  <2>1. hfile[h] \in Files BY <1>2, <1>8 DEF DropHandle
  <2>2. hfile' \in [Handles -> Files \cup {None}] /\ grabbed' \in [Handles -> BOOLEAN]
    BY <1>1, <1>8 DEF DropHandle, HandlesTypeOK
  <2>3. abandoned' \subseteq Files /\ grab' \in Files \cup {None}
    BY <1>1, <1>8, <2>1 DEF DropHandle, HandlesTypeOK, KernelTypeOK
  <2>4. faults' \in 0 .. MaxFaults
    BY <1>1, <1>8, HandlesAssumption DEF DropHandle, HandlesTypeOK, Fault
  <2>5. closing' \subseteq Closing BY <1>3, <1>8, <2>1, ClosedFile DEF DropHandle
  <2>6. UNCHANGED <<effects, call, alive, owner, req, queue, serial, requests, lost, late>>
    BY <1>8 DEF DropHandle
  <2>7. HandlesTypeOK' BY <1>1, <2>2, <2>3, <2>4, <2>6 DEF HandlesTypeOK
  <2>8. KernelTypeOK' BY <1>1, <2>3, <2>5, <2>6 DEF KernelTypeOK
  <2> QED BY <1>4, <2>7, <2>8 DEF TypeOK
<1>9. ASSUME NEW h \in Handles, Upload(h)
      PROVE  TypeOK'
  <2>1. /\ hfile[h] \in Files /\ serial' = serial + 1 /\ serial < MaxRequests
        /\ UNCHANGED <<clientVars, historyVars, alive, owner, grab, closing>>
    BY <1>2, <1>9 DEF Upload
  <2>2. PICK s \in SlotFor(hfile[h]) : Submit("upload", h, hfile[h], s, "upload", <<>>)
    BY <1>9 DEF Upload
  <2>3. s \in Slots
    <3>1. FreeSlots # {} /\ s = Min(FreeSlots) BY <2>2 DEF SlotFor
    <3>2. FreeSlots \in SUBSET Slots BY DEF FreeSlots
    <3> QED BY <3>1, <3>2, MinSlot
  <2>4. /\ call' \in [op : {"upload", "update", "erase", "flush"},
                      by : Handles \cup {None}, file : Files, slot : Slots]
        /\ req' \in [code : Codes, n : 0 .. 2, slot : Slots,
                     done : BOOLEAN, retval : {0, -1}, orphan : BOOLEAN]
        /\ queue' \in Seq(UInputEvent) /\ requests' \in 0 .. 2
    <3>1. <<>> \in Seq(UInputEvent) /\ "upload" \in Codes BY DEF Codes
    <3> QED BY <3>1, <1>1, <2>1, <2>2, <2>3, Submitted
  <2>5. serial' \in 0 .. MaxRequests BY <1>1, <2>1, FFAssumption DEF KernelTypeOK
  <2>6. KernelTypeOK' BY <1>1, <2>1, <2>4, <2>5 DEF KernelTypeOK
  <2>7. HandlesTypeOK' BY <1>1, <2>1 DEF HandlesTypeOK, clientVars, historyVars
  <2> QED BY <1>4, <2>6, <2>7 DEF TypeOK
<1>10. ASSUME NEW e \in effects, Update(e)
       PROVE  TypeOK'
  <2>1. /\ e.file \in Files /\ e.slot \in Slots /\ serial' = serial + 1
        /\ serial < MaxRequests
        /\ UNCHANGED <<clientVars, historyVars, alive, owner, grab, closing>>
        /\ Submit("update", None, e.file, e.slot, "upload", <<>>)
    BY <1>2, <1>10 DEF Update
  <2>2. /\ call' \in [op : {"upload", "update", "erase", "flush"},
                      by : Handles \cup {None}, file : Files, slot : Slots]
        /\ req' \in [code : Codes, n : 0 .. 2, slot : Slots,
                     done : BOOLEAN, retval : {0, -1}, orphan : BOOLEAN]
        /\ queue' \in Seq(UInputEvent) /\ requests' \in 0 .. 2
    <3>1. <<>> \in Seq(UInputEvent) /\ "upload" \in Codes BY DEF Codes
    <3> QED BY <3>1, <1>1, <2>1, Submitted
  <2>3. serial' \in 0 .. MaxRequests BY <1>1, <2>1, FFAssumption DEF KernelTypeOK
  <2>4. KernelTypeOK' BY <1>1, <2>1, <2>2, <2>3 DEF KernelTypeOK
  <2>5. HandlesTypeOK' BY <1>1, <2>1 DEF HandlesTypeOK, clientVars, historyVars
  <2> QED BY <1>4, <2>4, <2>5 DEF TypeOK
<1>11. ASSUME NEW e \in effects, Play(e)
       PROVE  TypeOK'
  <2>1. [code |-> "play", slot |-> e.slot, n |-> 0] \in UInputEvent
    BY <1>2 DEF UInputEvent
  <2>2. queue' \in Seq(UInputEvent)
    <3> HIDE DEF UInputEvent
    <3> QED BY <1>1, <1>11, <2>1 DEF Play, KernelTypeOK
  <2>3. UNCHANGED <<clientVars, historyVars>>
        /\ UNCHANGED <<alive, owner, grab, call, req, closing, serial, requests>>
    BY <1>11 DEF Play
  <2>4. KernelTypeOK' BY <1>1, <2>2, <2>3 DEF KernelTypeOK
  <2>5. HandlesTypeOK' BY <1>1, <2>3 DEF HandlesTypeOK, clientVars, historyVars
  <2> QED BY <1>4, <2>4, <2>5 DEF TypeOK
<1>12. ASSUME NEW e \in effects, DropEffect(e)
       PROVE  TypeOK'
  <2>1. /\ UNCHANGED <<hfile, grabbed, alive, grab, serial, abandoned, late, faults>>
        /\ effects' = effects \ {e} /\ e.file \in Files /\ e.slot \in Slots
    BY <1>2, <1>12 DEF DropEffect, DropErases
  <2>2. CASE Erase("erase", e.file, e.slot) /\ UNCHANGED <<lost, closing>>
    <3> DEFINE stop == [code |-> "play", slot |-> e.slot, n |-> 0]
    <3>1. stop \in UInputEvent BY <2>1 DEF UInputEvent
    <3>2. <<stop>> \in Seq(UInputEvent) /\ "erase" \in Codes BY <3>1 DEF Codes
    <3>3. Submit("erase", None, e.file, e.slot, "erase", <<stop>>)
          /\ owner' = [owner EXCEPT ![e.slot] = None]
      BY <2>2 DEF Erase
    <3> HIDE DEF stop
    <3>4. /\ call' \in [op : {"upload", "update", "erase", "flush"},
                        by : Handles \cup {None}, file : Files, slot : Slots]
          /\ req' \in [code : Codes, n : 0 .. 2, slot : Slots,
                       done : BOOLEAN, retval : {0, -1}, orphan : BOOLEAN]
          /\ queue' \in Seq(UInputEvent) /\ requests' \in 0 .. 2
      BY <3>2, <3>3, <1>1, <2>1, Submitted
    <3>5. owner' \in [Slots -> Files \cup {None}] BY <3>3, <1>1 DEF KernelTypeOK
    <3>6. KernelTypeOK' BY <1>1, <2>1, <2>2, <3>4, <3>5 DEF KernelTypeOK
    <3>7. HandlesTypeOK' BY <1>1, <2>1, <2>2 DEF HandlesTypeOK
    <3> QED BY <1>4, <3>6, <3>7 DEF TypeOK
  <2>3. CASE UNCHANGED <<owner, call, req, queue, requests, lost>> /\ Closed(e.file)
    <3>1. closing' \subseteq Closing BY <1>3, <2>1, <2>3, ClosedFile
    <3>2. KernelTypeOK' BY <1>1, <2>1, <2>3, <3>1 DEF KernelTypeOK
    <3>3. HandlesTypeOK' BY <1>1, <2>1, <2>3 DEF HandlesTypeOK
    <3> QED BY <1>4, <3>2, <3>3 DEF TypeOK
  <2> QED BY <1>12, <2>2, <2>3 DEF DropEffect, DropErases
<1>13. ASSUME NEW e \in effects, DropInterrupted(e)
       PROVE  TypeOK'
  <2>1. /\ UNCHANGED <<hfile, grabbed, alive, owner, grab, call, req, queue>>
        /\ UNCHANGED <<serial, requests, abandoned, late>>
        /\ effects' = effects \ {e} /\ e.file \in Files /\ e.slot \in Slots
        /\ lost' = lost \cup {e.slot} /\ Fault /\ Closed(e.file)
    BY <1>2, <1>13 DEF DropInterrupted
  <2>2. closing' \subseteq Closing BY <1>3, <2>1, ClosedFile
  <2>3. KernelTypeOK' BY <1>1, <2>1, <2>2 DEF KernelTypeOK
  <2>4. faults' \in 0 .. MaxFaults BY <1>1, <2>1, HandlesAssumption DEF HandlesTypeOK, Fault
  <2>5. HandlesTypeOK' BY <1>1, <2>1, <2>4 DEF HandlesTypeOK
  <2> QED BY <1>4, <2>3, <2>5 DEF TypeOK
<1> QED BY <1>5, <1>6, <1>7, <1>8, <1>9, <1>10, <1>11, <1>12, <1>13 DEF Client

\* The ioctl under way returns.
LEMMA TypesReturn ==
  ASSUME TypeOK, CallInv, NEW retval, NEW cloned, Busy, Return(retval, cloned),
         late' \in BOOLEAN, faults' \in 0 .. MaxFaults, UNCHANGED ownerVars
  PROVE  TypeOK'
<1>1. KernelTypeOK /\ HandlesTypeOK /\ OwnerTypeOK BY DEF TypeOK
<1>2. call.file \in Files /\ call.slot \in Slots BY Names
<1>3. OwnerTypeOK' BY <1>1 DEF OwnerTypeOK, ownerVars
<1>4. owner' \in [Slots -> Files \cup {None}]
  BY <1>1, <1>2 DEF Return, KernelTypeOK
<1>5. lost' \subseteq Slots BY <1>1, <1>2 DEF Return, HandlesTypeOK
<1>6. effects' \subseteq Effect
  <2>1. CASE call.op = "upload"
    <3>1. serial \in 1 .. MaxRequests BY <1>1, <2>1 DEF CallInv, KernelTypeOK
    <3>2. NewEffect \in Effect BY <3>1, <1>2 DEF NewEffect, Effect
    <3>3. effects' = effects \/ effects' = effects \cup {NewEffect} BY DEF Return
    <3> QED BY <3>2, <3>3, <1>1 DEF HandlesTypeOK
  <2>2. CASE call.op # "upload"
    <3>1. effects' = effects BY <2>2 DEF Return
    <3> QED BY <3>1, <1>1 DEF HandlesTypeOK
  <2> QED BY <2>1, <2>2
<1>7. closing' \subseteq Closing
  <2>1. closing \subseteq Closing BY <1>1 DEF KernelTypeOK
  <2>2. closing' = closing \/ Closed(call.file) BY DEF Return
  <2> QED BY <2>1, <2>2, <1>2, ClosedFile
<1>8. /\ call' = NoCall /\ req' = NoReq
      /\ UNCHANGED <<hfile, grabbed>>
      /\ UNCHANGED <<alive, grab, queue, serial, requests, abandoned>>
  BY DEF Return
<1>9. KernelTypeOK' BY <1>1, <1>4, <1>7, <1>8 DEF KernelTypeOK, NoCall, NoReq
<1>10. HandlesTypeOK' BY <1>1, <1>5, <1>6, <1>8 DEF HandlesTypeOK
<1> QED BY <1>3, <1>9, <1>10 DEF TypeOK

LEMMA TypesKernel ==
  ASSUME TypeOK, CallInv, Kernel \/ (TimesOut /\ UNCHANGED ownerVars)
  PROVE  TypeOK'
<1>1. KernelTypeOK /\ HandlesTypeOK /\ OwnerTypeOK BY DEF TypeOK
<1>2. UNCHANGED ownerVars BY DEF Kernel
<1>3. ASSUME NEW f \in Files, ReleaseFile(f)
      PROVE  TypeOK'
  <2>1. /\ Release(f) /\ abandoned' = abandoned \ {f} /\ UNCHANGED <<lost, late, faults>>
        /\ UNCHANGED <<alive, serial, clientVars>>
    BY <1>3 DEF ReleaseFile, Release
  <2>2. PICK c \in closing :
          LET mine == {s \in c.todo : owner[s] = c.file}
              s == Min(mine)
          IN  IF mine # {}
                THEN /\ Erase("flush", c.file, s)
                     /\ closing' = (closing \ {c}) \cup {[c EXCEPT !.todo = {t \in @ : t > s}]}
                     /\ UNCHANGED grab
                ELSE /\ closing' = closing \ {c}
                     /\ grab' = IF grab = c.file THEN None ELSE grab
                     /\ UNCHANGED <<owner, call, req, queue, requests>>
    BY <2>1 DEF Release
  <2> DEFINE mine == {s \in c.todo : owner[s] = c.file}
             s == Min(mine)
  <2>3. c.file \in Files /\ c.todo \subseteq Slots /\ c \in Closing
    BY <1>1, Names DEF KernelTypeOK
  <2>4. HandlesTypeOK' BY <1>1, <2>1 DEF HandlesTypeOK, clientVars
  <2>5. OwnerTypeOK' BY <1>1, <1>2 DEF OwnerTypeOK, ownerVars
  <2>6. CASE mine # {}
    <3>1. s \in Slots
      <4>1. mine \in SUBSET Slots BY <2>3
      <4> HIDE DEF mine
      <4>2. s \in mine BY <4>1, <2>6, MinSlot
      <4> QED BY <4>1, <4>2
    <3>2. /\ Erase("flush", c.file, s) /\ UNCHANGED grab
          /\ closing' = (closing \ {c}) \cup {[c EXCEPT !.todo = {t \in @ : t > s}]}
      BY <2>2, <2>6
    <3> HIDE DEF s, mine
    <3> DEFINE stop == [code |-> "play", slot |-> s, n |-> 0]
    <3>3. stop \in UInputEvent BY <3>1 DEF UInputEvent
    <3>4. <<stop>> \in Seq(UInputEvent) /\ "erase" \in Codes BY <3>3 DEF Codes
    <3>5. Submit("flush", None, c.file, s, "erase", <<stop>>)
          /\ owner' = [owner EXCEPT ![s] = None]
      BY <3>2 DEF Erase
    <3> HIDE DEF stop
    <3>6. /\ call' \in [op : {"upload", "update", "erase", "flush"},
                        by : Handles \cup {None}, file : Files, slot : Slots]
          /\ req' \in [code : Codes, n : 0 .. 2, slot : Slots,
                       done : BOOLEAN, retval : {0, -1}, orphan : BOOLEAN]
          /\ queue' \in Seq(UInputEvent) /\ requests' \in 0 .. 2
      BY <3>1, <3>4, <3>5, <1>1, <2>3, Submitted
    <3>7. owner' \in [Slots -> Files \cup {None}] BY <3>5, <1>1 DEF KernelTypeOK
    <3>8. closing' \subseteq Closing
      <4>1. [c EXCEPT !.todo = {t \in @ : t > s}] \in Closing BY <2>3 DEF Closing
      <4> QED BY <4>1, <3>2, <1>1 DEF KernelTypeOK
    <3>9. KernelTypeOK' BY <1>1, <2>1, <3>2, <3>6, <3>7, <3>8 DEF KernelTypeOK
    <3> QED BY <2>4, <2>5, <3>9 DEF TypeOK
  <2>7. CASE mine = {}
    <3>1. /\ closing' = closing \ {c} /\ grab' \in {None, grab}
          /\ UNCHANGED <<owner, call, req, queue, requests>>
      BY <2>2, <2>7
    <3>2. KernelTypeOK' BY <1>1, <2>1, <3>1 DEF KernelTypeOK
    <3> QED BY <2>4, <2>5, <3>2 DEF TypeOK
  <2> QED BY <2>6, <2>7
<1>4. CASE CallReturns
  <2>1. Busy /\ late' \in BOOLEAN /\ faults' \in 0 .. MaxFaults
    <3>1. Busy /\ late' = late BY <1>4 DEF CallReturns
    <3>2. late \in BOOLEAN /\ faults \in 0 .. MaxFaults BY <1>1 DEF HandlesTypeOK
    <3>3. faults' = faults \/ (faults < MaxFaults /\ faults' = faults + 1)
      BY <1>4 DEF CallReturns, Fault
    <3>4. faults' \in 0 .. MaxFaults BY <3>2, <3>3, HandlesAssumption
    <3> QED BY <3>1, <3>2, <3>4
  <2>2. Return(req.retval, TRUE) \/ Return(req.retval, FALSE) BY <1>4 DEF CallReturns
  <2> QED BY <1>2, <2>1, <2>2, TypesReturn
<1>5. CASE TimesOut
  <2>1. Busy /\ late' \in BOOLEAN /\ faults' \in 0 .. MaxFaults
    BY <1>1, <1>5, HandlesAssumption DEF TimesOut, HandlesTypeOK, Fault
  <2>2. Return(-1, TRUE) BY <1>5 DEF TimesOut
  <2> QED BY <1>2, <2>1, <2>2, TypesReturn
<1> QED BY <1>3, <1>4, <1>5 DEF Kernel

\* The last descriptor of the device may be closed.
LEMMA ClosedLast ==
  ASSUME KernelTypeOK, CloseLast
  PROVE  alive' \in BOOLEAN /\ queue' \in Seq(UInputEvent) /\ closing' \subseteq Closing
<1>1. alive \in BOOLEAN /\ queue \in Seq(UInputEvent) /\ closing \subseteq Closing
  BY DEF KernelTypeOK
<1>2. <<>> \in Seq(UInputEvent) OBVIOUS
<1>3. CASE vdev' = "dropped" /\ held' = {}
  <2>1. alive' = FALSE /\ queue' = <<>> /\ closing' = {} BY <1>3 DEF CloseLast
  <2> HIDE DEF UInputEvent
  <2> QED BY <1>2, <2>1
<1>4. CASE ~ (vdev' = "dropped" /\ held' = {})
  <2>1. UNCHANGED <<alive, queue, closing>> BY <1>4 DEF CloseLast
  <2> QED BY <1>1, <2>1
<1> QED BY <1>3, <1>4

LEMMA TypesOwner ==
  ASSUME TypeOK, OwnerInv, Owner \/ Answer \/ DropVirtualDevice \/ AnswerGone
  PROVE  TypeOK'
<1>1. KernelTypeOK /\ HandlesTypeOK /\ OwnerTypeOK BY DEF TypeOK
<1>2. /\ queue \in Seq(UInputEvent) /\ event_buf \in Seq(UInputEvent)
      /\ inbox \in Seq(UInputEvent) /\ index \in 0 .. Len(event_buf)
  BY <1>1 DEF KernelTypeOK, OwnerTypeOK
<1>3. CASE FetchEvents
  <2>1. index = 0 BY <1>3 DEF FetchEvents, OwnerInv
  <2>2. /\ inbox' = event_buf \o queue /\ event_buf' = <<>> /\ queue' = <<>>
        /\ UNCHANGED <<vdev, index, held, store, clientVars, historyVars>>
        /\ UNCHANGED <<alive, owner, grab, call, req, closing, serial, requests>>
    BY <1>3 DEF FetchEvents
  <2>3. inbox' \in Seq(UInputEvent)
    <3> HIDE DEF UInputEvent
    <3> QED BY <2>2, <1>2
  <2>4. event_buf' \in Seq(UInputEvent) /\ queue' \in Seq(UInputEvent) /\ Len(event_buf') = 0
    BY <2>2
  <2>5. KernelTypeOK' BY <1>1, <2>2, <2>4 DEF KernelTypeOK
  <2>6. HandlesTypeOK' BY <1>1, <2>2 DEF HandlesTypeOK, clientVars, historyVars
  <2>7. index' \in 0 .. Len(event_buf') BY <2>1, <2>2, <2>4
  <2>8. OwnerTypeOK' BY <1>1, <2>2, <2>3, <2>4, <2>7 DEF OwnerTypeOK
  <2> QED BY <2>5, <2>6, <2>8 DEF TypeOK
<1>4. CASE PollEvent
  <2>1. /\ UNCHANGED <<vdev, held, store, clientVars, historyVars>>
        /\ UNCHANGED <<alive, owner, grab, call, req, closing, serial, requests>>
    BY <1>4 DEF PollEvent
  <2>2. HandlesTypeOK' BY <1>1, <2>1 DEF HandlesTypeOK, clientVars, historyVars
  <2>3. CASE index < Len(event_buf) /\ inbox' = <<event_buf[index + 1]>> /\ index' = index + 1
             /\ UNCHANGED <<event_buf, queue>>
    <3>1. index + 1 \in 1 .. Len(event_buf) BY <2>3, <1>2
    <3>2. event_buf[index + 1] \in UInputEvent
      <4> HIDE DEF UInputEvent
      <4> QED BY <3>1, <1>2
    <3>3. inbox' \in Seq(UInputEvent) BY <2>3, <3>2
    <3>4. index' \in 0 .. Len(event_buf') BY <2>3, <3>1, <1>2
    <3>5. KernelTypeOK' BY <1>1, <2>1, <2>3 DEF KernelTypeOK
    <3>6. OwnerTypeOK' BY <1>1, <2>1, <2>3, <3>3, <3>4 DEF OwnerTypeOK
    <3> QED BY <2>2, <3>5, <3>6 DEF TypeOK
  <2>4. CASE queue # <<>> /\ event_buf' = queue /\ queue' = <<>> /\ index' = 1
             /\ inbox' = <<queue[1]>>
    <3>1. 1 \in 1 .. Len(queue) BY <2>4, <1>2
    <3>2. queue[1] \in UInputEvent
      <4> HIDE DEF UInputEvent
      <4> QED BY <3>1, <1>2
    <3>3. inbox' \in Seq(UInputEvent) /\ queue' \in Seq(UInputEvent) BY <2>4, <3>2
    <3>4. index' \in 0 .. Len(event_buf') BY <2>4, <3>1
    <3>5. KernelTypeOK' BY <1>1, <2>1, <3>3 DEF KernelTypeOK
    <3>6. OwnerTypeOK' BY <1>1, <1>2, <2>1, <2>4, <3>3, <3>4 DEF OwnerTypeOK
    <3> QED BY <2>2, <3>5, <3>6 DEF TypeOK
  <2> QED BY <1>4, <2>3, <2>4 DEF PollEvent, Advance, Rewind
<1>5. ASSUME NEW code \in Codes, Process(code)
      PROVE  TypeOK'
  <2>1. /\ inbox # <<>> /\ inbox' = Tail(inbox)
        /\ UNCHANGED <<vdev, event_buf, index, store, clientVars, lost, abandoned, late>>
        /\ UNCHANGED <<alive, owner, grab, call, queue, closing, serial, requests>>
        /\ held' \in {held, held \cup {Begun}} /\ (held' # held => req.code = code)
        /\ req' \in {req, [req EXCEPT !.orphan = TRUE]} /\ (req' # req => req.code = code)
        /\ (faults' = faults \/ Fault)
    BY <1>5 DEF Process
  <2>2. inbox' \in Seq(UInputEvent)
    <3> HIDE DEF UInputEvent
    <3> QED BY <1>2, <2>1
  <2>3. req.code = code => Busy
    <3>1. code # "none" BY DEF Codes
    <3>2. ~ Busy => req.code = "none" BY Names DEF NoReq
    <3> QED BY <3>1, <3>2
  <2>4. held' \subseteq [code : Codes, slot : Slots, n : 0 .. 2]
    <3>1. CASE held' = held BY <3>1, <1>1 DEF OwnerTypeOK
    <3>2. CASE held' # held
      <4>1. req.code \in Codes /\ req.n \in 0 .. 2 /\ req.slot \in Slots
        BY <3>2, <2>1, <2>3, Names
      <4>2. Begun \in [code : Codes, slot : Slots, n : 0 .. 2] BY <4>1 DEF Begun
      <4> QED BY <4>2, <3>2, <2>1, <1>1 DEF OwnerTypeOK
    <3> QED BY <3>1, <3>2
  <2>5. faults' \in 0 .. MaxFaults BY <1>1, <2>1, HandlesAssumption DEF HandlesTypeOK, Fault
  <2>6. KernelTypeOK'
    <3>1. CASE req' = req BY <3>1, <1>1, <2>1 DEF KernelTypeOK
    <3>2. CASE req' # req
      <4>1. call # NoCall BY <3>2, <2>1, <2>3 DEF Busy, NoCall
      <4>2. call \in [op : {"upload", "update", "erase", "flush"},
                      by : Handles \cup {None}, file : Files, slot : Slots]
            /\ req \in [code : Codes, n : 0 .. 2, slot : Slots,
                        done : BOOLEAN, retval : {0, -1}, orphan : BOOLEAN]
        BY <4>1, <1>1 DEF KernelTypeOK
      <4>3. req' \in [code : Codes, n : 0 .. 2, slot : Slots,
                      done : BOOLEAN, retval : {0, -1}, orphan : BOOLEAN]
        BY <4>2, <2>1
      <4> QED BY <4>2, <4>3, <1>1, <2>1 DEF KernelTypeOK
    <3> QED BY <3>1, <3>2
  <2>7. HandlesTypeOK' BY <1>1, <2>1, <2>5 DEF HandlesTypeOK, clientVars
  <2>8. OwnerTypeOK' BY <1>1, <2>1, <2>2, <2>4 DEF OwnerTypeOK
  <2> QED BY <2>6, <2>7, <2>8 DEF TypeOK
<1>6. CASE PlayEffect
  <2>1. /\ inbox # <<>> /\ inbox' = Tail(inbox)
        /\ UNCHANGED <<vdev, event_buf, index, held, store>>
        /\ UNCHANGED <<clientVars, kernelVars, historyVars>>
    BY <1>6 DEF PlayEffect
  <2>2. inbox' \in Seq(UInputEvent)
    <3> HIDE DEF UInputEvent
    <3> QED BY <1>2, <2>1
  <2>3. KernelTypeOK' BY <1>1, <2>1 DEF KernelTypeOK, kernelVars
  <2>4. HandlesTypeOK' BY <1>1, <2>1 DEF HandlesTypeOK, clientVars, historyVars
  <2>5. OwnerTypeOK' BY <1>1, <2>1, <2>2 DEF OwnerTypeOK
  <2> QED BY <2>3, <2>4, <2>5 DEF TypeOK
<1>7. ASSUME NEW ev \in held, NEW retval \in {0, -1},
             DropFFUpload(ev, retval) \/ DropFFErase(ev, retval)
      PROVE  TypeOK'
  <2>1. /\ ev.slot \in Slots /\ held' = held \ {ev} /\ CloseLast
        /\ UNCHANGED <<vdev, event_buf, index, inbox>>
        /\ UNCHANGED <<owner, grab, call, serial, requests, clientVars>>
        /\ UNCHANGED <<lost, abandoned, late>>
        /\ (faults' = faults \/ Fault)
        /\ store' \in {store, store \cup {ev.slot}, store \ {ev.slot}}
        /\ \E code \in Codes : End(code, retval) \/ EndInterrupted(code)
    BY <1>1, <1>7 DEF DropFFUpload, DropFFErase, EndInterrupted, OwnerTypeOK, Codes
  <2>2. PICK code \in Codes : End(code, retval) \/ EndInterrupted(code) BY <2>1
  <2>3. faults' \in 0 .. MaxFaults BY <1>1, <2>1, HandlesAssumption DEF HandlesTypeOK, Fault
  <2>4. alive' \in BOOLEAN /\ queue' \in Seq(UInputEvent) /\ closing' \subseteq Closing
    BY <1>1, <2>1, ClosedLast
  <2>5. KernelTypeOK'
    <3>1. CASE req' = req BY <3>1, <1>1, <2>1, <2>4 DEF KernelTypeOK
    <3>2. CASE req' # req
      <4>1. /\ req.code = code
            /\ \/ req' = [req EXCEPT !.done = TRUE, !.retval = retval]
               \/ req' = [req EXCEPT !.orphan = TRUE]
        BY <3>2, <2>2 DEF End, EndInterrupted
      <4>2. call # NoCall
        <5>1. code # "none" BY DEF Codes
        <5>2. ~ Busy => req.code = "none" BY Names DEF NoReq
        <5> QED BY <5>1, <5>2, <4>1 DEF Busy, NoCall
      <4>3. call \in [op : {"upload", "update", "erase", "flush"},
                      by : Handles \cup {None}, file : Files, slot : Slots]
            /\ req \in [code : Codes, n : 0 .. 2, slot : Slots,
                        done : BOOLEAN, retval : {0, -1}, orphan : BOOLEAN]
        BY <4>2, <1>1 DEF KernelTypeOK
      <4>4. req' \in [code : Codes, n : 0 .. 2, slot : Slots,
                      done : BOOLEAN, retval : {0, -1}, orphan : BOOLEAN]
        BY <4>1, <4>3
      <4> QED BY <4>3, <4>4, <1>1, <2>1, <2>4 DEF KernelTypeOK
    <3> QED BY <3>1, <3>2
  <2>6. HandlesTypeOK' BY <1>1, <2>1, <2>3 DEF HandlesTypeOK, clientVars
  <2>7. OwnerTypeOK' BY <1>1, <2>1 DEF OwnerTypeOK
  <2> QED BY <2>5, <2>6, <2>7 DEF TypeOK
<1>8. CASE DropVirtualDevice
  <2>1. /\ vdev' = "dropped" /\ event_buf' = <<>> /\ index' = 0 /\ inbox' = <<>> /\ CloseLast
        /\ UNCHANGED <<held, store>>
        /\ UNCHANGED <<owner, grab, call, req, serial, requests, clientVars, historyVars>>
    BY <1>8 DEF DropVirtualDevice
  <2>2. alive' \in BOOLEAN /\ queue' \in Seq(UInputEvent) /\ closing' \subseteq Closing
    BY <1>1, <2>1, ClosedLast
  <2>3. KernelTypeOK' BY <1>1, <2>1, <2>2 DEF KernelTypeOK
  <2>4. HandlesTypeOK' BY <1>1, <2>1 DEF HandlesTypeOK, clientVars, historyVars
  <2>5. <<>> \in Seq(UInputEvent) /\ 0 \in 0 .. Len(<<>>) OBVIOUS
  <2>6. OwnerTypeOK' BY <1>1, <2>1, <2>5 DEF OwnerTypeOK
  <2> QED BY <2>3, <2>4, <2>6 DEF TypeOK
<1>9. CASE AnswerGone
  <2>1. /\ req.code # "none" /\ req' = [req EXCEPT !.done = TRUE, !.retval = -1]
        /\ UNCHANGED <<alive, owner, grab, call, queue, closing, serial, requests>>
        /\ UNCHANGED <<clientVars, historyVars, ownerVars>>
    BY <1>9 DEF AnswerGone, Pending
  <2>2. req # NoReq BY <2>1 DEF NoReq
  <2>3. call \in [op : {"upload", "update", "erase", "flush"},
                  by : Handles \cup {None}, file : Files, slot : Slots]
        /\ req \in [code : Codes, n : 0 .. 2, slot : Slots,
                    done : BOOLEAN, retval : {0, -1}, orphan : BOOLEAN]
    BY <2>2, <1>1 DEF KernelTypeOK
  <2>4. req' \in [code : Codes, n : 0 .. 2, slot : Slots,
                  done : BOOLEAN, retval : {0, -1}, orphan : BOOLEAN]
    BY <2>1, <2>3
  <2>5. KernelTypeOK' BY <1>1, <2>1, <2>3, <2>4 DEF KernelTypeOK
  <2>6. HandlesTypeOK' BY <1>1, <2>1 DEF HandlesTypeOK, clientVars, historyVars
  <2>7. OwnerTypeOK' BY <1>1, <2>1 DEF OwnerTypeOK, ownerVars
  <2> QED BY <2>5, <2>6, <2>7 DEF TypeOK
<1>10. "upload" \in Codes /\ "erase" \in Codes BY DEF Codes
<1> QED BY <1>3, <1>4, <1>5, <1>6, <1>7, <1>8, <1>9, <1>10
        DEF Owner, Answer, ProcessFFUpload, ProcessFFErase

-----------------------------------------------------------------------------
(* The clients' and the kernel's side *)

\* What does not depend on the owner.
ClientInv == CallInv /\ FileInv /\ EffectsOwned /\ SlotsAccounted /\ GrabKnown

\* A request keeps its fields while others change.
LEMMA Fields ==
  ASSUME KernelTypeOK, NEW x, NEW y
  PROVE  /\ LET r == [req EXCEPT !.done = x, !.retval = y]
            IN  r.code = req.code /\ r.slot = req.slot /\ r.n = req.n
                /\ r.done = x /\ r.retval = y /\ r.orphan = req.orphan
         /\ LET r == [req EXCEPT !.orphan = x]
            IN  r.code = req.code /\ r.slot = req.slot /\ r.n = req.n
                /\ r.done = req.done /\ r.retval = req.retval /\ r.orphan = x
<1>1. \/ req = NoReq
      \/ req \in [code : Codes, n : 0 .. 2, slot : Slots,
                  done : BOOLEAN, retval : {0, -1}, orphan : BOOLEAN]
  BY DEF KernelTypeOK
<1>2. CASE req = NoReq BY <1>2 DEF NoReq
<1>3. CASE req \in [code : Codes, n : 0 .. 2, slot : Slots,
                    done : BOOLEAN, retval : {0, -1}, orphan : BOOLEAN]
  BY <1>3
<1> QED BY <1>1, <1>2, <1>3

\* Nothing happens to handles, effects, slots and the grab.
LEMMA ClientQuiet ==
  ASSUME ClientInv, UNCHANGED <<hfile, grabbed, effects, owner, grab, lost, abandoned>>,
         UNCHANGED <<call, serial>>, req'.slot = req.slot, req'.code = req.code,
         alive' => alive /\ closing' = closing
  PROVE  ClientInv'
<1>1. CallInv' BY DEF ClientInv, CallInv, Busy
<1>2. FileInv' BY DEF ClientInv, FileInv, HasDescriptor, IsOpen
<1>3. EffectsOwned' BY DEF ClientInv, EffectsOwned
<1>4. SlotsAccounted' BY DEF ClientInv, SlotsAccounted
<1>5. GrabKnown' BY DEF ClientInv, GrabKnown, Releasing
<1> QED BY <1>1, <1>2, <1>3, <1>4, <1>5 DEF ClientInv

LEMMA ClientHandles ==
  ASSUME TypeOK, ClientInv, NEW h \in Handles,
         \/ Open(h) \/ Grab(h) \/ Ungrab(h)
         \/ \E g \in Handles : FromFd(h, g)
  PROVE  ClientInv'
<1> USE DEF Files
<1>1. /\ None \notin Files
      /\ \A g \in Handles : IsOpen(g) => hfile[g] \in Files
      /\ hfile \in [Handles -> Files \cup {None}] /\ grabbed \in [Handles -> BOOLEAN]
      /\ \A c \in closing : c.file \in Files
      /\ Busy => call.file \in Files
  BY Names DEF TypeOK, HandlesTypeOK
<1>2. CallInv /\ FileInv /\ EffectsOwned /\ SlotsAccounted /\ GrabKnown BY DEF ClientInv
<1>3. UNCHANGED <<effects, owner, lost, abandoned, call, req, serial, alive, closing>>
  BY DEF Open, Grab, Ungrab, FromFd, kernelVars, historyVars
<1>4. EffectsOwned' BY <1>2, <1>3 DEF EffectsOwned
<1>5. SlotsAccounted' BY <1>2, <1>3 DEF SlotsAccounted
<1>6. ASSUME Open(h) \/ \E g \in Handles : FromFd(h, g)
      PROVE  ClientInv'
  <2>1. PICK f \in Files : /\ hfile' = [hfile EXCEPT ![h] = f] /\ ~ IsOpen(h) /\ alive
                           /\ grabbed' = [grabbed EXCEPT ![h] = FALSE]
                           /\ UNCHANGED grab
                           /\ ~ Releasing(f)
    <3>1. CASE Open(h)
      <4> WITNESS h \in Files
      <4> QED BY <3>1 DEF Open, Free, kernelVars
    <3>2. CASE \E g \in Handles : FromFd(h, g)
      <4>1. PICK g \in Handles : FromFd(h, g) BY <3>2
      <4>2. HasDescriptor(hfile[g]) BY DEF HasDescriptor
      <4>3. ~ Releasing(hfile[g]) BY <4>1, <4>2, <1>2 DEF FromFd, FileInv, Releasing
      <4>4. hfile[g] \in Files BY <4>1, <1>1 DEF FromFd
      <4> WITNESS hfile[g] \in Files
      <4> QED BY <4>1, <4>3 DEF FromFd, kernelVars
    <3> QED BY <1>6, <3>1, <3>2
  <2>2. ~ grabbed[h] BY <2>1, <1>2 DEF FileInv
  <2>3. /\ hfile'[h] = f /\ \A g \in Handles : g # h => hfile'[g] = hfile[g]
        /\ grabbed' = grabbed
    BY <1>1, <2>1, <2>2
  <2>4. CallInv'
    <3>1. call.op = "upload" => call.by # h
      BY <1>1, <1>2, <2>1 DEF CallInv, Busy, IsOpen
    <3> QED BY <1>2, <1>3, <2>3, <3>1 DEF CallInv, Busy
  <2>5. FileInv'
    <3>1. ASSUME NEW c \in closing, HasDescriptor(c.file)' PROVE FALSE
      <4>1. ~ HasDescriptor(c.file) BY <1>2, <2>1 DEF FileInv
      <4>2. c.file # f BY <2>1 DEF Releasing
      <4>3. \A g \in Handles : hfile'[g] # c.file
        BY <4>1, <4>2, <2>3 DEF HasDescriptor
      <4> QED BY <3>1, <4>1, <4>3, <1>3 DEF HasDescriptor
    <3>2. \A g \in Handles : grabbed'[g] => IsOpen(g)' BY <1>2, <2>2, <2>3 DEF FileInv, IsOpen
    <3> QED BY <3>1, <3>2, <1>2, <1>3, <2>3 DEF FileInv
  <2>6. GrabKnown'
    <3>1. \A g \in Handles : grabbed[g] => hfile'[g] = hfile[g] BY <2>2, <2>3
    <3>2. Releasing(grab) => Releasing(grab)' BY <1>3, <2>1 DEF Releasing
    <3>3. \A g \in Handles : grabbed'[g] => grab' = hfile'[g]
      BY <3>1, <1>2, <2>1, <2>3 DEF GrabKnown
    <3>4. grab' # None => \/ \E g \in Handles : hfile'[g] = grab' /\ grabbed'[g]
                          \/ grab' \in abandoned' \/ Releasing(grab)'
      BY <3>1, <3>2, <1>2, <1>3, <2>1, <2>3 DEF GrabKnown
    <3> QED BY <3>3, <3>4 DEF GrabKnown
  <2> QED BY <1>4, <1>5, <2>4, <2>5, <2>6 DEF ClientInv
<1>7. ASSUME Grab(h) \/ Ungrab(h)
      PROVE  ClientInv'
  <2>1. /\ UNCHANGED hfile /\ IsOpen(h) /\ alive
        /\ \/ Grab(h) /\ grab = None /\ grab' = hfile[h]
              /\ grabbed' = [grabbed EXCEPT ![h] = TRUE]
           \/ Ungrab(h) /\ grabbed[h] /\ grab' = None
              /\ grabbed' = [grabbed EXCEPT ![h] = FALSE]
    BY <1>7 DEF Grab, Ungrab
  <2>2. CallInv' BY <1>2, <1>3, <2>1 DEF CallInv, Busy
  <2>3. \A c \in closing : ~ HasDescriptor(c.file)'
    BY <1>2, <1>3, <2>1 DEF FileInv, HasDescriptor
  <2>4. CASE grab = None /\ grab' = hfile[h] /\ grabbed' = [grabbed EXCEPT ![h] = TRUE]
    <3>1. \A g \in Handles : ~ grabbed[g]
      BY <1>1, <1>2, <2>1, <2>4 DEF GrabKnown, FileInv, IsOpen
    <3>2. \A g \in Handles : grabbed'[g] <=> g = h BY <1>1, <2>4, <3>1
    <3>3. FileInv' BY <1>3, <2>1, <2>3, <3>2 DEF FileInv, IsOpen
    <3>4. GrabKnown' BY <2>1, <2>4, <3>2 DEF GrabKnown
    <3> QED BY <1>4, <1>5, <2>2, <3>3, <3>4 DEF ClientInv
  <2>5. CASE grabbed[h] /\ grab' = None /\ grabbed' = [grabbed EXCEPT ![h] = FALSE]
    <3>1. \A g \in Handles : ~ grabbed'[g] BY <1>1, <1>2, <2>5 DEF FileInv
    <3>2. FileInv' BY <1>3, <2>1, <2>3, <3>1 DEF FileInv
    <3>3. GrabKnown' BY <2>5, <3>1 DEF GrabKnown
    <3> QED BY <1>4, <1>5, <2>2, <3>2, <3>3 DEF ClientInv
  <2> QED BY <2>1, <2>4, <2>5
<1> QED BY <1>6, <1>7

LEMMA ClientDropHandle ==
  ASSUME TypeOK, ClientInv, NEW h \in Handles, DropHandle(h)
  PROVE  ClientInv'
<1> USE DEF Files
<1>0. PICK f \in Files : f = hfile[h] BY Names DEF DropHandle
<1>1. /\ None \notin Files
      /\ hfile \in [Handles -> Files \cup {None}] /\ grabbed \in [Handles -> BOOLEAN]
      /\ f \in Files /\ closing \subseteq Closing
  BY Names DEF TypeOK, HandlesTypeOK, KernelTypeOK, DropHandle
<1>2. CallInv /\ FileInv /\ EffectsOwned /\ SlotsAccounted /\ GrabKnown BY DEF ClientInv
<1>3. /\ UNCHANGED <<effects, owner, lost, call, req, serial, alive>> /\ alive /\ ~ Uses(h)
      /\ hfile' = [hfile EXCEPT ![h] = None] /\ grabbed' = [grabbed EXCEPT ![h] = FALSE]
      /\ Closed(f)
      /\ \/ Ungrabs(h) /\ grab' = None /\ UNCHANGED abandoned
         \/ /\ ~ Ungrabs(h) /\ UNCHANGED grab
            /\ abandoned' = IF grabbed[h] /\ h \in RawDevices
                            THEN abandoned \cup {f} ELSE abandoned
         \/ Ungrabs(h) /\ abandoned' = abandoned \cup {f} /\ UNCHANGED grab
  BY <1>0 DEF DropHandle
<1>4. /\ hfile'[h] = None /\ ~ grabbed'[h]
      /\ \A g \in Handles : g # h => hfile'[g] = hfile[g] /\ grabbed'[g] = grabbed[g]
  BY <1>1, <1>3
<1>5. EffectsOwned' BY <1>2, <1>3 DEF EffectsOwned
<1>6. SlotsAccounted' BY <1>2, <1>3 DEF SlotsAccounted
<1>7. CallInv'
  <2>1. call.op = "upload" => call.by # h BY <1>3 DEF Uses
  <2> QED BY <2>1, <1>2, <1>3, <1>4 DEF CallInv, Busy
<1>8. /\ closing \subseteq closing'
      /\ \A c \in closing' : c \in closing \/ (c.file = f /\ ~ HasDescriptor(f)')
  BY <1>1, <1>3, ClosedFile
<1>9. FileInv'
  <2>1. ASSUME NEW c \in closing, HasDescriptor(c.file)' PROVE FALSE
    <3>1. ~ HasDescriptor(c.file) /\ c.file # None
      BY <1>1, <1>2, <1>3 DEF FileInv, Closing
    <3>2. \A g \in Handles : hfile'[g] # c.file BY <1>4, <3>1 DEF HasDescriptor
    <3> QED BY <2>1, <3>1, <3>2, <1>3 DEF HasDescriptor
  <2>2. \A c \in closing' : ~ HasDescriptor(c.file)' BY <2>1, <1>8
  <2>3. \A g \in Handles : grabbed'[g] => IsOpen(g)' BY <1>2, <1>4 DEF FileInv, IsOpen
  <2>4. \A g, k \in Handles : grabbed'[g] /\ grabbed'[k] => g = k BY <1>2, <1>4 DEF FileInv
  <2> QED BY <2>2, <2>3, <2>4 DEF FileInv
<1>10. GrabKnown'
  <2>1. Releasing(grab) /\ grab' = grab => Releasing(grab)' BY <1>8 DEF Releasing
  <2>2. CASE Ungrabs(h) /\ grab' = None
    <3>1. \A g \in Handles : ~ grabbed'[g] BY <2>2, <1>2, <1>4 DEF Ungrabs, FileInv
    <3> QED BY <2>2, <3>1 DEF GrabKnown
  <2>3. CASE UNCHANGED grab /\ abandoned \subseteq abandoned' /\ (grabbed[h] => f \in abandoned')
    <3>1. \A g \in Handles : grabbed'[g] => grab' = hfile'[g]
      BY <2>3, <1>2, <1>3, <1>4 DEF GrabKnown
    <3>2. grab' # None => \/ \E g \in Handles : hfile'[g] = grab' /\ grabbed'[g]
                          \/ grab' \in abandoned' \/ Releasing(grab)'
      BY <2>1, <2>3, <1>0, <1>2, <1>3, <1>4 DEF GrabKnown
    <3> QED BY <3>1, <3>2 DEF GrabKnown
  <2>4. CASE ~ Ungrabs(h) /\ UNCHANGED grab
             /\ abandoned' = IF grabbed[h] /\ h \in RawDevices
                             THEN abandoned \cup {f} ELSE abandoned
    <3>1. grabbed[h] => h \in RawDevices BY <2>4 DEF Ungrabs, Handles
    <3> QED BY <2>3, <2>4, <3>1
  <2> QED BY <1>3, <2>2, <2>3, <2>4
<1> QED BY <1>5, <1>6, <1>7, <1>9, <1>10 DEF ClientInv

\* Upload and update: only the call is new.
LEMMA ClientSubmits ==
  ASSUME TypeOK, ClientInv,
         \/ \E h \in Handles : Upload(h)
         \/ \E e \in effects : Update(e)
  PROVE  ClientInv'
<1>1. /\ None \notin Files
      /\ \A g \in Handles : IsOpen(g) => hfile[g] \in Files
      /\ \A e \in effects : e.file \in Files /\ e.slot \in Slots
      /\ serial \in Nat /\ KernelTypeOK
  BY Names DEF TypeOK, KernelTypeOK
<1>2. CallInv /\ FileInv /\ EffectsOwned /\ SlotsAccounted /\ GrabKnown BY DEF ClientInv
<1>3. /\ UNCHANGED <<hfile, grabbed, effects, alive, owner, grab, closing, lost, abandoned>>
      /\ ~ Busy
  BY DEF Upload, Update, clientVars, historyVars
<1>4. EffectsOwned' BY <1>2, <1>3 DEF EffectsOwned
<1>5. SlotsAccounted' BY <1>2, <1>3 DEF SlotsAccounted
<1>6. GrabKnown' BY <1>2, <1>3 DEF GrabKnown, Releasing
<1>7. <<>> \in Seq(UInputEvent) /\ "upload" \in Codes BY DEF Codes
<1>8. ASSUME NEW h \in Handles, Upload(h)
      PROVE  CallInv' /\ call'.op # "erase"
  <2>1. PICK s \in SlotFor(hfile[h]) : Submit("upload", h, hfile[h], s, "upload", <<>>)
    BY <1>8 DEF Upload
  <2>2. s \in Slots /\ owner[s] = None
    <3>1. FreeSlots # {} /\ s = Min(FreeSlots) BY <2>1 DEF SlotFor
    <3>2. FreeSlots \in SUBSET Slots BY DEF FreeSlots
    <3>3. s \in FreeSlots BY <3>1, <3>2, MinSlot
    <3> QED BY <3>3 DEF FreeSlots
  <2>3. hfile[h] \in Files /\ serial' >= 1 BY <1>1, <1>8 DEF Upload
  <2>4. /\ call'.op = "upload" /\ call'.by = h /\ call'.file = hfile[h] /\ call'.slot = s
        /\ req'.code = "upload" /\ req'.slot = s
    BY <1>1, <1>7, <2>1, <2>2, <2>3, Submitted
  <2> QED BY <2>2, <2>3, <2>4, <1>3 DEF CallInv
<1>9. ASSUME NEW e \in effects, Update(e)
      PROVE  CallInv' /\ call'.op # "erase"
  <2>1. Submit("update", None, e.file, e.slot, "upload", <<>>) /\ owner[e.slot] = e.file
    BY <1>9 DEF Update
  <2>2. /\ call'.op = "update" /\ call'.slot = e.slot
        /\ req'.code = "upload" /\ req'.slot = e.slot
    <3>1. PICK f \in Files, s \in Slots : f = e.file /\ s = e.slot BY <1>1
    <3>2. Submit("update", None, f, s, "upload", <<>>) BY <2>1, <3>1
    <3>3. /\ call'.op = "update" /\ call'.slot = s
          /\ req'.code = "upload" /\ req'.slot = s
      BY <3>2, <1>1, <1>7, Submitted
    <3> QED BY <3>1, <3>3
  <2>3. owner'[e.slot] # None BY <1>1, <1>3, <2>1
  <2> QED BY <2>2, <2>3 DEF CallInv
<1>10. CallInv' /\ call'.op # "erase" BY <1>8, <1>9
<1>11. FileInv' BY <1>2, <1>3, <1>10 DEF FileInv, HasDescriptor, IsOpen
<1> QED BY <1>4, <1>5, <1>6, <1>10, <1>11 DEF ClientInv

\* A slot is erased: its event is told apart by the call.
LEMMA ErasedSlot ==
  ASSUME KernelTypeOK, NEW op \in {"erase", "flush"}, NEW f \in Files, NEW s \in Slots,
         Erase(op, f, s)
  PROVE  /\ call'.op = op /\ call'.file = f /\ call'.slot = s
         /\ req'.code = "erase" /\ req'.slot = s /\ req'.done = FALSE /\ Busy'
         /\ owner' = [owner EXCEPT ![s] = None] /\ owner'[s] = None
         /\ \A t \in Slots : t # s => owner'[t] = owner[t]
         /\ Submit(op, None, f, s, "erase", <<[code |-> "play", slot |-> s, n |-> 0]>>)
         /\ <<[code |-> "play", slot |-> s, n |-> 0]>> \in Seq(UInputEvent)
<1> DEFINE stop == [code |-> "play", slot |-> s, n |-> 0]
<1>1. stop \in UInputEvent BY DEF UInputEvent
<1>2. <<stop>> \in Seq(UInputEvent) /\ "erase" \in Codes BY <1>1 DEF Codes
<1>3. Submit(op, None, f, s, "erase", <<stop>>) /\ owner' = [owner EXCEPT ![s] = None]
  BY DEF Erase
<1> HIDE DEF stop
<1>4. /\ call'.op = op /\ call'.file = f /\ call'.slot = s
      /\ req'.code = "erase" /\ req'.slot = s /\ req'.done = FALSE /\ Busy'
  <2>1. op \in {"upload", "update", "erase", "flush"} /\ None \in Handles \cup {None}
    OBVIOUS
  <2> QED BY <2>1, <1>2, <1>3, Submitted
<1>5. owner \in [Slots -> Files \cup {None}] BY DEF KernelTypeOK
<1>6. owner'[s] = None /\ \A t \in Slots : t # s => owner'[t] = owner[t] BY <1>3, <1>5
<1> QED BY <1>2, <1>3, <1>4, <1>6 DEF stop

LEMMA ClientDropEffect ==
  ASSUME TypeOK, ClientInv, NEW e \in effects, DropEffect(e) \/ DropInterrupted(e)
  PROVE  ClientInv'
<1>1. /\ None \notin Files /\ e.file \in Files /\ e.slot \in Slots
      /\ KernelTypeOK /\ closing \subseteq Closing
      /\ \A x \in effects : x.file \in Files /\ x.slot \in Slots
  BY Names DEF TypeOK, KernelTypeOK
<1>2. CallInv /\ FileInv /\ EffectsOwned /\ SlotsAccounted /\ GrabKnown BY DEF ClientInv
<1>3. UNCHANGED <<hfile, grabbed, alive, grab, serial, abandoned>> /\ alive
      /\ effects' = effects \ {e}
  BY DEF DropEffect, DropInterrupted, DropErases
<1>4. owner[e.slot] = e.file /\ \A x \in effects : x.slot = e.slot => x = e
  BY <1>2, <1>3 DEF EffectsOwned
<1>5. \A g \in Handles : grabbed'[g] => IsOpen(g)' BY <1>2, <1>3 DEF FileInv, IsOpen
<1>6. \A g, k \in Handles : grabbed'[g] /\ grabbed'[k] => g = k BY <1>2, <1>3 DEF FileInv
<1>7. CASE DropEffect(e)
  <2>1. Erase("erase", e.file, e.slot) /\ UNCHANGED <<lost, closing>> /\ ~ Busy
    BY <1>4, <1>7 DEF DropEffect, DropErases
  <2>2. /\ call'.op = "erase" /\ call'.file = e.file /\ call'.slot = e.slot
        /\ req'.code = "erase" /\ req'.slot = e.slot
        /\ owner'[e.slot] = None /\ \A t \in Slots : t # e.slot => owner'[t] = owner[t]
    BY <1>1, <2>1, ErasedSlot
  <2>3. CallInv' BY <2>2 DEF CallInv
  <2>4. FileInv'
    <3>1. ASSUME NEW c \in closing, HasDescriptor(c.file)' PROVE FALSE
      <4>1. ~ HasDescriptor(c.file) BY <1>2, <1>3 DEF FileInv
      <4>2. c.file # e.file BY <4>1 DEF HasDescriptor
      <4> QED BY <3>1, <4>1, <4>2, <1>3, <2>2 DEF HasDescriptor
    <3> QED BY <3>1, <1>5, <1>6, <2>1 DEF FileInv
  <2>5. EffectsOwned' BY <1>1, <1>2, <1>3, <1>4, <2>2 DEF EffectsOwned
  <2>6. SlotsAccounted'
    <3> SUFFICES ASSUME NEW s \in Slots, owner'[s] # None
                 PROVE  s \in lost' \/ \E x \in effects' : x.slot = s
      BY DEF SlotsAccounted
    <3>1. s # e.slot /\ owner[s] # None BY <2>2
    <3> QED BY <3>1, <1>2, <1>3, <2>1 DEF SlotsAccounted
  <2>7. GrabKnown' BY <1>2, <1>3, <2>1 DEF GrabKnown, Releasing
  <2> QED BY <2>3, <2>4, <2>5, <2>6, <2>7 DEF ClientInv
<1>8. CASE DropInterrupted(e)
  <2>1. /\ UNCHANGED <<owner, call, req>> /\ lost' = lost \cup {e.slot} /\ Closed(e.file)
    BY <1>8 DEF DropInterrupted
  <2>2. /\ closing \subseteq closing'
        /\ \A c \in closing' : c \in closing \/ (c.file = e.file /\ ~ HasDescriptor(e.file)')
    BY <1>1, <2>1, ClosedFile
  <2>3. CallInv' BY <1>2, <1>3, <2>1 DEF CallInv, Busy
  <2>4. FileInv'
    <3>1. ASSUME NEW c \in closing, HasDescriptor(c.file)' PROVE FALSE
      <4>1. ~ HasDescriptor(c.file) BY <1>2, <1>3 DEF FileInv
      <4> QED BY <3>1, <4>1, <1>3, <2>1 DEF HasDescriptor
    <3>2. \A c \in closing' : ~ HasDescriptor(c.file)' BY <3>1, <2>2
    <3> QED BY <3>2, <1>5, <1>6 DEF FileInv
  <2>5. EffectsOwned' BY <1>2, <1>3, <2>1 DEF EffectsOwned
  <2>6. SlotsAccounted' BY <1>2, <1>3, <2>1 DEF SlotsAccounted
  <2>7. GrabKnown'
    <3>1. Releasing(grab) => Releasing(grab)' BY <1>3, <2>2 DEF Releasing
    <3> QED BY <3>1, <1>2, <1>3 DEF GrabKnown
  <2> QED BY <2>3, <2>4, <2>5, <2>6, <2>7 DEF ClientInv
<1> QED BY <1>7, <1>8

\* One step of the release of a file: the next of its effects, or the end.
LEMMA ReleaseStep ==
  ASSUME TypeOK, NEW f \in Files, Release(f)
  PROVE  /\ alive /\ ~ Busy /\ UNCHANGED <<alive, serial, clientVars>>
         /\ \E c \in closing :
              /\ c.file = f
              /\ \/ \E s \in Slots : /\ owner[s] = f
                                     /\ Erase("flush", f, s) /\ UNCHANGED grab
                                     /\ \A d \in closing : \E x \in closing' : x.file = d.file
                                     /\ \A x \in closing' : \E d \in closing : x.file = d.file
                 \/ /\ closing' = closing \ {c}
                    /\ grab' = IF grab = f THEN None ELSE grab
                    /\ UNCHANGED <<owner, call, req, queue, requests>>
<1>1. PICK c \in closing :
        LET mine == {s \in c.todo : owner[s] = c.file}
            s == Min(mine)
        IN  /\ c.file = f
            /\ IF mine # {}
                 THEN /\ Erase("flush", c.file, s)
                      /\ closing' = (closing \ {c}) \cup {[c EXCEPT !.todo = {t \in @ : t > s}]}
                      /\ UNCHANGED grab
                 ELSE /\ closing' = closing \ {c}
                      /\ grab' = IF grab = c.file THEN None ELSE grab
                      /\ UNCHANGED <<owner, call, req, queue, requests>>
  BY DEF Release
<1>2. alive /\ ~ Busy /\ UNCHANGED <<alive, serial, clientVars>> BY DEF Release
<1> DEFINE mine == {s \in c.todo : owner[s] = c.file}
<1>3. mine \in SUBSET Slots /\ c \in Closing
  BY Names DEF TypeOK, KernelTypeOK
<1>4. CASE mine # {}
  <2>1. Min(mine) \in mine
    <3> HIDE DEF mine
    <3> QED BY <1>3, <1>4, MinSlot
  <2>2. PICK s \in Slots : s = Min(mine) /\ s \in mine
    <3> HIDE DEF mine
    <3> QED BY <1>3, <2>1
  <2>3. /\ c.file = f /\ Erase("flush", c.file, s) /\ UNCHANGED grab
        /\ closing' = (closing \ {c}) \cup {[c EXCEPT !.todo = {t \in @ : t > s}]}
    BY <1>1, <1>4, <2>2
  <2>4. owner[s] = f BY <2>2, <2>3
  <2>5. [c EXCEPT !.todo = {t \in @ : t > s}].file = c.file BY <1>3 DEF Closing
  <2> HIDE DEF mine
  <2>6. /\ \A d \in closing : \E x \in closing' : x.file = d.file
        /\ \A x \in closing' : \E d \in closing : x.file = d.file
    <3> DEFINE d2 == [c EXCEPT !.todo = {t \in @ : t > s}]
    <3>1. d2.file = c.file /\ closing' = (closing \ {c}) \cup {d2} BY <2>3, <2>5
    <3> HIDE DEF d2
    <3> QED BY <3>1
  <2> QED BY <1>2, <2>3, <2>4, <2>6
<1>5. CASE mine = {} BY <1>1, <1>2, <1>5
<1> QED BY <1>4, <1>5

LEMMA ClientRelease ==
  ASSUME TypeOK, ClientInv, NEW f \in Files, ReleaseFile(f)
  PROVE  ClientInv'
<1>1. /\ Release(f) /\ abandoned' = abandoned \ {f} /\ UNCHANGED <<lost, late, faults>>
  BY DEF ReleaseFile
<1>2. /\ alive /\ ~ Busy /\ UNCHANGED <<alive, serial, hfile, grabbed, effects>>
      /\ \E c \in closing :
           /\ c.file = f
           /\ \/ \E s \in Slots : /\ owner[s] = f
                                  /\ Erase("flush", f, s) /\ UNCHANGED grab
                                  /\ \A d \in closing : \E x \in closing' : x.file = d.file
                                  /\ \A x \in closing' : \E d \in closing : x.file = d.file
              \/ /\ closing' = closing \ {c}
                 /\ grab' = IF grab = f THEN None ELSE grab
                 /\ UNCHANGED <<owner, call, req, queue, requests>>
  BY <1>1, ReleaseStep DEF clientVars
<1>3. CallInv /\ FileInv /\ EffectsOwned /\ SlotsAccounted /\ GrabKnown BY DEF ClientInv
<1>4. None \notin Files /\ \A e \in effects : e.file \in Files /\ e.slot \in Slots
  BY Names
<1>5. Releasing(f) BY <1>2 DEF Releasing
<1>6. ~ HasDescriptor(f) BY <1>2, <1>3 DEF FileInv
<1>7. \A e \in effects : e.file # f BY <1>6 DEF HasDescriptor
<1>8. \A g \in Handles : hfile[g] # f BY <1>6 DEF HasDescriptor
<1>9. \A g \in Handles : grabbed'[g] => IsOpen(g)' BY <1>2, <1>3 DEF FileInv, IsOpen
<1>10. \A g, k \in Handles : grabbed'[g] /\ grabbed'[k] => g = k BY <1>2, <1>3 DEF FileInv
<1>11. ASSUME NEW s \in Slots, owner[s] = f, Erase("flush", f, s), UNCHANGED grab,
              \A d \in closing : \E x \in closing' : x.file = d.file,
              \A x \in closing' : \E d \in closing : x.file = d.file
       PROVE  ClientInv'
  <2>1. /\ call'.op = "flush" /\ call'.file = f /\ call'.slot = s
        /\ req'.code = "erase" /\ req'.slot = s
        /\ owner'[s] = None /\ \A t \in Slots : t # s => owner'[t] = owner[t]
    <3>1. KernelTypeOK /\ "flush" \in {"erase", "flush"} BY DEF TypeOK
    <3> QED BY <3>1, <1>11, ErasedSlot
  <2>2. CallInv' BY <2>1 DEF CallInv
  <2>3. FileInv'
    <3>1. ASSUME NEW d \in closing, HasDescriptor(d.file)' PROVE FALSE
      <4>1. ~ HasDescriptor(d.file) BY <1>2, <1>3 DEF FileInv
      <4> QED BY <3>1, <4>1, <1>2, <2>1 DEF HasDescriptor
    <3>2. \A x \in closing' : ~ HasDescriptor(x.file)'
      <4> SUFFICES ASSUME NEW x \in closing' PROVE ~ HasDescriptor(x.file)' OBVIOUS
      <4>1. PICK d \in closing : x.file = d.file BY <1>11
      <4>2. ~ HasDescriptor(d.file)' BY <3>1
      <4> QED BY <4>1, <4>2 DEF HasDescriptor
    <3> QED BY <3>2, <1>9, <1>10 DEF FileInv
  <2>4. EffectsOwned'
    <3>1. \A e \in effects : e.slot # s BY <1>2, <1>3, <1>7, <1>11 DEF EffectsOwned
    <3> QED BY <3>1, <1>2, <1>3, <1>4, <2>1 DEF EffectsOwned
  <2>5. SlotsAccounted'
    <3> SUFFICES ASSUME NEW t \in Slots, owner'[t] # None
                 PROVE  t \in lost' \/ \E x \in effects' : x.slot = t
      BY DEF SlotsAccounted
    <3>1. owner[t] # None BY <2>1
    <3> QED BY <3>1, <1>1, <1>2, <1>3 DEF SlotsAccounted
  <2>6. GrabKnown'
    <3>1. \A g \in Handles : grabbed'[g] => grab' = hfile'[g]
      BY <1>2, <1>3, <1>11 DEF GrabKnown
    <3>2. Releasing(grab) => Releasing(grab)'
      <4> SUFFICES ASSUME Releasing(grab) PROVE Releasing(grab)' OBVIOUS
      <4>1. PICK d \in closing : d.file = grab BY DEF Releasing
      <4>2. PICK x \in closing' : x.file = d.file BY <1>11
      <4> QED BY <4>1, <4>2, <1>11 DEF Releasing
    <3>3. grab = f => Releasing(grab)' BY <3>2, <1>5
    <3>4. grab' # None => \/ \E g \in Handles : hfile'[g] = grab' /\ grabbed'[g]
                          \/ grab' \in abandoned' \/ Releasing(grab)'
      BY <3>2, <3>3, <1>1, <1>2, <1>3, <1>11 DEF GrabKnown
    <3> QED BY <3>1, <3>4 DEF GrabKnown
  <2> QED BY <2>2, <2>3, <2>4, <2>5, <2>6 DEF ClientInv
<1>12. ASSUME NEW c \in closing, c.file = f, closing' = closing \ {c},
              grab' = IF grab = f THEN None ELSE grab,
              UNCHANGED <<owner, call, req, queue, requests>>
       PROVE  ClientInv'
  <2>1. CallInv' BY <1>2, <1>3, <1>12 DEF CallInv, Busy
  <2>2. FileInv' BY <1>2, <1>3, <1>9, <1>10, <1>12 DEF FileInv, HasDescriptor
  <2>3. EffectsOwned' BY <1>2, <1>3, <1>12 DEF EffectsOwned
  <2>4. SlotsAccounted' BY <1>1, <1>2, <1>3, <1>12 DEF SlotsAccounted
  <2>5. GrabKnown'
    <3>1. \A g \in Handles : grabbed'[g] => grab' = hfile'[g]
      BY <1>2, <1>3, <1>8, <1>12 DEF GrabKnown
    <3>2. grab # f /\ Releasing(grab) => Releasing(grab)'
      <4> SUFFICES ASSUME grab # f, Releasing(grab) PROVE Releasing(grab)' OBVIOUS
      <4>1. PICK d \in closing : d.file = grab BY DEF Releasing
      <4>2. d # c /\ grab' = grab BY <4>1, <1>12
      <4> QED BY <4>1, <4>2, <1>12 DEF Releasing
    <3>3. grab' # None => \/ \E g \in Handles : hfile'[g] = grab' /\ grabbed'[g]
                          \/ grab' \in abandoned' \/ Releasing(grab)'
      BY <3>2, <1>1, <1>2, <1>3, <1>12 DEF GrabKnown
    <3> QED BY <3>1, <3>3 DEF GrabKnown
  <2> QED BY <2>1, <2>2, <2>3, <2>4, <2>5 DEF ClientInv
<1> QED BY <1>2, <1>11, <1>12

\* The ioctl under way returns: an upload leaves an effect or a lost slot, an
\* erase that fails gives the slot back to the file and loses it.
LEMMA ClientReturn ==
  ASSUME TypeOK, ClientInv, Busy, NEW retval, NEW cloned, Return(retval, cloned)
  PROVE  ClientInv'
<1>1. /\ None \notin Files /\ KernelTypeOK /\ closing \subseteq Closing
      /\ call.op \in {"upload", "update", "erase", "flush"}
      /\ owner \in [Slots -> Files \cup {None}]
      /\ \A e \in effects : e.file \in Files /\ e.slot \in Slots
  BY Names DEF TypeOK, KernelTypeOK
<1>2. CallInv /\ FileInv /\ EffectsOwned /\ SlotsAccounted /\ GrabKnown BY DEF ClientInv
<1>3. /\ call' = NoCall /\ req' = NoReq /\ UNCHANGED <<hfile, grabbed>>
      /\ UNCHANGED <<alive, grab, queue, serial, requests, abandoned>>
      /\ (IF call.op = "erase" THEN Closed(call.file) ELSE UNCHANGED closing)
  BY DEF Return
<1>4. ~ Busy' BY <1>3 DEF Busy, NoCall
<1>5. PICK f \in Files, s \in Slots : f = call.file /\ s = call.slot BY Names
<1>6. /\ closing \subseteq closing'
      /\ \A c \in closing' : c \in closing \/ (c.file = f /\ ~ HasDescriptor(f)')
  <2>1. CASE call.op = "erase"
    <3>1. Closed(f) BY <1>3, <1>5, <2>1
    <3> QED BY <3>1, <1>1, ClosedFile
  <2>2. CASE call.op # "erase" BY <1>3, <2>2
  <2> QED BY <2>1, <2>2
<1>7. /\ effects' = effects \/ effects' = effects \cup {NewEffect}
      /\ effects' # effects => call.op = "upload"
  BY DEF Return
<1>8. NewEffect.file = f /\ NewEffect.slot = s BY <1>5 DEF NewEffect
<1>9. call.op # "update" => owner[s] = None BY <1>2, <1>5 DEF CallInv
<1>10. CallInv' BY <1>4 DEF CallInv
<1>11. FileInv'
  <2>1. ASSUME NEW c \in closing, alive, HasDescriptor(c.file)' PROVE FALSE
    <3>1. ~ HasDescriptor(c.file) BY <1>2, <2>1 DEF FileInv
    <3>2. call.op = "upload" => \E h \in Handles : hfile[h] = f
      BY <1>2, <1>5 DEF CallInv
    <3>3. call.op = "upload" => f # c.file BY <3>1, <3>2 DEF HasDescriptor
    <3>4. \A e \in effects' : e.file # c.file
      BY <3>1, <3>3, <1>7, <1>8 DEF HasDescriptor
    <3>5. \A h \in Handles : hfile'[h] # c.file BY <3>1, <1>3 DEF HasDescriptor
    <3>6. call'.op # "erase" BY <1>3 DEF NoCall
    <3> QED BY <2>1, <3>4, <3>5, <3>6 DEF HasDescriptor
  <2>2. alive => \A c \in closing' : ~ HasDescriptor(c.file)' BY <2>1, <1>6
  <2> QED BY <2>2, <1>2, <1>3 DEF FileInv, IsOpen
<1>12. GrabKnown'
  <2>1. Releasing(grab) => Releasing(grab)' BY <1>3, <1>6 DEF Releasing
  <2> QED BY <2>1, <1>2, <1>3 DEF GrabKnown
<1>13. CASE call.op = "upload" /\ retval = 0
  <2>1. /\ owner' = [owner EXCEPT ![s] = f]
        /\ \/ effects' = effects \cup {NewEffect} /\ UNCHANGED lost
           \/ lost' = lost \cup {s} /\ UNCHANGED effects
    BY <1>5, <1>13 DEF Return
  <2>2. owner'[s] = f /\ \A t \in Slots : t # s => owner'[t] = owner[t] BY <1>1, <2>1
  <2>3. EffectsOwned'
    <3>1. alive => \A e \in effects : e.slot # s
      BY <1>1, <1>2, <1>9, <1>13 DEF EffectsOwned
    <3> SUFFICES ASSUME alive, NEW e \in effects'
                 PROVE  owner'[e.slot] = e.file
                        /\ \A other \in effects' : other.slot = e.slot => other = e
      BY <1>3 DEF EffectsOwned
    <3>2. CASE e \in effects
      <4>1. e.slot # s /\ owner[e.slot] = e.file BY <3>1, <3>2, <1>2 DEF EffectsOwned
      <4>2. owner'[e.slot] = e.file BY <4>1, <2>2, <3>2, <1>1
      <4> QED BY <4>1, <4>2, <3>2, <1>2, <1>7, <1>8 DEF EffectsOwned
    <3>3. CASE e \notin effects
      <4>1. e = NewEffect BY <3>3, <1>7
      <4>2. \A other \in effects : other.slot # e.slot BY <4>1, <3>1, <1>8
      <4> QED BY <4>1, <4>2, <2>2, <1>7, <1>8
    <3> QED BY <3>2, <3>3
  <2>4. SlotsAccounted'
    <3>1. s \in lost' \/ \E e \in effects' : e.slot = s BY <2>1, <1>8
    <3>2. lost \subseteq lost' /\ effects \subseteq effects' BY <2>1
    <3> QED BY <3>1, <3>2, <2>2, <1>2, <1>3 DEF SlotsAccounted
  <2> QED BY <1>10, <1>11, <1>12, <2>3, <2>4 DEF ClientInv
<1>14. CASE call.op \in {"erase", "flush"} /\ retval # 0
  <2>1. owner' = [owner EXCEPT ![s] = f] /\ lost' = lost \cup {s} /\ UNCHANGED effects
    BY <1>5, <1>14 DEF Return
  <2>2. owner'[s] = f /\ \A t \in Slots : t # s => owner'[t] = owner[t] BY <1>1, <2>1
  <2>3. EffectsOwned'
    <3>1. alive => \A e \in effects : e.slot # s
      BY <1>1, <1>2, <1>9, <1>14 DEF EffectsOwned
    <3> QED BY <3>1, <2>1, <2>2, <1>1, <1>2, <1>3 DEF EffectsOwned
  <2>4. SlotsAccounted' BY <2>1, <2>2, <1>2, <1>3 DEF SlotsAccounted
  <2> QED BY <1>10, <1>11, <1>12, <2>3, <2>4 DEF ClientInv
<1>15. CASE call.op \in {"erase", "flush"} /\ retval = 0
  <2>1. lost' = lost \ {s} /\ UNCHANGED <<owner, effects>>
    BY <1>5, <1>15 DEF Return
  <2>2. EffectsOwned' BY <2>1, <1>2, <1>3 DEF EffectsOwned
  <2>3. SlotsAccounted' BY <2>1, <1>2, <1>3, <1>9, <1>15 DEF SlotsAccounted
  <2> QED BY <1>10, <1>11, <1>12, <2>2, <2>3 DEF ClientInv
<1>16. CASE call.op = "update" \/ (call.op = "upload" /\ retval # 0)
  <2>1. UNCHANGED <<owner, effects, lost>> BY <1>16 DEF Return
  <2>2. EffectsOwned' BY <2>1, <1>2, <1>3 DEF EffectsOwned
  <2>3. SlotsAccounted' BY <2>1, <1>2, <1>3 DEF SlotsAccounted
  <2> QED BY <1>10, <1>11, <1>12, <2>2, <2>3 DEF ClientInv
<1> QED BY <1>1, <1>13, <1>14, <1>15, <1>16

LEMMA ClientStep ==
  ASSUME TypeOK, ClientInv, [Next]_vars
  PROVE  ClientInv'
<1>1. KernelTypeOK BY DEF TypeOK
<1>2. CASE UNCHANGED vars \/ FetchEvents \/ PollEvent \/ PlayEffect
           \/ \E e \in effects : Play(e)
  <2>1. /\ UNCHANGED <<hfile, grabbed, effects, owner, grab, lost, abandoned>>
        /\ UNCHANGED <<call, serial, req, alive, closing>>
    BY <1>2 DEF FetchEvents, PollEvent, PlayEffect, Play, vars, clientVars, kernelVars,
                historyVars
  <2> QED BY <2>1, ClientQuiet
<1>3. CASE ProcessFFUpload \/ ProcessFFErase
  <2>1. /\ UNCHANGED <<clientVars, lost, abandoned, alive, owner, grab, call, closing, serial>>
        /\ req' = req \/ req' = [req EXCEPT !.orphan = TRUE]
    BY <1>3 DEF ProcessFFUpload, ProcessFFErase, Process
  <2>2. [req EXCEPT !.orphan = TRUE].slot = req.slot
        /\ [req EXCEPT !.orphan = TRUE].code = req.code
    BY <1>1, Fields
  <2>3. req'.slot = req.slot /\ req'.code = req.code BY <2>1, <2>2
  <2> QED BY <2>1, <2>3, ClientQuiet DEF clientVars
<1>4. CASE Answer
  <2>1. PICK ev \in held, retval \in {0, -1} :
          DropFFUpload(ev, retval) \/ DropFFErase(ev, retval)
    BY <1>4 DEF Answer
  <2>2. /\ UNCHANGED <<clientVars, lost, abandoned, owner, grab, call, serial>> /\ CloseLast
        /\ \/ req' = req \/ req' = [req EXCEPT !.done = TRUE, !.retval = retval]
           \/ req' = [req EXCEPT !.orphan = TRUE]
    BY <2>1 DEF DropFFUpload, DropFFErase, End, EndInterrupted
  <2> DEFINE done == [req EXCEPT !.done = TRUE, !.retval = retval]
             orphan == [req EXCEPT !.orphan = TRUE]
  <2>3. req'.slot = req.slot /\ req'.code = req.code
    <3>1. done.slot = req.slot /\ done.code = req.code BY <1>1, Fields
    <3>2. orphan.slot = req.slot /\ orphan.code = req.code BY <1>1, Fields
    <3> QED BY <2>2, <3>1, <3>2
  <2>4. alive' => alive /\ closing' = closing BY <2>2 DEF CloseLast
  <2> QED BY <2>2, <2>3, <2>4, ClientQuiet DEF clientVars
<1>5. CASE DropVirtualDevice
  <2>1. /\ UNCHANGED <<clientVars, historyVars, owner, grab, call, req, serial>> /\ CloseLast
    BY <1>5 DEF DropVirtualDevice
  <2>2. alive' => alive /\ closing' = closing BY <2>1 DEF CloseLast
  <2> QED BY <2>1, <2>2, ClientQuiet DEF clientVars, historyVars
<1>6. CASE AnswerGone
  <2>1. /\ UNCHANGED <<clientVars, historyVars, alive, owner, grab, call, closing, serial>>
        /\ req' = [req EXCEPT !.done = TRUE, !.retval = -1]
    BY <1>6 DEF AnswerGone
  <2>2. req'.slot = req.slot /\ req'.code = req.code BY <2>1, <1>1, Fields
  <2> QED BY <2>1, <2>2, ClientQuiet DEF clientVars, historyVars
<1>7. CASE \E h \in Handles : Open(h) \/ Grab(h) \/ Ungrab(h) \/ \E g \in Handles : FromFd(h, g)
  BY <1>7, ClientHandles
<1>8. CASE \E h \in Handles : DropHandle(h)
  BY <1>8, ClientDropHandle
<1>9. CASE (\E h \in Handles : Upload(h)) \/ (\E e \in effects : Update(e))
  BY <1>9, ClientSubmits
<1>10. CASE \E e \in effects : DropEffect(e) \/ DropInterrupted(e)
  BY <1>10, ClientDropEffect
<1>11. CASE \E f \in Files : ReleaseFile(f)
  BY <1>11, ClientRelease
<1>12. CASE CallReturns \/ TimesOut
  BY <1>12, ClientReturn DEF CallReturns, TimesOut
<1> QED BY <1>2, <1>3, <1>4, <1>5, <1>6, <1>7, <1>8, <1>9, <1>10, <1>11, <1>12
        DEF Next, Client, Owner, Kernel

-----------------------------------------------------------------------------
(* The owner's side *)

\* What clients and the kernel do to the owner: they add to its queue while
\* the device is alive.
LEMMA OthersQuiet ==
  ASSUME Client \/ Kernel \/ TimesOut
  PROVE  /\ UNCHANGED alive
         /\ alive \/ UNCHANGED queue
<1>1. CASE Client
  BY <1>1 DEF Client, FromFd, Open, Grab, Ungrab, DropHandle, Upload, Update, Play, DropEffect,
              DropInterrupted, kernelVars
<1>2. CASE Kernel
  BY <1>2 DEF Kernel, ReleaseFile, Release, CallReturns, Return
<1>3. CASE TimesOut
  BY <1>3 DEF TimesOut, Return
<1> QED BY <1>1, <1>2, <1>3

LEMMA OwnerStep ==
  ASSUME OwnerInv, [Next]_vars
  PROVE  OwnerInv'
<1>1. CASE (Client \/ Kernel \/ TimesOut) /\ UNCHANGED ownerVars
  <2>1. UNCHANGED <<alive, vdev, index, event_buf, inbox, held>> /\ (alive \/ UNCHANGED queue)
    BY <1>1, OthersQuiet DEF ownerVars
  <2> QED BY <2>1 DEF OwnerInv
<1>2. CASE UNCHANGED vars
  BY <1>2 DEF vars, kernelVars, ownerVars, OwnerInv
<1>3. CASE FetchEvents
  <2>1. vdev = "device" /\ alive
    BY <1>3 DEF FetchEvents, OwnerInv
  <2> QED BY <2>1, <1>3 DEF FetchEvents, OwnerInv
<1>4. CASE PollEvent
  <2>1. vdev = "stream" /\ alive BY <1>4 DEF PollEvent, OwnerInv
  <2>2. UNCHANGED <<alive, vdev>> BY <1>4 DEF PollEvent
  <2> QED BY <2>1, <2>2 DEF OwnerInv
<1>5. CASE ProcessFFUpload \/ ProcessFFErase \/ PlayEffect
  <2>1. /\ inbox # <<>> /\ UNCHANGED <<vdev, index, event_buf, alive>>
    BY <1>5 DEF ProcessFFUpload, ProcessFFErase, Process, PlayEffect, kernelVars
  <2>2. vdev # "dropped" /\ alive BY <2>1 DEF OwnerInv
  <2> QED BY <2>1, <2>2 DEF OwnerInv
<1>6. CASE Answer
  <2>1. PICK ev \in held : /\ held' = held \ {ev} /\ CloseLast
                           /\ UNCHANGED <<vdev, event_buf, index, inbox>>
    BY <1>6 DEF Answer, DropFFUpload, DropFFErase
  <2>2. alive BY <2>1 DEF OwnerInv
  <2> QED BY <2>1, <2>2 DEF CloseLast, OwnerInv
<1>7. CASE DropVirtualDevice
  <2>1. /\ vdev # "dropped" /\ vdev' = "dropped" /\ inbox' = <<>> /\ CloseLast
        /\ UNCHANGED held /\ event_buf' = <<>> /\ index' = 0
    BY <1>7 DEF DropVirtualDevice
  <2>2. alive BY <2>1 DEF OwnerInv
  <2> QED BY <2>1, <2>2 DEF CloseLast, OwnerInv
<1>8. CASE AnswerGone
  BY <1>8 DEF AnswerGone, ownerVars, OwnerInv
<1> QED BY <1>1, <1>2, <1>3, <1>4, <1>5, <1>6, <1>7, <1>8 DEF Next, Owner, Kernel

-----------------------------------------------------------------------------
(* Requests *)

\* While nothing is awaited only plays are on their way, and nothing is held.
LEMMA OnlyPlays ==
  ASSUME RequestInv, ~ Awaited
  PROVE  /\ held = {}
         /\ \A i \in 1 .. Len(inbox) : inbox[i].code = "play"
         /\ \A i \in index + 1 .. Len(event_buf) : event_buf[i].code = "play"
         /\ \A i \in 1 .. Len(queue) : queue[i].code = "play"
BY DEF RequestInv

\* The event of a request is the last of the queue, behind plays of its slot.
LEMMA Queued ==
  ASSUME KernelTypeOK, NEW op \in {"upload", "update", "erase", "flush"},
         NEW h \in Handles \cup {None}, NEW f \in Files, NEW s \in Slots,
         NEW code \in Codes, NEW before \in Seq(UInputEvent), Submit(op, h, f, s, code, before),
         before = <<>> \/ before = <<[code |-> "play", slot |-> s, n |-> 0]>>
  PROVE  /\ Len(queue') >= 1 /\ queue'[Len(queue')] = Begun' /\ Awaited'
         /\ Begun'.code = code
         /\ \A i \in 1 .. Len(queue') :
               \/ i = Len(queue')
               \/ i \in 1 .. Len(queue) /\ queue'[i] = queue[i]
               \/ before # <<>> /\ queue'[i] = [code |-> "play", slot |-> s, n |-> 0]
<1> DEFINE play == [code |-> "play", slot |-> s, n |-> 0]
<1>1. /\ requests' \in 0 .. 2 /\ Busy' /\ req'.done = FALSE /\ req'.n = requests'
      /\ req'.code = code /\ req'.slot = s
  BY Submitted DEF Submit
<1>2. queue' = queue \o before \o <<Begun'>> BY <1>1 DEF Submit, Begun
<1>3. Begun' \in UInputEvent /\ Begun'.code = code BY <1>1 DEF Begun, UInputEvent
<1>4. queue \in Seq(UInputEvent) BY DEF KernelTypeOK
<1>5. before = <<>> \/ before = <<play>> OBVIOUS
<1>6. play \in UInputEvent BY DEF UInputEvent
<1>7. PICK b : b = Begun' OBVIOUS
<1>8. b \in UInputEvent /\ queue' = queue \o before \o <<b>> BY <1>2, <1>3, <1>7
<1> HIDE DEF UInputEvent, play
<1>9. /\ Len(queue') >= 1 /\ queue'[Len(queue')] = b
      /\ \A i \in 1 .. Len(queue') :
            i = Len(queue') \/ (i \in 1 .. Len(queue) /\ queue'[i] = queue[i])
            \/ (before # <<>> /\ queue'[i] = play)
  <2>1. CASE before = <<>>
    <3>1. queue' = queue \o <<b>> BY <2>1, <1>4, <1>8
    <3> QED BY ONLY <3>1, <1>4, <1>8
  <2>2. CASE before = <<play>>
    <3>1. queue' = queue \o <<play>> \o <<b>> BY <2>2, <1>8
    <3> QED BY ONLY <3>1, <1>4, <1>6, <1>8
  <2> QED BY <1>5, <2>1, <2>2
<1> QED BY <1>1, <1>3, <1>7, <1>9 DEF Awaited, play

\* Nothing happens to events, requests and what is held.
LEMMA RequestQuiet ==
  ASSUME RequestInv, UNCHANGED <<queue, event_buf, index, inbox>>,
         \/ Awaited' = Awaited /\ Begun' = Begun /\ held' = held
         \/ ~ Awaited /\ ~ Awaited' /\ held' = {}
  PROVE  RequestInv'
BY OnlyPlays DEF RequestInv, Drained

LEMMA StoreQuiet ==
  ASSUME StoreInv, UNCHANGED <<queue, event_buf, index, inbox, store>>, Kept' = Kept,
         req.orphan => req'.orphan
  PROVE  StoreInv'
BY DEF StoreInv

\* A request is submitted.
LEMMA RequestSubmitted ==
  ASSUME TypeOK, RequestInv, ~ Busy, UNCHANGED ownerVars,
         NEW op \in {"upload", "update", "erase", "flush"},
         NEW h \in Handles \cup {None}, NEW f \in Files, NEW s \in Slots,
         NEW code \in Codes, NEW before \in Seq(UInputEvent), Submit(op, h, f, s, code, before),
         before = <<>> \/ before = <<[code |-> "play", slot |-> s, n |-> 0]>>
  PROVE  RequestInv'
<1>1. KernelTypeOK BY DEF TypeOK
<1>2. /\ Len(queue') >= 1 /\ queue'[Len(queue')] = Begun' /\ Awaited'
      /\ \A i \in 1 .. Len(queue') :
            \/ i = Len(queue')
            \/ i \in 1 .. Len(queue) /\ queue'[i] = queue[i]
            \/ before # <<>> /\ queue'[i] = [code |-> "play", slot |-> s, n |-> 0]
  BY <1>1, Queued
<1>3. /\ held = {}
      /\ \A i \in 1 .. Len(inbox) : inbox[i].code = "play"
      /\ \A i \in index + 1 .. Len(event_buf) : event_buf[i].code = "play"
      /\ \A i \in 1 .. Len(queue) : queue[i].code = "play"
  BY OnlyPlays DEF Awaited
<1>4. UNCHANGED <<event_buf, index, inbox, held>> BY DEF ownerVars
<1>5. \A i \in 1 .. Len(queue') : queue'[i].code # "play" => i = Len(queue')
  BY <1>2, <1>3
<1> QED BY <1>2, <1>3, <1>4, <1>5 DEF RequestInv

\* It is for a slot the owner keeps, or for a new one.
LEMMA StoreSubmitted ==
  ASSUME TypeOK, StoreInv, ~ Busy, UNCHANGED ownerVars,
         NEW op \in {"upload", "update", "erase", "flush"},
         NEW h \in Handles \cup {None}, NEW f \in Files, NEW s \in Slots,
         NEW code \in Codes, NEW before \in Seq(UInputEvent), Submit(op, h, f, s, code, before),
         code # "play",
         \/ op \in {"upload", "update"} /\ before = <<>> /\ UNCHANGED owner
         \/ /\ op \in {"erase", "flush"} /\ owner[s] # None
            /\ before = <<[code |-> "play", slot |-> s, n |-> 0]>>
            /\ owner' = [owner EXCEPT ![s] = None]
  PROVE  StoreInv'
<1>1. KernelTypeOK /\ owner \in [Slots -> Files \cup {None}] BY DEF TypeOK, KernelTypeOK
<1>2. call = NoCall /\ ~ req.orphan BY Names DEF NoReq
<1>3. Kept = Owned /\ store = Kept BY <1>2 DEF Kept, NoCall, StoreInv
<1>4. UNCHANGED <<event_buf, index, inbox, store>> BY DEF ownerVars
<1>5. call'.op = op /\ call'.slot = s /\ req'.done = FALSE
  BY DEF Submit
<1>6. Kept' = Kept
  <2>1. ~ Answered' BY <1>5 DEF Answered
  <2>2. CASE op \in {"upload", "update"} /\ UNCHANGED owner
    BY <2>1, <2>2, <1>3, <1>5 DEF Kept, Owned
  <2>3. CASE op \in {"erase", "flush"} /\ owner[s] # None /\ owner' = [owner EXCEPT ![s] = None]
    <3>1. owner'[s] = None /\ \A t \in Slots : t # s => owner'[t] = owner[t]
      BY <2>3, <1>1
    <3>2. Owned = Owned' \cup {s} BY <3>1, <2>3 DEF Owned
    <3>3. Kept' = Owned' \cup {s} BY <2>1, <2>3, <1>5 DEF Kept
    <3> QED BY <3>2, <3>3, <1>3
  <2> QED BY <2>2, <2>3
<1>7. /\ Len(queue') >= 1 /\ queue'[Len(queue')] = Begun' /\ Awaited'
      /\ Begun'.code = code
      /\ \A i \in 1 .. Len(queue') :
            \/ i = Len(queue')
            \/ i \in 1 .. Len(queue) /\ queue'[i] = queue[i]
            \/ before # <<>> /\ queue'[i] = [code |-> "play", slot |-> s, n |-> 0]
  <2>1. before = <<>> \/ before = <<[code |-> "play", slot |-> s, n |-> 0]>> OBVIOUS
  <2>2. Begun'.code = code BY DEF Submit, Begun
  <2>3. KernelTypeOK BY <1>1
  <2>4. /\ Len(queue') >= 1 /\ queue'[Len(queue')] = Begun' /\ Awaited'
      /\ \A i \in 1 .. Len(queue') :
            \/ i = Len(queue')
            \/ i \in 1 .. Len(queue) /\ queue'[i] = queue[i]
            \/ before # <<>> /\ queue'[i] = [code |-> "play", slot |-> s, n |-> 0]
    BY <2>1, <2>3, Queued
  <2> QED BY <2>2, <2>4
<1>8. \A i \in 1 .. Len(queue') : queue'[i].code = "play" => queue'[i].slot \in store
  <2> SUFFICES ASSUME NEW i \in 1 .. Len(queue'), queue'[i].code = "play"
               PROVE  queue'[i].slot \in store
    OBVIOUS
  <2>1. i # Len(queue') BY <1>7
  <2>2. CASE i \in 1 .. Len(queue) /\ queue'[i] = queue[i] BY <2>2 DEF StoreInv
  <2>3. CASE before # <<>> /\ queue'[i] = [code |-> "play", slot |-> s, n |-> 0]
    <3>1. s \in Owned BY <2>3 DEF Owned
    <3> QED BY <3>1, <2>3, <1>3 DEF StoreInv
  <2> QED BY <2>1, <2>2, <2>3, <1>7
<1> QED BY <1>3, <1>4, <1>6, <1>8 DEF StoreInv

\* A play is queued, of a slot that is in use.
LEMMA RequestPlay ==
  ASSUME TypeOK, RequestInv, NEW e \in effects, Play(e), UNCHANGED ownerVars
  PROVE  RequestInv' /\ (StoreInv => StoreInv')
<1> DEFINE play == [code |-> "play", slot |-> e.slot, n |-> 0]
<1>1. /\ ~ Busy /\ owner[e.slot] # None /\ queue' = Append(queue, play)
      /\ UNCHANGED <<owner, call, req>>
  BY DEF Play
<1>2. call = NoCall /\ ~ req.orphan /\ e.slot \in Slots BY <1>1, Names DEF NoReq
<1>3. play \in UInputEvent /\ play.code = "play" /\ play.slot = e.slot
  BY <1>2 DEF UInputEvent
<1>4. queue \in Seq(UInputEvent) BY DEF TypeOK, KernelTypeOK
<1> HIDE DEF play, UInputEvent
<1>5. \A i \in 1 .. Len(queue') :
         (i \in 1 .. Len(queue) /\ queue'[i] = queue[i]) \/ queue'[i] = play
  BY ONLY <1>1, <1>3, <1>4
<1>6. UNCHANGED <<event_buf, index, inbox, held, store>> BY DEF ownerVars
<1>7. ~ Awaited /\ Awaited' = Awaited BY <1>1 DEF Awaited, Busy
<1>8. /\ held = {}
      /\ \A i \in 1 .. Len(inbox) : inbox[i].code = "play"
      /\ \A i \in index + 1 .. Len(event_buf) : event_buf[i].code = "play"
      /\ \A i \in 1 .. Len(queue) : queue[i].code = "play"
  BY <1>7, OnlyPlays
<1>9. RequestInv'
  <2>1. \A i \in 1 .. Len(queue') : queue'[i].code = "play" BY <1>3, <1>5, <1>8
  <2> QED BY <2>1, <1>6, <1>8 DEF RequestInv
<1>10. ASSUME StoreInv PROVE StoreInv'
  <2>1. Kept = Owned /\ Kept' = Kept
    BY <1>1, <1>2 DEF Kept, Owned, Answered, NoCall
  <2>2. e.slot \in store BY <2>1, <1>1, <1>2, <1>10 DEF StoreInv, Owned
  <2>3. \A i \in 1 .. Len(queue') : queue'[i].code = "play" => queue'[i].slot \in store
    BY <2>2, <1>3, <1>5, <1>10 DEF StoreInv
  <2> QED BY <2>1, <2>3, <1>1, <1>6, <1>10 DEF StoreInv
<1> QED BY <1>9, <1>10

\* An effect is erased, by its own drop or with its file.
LEMMA RequestErase ==
  ASSUME TypeOK, RequestInv, ~ Busy, UNCHANGED ownerVars,
         NEW op \in {"erase", "flush"}, NEW f \in Files, NEW s \in Slots,
         owner[s] = f, Erase(op, f, s)
  PROVE  RequestInv' /\ (StoreInv => StoreInv')
<1> DEFINE play == [code |-> "play", slot |-> s, n |-> 0]
<1>1. play \in UInputEvent BY DEF UInputEvent
<1>2. /\ <<play>> \in Seq(UInputEvent) /\ "erase" \in Codes /\ None \in Handles \cup {None}
      /\ op \in {"upload", "update", "erase", "flush"}
  BY <1>1 DEF Codes
<1>3. Submit(op, None, f, s, "erase", <<play>>) /\ owner' = [owner EXCEPT ![s] = None]
  BY DEF Erase
<1>4. owner[s] # None BY Names
<1>5. RequestInv' BY <1>2, <1>3, RequestSubmitted
<1>6. ASSUME StoreInv PROVE StoreInv'
  BY <1>2, <1>3, <1>4, <1>6, StoreSubmitted
<1> QED BY <1>5, <1>6

\* An upload or an update.
LEMMA RequestUpload ==
  ASSUME TypeOK, RequestInv, ~ Busy, UNCHANGED <<ownerVars, owner>>,
         NEW op \in {"upload", "update"}, NEW h \in Handles \cup {None}, NEW f \in Files,
         NEW s \in Slots, Submit(op, h, f, s, "upload", <<>>)
  PROVE  RequestInv' /\ (StoreInv => StoreInv')
<1>1. /\ <<>> \in Seq(UInputEvent) /\ "upload" \in Codes /\ "upload" # "play"
      /\ op \in {"upload", "update", "erase", "flush"}
      /\ UNCHANGED ownerVars /\ UNCHANGED owner
  BY DEF Codes
<1>2. RequestInv' BY <1>1, RequestSubmitted
<1>3. ASSUME StoreInv PROVE StoreInv'
  BY <1>1, <1>3, StoreSubmitted
<1> QED BY <1>2, <1>3

LEMMA RequestClient ==
  ASSUME TypeOK, RequestInv, Client, UNCHANGED ownerVars
  PROVE  RequestInv' /\ (StoreInv => StoreInv')
<1>1. ASSUME UNCHANGED <<queue, call, req, owner>>
      PROVE  RequestInv' /\ (StoreInv => StoreInv')
  <2>1. UNCHANGED <<queue, event_buf, index, inbox, held, store>> BY <1>1 DEF ownerVars
  <2>2. Awaited' = Awaited /\ Begun' = Begun BY <1>1 DEF Awaited, Begun, Busy
  <2>3. Kept' = Kept BY <1>1 DEF Kept, Owned, Answered
  <2> QED BY <1>1, <2>1, <2>2, <2>3, RequestQuiet, StoreQuiet
<1>2. CASE (\E h, g \in Handles : FromFd(h, g)) \/ (\E e \in effects : DropInterrupted(e))
           \/ \E h \in Handles : Open(h) \/ Grab(h) \/ Ungrab(h) \/ DropHandle(h)
  <2>1. UNCHANGED <<queue, call, req, owner>>
    BY <1>2 DEF FromFd, Open, Grab, Ungrab, DropHandle, DropInterrupted, kernelVars
  <2> QED BY <2>1, <1>1
<1>3. ASSUME NEW h \in Handles, Upload(h)
      PROVE  RequestInv' /\ (StoreInv => StoreInv')
  <2>1. PICK f \in Files : f = hfile[h] BY <1>3, Names DEF Upload
  <2>2. PICK s \in SlotFor(f) : Submit("upload", h, f, s, "upload", <<>>)
    BY <1>3, <2>1 DEF Upload
  <2>3. s \in Slots
    <3>1. FreeSlots # {} /\ s = Min(FreeSlots) BY <2>2 DEF SlotFor
    <3>2. FreeSlots \in SUBSET Slots BY DEF FreeSlots
    <3> QED BY <3>1, <3>2, MinSlot
  <2>4. ~ Busy /\ UNCHANGED <<ownerVars, owner>> BY <1>3 DEF Upload
  <2> QED BY <2>2, <2>3, <2>4, RequestUpload
<1>4. ASSUME NEW e \in effects, Update(e)
      PROVE  RequestInv' /\ (StoreInv => StoreInv')
  <2>1. PICK f \in Files, s \in Slots : f = e.file /\ s = e.slot BY Names
  <2>2. /\ ~ Busy /\ UNCHANGED <<ownerVars, owner>>
        /\ Submit("update", None, f, s, "upload", <<>>)
    BY <1>4, <2>1 DEF Update
  <2> QED BY <2>2, RequestUpload
<1>5. CASE \E e \in effects : Play(e)
  BY <1>5, RequestPlay
<1>6. ASSUME NEW e \in effects, DropEffect(e)
      PROVE  RequestInv' /\ (StoreInv => StoreInv')
  <2>1. PICK f \in Files, s \in Slots : f = e.file /\ s = e.slot BY Names
  <2>2. ~ Busy BY <1>6 DEF DropEffect
  <2>3. \/ owner[s] = f /\ Erase("erase", f, s)
        \/ UNCHANGED <<queue, call, req, owner>>
    BY <1>6, <2>1 DEF DropEffect, DropErases
  <2> QED BY <2>2, <2>3, <1>1, RequestErase
<1> QED BY <1>2, <1>3, <1>4, <1>5, <1>6 DEF Client

\* A file is released, or the ioctl under way returns with its answer.
LEMMA RequestKernel ==
  ASSUME TypeOK, CallInv, RequestInv, Kernel
  PROVE  RequestInv' /\ (StoreInv /\ OrphanInv => StoreInv')
<1>1. UNCHANGED ownerVars BY DEF Kernel
<1>2. UNCHANGED <<event_buf, index, inbox, held, store>> BY <1>1 DEF ownerVars
<1>3. ASSUME NEW f \in Files, ReleaseFile(f)
      PROVE  RequestInv' /\ (StoreInv /\ OrphanInv => StoreInv')
  <2>1. Release(f) BY <1>3 DEF ReleaseFile
  <2>2. CASE UNCHANGED <<owner, call, req, queue>>
    <3>1. Awaited' = Awaited /\ Begun' = Begun BY <2>2 DEF Awaited, Begun, Busy
    <3>2. Kept' = Kept BY <2>2 DEF Kept, Owned, Answered
    <3> QED BY <3>1, <3>2, <1>2, <2>2, RequestQuiet, StoreQuiet
  <2>3. CASE ~ UNCHANGED <<owner, call, req, queue>>
    <3>1. ~ Busy BY <2>1, ReleaseStep
    <3>2. PICK s \in Slots : owner[s] = f /\ Erase("flush", f, s)
      BY <2>1, <2>3, ReleaseStep
    <3> QED BY <3>1, <3>2, <1>1, RequestErase
  <2> QED BY <2>2, <2>3
<1>4. CASE CallReturns
  <2>1. Busy /\ req.done /\ (Return(req.retval, TRUE) \/ Return(req.retval, FALSE))
    BY <1>4 DEF CallReturns
  <2>2. call' = NoCall /\ req' = NoReq /\ UNCHANGED queue BY <2>1 DEF Return
  <2>3. ~ Awaited /\ ~ Awaited' BY <2>1, <2>2 DEF Awaited, Busy, NoCall
  <2>4. held' = {} BY <1>2, <2>3, OnlyPlays
  <2>5. RequestInv' BY <1>2, <2>2, <2>3, <2>4, RequestQuiet
  <2>6. Kept' = Kept
    <3>1. PICK f \in Files, s \in Slots : f = call.file /\ s = call.slot BY <2>1, Names
    <3>2. /\ None \notin Files /\ owner \in [Slots -> Files \cup {None}]
          /\ req.retval \in {0, -1} /\ call.op \in {"upload", "update", "erase", "flush"}
      BY <2>1, Names DEF TypeOK, KernelTypeOK
    <3>3. Kept' = Owned' BY <2>2 DEF Kept, NoCall
    <3>4. CASE \/ call.op = "upload" /\ req.retval = 0
               \/ call.op \in {"erase", "flush"} /\ req.retval # 0
      <4>1. owner' = [owner EXCEPT ![s] = f] BY <2>1, <3>1, <3>4 DEF Return
      <4>2. owner'[s] = f /\ \A t \in Slots : t # s => owner'[t] = owner[t] BY <4>1, <3>2
      <4>3. Owned' = Owned \cup {s} BY <4>2, <3>2 DEF Owned
      <4>4. Kept = Owned \cup {s} BY <2>1, <3>1, <3>4 DEF Kept, Answered
      <4> QED BY <4>3, <4>4, <3>3
    <3>5. CASE \/ call.op = "upload" /\ req.retval # 0
               \/ call.op = "update"
               \/ call.op \in {"erase", "flush"} /\ req.retval = 0
      <4>1. owner' = owner BY <2>1, <3>5 DEF Return
      <4>2. Kept = Owned BY <2>1, <3>5 DEF Kept, Answered
      <4> QED BY <4>1, <4>2, <3>3 DEF Owned
    <3> QED BY <3>2, <3>4, <3>5
  <2>7. ASSUME StoreInv, OrphanInv PROVE StoreInv'
    <3>1. ~ req.orphan BY <2>1, <2>7 DEF OrphanInv, Awaited
    <3> QED BY <1>2, <2>2, <2>6, <2>7, <3>1, StoreQuiet
  <2> QED BY <2>5, <2>7
<1> QED BY <1>3, <1>4 DEF Kernel

\* Events are read: fetched, or polled one at a time.
LEMMA RequestRead ==
  ASSUME TypeOK, OwnerInv, RequestInv, FetchEvents \/ PollEvent
  PROVE  RequestInv' /\ (StoreInv => StoreInv')
<1> HIDE DEF UInputEvent
<1>1. /\ queue \in Seq(UInputEvent) /\ event_buf \in Seq(UInputEvent)
      /\ index \in 0 .. Len(event_buf)
  BY DEF TypeOK, KernelTypeOK, OwnerTypeOK
<1>2. UNCHANGED <<held, store, call, req, owner>>
  BY DEF FetchEvents, PollEvent
<1>3. Awaited' = Awaited /\ Begun' = Begun BY <1>2 DEF Awaited, Begun, Busy
<1>4. Kept' = Kept BY <1>2 DEF Kept, Owned, Answered
<1>5. ~ Drained BY <1>1 DEF FetchEvents, PollEvent, Drained
<1>6. held = {} BY <1>5 DEF RequestInv
<1>7. CASE FetchEvents
  <2>1. event_buf = <<>> /\ index = 0 BY <1>7 DEF FetchEvents, OwnerInv
  <2>2. /\ inbox' = event_buf \o queue /\ event_buf' = <<>> /\ queue' = <<>>
        /\ index' = index
    BY <1>7 DEF FetchEvents
  <2>3. inbox' = queue BY <1>1, <2>1, <2>2
  <2>4. Len(event_buf') = 0 /\ Len(queue') = 0 /\ index' = 0 BY <2>1, <2>2
  <2>5. RequestInv' BY <1>2, <1>3, <1>6, <2>2, <2>3, <2>4 DEF RequestInv
  <2>6. ASSUME StoreInv PROVE StoreInv' BY <1>2, <1>4, <2>3, <2>4, <2>6 DEF StoreInv
  <2> QED BY <2>5, <2>6
<1>8. CASE PollEvent /\ index < Len(event_buf)
  <2>1. /\ inbox' = <<event_buf[index + 1]>> /\ index' = index + 1
        /\ UNCHANGED <<event_buf, queue>>
    BY <1>8 DEF PollEvent, Advance
  <2>2. index + 1 \in index + 1 .. Len(event_buf) BY <1>1, <1>8
  <2>3. Len(inbox') = 1 /\ inbox'[1] = event_buf[index + 1] BY <2>1
  <2>4. \A i \in 1 .. Len(inbox') : i = 1 BY <2>3
  <2>5. \A i \in index' + 1 .. Len(event_buf') : i \in index + 1 .. Len(event_buf)
    BY <1>1, <2>1
  <2>6. RequestInv'
    BY <1>2, <1>3, <1>6, <2>1, <2>2, <2>3, <2>4, <2>5 DEF RequestInv
  <2>7. ASSUME StoreInv PROVE StoreInv'
    BY <1>2, <1>4, <2>1, <2>2, <2>3, <2>4, <2>5, <2>7 DEF StoreInv
  <2> QED BY <2>6, <2>7
<1>9. CASE PollEvent /\ ~ index < Len(event_buf)
  <2>1. /\ queue # <<>> /\ event_buf' = queue /\ queue' = <<>> /\ index' = 1
        /\ inbox' = <<queue[1]>>
    BY <1>9 DEF PollEvent, Rewind
  <2>2. 1 \in 1 .. Len(queue) BY <1>1, <2>1
  <2>3. Len(inbox') = 1 /\ inbox'[1] = queue[1] /\ Len(queue') = 0 BY <2>1
  <2>4. \A i \in 1 .. Len(inbox') : i = 1 BY <2>3
  <2>5. \A i \in index' + 1 .. Len(event_buf') : i \in 1 .. Len(queue)
    BY <1>1, <2>1
  <2>6. RequestInv'
    <3>1. queue[1].code # "play" => queue[1] = Begun /\ Awaited /\ 1 = Len(queue)
      BY <2>2 DEF RequestInv
    <3>2. \A i \in 1 .. Len(inbox') : inbox'[i].code # "play" =>
             /\ inbox'[i] = Begun' /\ Awaited' /\ held' = {}
             /\ i = Len(inbox') /\ index' = Len(event_buf') /\ queue' = <<>>
      BY <3>1, <1>2, <1>3, <1>6, <2>1, <2>3, <2>4
    <3>3. \A i \in index' + 1 .. Len(event_buf') : event_buf'[i].code # "play" =>
             /\ event_buf'[i] = Begun' /\ Awaited' /\ held' = {}
             /\ i = Len(event_buf') /\ queue' = <<>>
      BY <1>2, <1>3, <1>6, <2>1, <2>5 DEF RequestInv
    <3>4. \A i \in 1 .. Len(queue') : FALSE BY <2>3
    <3> QED BY <3>2, <3>3, <3>4, <1>2, <1>6 DEF RequestInv
  <2>7. ASSUME StoreInv PROVE StoreInv'
    BY <1>2, <1>4, <2>1, <2>2, <2>3, <2>4, <2>5, <2>7 DEF StoreInv
  <2> QED BY <2>6, <2>7
<1> QED BY <1>7, <1>8, <1>9

\* The event read first is looked at and gone.
LEMMA Consumed ==
  ASSUME inbox \in Seq(UInputEvent), inbox # <<>>, inbox' = Tail(inbox)
  PROVE  /\ 1 \in 1 .. Len(inbox) /\ Head(inbox) = inbox[1]
         /\ Len(inbox') = Len(inbox) - 1
         /\ \A i \in 1 .. Len(inbox') : i + 1 \in 1 .. Len(inbox) /\ inbox'[i] = inbox[i + 1]
<1> HIDE DEF UInputEvent
<1> QED OBVIOUS

\* A request begins: its event was the last one, and is held, or lost.
LEMMA RequestProcess ==
  ASSUME TypeOK, CallInv, RequestInv, NEW code \in Codes, Process(code)
  PROVE  RequestInv' /\ (StoreInv => StoreInv') /\ (OrphanInv => OrphanInv')
<1>1. /\ inbox \in Seq(UInputEvent) /\ KernelTypeOK /\ code # "play"
  BY DEF TypeOK, OwnerTypeOK, Codes
<1>2. /\ inbox # <<>> /\ Head(inbox).code = code /\ inbox' = Tail(inbox)
      /\ UNCHANGED <<event_buf, index, store, owner, call, queue>>
      /\ \/ held' \in {held, held \cup {Begun}} /\ req' = req
         \/ held' = held /\ req' = [req EXCEPT !.orphan = TRUE]
  BY DEF Process
<1>3. 1 \in 1 .. Len(inbox) /\ inbox[1].code # "play" BY <1>1, <1>2, Consumed
<1>4. Awaited /\ held = {} /\ 1 = Len(inbox) /\ index = Len(event_buf) /\ queue = <<>>
  BY <1>3 DEF RequestInv
<1>5. Len(inbox') = 0 /\ inbox' = <<>>
  <2>1. Len(inbox') = 0 BY <1>1, <1>2, <1>4, Consumed
  <2>2. inbox' \in Seq(UInputEvent)
    <3> HIDE DEF UInputEvent
    <3> QED BY <1>1, <1>2
  <2> HIDE DEF UInputEvent
  <2> QED BY <2>1, <2>2
<1>6. /\ req'.code = req.code /\ req'.slot = req.slot /\ req'.n = req.n
      /\ req'.done = req.done /\ req'.retval = req.retval
      /\ req'.orphan = req.orphan \/ req'.orphan = TRUE
  <2>1. LET r == [req EXCEPT !.orphan = TRUE]
        IN  r.code = req.code /\ r.slot = req.slot /\ r.n = req.n
            /\ r.done = req.done /\ r.retval = req.retval /\ r.orphan = TRUE
    BY <1>1, Fields
  <2> QED BY <2>1, <1>2
<1>7. Awaited' = Awaited /\ Begun' = Begun BY <1>2, <1>6 DEF Awaited, Begun, Busy
<1>8. Kept' = Kept BY <1>2, <1>6 DEF Kept, Owned, Answered
<1>9. held' \subseteq {Begun'} BY <1>2, <1>4, <1>7
<1>10. Drained' BY <1>2, <1>4, <1>5 DEF Drained
<1>11. \A i \in 1 .. Len(inbox') : FALSE BY <1>5
<1>12. \A i \in index' + 1 .. Len(event_buf') : FALSE
  BY <1>1, <1>2, <1>4 DEF TypeOK, OwnerTypeOK
<1>13. \A i \in 1 .. Len(queue') : FALSE BY <1>2, <1>4
<1>14. RequestInv' BY <1>4, <1>7, <1>9, <1>10, <1>11, <1>12, <1>13 DEF RequestInv
<1>15. ASSUME StoreInv PROVE StoreInv'
  BY <1>2, <1>6, <1>8, <1>11, <1>12, <1>13, <1>15 DEF StoreInv
<1>16. ASSUME OrphanInv PROVE OrphanInv'
  <2>1. ~ req.orphan BY <1>2, <1>16 DEF OrphanInv, Drained
  <2> QED BY <2>1, <1>2, <1>4, <1>7, <1>10 DEF OrphanInv
<1> QED BY <1>14, <1>15, <1>16

\* The program plays or stops an effect: one that it keeps.
LEMMA RequestPlays ==
  ASSUME TypeOK, RequestInv, PlayEffect
  PROVE  RequestInv' /\ (StoreInv => StoreInv' /\ Head(inbox).slot \in store)
<1>1. inbox \in Seq(UInputEvent) BY DEF TypeOK, OwnerTypeOK
<1>2. /\ inbox # <<>> /\ Head(inbox).code = "play" /\ inbox' = Tail(inbox)
      /\ UNCHANGED <<event_buf, index, held, store, owner, call, req, queue>>
  BY DEF PlayEffect, kernelVars
<1>3. /\ 1 \in 1 .. Len(inbox) /\ Head(inbox) = inbox[1]
      /\ Len(inbox') = Len(inbox) - 1
      /\ \A i \in 1 .. Len(inbox') : i + 1 \in 1 .. Len(inbox) /\ inbox'[i] = inbox[i + 1]
  BY <1>1, <1>2, Consumed
<1>4. Awaited' = Awaited /\ Begun' = Begun BY <1>2 DEF Awaited, Begun, Busy
<1>5. Kept' = Kept BY <1>2 DEF Kept, Owned, Answered
<1>6. RequestInv'
  <2>1. \A i \in 1 .. Len(inbox') : inbox'[i].code # "play" =>
           /\ inbox'[i] = Begun /\ Awaited /\ held = {}
           /\ i = Len(inbox') /\ index = Len(event_buf) /\ queue = <<>>
    <3> SUFFICES ASSUME NEW i \in 1 .. Len(inbox'), inbox'[i].code # "play"
                 PROVE  /\ inbox'[i] = Begun /\ Awaited /\ held = {}
                        /\ i = Len(inbox') /\ index = Len(event_buf) /\ queue = <<>>
      OBVIOUS
    <3>1. i + 1 \in 1 .. Len(inbox) /\ inbox'[i] = inbox[i + 1] BY <1>3
    <3>2. /\ inbox[i + 1] = Begun /\ Awaited /\ held = {} /\ i + 1 = Len(inbox)
          /\ index = Len(event_buf) /\ queue = <<>>
      BY <3>1 DEF RequestInv
    <3>3. i = Len(inbox') BY <3>2, <1>1, <1>3
    <3> QED BY <3>1, <3>2, <3>3
  <2>2. held # {} => Drained'
    <3> SUFFICES ASSUME held # {} PROVE FALSE OBVIOUS
    <3>1. inbox = <<>> BY DEF RequestInv, Drained
    <3> QED BY <3>1, <1>2
  <2> QED BY <2>1, <2>2, <1>2, <1>4 DEF RequestInv
<1>7. ASSUME StoreInv PROVE StoreInv' /\ Head(inbox).slot \in store
  <2>1. \A i \in 1 .. Len(inbox') : inbox'[i].code = "play" => inbox'[i].slot \in store
    BY <1>3, <1>7 DEF StoreInv
  <2> QED BY <2>1, <1>2, <1>3, <1>5, <1>7 DEF StoreInv
<1> QED BY <1>6, <1>7

\* A request is answered, by the end of what was held for it; or it is lost.
LEMMA RequestAnswered ==
  ASSUME TypeOK, CallInv, OwnerInv, RequestInv, NEW ev \in held, NEW retval \in {0, -1},
         DropFFUpload(ev, retval) \/ DropFFErase(ev, retval)
  PROVE  RequestInv' /\ (StoreInv /\ OrphanInv => StoreInv' /\ OrphanInv')
<1>1. ev = Begun /\ held = {Begun} /\ Awaited /\ Drained BY DEF RequestInv
<1>2. /\ held' = held \ {ev} /\ UNCHANGED <<vdev, event_buf, index, inbox, owner, call>>
      /\ CloseLast
      /\ \/ End(ev.code, retval)
         \/ req.code = ev.code /\ req' = [req EXCEPT !.orphan = TRUE]
      /\ \/ ev.code = "upload" /\ store' = IF retval = 0 THEN store \cup {ev.slot} ELSE store
         \/ ev.code = "erase" /\ store' = IF retval = 0 THEN store \ {ev.slot} ELSE store
  BY DEF DropFFUpload, DropFFErase, EndInterrupted
<1>3. ev.code = req.code /\ ev.slot = req.slot BY <1>1 DEF Begun
<1>4. KernelTypeOK BY DEF TypeOK
<1>5. \/ req'.done = TRUE /\ req'.retval = retval
      \/ req'.orphan = TRUE
  <2>1. CASE End(ev.code, retval)
    <3>1. req' = [req EXCEPT !.done = TRUE, !.retval = retval] BY <2>1, <1>3 DEF End
    <3>2. LET r == [req EXCEPT !.done = TRUE, !.retval = retval]
          IN  r.done = TRUE /\ r.retval = retval
      BY <1>4, Fields
    <3> QED BY <3>1, <3>2
  <2>2. CASE req' = [req EXCEPT !.orphan = TRUE]
    <3>1. LET r == [req EXCEPT !.orphan = TRUE] IN r.orphan = TRUE BY <1>4, Fields
    <3> QED BY <3>1, <2>2
  <2> QED BY <1>2, <2>1, <2>2
<1>6. held' = {} BY <1>1, <1>2
<1>7. queue' = <<>> BY <1>1, <1>2 DEF CloseLast, Drained
<1>8. /\ \A i \in 1 .. Len(inbox') : FALSE
      /\ \A i \in index' + 1 .. Len(event_buf') : FALSE
      /\ \A i \in 1 .. Len(queue') : FALSE
  BY <1>1, <1>2, <1>7 DEF Drained, TypeOK, OwnerTypeOK
<1>9. RequestInv' BY <1>6, <1>8 DEF RequestInv
<1>10. ASSUME StoreInv, OrphanInv, ~ req'.orphan PROVE StoreInv'
  <2>1. store' = Kept'
    <3>1. PICK s \in Slots : s = call.slot BY <1>1, Names DEF Awaited
    <3>2. ev.slot = s BY <1>1, <1>3, <3>1 DEF CallInv, Awaited
    <3>3. Owned' = Owned BY <1>2 DEF Owned
    <3>4. ~ Answered /\ (Answered' <=> retval = 0) /\ store = Kept
      BY <1>1, <1>5, <1>10 DEF Answered, Awaited, StoreInv, OrphanInv
    <3>5. CASE ev.code = "upload"
      <4>1. call.op \in {"upload", "update"}
        BY <3>5, <1>1, <1>3 DEF CallInv, Awaited
      <4>2. store = Owned BY <4>1, <3>4 DEF Kept
      <4>3. store' = IF retval = 0 THEN Owned \cup {s} ELSE Owned
        BY <4>2, <3>2, <3>5, <1>2
      <4>4. CASE call.op = "upload"
        <5>1. Kept' = IF retval = 0 THEN Owned \cup {s} ELSE Owned
          BY <4>4, <3>1, <3>3, <3>4, <1>2 DEF Kept
        <5> QED BY <5>1, <4>3
      <4>5. CASE call.op = "update"
        <5>1. s \in Owned BY <4>5, <3>1, <1>1 DEF CallInv, Awaited, Owned
        <5>2. Kept' = Owned BY <4>5, <3>3, <1>2 DEF Kept
        <5> QED BY <5>1, <5>2, <4>3
      <4> QED BY <4>1, <4>4, <4>5
    <3>6. CASE ev.code = "erase"
      <4>1. call.op \in {"erase", "flush"}
        BY <3>6, <1>1, <1>3, Names DEF CallInv, Awaited
      <4>2. s \notin Owned BY <4>1, <3>1, <1>1 DEF CallInv, Awaited, Owned
      <4>3. store = Owned \cup {s} BY <4>1, <3>1, <3>4 DEF Kept
      <4>4. store' = IF retval = 0 THEN Owned ELSE Owned \cup {s}
        BY <4>2, <4>3, <3>2, <3>6, <1>2
      <4>5. Kept' = IF retval = 0 THEN Owned ELSE Owned \cup {s}
        BY <4>1, <3>1, <3>3, <3>4, <1>2 DEF Kept
      <4> QED BY <4>4, <4>5
    <3> QED BY <3>5, <3>6, <1>2
  <2> QED BY <2>1, <1>8 DEF StoreInv
<1>11. ASSUME req'.orphan PROVE StoreInv' BY <1>8, <1>11 DEF StoreInv
<1>12. ASSUME OrphanInv PROVE OrphanInv'
  <2>1. ~ req.orphan BY <1>1, <1>12 DEF OrphanInv
  <2>2. CASE End(ev.code, retval)
    <3>1. req' = [req EXCEPT !.done = TRUE, !.retval = retval] BY <2>2, <1>3 DEF End
    <3>2. LET r == [req EXCEPT !.done = TRUE, !.retval = retval]
          IN  r.orphan = req.orphan
      BY <1>4, Fields
    <3> QED BY <3>1, <3>2, <2>1 DEF OrphanInv
  <2>3. CASE req' = [req EXCEPT !.orphan = TRUE]
    <3>1. LET r == [req EXCEPT !.orphan = TRUE] IN r.done = req.done BY <1>4, Fields
    <3>2. Awaited' BY <3>1, <2>3, <1>1, <1>2 DEF Awaited, Busy
    <3>3. Drained' BY <1>1, <1>2, <1>7 DEF Drained
    <3> QED BY <3>2, <3>3, <1>6 DEF OrphanInv
  <2> QED BY <2>2, <2>3, <1>2
<1> QED BY <1>9, <1>10, <1>11, <1>12

\* The virtual device is dropped, and what waits for it gets an error.
LEMMA RequestGone ==
  ASSUME TypeOK, OwnerInv, RequestInv, DropVirtualDevice \/ AnswerGone
  PROVE  RequestInv' /\ vdev' = "dropped"
<1>1. CASE DropVirtualDevice
  <2>1. /\ vdev' = "dropped" /\ event_buf' = <<>> /\ index' = 0 /\ inbox' = <<>>
        /\ UNCHANGED <<held, call, req>> /\ CloseLast
    BY <1>1 DEF DropVirtualDevice
  <2>2. Awaited' = Awaited /\ Begun' = Begun BY <2>1 DEF Awaited, Begun, Busy
  <2>3. queue' = queue \/ queue' = <<>> BY <2>1 DEF CloseLast
  <2>4. /\ \A i \in 1 .. Len(inbox') : FALSE
        /\ \A i \in index' + 1 .. Len(event_buf') : FALSE
    BY <2>1
  <2>5. \A i \in 1 .. Len(queue') : queue' = queue BY <2>3
  <2>6. held' # {} => Awaited' /\ Drained'
    BY <2>1, <2>2, <2>3 DEF RequestInv, Drained
  <2> QED BY <2>1, <2>2, <2>4, <2>5, <2>6 DEF RequestInv
<1>2. CASE AnswerGone
  <2>1. /\ ~ alive /\ UNCHANGED <<queue, ownerVars>> /\ UNCHANGED call
        /\ req' = [req EXCEPT !.done = TRUE, !.retval = -1]
    BY <1>2 DEF AnswerGone
  <2>2. /\ vdev = "dropped" /\ held = {} /\ queue = <<>> /\ inbox = <<>> /\ event_buf = <<>>
        /\ index = 0
    BY <2>1 DEF OwnerInv
  <2>3. vdev' = "dropped" /\ held' = {} BY <2>1, <2>2 DEF ownerVars
  <2>4. /\ \A i \in 1 .. Len(inbox') : FALSE
        /\ \A i \in index' + 1 .. Len(event_buf') : FALSE
        /\ \A i \in 1 .. Len(queue') : FALSE
    BY <2>1, <2>2 DEF ownerVars
  <2> QED BY <2>3, <2>4 DEF RequestInv
<1> QED BY <1>1, <1>2

\* Nothing but its answer can end the wait of a request that is lost.
LEMMA OrphanWaits ==
  ASSUME TypeOK, OwnerInv, OrphanInv, vdev' # "dropped",
         \/ UNCHANGED vars \/ FetchEvents \/ PollEvent \/ PlayEffect \/ AnswerGone
         \/ (Client \/ Kernel) /\ UNCHANGED ownerVars
  PROVE  OrphanInv'
<1>1. ~ Busy => ~ req.orphan BY Names DEF NoReq
<1>2. CASE UNCHANGED <<call, req, queue, ownerVars>>
  BY <1>2 DEF OrphanInv, Awaited, Busy, Drained, ownerVars
<1>3. ASSUME NEW op, NEW h, NEW f, NEW s, NEW code, NEW before, Submit(op, h, f, s, code, before)
      PROVE  ~ req'.orphan
  BY <1>3 DEF Submit
<1>4. ASSUME NEW op, NEW f, NEW s, Erase(op, f, s) PROVE ~ req'.orphan
  BY <1>3, <1>4 DEF Erase
<1>5. CASE Client /\ UNCHANGED ownerVars
  <2>1. CASE (\E h, g \in Handles : FromFd(h, g)) \/ (\E e \in effects : DropInterrupted(e))
             \/ \E h \in Handles : Open(h) \/ Grab(h) \/ Ungrab(h) \/ DropHandle(h)
    <3>1. UNCHANGED <<queue, call, req>>
      BY <2>1 DEF FromFd, Open, Grab, Ungrab, DropHandle, DropInterrupted, kernelVars
    <3> QED BY <3>1, <1>2, <1>5
  <2>2. CASE (\E h \in Handles : Upload(h)) \/ (\E e \in effects : Update(e))
    <3>1. ~ req'.orphan BY <2>2, <1>3 DEF Upload, Update
    <3> QED BY <3>1 DEF OrphanInv
  <2>3. CASE \E e \in effects : Play(e) \/ DropEffect(e)
    <3>1. ~ Busy /\ (req' = req \/ ~ req'.orphan)
      BY <2>3, <1>4 DEF Play, DropEffect, DropErases
    <3> QED BY <3>1, <1>1 DEF OrphanInv
  <2> QED BY <1>5, <2>1, <2>2, <2>3 DEF Client
<1>6. CASE Kernel
  <2>1. CASE \E f \in Files : ReleaseFile(f)
    <3>1. ~ Busy /\ (req' = req \/ ~ req'.orphan)
      BY <2>1, <1>4 DEF ReleaseFile, Release
    <3> QED BY <3>1, <1>1 DEF OrphanInv
  <2>2. CASE CallReturns
    <3>1. req' = NoReq BY <2>2 DEF CallReturns, Return
    <3> QED BY <3>1 DEF OrphanInv, NoReq
  <2> QED BY <1>6, <2>1, <2>2 DEF Kernel
<1>7. CASE FetchEvents \/ PollEvent \/ PlayEffect
  <2>1. ~ Drained
    <3>1. CASE PollEvent
      <4>1. index # Len(event_buf) \/ queue # <<>>
        <5>1. index \in 0 .. Len(event_buf) /\ Len(event_buf) \in Nat
          BY DEF TypeOK, OwnerTypeOK
        <5> QED BY <3>1, <5>1 DEF PollEvent
      <4> QED BY <4>1 DEF Drained
    <3> QED BY <1>7, <3>1 DEF FetchEvents, PlayEffect, Drained
  <2>2. ~ req.orphan /\ req' = req
    BY <2>1, <1>7 DEF OrphanInv, FetchEvents, PollEvent, PlayEffect, kernelVars
  <2> QED BY <2>2 DEF OrphanInv
<1>8. CASE AnswerGone
  BY <1>8 DEF AnswerGone, OwnerInv, ownerVars
<1>9. CASE UNCHANGED vars
  <2>1. UNCHANGED <<call, req, queue, ownerVars>> BY <1>9 DEF vars, kernelVars
  <2> QED BY <2>1, <1>2
<1> QED BY <1>5, <1>6, <1>7, <1>8, <1>9

\* As long as no request has timed out.
LEMMA RequestStep ==
  ASSUME TypeOK, CallInv, OwnerInv, [Next]_vars,
         ~ late => RequestInv, ~ late /\ vdev # "dropped" => StoreInv /\ OrphanInv
  PROVE  /\ ~ late' => RequestInv'
         /\ ~ late' /\ vdev' # "dropped" => StoreInv' /\ OrphanInv'
<1> SUFFICES ASSUME ~ late'
             PROVE  RequestInv' /\ (vdev' # "dropped" => StoreInv' /\ OrphanInv')
  OBVIOUS
<1>1. ~ late /\ ~ TimesOut
  <2>1. ~ TimesOut
    <3>1. TimesOut => late' = TRUE BY DEF TimesOut
    <3> QED BY <3>1, Zenon
  <2>2. CASE UNCHANGED vars
    <3>1. late' = late BY <2>2 DEF vars, historyVars
    <3> QED BY <2>1, <3>1, Zenon
  <2>3. CASE Client
    <3>1. late' = late
      BY <2>3 DEF Client, FromFd, Open, Grab, Ungrab, DropHandle, Upload, Update, Play,
                  DropEffect, DropInterrupted, historyVars
    <3> QED BY <2>1, <3>1, Zenon
  <2>4. CASE Kernel \/ AnswerGone \/ DropVirtualDevice
    <3>1. late' = late
      BY <2>4 DEF Kernel, ReleaseFile, CallReturns, AnswerGone, DropVirtualDevice, historyVars
    <3> QED BY <2>1, <3>1, Zenon
  <2>5. CASE Owner
    <3>1. late' = late
      BY <2>5 DEF Owner, FetchEvents, PollEvent, ProcessFFUpload, ProcessFFErase, Process,
                  PlayEffect, historyVars
    <3> QED BY <2>1, <3>1, Zenon
  <2>6. CASE Answer
    <3>1. late' = late
      BY <2>6 DEF Answer, DropFFUpload, DropFFErase
    <3> QED BY <2>1, <3>1, Zenon
  <2> QED BY <2>1, <2>2, <2>3, <2>4, <2>5, <2>6 DEF Next
<1>2. RequestInv /\ (vdev # "dropped" => StoreInv /\ OrphanInv) BY <1>1
<1>3. CASE UNCHANGED vars
  <2>1. UNCHANGED <<queue, event_buf, index, inbox, held, store, call, req, owner, vdev>>
    BY <1>3 DEF vars, kernelVars, ownerVars
  <2>2. Awaited' = Awaited /\ Begun' = Begun BY <2>1 DEF Awaited, Begun, Busy
  <2>3. Kept' = Kept BY <2>1 DEF Kept, Owned, Answered
  <2> QED BY <1>2, <1>3, <2>1, <2>2, <2>3, RequestQuiet, StoreQuiet, OrphanWaits
<1>4. CASE Client /\ UNCHANGED ownerVars
  <2>1. vdev' = vdev BY <1>4 DEF ownerVars
  <2> QED BY <1>2, <1>4, <2>1, RequestClient, OrphanWaits
<1>5. CASE Kernel
  <2>1. vdev' = vdev /\ UNCHANGED ownerVars BY <1>5 DEF Kernel, ownerVars
  <2> QED BY <1>2, <1>5, <2>1, RequestKernel, OrphanWaits
<1>6. CASE FetchEvents \/ PollEvent
  <2>1. vdev' = vdev BY <1>6 DEF FetchEvents, PollEvent
  <2> QED BY <1>2, <1>6, <2>1, RequestRead, OrphanWaits
<1>7. CASE ProcessFFUpload \/ ProcessFFErase
  <2>1. PICK code \in Codes : Process(code)
    BY <1>7 DEF ProcessFFUpload, ProcessFFErase, Codes
  <2>2. vdev' = vdev BY <2>1 DEF Process
  <2> QED BY <1>2, <2>1, <2>2, RequestProcess
<1>8. CASE PlayEffect
  <2>1. vdev' = vdev BY <1>8 DEF PlayEffect
  <2> QED BY <1>2, <1>8, <2>1, RequestPlays, OrphanWaits
<1>9. CASE Answer
  <2>1. PICK ev \in held, retval \in {0, -1} :
          DropFFUpload(ev, retval) \/ DropFFErase(ev, retval)
    BY <1>9 DEF Answer
  <2>2. vdev' = vdev BY <2>1 DEF DropFFUpload, DropFFErase
  <2> QED BY <1>2, <2>1, <2>2, RequestAnswered
<1>10. CASE DropVirtualDevice \/ AnswerGone
  BY <1>2, <1>10, RequestGone
<1> QED BY <1>1, <1>3, <1>4, <1>5, <1>6, <1>7, <1>8, <1>9, <1>10 DEF Next, Owner

-----------------------------------------------------------------------------
(* The invariant *)

LEMMA InitInv == Init => IInv
<1> SUFFICES ASSUME Init PROVE IInv OBVIOUS
<1> USE DEF Init, KernelInit, HandlesInit, OwnerInit
<1>1. TypeOK
  <2>1. KernelTypeOK
    BY FFAssumption DEF KernelTypeOK
  <2>2. HandlesTypeOK
    <3>1. 0 \in 0 .. MaxFaults BY HandlesAssumption
    <3>2. hfile \in [Handles -> Files \cup {None}] /\ grabbed \in [Handles -> BOOLEAN] OBVIOUS
    <3>3. effects = {} /\ lost = {} /\ abandoned = {} /\ late = FALSE /\ faults = 0 OBVIOUS
    <3> QED BY ONLY <3>1, <3>2, <3>3 DEF HandlesTypeOK
  <2>3. OwnerTypeOK BY DEF OwnerTypeOK
  <2> QED BY <2>1, <2>2, <2>3 DEF TypeOK
<1>2. ~ Busy BY DEF Busy, NoCall
<1>3. CallInv BY <1>2 DEF CallInv
<1>4. FileInv /\ OwnerInv BY DEF FileInv, OwnerInv
<1>5. EffectsOwned /\ SlotsAccounted /\ GrabKnown
  BY DEF EffectsOwned, SlotsAccounted, GrabKnown
<1>6. Len(inbox) = 0 /\ Len(event_buf) = 0 /\ Len(queue) = 0 OBVIOUS
<1>7. RequestInv BY <1>6 DEF RequestInv
<1>8. StoreInv
  <2>1. Owned = {} BY DEF Owned
  <2>2. Kept = Owned BY DEF Kept, NoCall
  <2> QED BY <1>6, <2>1, <2>2 DEF StoreInv
<1>9. OrphanInv BY DEF OrphanInv, NoReq
<1> QED BY <1>1, <1>3, <1>4, <1>5, <1>7, <1>8, <1>9 DEF IInv

LEMMA NextInv == IInv /\ [Next]_vars => IInv'
<1> SUFFICES ASSUME IInv, [Next]_vars PROVE IInv' OBVIOUS
<1>1. /\ TypeOK /\ CallInv /\ OwnerInv /\ ClientInv
      /\ ~ late => RequestInv
      /\ ~ late /\ vdev # "dropped" => StoreInv /\ OrphanInv
  BY DEF IInv, ClientInv
<1>2. TypeOK'
  <2>1. CASE UNCHANGED vars
    BY <1>1, <2>1 DEF TypeOK, KernelTypeOK, HandlesTypeOK, OwnerTypeOK,
                      vars, clientVars, kernelVars, historyVars, ownerVars
  <2>2. CASE Next BY <1>1, <2>2, TypesClient, TypesKernel, TypesOwner DEF Next
  <2> QED BY <2>1, <2>2
<1>3. ClientInv' BY <1>1, ClientStep
<1>4. OwnerInv' BY <1>1, OwnerStep
<1>5. /\ ~ late' => RequestInv'
      /\ ~ late' /\ vdev' # "dropped" => StoreInv' /\ OrphanInv'
  BY <1>1, RequestStep
<1> QED BY <1>2, <1>3, <1>4, <1>5 DEF IInv, ClientInv

LEMMA Invariance == Spec => []IInv
<1> QED BY InitInv, NextInv, PTL DEF Spec

-----------------------------------------------------------------------------
(* Theorems *)

\* Every variable keeps its type.
THEOREM TypeCorrect == Spec => []TypeOK
<1>1. IInv => TypeOK BY DEF IInv
<1> QED BY <1>1, Invariance, PTL

\* Each effect alive is in a slot of its own that belongs to its file,
\* whatever handles and other effects are dropped in between
\* (upload_ff_effect, FFEffect::drop).
THEOREM EffectsAreOwned == Spec => []EffectsOwned
<1>1. IInv => EffectsOwned BY DEF IInv
<1> QED BY <1>1, Invariance, PTL

\* Each slot taken is an effect's, or one whose FFEffect is gone unerased
\* (upload_ff_effect, FFEffect::drop).
THEOREM NoSlotLeaks == Spec => []SlotsAccounted
<1>1. IInv => SlotsAccounted BY DEF IInv
<1> QED BY <1>1, Invariance, PTL

\* A handle with the grab has it, and the grab is known to a handle but for
\* the two ways to abandon it (grab, ungrab, Device::drop).
THEOREM GrabIsKnown == Spec => []GrabKnown
<1>1. IInv => GrabKnown BY DEF IInv
<1> QED BY <1>1, Invariance, PTL

\* Between calls, and as long as none has timed out, owner and kernel agree
\* on the effects (process_ff_upload, process_ff_erase, the drops of events).
THEOREM TablesAreEqual == Spec => []TablesAgree
<1>1. IInv => TablesAgree
  <2> SUFFICES ASSUME IInv, vdev # "dropped", ~ late, ~ Busy
               PROVE  store = {s \in Slots : owner[s] # None}
    BY DEF TablesAgree
  <2>1. TypeOK /\ StoreInv BY DEF IInv
  <2>2. call = NoCall /\ ~ req.orphan BY <2>1, Names DEF NoReq
  <2> QED BY <2>1, <2>2 DEF StoreInv, Kept, Owned, NoCall
<1> QED BY <1>1, Invariance, PTL

\* The owner is told to play only what it keeps (FFEffect::play, the order of
\* events and answers).
THEOREM PlaysWhatIsStored == Spec => PlaysStored
<1>1. IInv /\ [Next]_vars => [PlayEffect /\ ~ late => Head(inbox).slot \in store]_vars
  <2> SUFFICES ASSUME IInv, PlayEffect, ~ late PROVE Head(inbox).slot \in store
    OBVIOUS
  <2>1. TypeOK /\ RequestInv /\ OwnerInv BY DEF IInv
  <2>2. vdev # "dropped" BY <2>1 DEF OwnerInv, PlayEffect
  <2>3. StoreInv BY <2>2 DEF IInv
  <2> QED BY <2>1, <2>3, RequestPlays
<1> QED BY <1>1, Invariance, PTL DEF Spec, PlaysStored

\* The end of what is held answers the request that it was made for
\* (FFUploadEvent::drop, FFEraseEvent::drop).
THEOREM AnswersTheRightRequest == Spec => AnswersOwnRequest
<1>1. IInv /\ [Next]_vars =>
        [\A ev \in held : ev \notin held' /\ ~ late => ev.n = req.n]_vars
  <2> SUFFICES ASSUME IInv, [Next]_vars, NEW ev \in held, ev \notin held', ~ late
               PROVE  ev.n = req.n
    OBVIOUS
  <2>1. RequestInv BY DEF IInv
  <2>2. ev = Begun BY <2>1 DEF RequestInv
  <2> QED BY <2>2 DEF Begun
<1> QED BY <1>1, Invariance, PTL DEF Spec, AnswersOwnRequest

=============================================================================
