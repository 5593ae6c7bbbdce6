-------------------------------- MODULE Library --------------------------------
(***************************************************************************)
(* The parts of the crate that share nothing but their caller: attribute   *)
(* sets, directory walks, the settings a handle copies, the way from a     *)
(* builder to an opened device, conversions.  A caller uses one of them,   *)
(* whichever it likes; the others stay as they were made.                  *)
(***************************************************************************)
EXTENDS AttributeSets, DeviceNodes, DeviceSettings, DeviceSetup, Conversions

VARIABLE focus  \* the part in use

vars == <<focus, setVars, walkVars, settingVars, setupVars, convVars>>

Parts == {"sets", "walks", "settings", "setup", "conversions"}

\* A part out of use is in one initial state.
Resting(part, Initial, resting) == (focus = part /\ Initial) \/ (focus # part /\ resting)

Init ==
    /\ focus \in Parts
    /\ SetInit /\ SetupInit
    /\ Resting("walks", WalkInit,
         walk = "nodes" /\ walking = FALSE /\ broken = FALSE /\ yielded = <<>>
         /\ present = {} /\ ahead = {} /\ steady = {} /\ known = {})
    /\ Resting("settings", SettingsInit,
         hasRepeat = FALSE /\ rep = NoRepeat /\ keymap = [i \in Indices |-> CHOOSE k \in Keys : TRUE]
         /\ auto_repeat = [c \in Clients |-> NoRepeat]
         /\ supported_keys = [c \in Clients |-> Unopened])
    /\ Resting("conversions", ConvInit,
         of = "time" /\ original = [time |-> 0] /\ encoded = Nothing /\ decoded = Nothing)

UseSets ==
    /\ focus = "sets" /\ SetNext
    /\ UNCHANGED <<focus, walkVars, settingVars, setupVars, convVars>>
UseWalks ==
    /\ focus = "walks" /\ WalkNext
    /\ UNCHANGED <<focus, setVars, settingVars, setupVars, convVars>>
UseSettings ==
    /\ focus = "settings" /\ SettingsNext
    /\ UNCHANGED <<focus, setVars, walkVars, setupVars, convVars>>
UseSetup ==
    /\ focus = "setup" /\ SetupNext
    /\ UNCHANGED <<focus, setVars, walkVars, settingVars, convVars>>
UseConversions ==
    /\ focus = "conversions" /\ ConvNext
    /\ UNCHANGED <<focus, setVars, walkVars, settingVars, setupVars>>

Next == UseSets \/ UseWalks \/ UseSettings \/ UseSetup \/ UseConversions

Spec == Init /\ [][Next]_vars

\* The caller of an iterator asks until it gets None.
FairSpec ==
    Spec /\ WF_vars(focus = "walks" /\ Walking
                    /\ UNCHANGED <<focus, setVars, settingVars, setupVars, convVars>>)

\* Every part is well typed.
TypeOK ==
    /\ focus \in Parts
    /\ SetTypeOK /\ SetupTypeOK
    /\ focus = "walks" => WalkTypeOK
    /\ focus = "settings" => SettingsTypeOK

=============================================================================
