----------------------------- MODULE LibraryProofs -----------------------------
(***************************************************************************)
(* Theorems about the parts of the crate that share nothing but their      *)
(* caller: for every size of a set, every directory, every number of       *)
(* handles, every builder and every clock.                                 *)
(***************************************************************************)
EXTENDS Library, TLAPS, FiniteSetTheorems, SequenceTheorems

-----------------------------------------------------------------------------
(* A step is one of a part, and the other parts rest *)

LEMMA PartStep ==
  ASSUME [Next]_vars
  PROVE  /\ SetNext \/ UNCHANGED setVars
         /\ WalkNext \/ UNCHANGED walkVars
         /\ SettingsNext \/ UNCHANGED settingVars
         /\ SetupNext \/ UNCHANGED setupVars
         /\ ConvNext \/ UNCHANGED convVars
BY DEF vars, Next, UseSets, UseWalks, UseSettings, UseSetup, UseConversions

-----------------------------------------------------------------------------
(* Settings *)

SettingsInv ==
    /\ focus \in Parts /\ (focus = "settings" => SettingsTypeOK)
    /\ DOMAIN auto_repeat = Clients /\ DOMAIN supported_keys = Clients

LEMMA SettingsBegin == Init => SettingsInv
<1> SUFFICES ASSUME Init PROVE SettingsInv OBVIOUS
<1>1. /\ auto_repeat = [c \in Clients |-> NoRepeat]
      /\ supported_keys = [c \in Clients |-> Unopened]
  BY DEF Init, Resting, SettingsInit
<1>2. focus = "settings" => SettingsTypeOK
  BY <1>1 DEF Init, Resting, SettingsInit, SettingsTypeOK
<1>3. focus \in Parts BY DEF Init
<1> QED BY <1>1, <1>2, <1>3 DEF SettingsInv

LEMMA SettingsStep ==
  ASSUME SettingsInv, [Next]_vars
  PROVE  SettingsInv'
<1>0. /\ DOMAIN auto_repeat = Clients /\ DOMAIN supported_keys = Clients
      /\ focus' = focus /\ focus \in Parts
      /\ focus = "settings" => SettingsTypeOK
  BY DEF SettingsInv, vars, Next, UseSets, UseWalks, UseSettings, UseSetup, UseConversions
<1>1. CASE UNCHANGED settingVars
  <2>1. SettingsTypeOK => SettingsTypeOK' BY <1>1 DEF settingVars, SettingsTypeOK
  <2> QED BY <1>0, <1>1, <2>1 DEF SettingsInv, settingVars
<1>2. ASSUME NEW c \in Clients, OpenClient(c)
      PROVE  SettingsInv'
  <2>1. /\ supported_keys' = [supported_keys EXCEPT ![c] = KeyBits]
        /\ auto_repeat' = [auto_repeat EXCEPT ![c] = CurrentRepeat]
        /\ UNCHANGED <<hasRepeat, rep, keymap>>
    BY <1>2 DEF OpenClient
  <2>2. /\ supported_keys'[c] = KeyBits
        /\ \A d \in Clients : d # c => supported_keys'[d] = supported_keys[d]
    BY <1>0, <2>1
  <2>3. ASSUME SettingsTypeOK PROVE SettingsTypeOK'
    <3>1. KeyBits \subseteq Keys BY <2>3 DEF KeyBits, SettingsTypeOK
    <3>2. auto_repeat' \in [Clients -> Repeat \cup {NoRepeat}]
      BY <2>1, <2>3 DEF SettingsTypeOK, CurrentRepeat
    <3> QED BY <2>1, <2>2, <2>3, <3>1, <3>2 DEF SettingsTypeOK
  <2> QED BY <1>0, <2>1, <2>3 DEF SettingsInv
<1>3. ASSUME NEW c \in Clients, DropClient(c)
      PROVE  SettingsInv'
  <2>1. /\ supported_keys' = [supported_keys EXCEPT ![c] = Unopened]
        /\ auto_repeat' = [auto_repeat EXCEPT ![c] = NoRepeat]
        /\ UNCHANGED <<hasRepeat, rep, keymap>>
    BY <1>3 DEF DropClient
  <2>2. /\ supported_keys'[c] = Unopened
        /\ \A d \in Clients : d # c => supported_keys'[d] = supported_keys[d]
    BY <1>0, <2>1
  <2>3. SettingsTypeOK => SettingsTypeOK' BY <2>1, <2>2 DEF SettingsTypeOK
  <2> QED BY <1>0, <2>1, <2>3 DEF SettingsInv
<1>4. ASSUME NEW c \in Clients, NEW r \in Repeat, UpdateAutoRepeat(c, r)
      PROVE  SettingsInv'
  <2>1. /\ auto_repeat' = [auto_repeat EXCEPT ![c] = r]
        /\ UNCHANGED <<hasRepeat, keymap, supported_keys>>
    BY <1>4 DEF UpdateAutoRepeat
  <2>2. ASSUME SettingsTypeOK PROVE SettingsTypeOK'
    <3>1. rep' \in Repeat BY <1>4, <2>2 DEF UpdateAutoRepeat, Accepted, SettingsTypeOK, Repeat
    <3>2. auto_repeat' \in [Clients -> Repeat \cup {NoRepeat}]
      BY <2>1, <2>2 DEF SettingsTypeOK
    <3> QED BY <2>1, <2>2, <3>1, <3>2 DEF SettingsTypeOK
  <2> QED BY <1>0, <2>1, <2>2 DEF SettingsInv
<1>5. ASSUME NEW c \in Clients, NEW i \in Indices, NEW k \in Keys, UpdateScancode(c, i, k)
      PROVE  SettingsInv'
  <2>1. /\ keymap' = [keymap EXCEPT ![i] = k]
        /\ UNCHANGED <<hasRepeat, rep, auto_repeat, supported_keys>>
    BY <1>5 DEF UpdateScancode
  <2>2. SettingsTypeOK => SettingsTypeOK' BY <2>1 DEF SettingsTypeOK
  <2> QED BY <1>0, <2>1, <2>2 DEF SettingsInv
<1> QED BY <1>1, <1>2, <1>3, <1>4, <1>5, PartStep DEF SettingsNext

-----------------------------------------------------------------------------
(* Walks *)

Returned(e) == \E i \in 1 .. Len(yielded) : yielded[i] = e

\* What a walk has returned is behind the directory stream; what was there all
\* the time is ahead of it, or returned.
WalkInv ==
    /\ focus = "walks" => WalkTypeOK
    /\ yielded \in Seq(Nodes \cup {"error"})
    /\ ahead \subseteq known /\ known \subseteq Entries /\ steady \subseteq present
    /\ broken \/ ~ walking => ahead = {}
    /\ Returned("error") => broken
    /\ \A i \in 1 .. Len(yielded) : yielded[i] \in (known \ ahead) \cup {"error"}
    /\ \A i, j \in 1 .. Len(yielded) : i # j => yielded[i] # yielded[j]
    /\ \A e \in steady \cap Nodes :
          e \notin Unopenable \/ walk = "nodes" => e \in ahead \/ Returned(e)

LEMMA WalkBegin == Init => WalkInv
<1> SUFFICES ASSUME Init PROVE WalkInv OBVIOUS
<1>1. focus \in Parts BY DEF Init
<1>2. /\ yielded = <<>> /\ broken = FALSE /\ ahead = present /\ steady = present
      /\ known = present /\ present \subseteq Entries
      /\ ~ walking => ahead = {}
  BY DEF Init, Resting, WalkInit
<1>3. ASSUME focus = "walks" PROVE WalkTypeOK
  <2>1. walking = TRUE /\ walk \in {"enumerate", "nodes"}
    BY <1>3 DEF Init, Resting, WalkInit
  <2>2. walking \in BOOLEAN BY <2>1
  <2>3. broken \in BOOLEAN BY <1>2
  <2> QED BY <1>2, <2>1, <2>2, <2>3 DEF WalkTypeOK
<1>4. Len(yielded) = 0 BY <1>2
<1> QED BY <1>2, <1>3, <1>4 DEF WalkInv, Returned

\* An entry is returned: one more, that was not before.
LEMMA WalkReturns ==
  ASSUME yielded \in Seq(Nodes \cup {"error"}), NEW e \in Nodes \cup {"error"},
         yielded' = Append(yielded, e)
  PROVE  /\ yielded' \in Seq(Nodes \cup {"error"})
         /\ Len(yielded') = Len(yielded) + 1 /\ Len(yielded) \in Nat
         /\ \A i \in 1 .. Len(yielded') :
              \/ i \in 1 .. Len(yielded) /\ yielded'[i] = yielded[i]
              \/ i = Len(yielded') /\ yielded'[i] = e
         /\ \A i \in 1 .. Len(yielded) :
              i \in 1 .. Len(yielded') /\ i # Len(yielded') /\ yielded'[i] = yielded[i]
         /\ Len(yielded') \in 1 .. Len(yielded')
<1> QED OBVIOUS

LEMMA WalkStep ==
  ASSUME WalkInv, [Next]_vars
  PROVE  WalkInv'
<1>0. /\ focus' = focus /\ yielded \in Seq(Nodes \cup {"error"})
      /\ ahead \subseteq known /\ known \subseteq Entries /\ steady \subseteq present
      /\ broken \/ ~ walking => ahead = {}
      /\ Returned("error") => broken
      /\ \A i \in 1 .. Len(yielded) : yielded[i] \in (known \ ahead) \cup {"error"}
      /\ \A i, j \in 1 .. Len(yielded) : i # j => yielded[i] # yielded[j]
      /\ \A e \in steady \cap Nodes :
            e \notin Unopenable \/ walk = "nodes" => e \in ahead \/ Returned(e)
  BY DEF WalkInv, vars, Next, UseSets, UseWalks, UseSettings, UseSetup, UseConversions
<1>1. CASE UNCHANGED walkVars
  <2>1. WalkTypeOK => WalkTypeOK' BY <1>1 DEF walkVars, WalkTypeOK
  <2>2. UNCHANGED <<yielded, ahead, known, steady, present, walk>> BY <1>1 DEF walkVars
  <2>3. (broken \/ ~ walking => ahead = {})' /\ (Returned("error") => broken)'
    BY <1>0, <1>1 DEF walkVars, Returned
  <2> QED BY <1>0, <2>1, <2>2, <2>3 DEF WalkInv, Returned
<1>2. ASSUME NEW e \in Entries, Plug(e) \/ Unplug(e)
      PROVE  WalkInv'
  <2>1. /\ walking /\ UNCHANGED <<walk, broken, walking, yielded>>
        /\ present' \subseteq Entries \cup present
        /\ \/ Plug(e) /\ e \notin known /\ known' = known \cup {e} /\ ahead' \in {ahead, ahead \cup {e}}
              /\ steady' = steady /\ present' = present \cup {e}
              /\ (broken => ahead' = ahead)
           \/ Unplug(e) /\ known' = known /\ ahead' \in {ahead, ahead \ {e}}
              /\ steady' = steady \ {e} /\ present' = present \ {e}
    BY <1>2 DEF Plug, Unplug
  <2>2. broken' \/ ~ walking' => ahead' = {} BY <1>0, <2>1
  <2>3. Returned("error")' => broken' BY <1>0, <2>1 DEF Returned
  <2>4. \A i \in 1 .. Len(yielded') : yielded'[i] \in (known' \ ahead') \cup {"error"}
    BY <1>0, <2>1
  <2>5. \A d \in steady' \cap Nodes :
           d \notin Unopenable \/ walk' = "nodes" => d \in ahead' \/ Returned(d)'
    BY <1>0, <2>1 DEF Returned
  <2>6. ASSUME WalkTypeOK PROVE WalkTypeOK'
    <3>1. walking' \in BOOLEAN /\ broken' \in BOOLEAN BY <2>1, <2>6 DEF WalkTypeOK
    <3>2. yielded' \in Seq(Nodes \cup {"error"}) /\ walk' \in {"enumerate", "nodes"}
      BY <2>1, <2>6 DEF WalkTypeOK
    <3>3. /\ present' \subseteq Entries /\ ahead' \subseteq Entries /\ steady' \subseteq present'
          /\ present' \subseteq known' /\ known' \subseteq Entries
      BY <1>0, <2>1, <2>6 DEF WalkTypeOK
    <3> QED BY <3>1, <3>2, <3>3 DEF WalkTypeOK
  <2>7. ahead' \subseteq known' /\ known' \subseteq Entries /\ steady' \subseteq present'
    BY <1>0, <2>1
  <2> QED BY <1>0, <2>1, <2>2, <2>3, <2>4, <2>5, <2>6, <2>7 DEF WalkInv
<1>3. ASSUME NEW e \in Entries, NextDevice(e) \/ NextNode(e)
      PROVE  WalkInv'
  <2>1. /\ walking /\ e \in ahead /\ ahead' = ahead \ {e}
        /\ UNCHANGED <<walk, broken, present, walking, steady, known>>
    BY <1>3 DEF NextDevice, NextNode, Left
  <2>2. ~ broken BY <1>0, <2>1
  <2>3. broken' \/ ~ walking' => ahead' = {} BY <2>1, <2>2
  <2>4. /\ ahead' \subseteq known' /\ known' \subseteq Entries /\ steady' \subseteq present'
    BY <1>0, <2>1
  <2>5. ASSUME WalkTypeOK, yielded' \in Seq(Nodes \cup {"error"}) PROVE WalkTypeOK'
    <3>1. walking' \in BOOLEAN /\ broken' \in BOOLEAN BY <2>1, <2>5 DEF WalkTypeOK
    <3> QED BY <2>1, <2>5, <3>1 DEF WalkTypeOK
  <2>6. CASE yielded' = yielded /\ ~ (e \in Nodes /\ walk = "nodes") /\ ~ Opens(e)
    <3>1. e \in steady \cap Nodes => e \in Unopenable /\ walk # "nodes"
      BY <2>6, <1>0 DEF Opens, IsEvent
    <3>2. Returned("error")' => broken' BY <1>0, <2>1, <2>6 DEF Returned
    <3>3. \A i \in 1 .. Len(yielded') : yielded'[i] \in (known' \ ahead') \cup {"error"}
      BY <1>0, <2>1, <2>6
    <3>4. \A d \in steady' \cap Nodes :
             d \notin Unopenable \/ walk' = "nodes" => d \in ahead' \/ Returned(d)'
      BY <1>0, <2>1, <2>6, <3>1 DEF Returned
    <3> QED BY <1>0, <2>3, <2>4, <2>5, <2>6, <3>2, <3>3, <3>4 DEF WalkInv
  <2>7. CASE yielded' = Append(yielded, e) /\ e \in Nodes
    <3>1. /\ yielded' \in Seq(Nodes \cup {"error"})
          /\ \A i \in 1 .. Len(yielded') :
               \/ i \in 1 .. Len(yielded) /\ yielded'[i] = yielded[i]
               \/ i = Len(yielded') /\ yielded'[i] = e
          /\ \A i \in 1 .. Len(yielded) :
               i \in 1 .. Len(yielded') /\ i # Len(yielded') /\ yielded'[i] = yielded[i]
          /\ Len(yielded') \in 1 .. Len(yielded')
      BY <1>0, <2>7, WalkReturns
    <3>2. e # "error" /\ e \in known BY <1>0, <2>1, <2>7, NodesAssumption
    <3>3. \A i \in 1 .. Len(yielded) : yielded[i] # e BY <1>0, <2>1, <3>2
    <3>4. Returned("error")' => broken'
      <4>1. Returned("error")' => Returned("error") BY <3>1, <3>2 DEF Returned
      <4> QED BY <4>1, <1>0, <2>2
    <3>5. \A i \in 1 .. Len(yielded') : yielded'[i] \in (known' \ ahead') \cup {"error"}
      BY <1>0, <2>1, <3>1, <3>2
    <3>6. \A i, j \in 1 .. Len(yielded') : i # j => yielded'[i] # yielded'[j]
      BY <1>0, <3>1, <3>3
    <3>7. Returned(e)' /\ \A d : Returned(d) => Returned(d)'
      BY <3>1 DEF Returned
    <3>8. \A d \in steady' \cap Nodes :
             d \notin Unopenable \/ walk' = "nodes" => d \in ahead' \/ Returned(d)'
      BY <1>0, <2>1, <3>7
    <3> QED BY <1>0, <2>3, <2>4, <2>5, <3>1, <3>4, <3>5, <3>6, <3>8 DEF WalkInv
  <2>8. \/ yielded' = yielded /\ ~ (e \in Nodes /\ walk = "nodes") /\ ~ Opens(e)
        \/ yielded' = Append(yielded, e) /\ e \in Nodes
    BY <1>3 DEF NextDevice, NextNode, Opens, IsEvent
  <2> QED BY <2>6, <2>7, <2>8
<1>4. CASE ReadDirFails
  <2>1. /\ walking /\ ahead # {} /\ broken' = TRUE /\ ahead' = {} /\ steady' = {}
        /\ yielded' = yielded \/ yielded' = Append(yielded, "error")
        /\ UNCHANGED <<walk, present, walking, known>>
    BY <1>4 DEF ReadDirFails
  <2>2. ~ broken BY <1>0, <2>1
  <2>3. \A i \in 1 .. Len(yielded) : yielded[i] # "error" BY <1>0, <2>2 DEF Returned
  <2>4. /\ yielded' \in Seq(Nodes \cup {"error"})
        /\ \A i \in 1 .. Len(yielded') : yielded'[i] \in known \cup {"error"}
        /\ \A i, j \in 1 .. Len(yielded') : i # j => yielded'[i] # yielded'[j]
    <3>1. CASE yielded' = yielded BY <3>1, <1>0
    <3>2. CASE yielded' = Append(yielded, "error")
      <4>1. "error" \in Nodes \cup {"error"} OBVIOUS
      <4>2. /\ yielded' \in Seq(Nodes \cup {"error"})
            /\ \A i \in 1 .. Len(yielded') :
                 \/ i \in 1 .. Len(yielded) /\ yielded'[i] = yielded[i]
                 \/ i = Len(yielded') /\ yielded'[i] = "error"
        BY <1>0, <3>2, <4>1, WalkReturns
      <4> QED BY <4>2, <1>0, <2>3
    <3> QED BY <2>1, <3>1, <3>2
  <2>5. ASSUME WalkTypeOK PROVE WalkTypeOK'
    <3>1. walking' \in BOOLEAN /\ broken' \in BOOLEAN BY <2>1, <2>5 DEF WalkTypeOK
    <3> QED BY <2>1, <2>4, <2>5, <3>1 DEF WalkTypeOK
  <2>6. broken' BY <2>1
  <2>7. known' = known /\ ahead' = {} /\ steady' = {} BY <2>1
  <2> QED BY <1>0, <2>4, <2>5, <2>6, <2>7 DEF WalkInv
<1>5. CASE WalkEnds
  <2>1. /\ ahead = {} /\ walking' = FALSE
        /\ UNCHANGED <<walk, broken, present, ahead, yielded, steady, known>>
    BY <1>5 DEF WalkEnds, AtEnd
  <2>2. (Returned("error") => broken)' BY <1>0, <2>1 DEF Returned
  <2>3. ASSUME WalkTypeOK PROVE WalkTypeOK'
    <3>1. walking' \in BOOLEAN /\ broken' \in BOOLEAN BY <2>1, <2>3 DEF WalkTypeOK
    <3> QED BY <2>1, <2>3, <3>1 DEF WalkTypeOK
  <2>4. UNCHANGED <<walk, present, ahead, yielded, steady, known>> /\ ahead' = {} BY <2>1
  <2> QED BY <1>0, <2>2, <2>3, <2>4 DEF WalkInv, Returned
<1> QED BY <1>1, <1>2, <1>3, <1>4, <1>5, PartStep DEF WalkNext, Walking

-----------------------------------------------------------------------------
(* From a builder to an opened device *)

UDev == [evbit : SUBSET Types, bits : [Types -> SUBSET SetupCodes],
         props : SUBSET SetupCodes, phys : PhysPaths \cup {NoString}]
Asked == [types : SUBSET Types, codes : [Types -> SUBSET SetupCodes],
          props : SUBSET SetupCodes]
Builder == [name : Names \cup {0}, id : {"default", "custom"},
            ff_effects_max : MaxEffects \cup {0}]

\* uinput was told what was asked for unless a method has failed, and the
\* device and its handle are made of that.
SetupInv ==
    /\ SetupTypeOK /\ udev \in UDev /\ asked \in Asked
    /\ stage # "failed" =>
          udev.evbit = asked.types /\ udev.bits = asked.codes /\ udev.props = asked.props
    /\ stage \in {"built", "gone", "opened"} => device = Registered /\ builder.name # 0
    /\ stage = "opened" => handle = FromRawDevice(FromFd)

LEMMA SetupBegin == Init => SetupInv
<1> SUFFICES ASSUME Init PROVE SetupInv OBVIOUS
<1>1. /\ stage = "builder" /\ calls = 0 /\ handle = Nobody
      /\ builder = [name |-> 0, id |-> "default", ff_effects_max |-> 0]
      /\ udev = [evbit |-> {}, bits |-> [t \in Types |-> {}], props |-> {}, phys |-> NoString]
      /\ asked = [types |-> {}, codes |-> [t \in Types |-> {}], props |-> {}]
  BY DEF Init, SetupInit
<1>2. udev \in UDev /\ asked \in Asked BY <1>1 DEF UDev, Asked
<1>3. SetupTypeOK BY <1>1, SetupAssumption DEF SetupTypeOK
<1> QED BY <1>1, <1>2, <1>3 DEF SetupInv

\* A method is called on a builder, which it keeps or loses.
LEMMA SetupCall ==
  ASSUME SetupInv, Call, stage' \in {"builder", "failed"}, builder' \in Builder,
         udev' \in UDev, asked' \in Asked,
         stage' = "builder" =>
           udev'.evbit = asked'.types /\ udev'.bits = asked'.codes /\ udev'.props = asked'.props
  PROVE  SetupInv'
<1>1. /\ stage = "builder" /\ calls < MaxCalls /\ calls' = calls + 1
      /\ UNCHANGED <<device, handle>> /\ SetupTypeOK
  BY DEF Call, SetupInv
<1>2. calls' \in 0 .. MaxCalls BY <1>1, SetupAssumption DEF SetupTypeOK
<1>3. SetupTypeOK' BY <1>1, <1>2 DEF SetupTypeOK, UDev, Builder
<1> QED BY <1>1, <1>3 DEF SetupInv

LEMMA SetupStep ==
  ASSUME SetupInv, [Next]_vars
  PROVE  SetupInv'
<1>1. /\ SetupTypeOK /\ udev \in UDev /\ asked \in Asked /\ builder \in Builder
      /\ stage # "failed" =>
            udev.evbit = asked.types /\ udev.bits = asked.codes /\ udev.props = asked.props
      /\ stage \in {"built", "gone", "opened"} => device = Registered /\ builder.name # 0
      /\ stage = "opened" => handle = FromRawDevice(FromFd)
  BY DEF SetupInv, SetupTypeOK, Builder
<1>2. CASE UNCHANGED setupVars
  BY <1>2 DEF setupVars, SetupInv, SetupTypeOK, Registered, FromFd
<1>3. CASE \/ \E n \in Names : Name(n)
           \/ \E n \in MaxEffects : WithFFEffectsMax(n)
           \/ InputId
  <2>1. /\ Call /\ stage' = stage /\ udev' = udev /\ asked' = asked
        /\ \/ \E n \in Names : builder' = [builder EXCEPT !.name = n]
           \/ \E n \in MaxEffects : builder' = [builder EXCEPT !.ff_effects_max = n]
           \/ builder' = [builder EXCEPT !.id = "custom"]
    BY <1>3 DEF Name, WithFFEffectsMax, InputId
  <2>2. builder' \in Builder BY <1>1, <2>1 DEF Builder
  <2>3. stage = "builder" BY <2>1 DEF Call
  <2> QED BY <1>1, <2>1, <2>2, <2>3, SetupCall
<1>4. ASSUME NEW n \in PhysPaths, WithPhys(n)
      PROVE  SetupInv'
  <2>1. /\ Call /\ stage' = stage /\ builder' = builder /\ asked' = asked
        /\ udev' = [udev EXCEPT !.phys = n]
    BY <1>4 DEF WithPhys
  <2>2. /\ udev' \in UDev /\ udev'.evbit = udev.evbit /\ udev'.bits = udev.bits
        /\ udev'.props = udev.props
    BY <1>1, <2>1 DEF UDev
  <2>3. stage = "builder" BY <2>1 DEF Call
  <2> QED BY <1>1, <2>1, <2>2, <2>3, SetupCall
<1>5. ASSUME NEW S \in SUBSET SetupCodes, WithProperties(S)
      PROVE  SetupInv'
  <2>1. /\ Call /\ stage' = stage /\ builder' = builder
        /\ udev' = [udev EXCEPT !.props = @ \cup S]
        /\ asked' = [asked EXCEPT !.props = @ \cup S]
    BY <1>5 DEF WithProperties
  <2>2. stage = "builder" BY <2>1 DEF Call
  <2>3. /\ udev' \in UDev /\ udev'.evbit = udev.evbit /\ udev'.bits = udev.bits
        /\ udev'.props = udev.props \cup S
    BY <1>1, <2>1 DEF UDev
  <2>4. /\ asked' \in Asked /\ asked'.types = asked.types /\ asked'.codes = asked.codes
        /\ asked'.props = asked.props \cup S
    BY <1>1, <2>1 DEF Asked
  <2> QED BY <1>1, <2>1, <2>2, <2>3, <2>4, SetupCall
<1>6. ASSUME NEW t \in Types, NEW S \in SUBSET SetupCodes, WithCodes(t, S)
      PROVE  SetupInv'
  <2>1. /\ Call /\ builder' = builder
        /\ \/ stage' = "failed" /\ udev' = udev
           \/ stage' = stage
              /\ udev' = [udev EXCEPT !.evbit = @ \cup {t}, !.bits[t] = @ \cup S]
        /\ asked' = [asked EXCEPT !.types = @ \cup {t}, !.codes[t] = @ \cup S]
    BY <1>6 DEF WithCodes, EvBit
  <2>2. stage = "builder" BY <2>1 DEF Call
  <2>3. /\ asked' \in Asked /\ asked'.types = asked.types \cup {t}
        /\ asked'.codes = [asked.codes EXCEPT ![t] = @ \cup S]
        /\ asked'.props = asked.props
    BY <1>1, <2>1 DEF Asked
  <2>4. CASE stage' = "failed" /\ udev' = udev
    BY <1>1, <2>1, <2>3, <2>4, SetupCall
  <2>5. CASE stage' = stage
             /\ udev' = [udev EXCEPT !.evbit = @ \cup {t}, !.bits[t] = @ \cup S]
    <3>1. /\ udev' \in UDev /\ udev'.evbit = udev.evbit \cup {t}
          /\ udev'.bits = [udev.bits EXCEPT ![t] = @ \cup S]
          /\ udev'.props = udev.props
      BY <1>1, <2>5 DEF UDev
    <3> QED BY <1>1, <2>1, <2>2, <2>3, <2>5, <3>1, SetupCall
  <2> QED BY <2>1, <2>4, <2>5
<1>7. CASE MethodFails
  <2>1. Call /\ stage' = "failed" /\ UNCHANGED <<builder, udev, asked>>
    BY <1>7 DEF MethodFails
  <2> QED BY <1>1, <2>1, SetupCall
<1>8. CASE Build
  <2>1. /\ stage = "builder" /\ UNCHANGED <<builder, udev, handle, asked, calls>>
        /\ \/ stage' \in {"panicked", "failed"} /\ device' = device
           \/ stage' = "built" /\ device' = Registered /\ builder.name # 0
    BY <1>8 DEF Build, SetupAccepted
  <2>2. SetupTypeOK' BY <1>1, <2>1 DEF SetupTypeOK
  <2>3. Registered' = Registered BY <2>1 DEF Registered
  <2> QED BY <1>1, <2>1, <2>2, <2>3 DEF SetupInv
<1>9. CASE Unregister
  <2>1. /\ stage = "built" /\ stage' = "gone"
        /\ UNCHANGED <<builder, udev, device, handle, asked, calls>>
    BY <1>9 DEF Unregister
  <2>2. SetupTypeOK' BY <1>1, <2>1 DEF SetupTypeOK
  <2>3. Registered' = Registered BY <2>1 DEF Registered
  <2> QED BY <1>1, <2>1, <2>2, <2>3 DEF SetupInv
<1>10. CASE Open
  <2>1. /\ stage = "built" /\ UNCHANGED <<builder, udev, device, asked, calls>>
        /\ \/ stage' = "panicked" /\ handle' = handle
           \/ stage' = "opened" /\ handle' = FromRawDevice(FromFd)
    BY <1>10 DEF Open
  <2>2. FromRawDevice(FromFd) # Nobody
    <3>1. DOMAIN FromRawDevice(FromFd) = {"raw", "ty", "state"} BY DEF FromRawDevice
    <3>2. DOMAIN Nobody = {"ty"} BY DEF Nobody
    <3> QED BY <3>1, <3>2
  <2>3. SetupTypeOK' BY <1>1, <2>1, <2>2 DEF SetupTypeOK
  <2>4. Registered' = Registered /\ FromFd' = FromFd BY <2>1 DEF Registered, FromFd
  <2>5. FromRawDevice(FromFd)' = FromRawDevice(FromFd) BY <2>4 DEF FromRawDevice
  <2> QED BY <1>1, <2>1, <2>3, <2>4, <2>5 DEF SetupInv
<1>11. \A S \in CodeSets : S \in SUBSET SetupCodes BY SetupAssumption
<1>12. \A c \in SetupCodes : {c} \in SUBSET SetupCodes OBVIOUS
<1>13. CASE SetupNext
  <2>1. CASE \E c \in SetupCodes : WithAbsoluteAxis(c)
    BY <2>1, <1>6, <1>12 DEF WithAbsoluteAxis, Types
  <2>2. CASE \E S \in CodeSets : \/ WithKeys(S) \/ WithRelativeAxes(S) \/ WithSwitches(S)
                                 \/ WithFF(S) \/ WithMsc(S) \/ WithProperties(S)
    BY <2>2, <1>5, <1>6, <1>11
       DEF WithKeys, WithRelativeAxes, WithSwitches, WithFF, WithMsc, Types
  <2> QED BY <1>13, <2>1, <2>2, <1>3, <1>4, <1>7, <1>8, <1>9, <1>10 DEF SetupNext
<1> QED BY <1>2, <1>13, PartStep

\* What a handle says is what was registered, and that is what was asked for.
LEMMA SetupReadsBack == SetupInv => OpenedIsBuilt
<1> SUFFICES ASSUME SetupInv, stage = "opened" PROVE OpenedIsBuilt
  BY DEF OpenedIsBuilt
<1> DEFINE types == asked.types \cup IF builder.ff_effects_max > 0 THEN {"ff"} ELSE {}
           r == Forwarded(handle)
<1>1. /\ udev \in UDev /\ asked \in Asked /\ device = Registered /\ builder.name # 0
      /\ udev.evbit = asked.types /\ udev.bits = asked.codes /\ udev.props = asked.props
      /\ handle = FromRawDevice(FromFd)
  BY DEF SetupInv
<1>2. builder.ff_effects_max \in Nat /\ builder.name \in Nat
      /\ udev.phys \in Nat \cup {NoString}
  BY SetupAssumption DEF SetupInv, SetupTypeOK
<1>3. /\ device.ty = types /\ device.name = builder.name /\ device.phys = udev.phys
      /\ device.id = builder.id /\ device.props = asked.props
      /\ device.ff_effects = builder.ff_effects_max
      /\ \A t \in Types : device.codes[t] =
           IF t \notin types THEN {}
           ELSE CASE t = "key" -> asked.codes[t] \ {Reserved}
                  [] t = "ff" /\ Periodic \in asked.codes[t] -> asked.codes[t] \cup {Rumble}
                  [] OTHER -> asked.codes[t]
  BY <1>1 DEF Registered
<1>4. /\ r.name = Cstring(device.name) /\ r.physical_path = Cstring(device.phys)
      /\ r.input_id = device.id /\ r.properties = device.props
      /\ r.max_ff_effects = IF "ff" \in device.ty THEN device.ff_effects ELSE 0
      /\ \A t \in Types : r.supported[t] = IF t \in device.ty THEN device.codes[t] ELSE NoSet
      /\ handle.state = device.ty \cap {"key", "abs", "sw", "led"}
  BY <1>1 DEF Forwarded, Getters, FromRawDevice, FromFd, CachedParts
<1> HIDE DEF r
<1>5. types \subseteq Types BY <1>1 DEF Asked, Types
<1>6. ASSUME NEW t \in Types
      PROVE  IF t \in types
               THEN /\ asked.codes[t] \ {Reserved} \subseteq r.supported[t]
                    /\ r.supported[t] \subseteq asked.codes[t] \cup {Rumble}
                    /\ t # "ff" => r.supported[t] \subseteq asked.codes[t]
               ELSE r.supported[t] = NoSet
  <2> HIDE DEF types
  <2>1. r.supported[t] = IF t \in types THEN device.codes[t] ELSE NoSet BY <1>3, <1>4
  <2>2. t \in types => /\ asked.codes[t] \ {Reserved} \subseteq device.codes[t]
                       /\ device.codes[t] \subseteq asked.codes[t] \cup {Rumble}
                       /\ t # "ff" => device.codes[t] \subseteq asked.codes[t]
    BY <1>3 DEF Reserved, Rumble
  <2> QED BY <2>1, <2>2
<1>7. r.name = builder.name /\ r.input_id = builder.id /\ r.properties = asked.props
  BY <1>1, <1>2, <1>3, <1>4 DEF Cstring
<1>8. r.physical_path = IF udev.phys = 0 THEN NoString ELSE udev.phys
  BY <1>2, <1>3, <1>4 DEF Cstring, NoString
<1>9. r.max_ff_effects = builder.ff_effects_max
  BY <1>2, <1>3, <1>4
<1>10. handle.state = types \cap {"key", "abs", "sw"}
  BY <1>3, <1>4, <1>5 DEF Types
<1> QED BY <1>6, <1>7, <1>8, <1>9, <1>10 DEF OpenedIsBuilt, r

-----------------------------------------------------------------------------
(* Attribute sets *)

\* The least and the greatest of a set of bits.
LEMMA Least ==
  ASSUME NEW S \in SUBSET Nat, S # {}
  PROVE  Min(S) \in S /\ \A y \in S : Min(S) <= y
<1> DEFINE R == {ss \in Nat \X Nat : ss[1] < ss[2]}
<1>1. IsWellFoundedOn(R, Nat)
  BY NatLessThanWellFounded DEF OpToRel
<1>2. PICK x \in S : \A y \in S : ~ (<<y, x>> \in R)
  <2> HIDE DEF R
  <2> QED BY <1>1, WFMin
<1>3. \A y \in S : x <= y
  <2> SUFFICES ASSUME NEW y \in S PROVE x <= y OBVIOUS
  <2>1. x \in Nat /\ y \in Nat OBVIOUS
  <2>2. ~ (y < x) BY <1>2, <2>1
  <2> QED BY <2>1, <2>2
<1> HIDE DEF R
<1> QED BY <1>3 DEF Min

LEMMA Greatest ==
  ASSUME NEW n \in Nat, NEW S \in SUBSET (0 .. n), S # {}
  PROVE  Max(S) \in S /\ \A y \in S : y <= Max(S)
<1> DEFINE T == {n - x : x \in S}
<1>1. T \in SUBSET Nat OBVIOUS
<1>2. T # {} OBVIOUS
<1>3. PICK m \in T : \A y \in T : m <= y
  <2> HIDE DEF T
  <2>1. Min(T) \in T /\ \A y \in T : Min(T) <= y BY <1>1, <1>2, Least
  <2> QED BY <2>1
<1>4. PICK x \in S : m = n - x OBVIOUS
<1>5. \A y \in S : y <= x
  <2> SUFFICES ASSUME NEW y \in S PROVE y <= x OBVIOUS
  <2>1. n - y \in T OBVIOUS
  <2>2. n - x <= n - y BY <1>3, <1>4, <2>1
  <2> HIDE DEF T
  <2> QED BY <2>2
<1> HIDE DEF T
<1>6. \A y \in S : x >= y BY <1>5
<1> QED BY <1>6 DEF Max

LEMMA RoomIsNat == Room \in Nat
<1>1. Count \in Nat /\ Element \in Nat \ {0} BY AttributeSetAssumption
<1>2. Count + Element - 1 \in Nat BY <1>1
<1> DEFINE q == (Count + Element - 1) \div Element
<1>3. q \in Nat BY <1>1, <1>2
<1> HIDE DEF q
<1>4. Element * q \in Nat BY <1>1, <1>3
<1> QED BY <1>4 DEF Room, q

Above == {b \in container : b >= offset}

\* What the iterator has returned, what it has left and what it started with:
\* the front ascends, the back descends, and what is left lies between.
IterInv ==
    /\ \A x \in inner : x + offset \in container
    /\ \A i \in 1 .. Len(front) : front[i] \in Above /\ \A x \in inner : front[i] < x + offset
    /\ \A i \in 1 .. Len(back) : back[i] \in Above /\ \A x \in inner : x + offset < back[i]
    /\ \A i, j \in 1 .. Len(front) : i < j => front[i] < front[j]
    /\ \A i, j \in 1 .. Len(back) : i < j => back[j] < back[i]
    /\ \A i \in 1 .. Len(front), j \in 1 .. Len(back) : front[i] < back[j]
    /\ Len(front) + Len(back) + Cardinality(inner) = Cardinality(Above)

SetInv == SetTypeOK /\ (inner # NoIterator => IterInv)

LEMMA SetBegin == Init => SetInv
<1> SUFFICES ASSUME Init PROVE SetInv OBVIOUS
<1>1. container = {} /\ inner = NoIterator /\ offset = 0 /\ front = <<>> /\ back = <<>>
  BY DEF Init, SetInit
<1>2. 0 \in 0 .. Room BY RoomIsNat
<1>3. SetTypeOK BY <1>1, <1>2 DEF SetTypeOK
<1> QED BY <1>1, <1>3 DEF SetInv

LEMMA BitSets ==
  ASSUME SetTypeOK
  PROVE  /\ Bits \subseteq Nat /\ IsFiniteSet(Bits) /\ IsFiniteSet(container) /\ IsFiniteSet(Above)
         /\ inner # NoIterator => inner \subseteq Bits /\ IsFiniteSet(inner)
         /\ offset \in Nat
<1>1. Bits \subseteq Nat /\ IsFiniteSet(Bits) BY RoomIsNat, FS_Interval DEF Bits
<1>2. container \in SUBSET Bits /\ Above \in SUBSET Bits BY DEF SetTypeOK, Above
<1>3. inner # NoIterator => inner \in SUBSET Bits BY DEF SetTypeOK
<1>4. IsFiniteSet(container) /\ IsFiniteSet(Above) BY <1>1, <1>2, FS_Subset
<1>5. inner # NoIterator => IsFiniteSet(inner) BY <1>1, <1>3, FS_Subset
<1> QED BY <1>1, <1>3, <1>4, <1>5, RoomIsNat DEF SetTypeOK

\* An iterator starts at a code: as many bits as are set from there on.
LEMMA IterStarts ==
  ASSUME SetTypeOK, NEW start \in 0 .. Room, SliceIter(start)
  PROVE  SetInv'
<1>1. /\ inner' = {b - start : b \in {x \in container : x >= start}}
      /\ offset' = start /\ front' = <<>> /\ back' = <<>> /\ container' = container
  BY DEF SliceIter
<1> DEFINE S == {x \in container : x >= start}
<1>2. S \subseteq Bits /\ Bits \subseteq Nat /\ IsFiniteSet(container)
  BY BitSets DEF SetTypeOK
<1>3. IsFiniteSet(S) BY <1>2, FS_Subset
<1>4. start \in Nat /\ Room \in Nat BY RoomIsNat
<1>5. \A x \in inner' : x \in Bits /\ x + start \in S
  BY <1>1, <1>2, <1>4 DEF Bits
<1> DEFINE f == [b \in S |-> b - start]
<1>6. f \in Bijection(S, inner')
  <2>1. f \in [S -> inner'] BY <1>1
  <2>2. ASSUME NEW a \in S, NEW b \in S, f[a] = f[b] PROVE a = b
    <3>1. a \in Nat /\ b \in Nat BY <1>2
    <3>2. a - start = b - start BY <2>2
    <3> QED BY ONLY <3>1, <3>2, <1>4
  <2>3. \A t \in inner' : \E s \in S : f[s] = t BY <1>1
  <2> HIDE DEF f, S
  <2> QED BY <2>1, <2>2, <2>3 DEF Bijection, Injection, Surjection, IsInjective
<1> HIDE DEF f
<1>7. Cardinality(inner') = Cardinality(S)
  <2>1. ExistsBijection(S, inner') BY <1>6 DEF ExistsBijection
  <2> HIDE DEF S
  <2> QED BY <2>1, <1>3, FS_Bijection
<1>8. Above' = S BY <1>1 DEF Above
<1>9. Len(front') = 0 /\ Len(back') = 0 BY <1>1
<1>10. Cardinality(S) \in Nat
  <2> HIDE DEF S
  <2> QED BY <1>3, FS_CardinalityType
<1>11. SetTypeOK' BY <1>1, <1>5 DEF SetTypeOK
<1>12. IterInv'
  <2>1. (Len(front) + Len(back) + Cardinality(inner) = Cardinality(Above))'
    BY <1>7, <1>8, <1>9, <1>10
  <2>2. \A x \in inner' : x + offset' \in container' BY <1>1, <1>5
  <2> QED BY <2>1, <2>2, <1>9 DEF IterInv
<1> QED BY <1>11, <1>12 DEF SetInv

\* A sequence gets one more element.
LEMMA Appended ==
  ASSUME NEW s \in Seq(Nat), NEW x \in Nat
  PROVE  /\ Append(s, x) \in Seq(Nat) /\ Len(Append(s, x)) = Len(s) + 1 /\ Len(s) \in Nat
         /\ \A i \in 1 .. Len(s) : Append(s, x)[i] = s[i]
         /\ \A i \in 1 .. Len(Append(s, x)) :
              \/ i \in 1 .. Len(s) /\ Append(s, x)[i] = s[i]
              \/ i = Len(s) + 1 /\ Append(s, x)[i] = x
OBVIOUS

LEMMA IterAdvances ==
  ASSUME SetInv, Next1
  PROVE  SetInv'
<1>1. /\ inner # NoIterator /\ inner # {} /\ front' = Append(front, offset + Min(inner))
      /\ inner' = inner \ {Min(inner)} /\ UNCHANGED <<container, offset, back>>
  BY DEF Next1, FromIndex
<1>2. SetTypeOK /\ IterInv BY <1>1 DEF SetInv
<1>3. /\ inner \subseteq Bits /\ IsFiniteSet(inner) /\ offset \in Nat /\ Bits \subseteq Nat
      /\ IsFiniteSet(Above) /\ Above \subseteq Nat
  BY <1>1, <1>2, BitSets DEF SetTypeOK, Above
<1>4. PICK m \in inner : m = Min(inner) /\ \A y \in inner : m <= y
  <2>1. inner \in SUBSET Nat BY <1>3
  <2>2. Min(inner) \in inner /\ \A y \in inner : Min(inner) <= y BY <1>1, <2>1, Least
  <2> QED BY <2>2
<1>5. m \in Nat /\ offset + m \in Nat BY <1>3
<1>6. front \in Seq(Nat) /\ back \in Seq(Nat) BY <1>2 DEF SetTypeOK
<1>7. PICK v \in Nat : v = offset + m /\ front' = Append(front, v) BY <1>1, <1>4, <1>5
<1>8. /\ front' \in Seq(Nat) /\ Len(front') = Len(front) + 1 /\ Len(front) \in Nat
      /\ \A i \in 1 .. Len(front') :
           \/ i \in 1 .. Len(front) /\ front'[i] = front[i]
           \/ i = Len(front) + 1 /\ front'[i] = v
  BY <1>6, <1>7, Appended
<1>9. /\ \A x \in inner : x + offset \in container /\ x + offset \in Nat
      /\ \A i \in 1 .. Len(front) : front[i] \in Above /\ \A x \in inner : front[i] < x + offset
      /\ \A i \in 1 .. Len(back) : back[i] \in Above /\ \A x \in inner : x + offset < back[i]
      /\ \A i, j \in 1 .. Len(front) : i < j => front[i] < front[j]
      /\ \A i, j \in 1 .. Len(back) : i < j => back[j] < back[i]
      /\ \A i \in 1 .. Len(front), j \in 1 .. Len(back) : front[i] < back[j]
      /\ Len(front) + Len(back) + Cardinality(inner) = Cardinality(Above)
  BY <1>2, <1>3 DEF IterInv
<1>10. v \in Above /\ v = m + offset
  <2>1. v = m + offset BY <1>3, <1>5, <1>7
  <2>2. v \in container BY <2>1, <1>9
  <2>3. v >= offset BY <1>3, <1>5, <1>7
  <2> QED BY <2>1, <2>2, <2>3 DEF Above
<1>11. inner' = inner \ {m} /\ Above' = Above BY <1>1, <1>4 DEF Above
<1>12. \A x \in inner' : v < x + offset
  <2> SUFFICES ASSUME NEW x \in inner, x # m PROVE v < x + offset BY <1>11
  <2>1. x \in Nat /\ m <= x BY <1>3, <1>4
  <2> QED BY <2>1, <1>3, <1>5, <1>7
<1>13. Cardinality(inner') = Cardinality(inner) - 1 /\ Cardinality(inner) \in Nat
  BY <1>3, <1>11, FS_RemoveElement, FS_CardinalityType
<1>14. Len(back) \in Nat BY <1>6
<1>15. IterInv'
  <2>1. \A x \in inner' : x + offset' \in container' BY <1>1, <1>9, <1>11
  <2>2. \A i \in 1 .. Len(front') :
           front'[i] \in Above' /\ \A x \in inner' : front'[i] < x + offset'
    BY <1>1, <1>8, <1>9, <1>10, <1>11, <1>12
  <2>3. \A i \in 1 .. Len(back') :
           back'[i] \in Above' /\ \A x \in inner' : x + offset' < back'[i]
    BY <1>1, <1>9, <1>11
  <2>4. \A i \in 1 .. Len(front) : front[i] < v BY <1>9, <1>10
  <2>5. \A i, j \in 1 .. Len(front') : i < j => front'[i] < front'[j]
    <3> SUFFICES ASSUME NEW i \in 1 .. Len(front'), NEW j \in 1 .. Len(front'), i < j
                 PROVE  front'[i] < front'[j]
      OBVIOUS
    <3>1. i \in 1 .. Len(front) /\ front'[i] = front[i] BY <1>8
    <3>2. CASE j \in 1 .. Len(front) /\ front'[j] = front[j] BY <3>1, <3>2, <1>9
    <3>3. CASE front'[j] = v BY <3>1, <3>3, <2>4
    <3> QED BY <3>2, <3>3, <1>8
  <2>6. \A i, j \in 1 .. Len(back') : i < j => back'[j] < back'[i] BY <1>1, <1>9
  <2>7. \A j \in 1 .. Len(back) : v < back[j] BY <1>9, <1>10
  <2>8. \A i \in 1 .. Len(front'), j \in 1 .. Len(back') : front'[i] < back'[j]
    BY <1>1, <1>8, <1>9, <2>7
  <2>9. Len(front') + Len(back') + Cardinality(inner') = Cardinality(Above')
    BY <1>1, <1>8, <1>9, <1>11, <1>13, <1>14
  <2> QED BY <2>1, <2>2, <2>3, <2>5, <2>6, <2>8, <2>9 DEF IterInv
<1>16. SetTypeOK' BY <1>1, <1>2, <1>3, <1>8, <1>11 DEF SetTypeOK
<1> QED BY <1>15, <1>16 DEF SetInv

LEMMA IterRetreats ==
  ASSUME SetInv, NextBack
  PROVE  SetInv'
<1>1. /\ inner # NoIterator /\ inner # {} /\ offset = 0 /\ back' = Append(back, Max(inner))
      /\ inner' = inner \ {Max(inner)} /\ UNCHANGED <<container, offset, front>>
  BY DEF NextBack
<1>2. SetTypeOK /\ IterInv BY <1>1 DEF SetInv
<1>3. /\ inner \subseteq Bits /\ IsFiniteSet(inner) /\ offset \in Nat /\ Bits \subseteq Nat
      /\ IsFiniteSet(Above) /\ Above \subseteq Nat
  BY <1>1, <1>2, BitSets DEF SetTypeOK, Above
<1>4. PICK v \in inner : v = Max(inner) /\ \A y \in inner : y <= v
  <2>1. Room \in Nat /\ inner \in SUBSET (0 .. Room) BY <1>3, RoomIsNat DEF Bits
  <2>2. Max(inner) \in inner /\ \A y \in inner : y <= Max(inner) BY <1>1, <2>1, Greatest
  <2> QED BY <2>2
<1>5. v \in Nat /\ \A x \in inner : x \in Nat /\ x + offset = x BY <1>1, <1>3
<1>6. front \in Seq(Nat) /\ back \in Seq(Nat) BY <1>2 DEF SetTypeOK
<1>8. /\ back' \in Seq(Nat) /\ Len(back') = Len(back) + 1 /\ Len(back) \in Nat
      /\ \A i \in 1 .. Len(back') :
           \/ i \in 1 .. Len(back) /\ back'[i] = back[i]
           \/ i = Len(back) + 1 /\ back'[i] = v
  BY <1>1, <1>4, <1>5, <1>6, Appended
<1>9. /\ \A x \in inner : x \in container
      /\ \A i \in 1 .. Len(front) : front[i] \in Above /\ \A x \in inner : front[i] < x
      /\ \A i \in 1 .. Len(back) : back[i] \in Above /\ \A x \in inner : x < back[i]
      /\ \A i, j \in 1 .. Len(front) : i < j => front[i] < front[j]
      /\ \A i, j \in 1 .. Len(back) : i < j => back[j] < back[i]
      /\ \A i \in 1 .. Len(front), j \in 1 .. Len(back) : front[i] < back[j]
      /\ Len(front) + Len(back) + Cardinality(inner) = Cardinality(Above)
  BY <1>2, <1>5 DEF IterInv
<1>10. v \in Above BY <1>1, <1>5, <1>9 DEF Above
<1>11. inner' = inner \ {v} /\ Above' = Above BY <1>1, <1>4 DEF Above
<1>12. \A x \in inner' : x < v /\ x + offset' = x BY <1>1, <1>4, <1>5, <1>11
<1>13. Cardinality(inner') = Cardinality(inner) - 1 /\ Cardinality(inner) \in Nat
  BY <1>3, <1>11, FS_RemoveElement, FS_CardinalityType
<1>14. Len(front) \in Nat BY <1>6
<1>15. IterInv'
  <2>1. \A x \in inner' : x + offset' \in container' BY <1>1, <1>9, <1>11, <1>12
  <2>2. \A i \in 1 .. Len(front') :
           front'[i] \in Above' /\ \A x \in inner' : front'[i] < x + offset'
    BY <1>1, <1>9, <1>11, <1>12
  <2>3. \A i \in 1 .. Len(back') :
           back'[i] \in Above' /\ \A x \in inner' : x + offset' < back'[i]
    BY <1>1, <1>8, <1>9, <1>10, <1>11, <1>12
  <2>4. \A i \in 1 .. Len(back) : v < back[i] BY <1>9
  <2>5. \A i, j \in 1 .. Len(front') : i < j => front'[i] < front'[j] BY <1>1, <1>9
  <2>6. \A i, j \in 1 .. Len(back') : i < j => back'[j] < back'[i]
    <3> SUFFICES ASSUME NEW i \in 1 .. Len(back'), NEW j \in 1 .. Len(back'), i < j
                 PROVE  back'[j] < back'[i]
      OBVIOUS
    <3>1. i \in 1 .. Len(back) /\ back'[i] = back[i] BY <1>8
    <3>2. CASE j \in 1 .. Len(back) /\ back'[j] = back[j] BY <3>1, <3>2, <1>9
    <3>3. CASE back'[j] = v BY <3>1, <3>3, <2>4
    <3> QED BY <3>2, <3>3, <1>8
  <2>7. \A i \in 1 .. Len(front) : front[i] < v BY <1>9
  <2>8. \A i \in 1 .. Len(front'), j \in 1 .. Len(back') : front'[i] < back'[j]
    BY <1>1, <1>8, <1>9, <2>7
  <2>9. Len(front') + Len(back') + Cardinality(inner') = Cardinality(Above')
    BY <1>1, <1>8, <1>9, <1>11, <1>13, <1>14
  <2> QED BY <2>1, <2>2, <2>3, <2>5, <2>6, <2>8, <2>9 DEF IterInv
<1>16. SetTypeOK' BY <1>1, <1>2, <1>3, <1>8, <1>11 DEF SetTypeOK
<1> QED BY <1>15, <1>16 DEF SetInv

LEMMA SetStep ==
  ASSUME SetInv, [Next]_vars
  PROVE  SetInv'
<1>0. SetTypeOK /\ (inner # NoIterator => IterInv) BY DEF SetInv
<1>1. CASE UNCHANGED setVars
  BY <1>1 DEF setVars, SetInv, SetTypeOK, IterInv, Above
<1>2. ASSUME inner = NoIterator, container' \subseteq Bits,
             UNCHANGED <<inner, offset, front, back>>
      PROVE  SetInv'
  BY <1>0, <1>2 DEF SetInv, SetTypeOK
<1>3. CASE \E a \in Codes : SetBit(a, TRUE) \/ SetBit(a, FALSE)
  <2>1. container \subseteq Bits BY <1>0 DEF SetTypeOK
  <2> QED BY <2>1, <1>2, <1>3 DEF SetBit
<1>4. CASE \E s \in SUBSET Bits : FillRaw(s) \/ FromIter(s)
  BY <1>2, <1>4 DEF FillRaw, FromIter
<1>5. CASE (\E a \in 0 .. Room : SliceIter(a)) \/ Iter
  <2>1. 0 \in 0 .. Room BY RoomIsNat
  <2> QED BY <2>1, <1>0, <1>5, IterStarts DEF Iter
<1>6. CASE DropIter
  <2>1. /\ inner' = NoIterator /\ offset' = 0 /\ front' = <<>> /\ back' = <<>>
        /\ container' = container
    BY <1>6 DEF DropIter
  <2>2. 0 \in 0 .. Room /\ <<>> \in Seq(Nat) BY RoomIsNat
  <2> QED BY <2>1, <2>2, <1>0 DEF SetInv, SetTypeOK
<1> QED BY <1>1, <1>3, <1>4, <1>5, <1>6, IterAdvances, IterRetreats, PartStep DEF SetNext

\* The front and then the back backwards.
LEMMA Joined ==
  ASSUME NEW f \in Seq(Nat), NEW b \in Seq(Nat)
  PROVE  LET got == f \o Reverse(b)
         IN  /\ Len(got) = Len(f) + Len(b) /\ DOMAIN got = 1 .. Len(got)
             /\ \A i \in 1 .. Len(got) :
                  \/ i \in 1 .. Len(f) /\ got[i] = f[i]
                  \/ /\ i > Len(f) /\ Len(got) + 1 - i \in 1 .. Len(b)
                     /\ got[i] = b[Len(got) + 1 - i]
<1>1. Len(f) \in Nat /\ Len(b) \in Nat OBVIOUS
<1> DEFINE r == Reverse(b)
<1>2. r = [i \in 1 .. Len(b) |-> b[(Len(b) - i) + 1]] BY DEF Reverse
<1>3. \A i \in 1 .. Len(b) : (Len(b) - i) + 1 \in 1 .. Len(b) BY <1>1
<1>4. \A i \in 1 .. Len(b) : b[(Len(b) - i) + 1] \in Nat BY <1>3
<1>5. r \in Seq(Nat) /\ Len(r) = Len(b) /\ \A i \in 1 .. Len(b) : r[i] = b[(Len(b) - i) + 1]
  BY <1>1, <1>2, <1>4
<1> HIDE DEF r
<1> DEFINE got == f \o r
<1>6. Len(got) = Len(f) + Len(b) /\ DOMAIN got = 1 .. Len(got)
  <2>1. r \in Seq(Nat) /\ Len(r) = Len(b) BY <1>5
  <2>2. got \in Seq(Nat) BY <2>1
  <2>3. Len(got) = Len(f) + Len(r) BY <2>1, ConcatProperties
  <2>4. DOMAIN got = 1 .. Len(got) BY <2>2
  <2> QED BY <2>1, <2>3, <2>4
<1>7. ASSUME NEW i \in 1 .. Len(got)
      PROVE  \/ i \in 1 .. Len(f) /\ got[i] = f[i]
             \/ /\ i > Len(f) /\ Len(got) + 1 - i \in 1 .. Len(b)
                /\ got[i] = b[Len(got) + 1 - i]
  <2>1. CASE i <= Len(f) BY <2>1, <1>1, <1>5
  <2>2. CASE i > Len(f)
    <3>1. got[i] = r[i - Len(f)] BY <2>2, <1>1, <1>5, <1>6
    <3>2. i - Len(f) \in 1 .. Len(b) BY <2>2, <1>1, <1>6
    <3>3. got[i] = b[(Len(b) - (i - Len(f))) + 1] BY <3>1, <3>2, <1>5
    <3> HIDE DEF got
    <3>4. (Len(b) - (i - Len(f))) + 1 = Len(got) + 1 - i BY <1>1, <1>6
    <3>5. Len(got) + 1 - i \in 1 .. Len(b) BY <3>2, <3>4, <1>3
    <3> QED BY <3>3, <3>4, <3>5, <2>2
  <2> QED BY <2>1, <2>2, <1>1, <1>6
<1> QED BY <1>6, <1>7 DEF r

LEMMA SetYields == SetInv => SetIterates
<1> SUFFICES ASSUME SetInv, inner # NoIterator PROVE SetIterates
  BY DEF SetIterates
<1> DEFINE got == front \o Reverse(back)
<1>1. SetTypeOK /\ IterInv BY DEF SetInv
<1>2. front \in Seq(Nat) /\ back \in Seq(Nat) BY <1>1 DEF SetTypeOK
<1>3. /\ Len(got) = Len(front) + Len(back) /\ DOMAIN got = 1 .. Len(got)
      /\ \A i \in 1 .. Len(got) :
           \/ i \in 1 .. Len(front) /\ got[i] = front[i]
           \/ /\ i > Len(front) /\ Len(got) + 1 - i \in 1 .. Len(back)
              /\ got[i] = back[Len(got) + 1 - i]
  BY <1>2, Joined
<1> HIDE DEF got
<1>4. Len(front) \in Nat /\ Len(back) \in Nat BY <1>2
<1>5. /\ \A i \in 1 .. Len(front) : front[i] \in Above
      /\ \A i \in 1 .. Len(back) : back[i] \in Above
      /\ \A i, j \in 1 .. Len(front) : i < j => front[i] < front[j]
      /\ \A i, j \in 1 .. Len(back) : i < j => back[j] < back[i]
      /\ \A i \in 1 .. Len(front), j \in 1 .. Len(back) : front[i] < back[j]
      /\ Len(front) + Len(back) + Cardinality(inner) = Cardinality(Above)
  BY <1>1 DEF IterInv
<1>6. ASSUME NEW i \in 1 .. Len(got), NEW j \in 1 .. Len(got), i < j
      PROVE  got[i] < got[j]
  <2>1. CASE i \in 1 .. Len(front) /\ got[i] = front[i]
             /\ j \in 1 .. Len(front) /\ got[j] = front[j]
    BY <2>1, <1>5, <1>6
  <2>2. CASE i \in 1 .. Len(front) /\ got[i] = front[i]
             /\ Len(got) + 1 - j \in 1 .. Len(back) /\ got[j] = back[Len(got) + 1 - j]
    BY <2>2, <1>5
  <2>3. CASE i > Len(front) /\ Len(got) + 1 - i \in 1 .. Len(back)
             /\ got[i] = back[Len(got) + 1 - i]
    <3>1. j > Len(front) BY <2>3, <1>3, <1>4, <1>6
    <3>2. Len(got) + 1 - j \in 1 .. Len(back) /\ got[j] = back[Len(got) + 1 - j]
      BY <3>1, <1>3, <1>4
    <3>3. Len(got) + 1 - j < Len(got) + 1 - i BY <1>3, <1>4, <1>6
    <3> QED BY <2>3, <3>2, <3>3, <1>5
  <2> QED BY <2>1, <2>2, <2>3, <1>3
<1>7. ASSUME NEW i \in 1 .. Len(got) PROVE got[i] \in Above
  BY <1>3, <1>5
<1>8. ToSet(got) \subseteq {a \in Codes \cup Bits : InContainer(a) /\ a >= offset}
  <2>1. container \subseteq Bits BY <1>1 DEF SetTypeOK
  <2> QED BY <2>1, <1>3, <1>7 DEF ToSet, Above, InContainer
<1>9. Len(got) + Cardinality(inner) = Cardinality({b \in container : b >= offset})
  BY <1>3, <1>5 DEF Above
<1> QED BY <1>6, <1>8, <1>9 DEF SetIterates, got

-----------------------------------------------------------------------------
(* Times *)

LEMMA DivMod ==
  ASSUME NEW a \in Nat, NEW b \in Nat \ {0}
  PROVE  /\ a \div b \in Nat /\ (a % b) \in Nat /\ (a % b) < b
         /\ a = b * (a \div b) + (a % b)
OBVIOUS

LEMMA DivUnique ==
  ASSUME NEW b \in Nat \ {0}, NEW q \in Int, NEW r \in Nat, r < b
  PROVE  (b * q + r) \div b = q /\ (b * q + r) % b = r
OBVIOUS
\* Whole seconds and whole microseconds make whole microseconds.
LEMMA WholeMicros ==
  ASSUME NEW m \in Nat, NEW N \in Nat \ {0}, NEW M \in Nat \ {0}, N % M = 0
  PROVE  /\ (m \div N) * N + ((m % N) \div M) * M = (m \div M) * M
         /\ (m \div M) * M \in Nat /\ (m \div M) * M <= m
<1> DEFINE k == N \div M
           q == m \div N
           r == m % N
           u == r \div M
           v == r % M
<1>1. k \in Nat /\ N = M * k
  <2>1. N = M * (N \div M) + (N % M) /\ k \in Nat BY DivMod
  <2> QED BY <2>1
<1>2. q \in Nat /\ r \in Nat /\ m = N * q + r BY DivMod
<1>3. u \in Nat /\ v \in Nat /\ v < M /\ r = M * u + v 
  <2> HIDE DEF r
  <2> QED BY <1>2, DivMod
<1> HIDE DEF k, q, r, u, v
<1>4. m = M * (k * q + u) + v
  <2>1. N * q = M * (k * q) BY <1>1, <1>2
  <2>2. M * (k * q + u) = M * (k * q) + M * u BY <1>1, <1>2, <1>3
  <2> QED BY <2>1, <2>2, <1>2, <1>3
<1>5. m \div M = k * q + u
  <2> DEFINE w == k * q + u
  <2>2. w \in Int /\ m = M * w + v BY <1>1, <1>2, <1>3, <1>4
  <2> HIDE DEF w
  <2>3. (M * w + v) \div M = w BY <2>2, <1>3, DivUnique
  <2>4. m \div M = w BY <2>2, <2>3, Zenon
  <2> QED BY <2>4 DEF w
<1>6. q * N + u * M = (k * q + u) * M
  <2>1. q * N = M * (k * q) BY <1>1, <1>2
  <2>2. (k * q + u) * M = M * (k * q) + M * u BY <1>1, <1>2, <1>3
  <2>3. u * M = M * u BY <1>3
  <2> QED BY <2>1, <2>2, <2>3
<1>7. (m \div M) * M \in Nat /\ (m \div M) * M <= m
  <2>1. m \div M \in Nat /\ (m % M) \in Nat /\ m = M * (m \div M) + (m % M) BY DivMod
  <2> QED BY <2>1
<1> QED BY <1>5, <1>6, <1>7 DEF q, u, r

LEMMA ClockConstants ==
  /\ HalfSecs \in Nat \ {0} /\ NanosPerSec \in Nat \ {0} /\ NanosPerMicro \in Nat \ {0}
  /\ NanosPerSec % NanosPerMicro = 0
  /\ Seconds = 2 * HalfSecs /\ Seconds \in Nat \ {0} /\ MinSec = - HalfSecs
BY ClockAssumption DEF Seconds, MinSec

LEMMA UnsignedIs ==
  ASSUME NEW s \in Int
  PROVE  /\ 0 <= s /\ s < Seconds => Unsigned(s) = s
         /\ - Seconds <= s /\ s < 0 => Unsigned(s) = Seconds + s
<1>1. Seconds \in Nat \ {0} BY ClockConstants
<1>2. ASSUME 0 <= s, s < Seconds PROVE Unsigned(s) = s
  <2>1. (Seconds * 0 + s) % Seconds = s BY <1>1, <1>2, DivUnique
  <2>2. Seconds * 0 + s = s BY <1>1
  <2> QED BY <2>1, <2>2 DEF Unsigned
<1>3. ASSUME - Seconds <= s, s < 0 PROVE Unsigned(s) = Seconds + s
  <2>1. (Seconds * (-1) + (Seconds + s)) % Seconds = Seconds + s
    <3>1. Seconds + s \in Nat /\ Seconds + s < Seconds BY <1>1, <1>3
    <3> QED BY <1>1, <3>1, DivUnique
  <2>2. Seconds * (-1) + (Seconds + s) = s BY <1>1
  <2> QED BY <2>1, <2>2 DEF Unsigned
<1> QED BY <1>2, <1>3

LEMMA SignedIs ==
  /\ \A s \in Int : - HalfSecs <= s /\ s < HalfSecs => Signed(s) = s
  /\ Signed(HalfSecs) = - HalfSecs
<1>1. HalfSecs \in Nat \ {0} /\ Seconds = 2 * HalfSecs BY ClockConstants
<1>2. ASSUME NEW s \in Int, - HalfSecs <= s, s < HalfSecs PROVE Signed(s) = s
  <2>1. CASE 0 <= s
    <3>1. Unsigned(s) = s BY <1>1, <1>2, <2>1, UnsignedIs
    <3> QED BY <3>1, <1>2 DEF Signed
  <2>2. CASE s < 0
    <3>1. Unsigned(s) = Seconds + s BY <1>1, <1>2, <2>2, UnsignedIs
    <3>2. ~ (Seconds + s < HalfSecs) /\ (Seconds + s) - Seconds = s BY <1>1, <1>2
    <3> QED BY <3>1, <3>2 DEF Signed
  <2> QED BY <2>1, <2>2
<1>3. Signed(HalfSecs) = - HalfSecs
  <2>1. Unsigned(HalfSecs) = HalfSecs BY <1>1, UnsignedIs
  <2> QED BY <2>1, <1>1 DEF Signed
<1> QED BY <1>2, <1>3

\* What becomes of a time on its way there and back.
LEMMA TimeComesBack ==
  ASSUME NEW t \in Times
  PROVE  LET returned == TimevalToSystime(SystimeToTimeval(t))
             truncated == (Magnitude(t) \div NanosPerMicro) * NanosPerMicro
         IN  IF t >= 0 THEN returned = truncated ELSE returned \in {truncated, - truncated, OutOfRange}
<1> DEFINE N == NanosPerSec
           M == NanosPerMicro
           m == Magnitude(t)
           q == m \div N
           u == SubsecMicros(t)
           whole == (m \div M) * M
           tv == SystimeToTimeval(t)
           dur == TimevalDuration(tv)
<1>1. /\ HalfSecs \in Nat \ {0} /\ N \in Nat \ {0} /\ M \in Nat \ {0} /\ N % M = 0
      /\ Seconds = 2 * HalfSecs
  BY ClockConstants
<1>2. /\ t \in Int /\ - (HalfSecs * N) <= t /\ t < HalfSecs * N
      /\ \A x \in Int : - (HalfSecs * N) <= x /\ x < HalfSecs * N => x \in Times
  <2>1. MinSec = - HalfSecs /\ MinSec + Seconds = HalfSecs BY ClockConstants
  <2>2. Times = (- HalfSecs) * N .. (HalfSecs * N) - 1 BY <2>1 DEF Times
  <2>3. (- HalfSecs) * N = - (HalfSecs * N) /\ HalfSecs * N \in Nat BY <1>1
  <2> QED BY <2>2, <2>3
<1>3. m \in Nat /\ m <= HalfSecs * N /\ (t >= 0 => m = t /\ m < HalfSecs * N)
  BY <1>1, <1>2 DEF Magnitude
<1>4. /\ q * N + u * M = whole /\ whole \in Nat /\ whole <= m
  <2> HIDE DEF N, M, m
  <2>1. /\ (m \div N) * N + ((m % N) \div M) * M = (m \div M) * M
        /\ (m \div M) * M \in Nat /\ (m \div M) * M <= m
    BY <1>1, <1>3, WholeMicros
  <2>2. u = (m % N) \div M BY DEF SubsecMicros, m, N, M
  <2> QED BY <2>1, <2>2
<1>5. q \in Nat /\ u \in Nat /\ q * N <= m
  <2> HIDE DEF N, M, m
  <2>1. q \in Nat /\ (m % N) \in Nat /\ m = N * q + (m % N) BY <1>1, <1>3, DivMod
  <2>2. (m % N) \div M \in Nat BY <2>1, <1>1, DivMod
  <2>3. u = (m % N) \div M BY DEF SubsecMicros, m, N, M
  <2>4. N * q = q * N /\ N * q \in Nat BY <1>1, <2>1
  <2> HIDE DEF q
  <2> QED BY <2>1, <2>2, <2>3, <2>4
<1>6. tv = [tv_sec |-> Signed(Signed(q) * (IF t < 0 THEN -1 ELSE 1)), tv_usec |-> u]
  BY DEF SystimeToTimeval
<1>7. dur = Unsigned(tv.tv_sec) * N + u * M BY <1>6 DEF TimevalDuration
<1>8. TimevalToSystime(tv) =
        LET time == IF tv.tv_sec >= 0 THEN dur ELSE - dur
        IN  IF time \in Times THEN time ELSE OutOfRange
  BY DEF TimevalToSystime
<1> HIDE DEF N, M, m, q, u, whole, tv, dur
<1>9. q <= HalfSecs /\ (t >= 0 => q < HalfSecs)
  <2>1. ASSUME q >= HalfSecs + 1 PROVE FALSE
    <3>1. N * (HalfSecs + 1) <= N * q BY <1>1, <1>5, <2>1
    <3>2. N * (HalfSecs + 1) = HalfSecs * N + N /\ N * q = q * N BY <1>1, <1>5
    <3>3. HalfSecs * N \in Nat /\ q * N \in Nat BY <1>1, <1>5
    <3> QED BY <3>1, <3>2, <3>3, <1>1, <1>3, <1>5
  <2>2. ASSUME t >= 0, q >= HalfSecs PROVE FALSE
    <3>1. N * HalfSecs <= N * q BY <1>1, <1>5, <2>2
    <3>2. N * HalfSecs = HalfSecs * N /\ N * q = q * N BY <1>1, <1>5
    <3>3. HalfSecs * N \in Nat /\ q * N \in Nat BY <1>1, <1>5
    <3> QED BY <3>1, <3>2, <3>3, <1>3, <1>5, <2>2
  <2> QED BY <2>1, <2>2, <1>1, <1>5
<1>10. CASE t >= 0
  <2>1. Signed(q) = q /\ q * 1 = q BY <1>1, <1>5, <1>9, <1>10, SignedIs
  <2>2. tv.tv_sec = q BY <2>1, <1>2, <1>6, <1>10
  <2>3. Unsigned(q) = q BY <1>1, <1>5, <1>9, UnsignedIs
  <2>4. dur = whole BY <2>2, <2>3, <1>4, <1>7
  <2>5. whole \in Times BY <1>1, <1>2, <1>3, <1>4, <1>10
  <2> QED BY <2>2, <2>4, <2>5, <1>5, <1>8, <1>10 DEF whole, m, M, tv
<1>11. CASE t < 0
  <2>1. TimevalToSystime(tv) \in {whole, - whole, OutOfRange}
    <3>1. CASE q = 0
      <4>1. Signed(q) = 0 /\ 0 * (-1) = 0 /\ Signed(0) = 0 BY <3>1, <1>1, SignedIs
      <4>2. tv.tv_sec = 0 BY <4>1, <1>6, <1>11
      <4>3. Unsigned(0) = 0 BY <1>1, UnsignedIs
      <4>4. dur = whole BY <4>2, <4>3, <3>1, <1>4, <1>7
      <4> QED BY <4>2, <4>4, <1>8
    <3>2. CASE 0 < q /\ q < HalfSecs
      <4>1. Signed(q) = q BY <3>2, <1>1, <1>5, SignedIs
      <4>2. Signed(- q) = - q BY <3>2, <1>1, <1>5, SignedIs
      <4>3. tv.tv_sec = - q BY <4>1, <4>2, <1>5, <1>6, <1>11
      <4>4. Unsigned(- q) = Seconds + (- q) BY <3>2, <1>1, <1>5, UnsignedIs
      <4>5. Unsigned(- q) \in Nat /\ Unsigned(- q) >= HalfSecs + 1
        BY <4>4, <3>2, <1>1, <1>5
      <4>6. - dur \notin Times
        <5> DEFINE w == Unsigned(- q)
        <5>1. w \in Nat /\ w >= HalfSecs + 1 BY <4>5
        <5>2. dur = w * N + u * M BY <4>3, <1>7
        <5> HIDE DEF w
        <5>3. N * (HalfSecs + 1) <= N * w BY <5>1, <1>1
        <5>4. N * (HalfSecs + 1) = HalfSecs * N + N /\ N * w = w * N BY <5>1, <1>1
        <5>5. HalfSecs * N \in Nat /\ w * N \in Nat /\ u * M \in Nat BY <5>1, <1>1, <1>5
        <5>6. - dur < - (HalfSecs * N) BY <5>2, <5>3, <5>4, <5>5, <1>1
        <5>7. Times = - (HalfSecs * N) .. (HalfSecs * N) - 1
          <6>1. MinSec = - HalfSecs /\ MinSec + Seconds = HalfSecs BY ClockConstants
          <6>2. (- HalfSecs) * N = - (HalfSecs * N) BY <1>1
          <6> QED BY <6>1, <6>2 DEF Times, N
        <5> QED BY <5>6, <5>7, <5>5
      <4>7. ~ (tv.tv_sec >= 0) BY <4>3, <3>2, <1>5
      <4> QED BY <4>6, <4>7, <1>8
    <3>3. CASE q = HalfSecs
      <4>1. Signed(q) = - HalfSecs /\ (- HalfSecs) * (-1) = HalfSecs BY <3>3, <1>1, SignedIs
      <4>2. tv.tv_sec = - HalfSecs BY <4>1, <1>1, <1>6, <1>11, SignedIs
      <4>3. Unsigned(- HalfSecs) = HalfSecs
        <5>1. Unsigned(- HalfSecs) = Seconds + (- HalfSecs) BY <1>1, UnsignedIs
        <5> QED BY <5>1, <1>1
      <4>4. dur = whole BY <4>2, <4>3, <3>3, <1>4, <1>7
      <4> QED BY <4>2, <4>4, <1>1, <1>8
    <3> QED BY <3>1, <3>2, <3>3, <1>1, <1>5, <1>9
  <2> QED BY <2>1, <1>2, <1>11 DEF whole, m, M, tv
<1> QED BY <1>2, <1>10, <1>11

-----------------------------------------------------------------------------
(* Events *)

LEMMA DispatchFits ==
  /\ DOMAIN Dispatch = DOMAIN TypeCode
  /\ \A t \in DOMAIN Dispatch :
        Dispatch[t] \in DOMAIN Newtype /\ Newtype[Dispatch[t]][1] = t
        /\ Newtype[Dispatch[t]][2] # "Other"
  /\ \A n \in DOMAIN Newtype : Newtype[n][1] \in DOMAIN Dispatch
<1>1. DOMAIN Dispatch = DOMAIN TypeCode BY DEF Dispatch, TypeCode
<1>2. \A t \in DOMAIN Dispatch :
        Dispatch[t] \in DOMAIN Newtype /\ Newtype[Dispatch[t]][1] = t
        /\ Newtype[Dispatch[t]][2] # "Other"
  BY DEF Dispatch, Newtype
<1>3. \A n \in DOMAIN Newtype : Newtype[n][1] \in DOMAIN Dispatch
  BY DEF Dispatch, Newtype
<1> QED BY <1>1, <1>2, <1>3

\* The newtype an event is given to accepts it and says enough to make it again.
LEMMA EventComesBack ==
  ASSUME NEW e \in Events
  PROVE  LET s == EventSummary(e)
         IN  /\ s # Unreachable
             /\ Rebuilt(s) = [e EXCEPT !.time = 0]
             /\ s.event = e
             /\ s.variant = "Other" <=> \A n \in DOMAIN Newtype : NewtypeCode(n) # e.type_
<1> DEFINE types == {t \in DOMAIN Dispatch : TypeCode[t] = e.type_}
           s == EventSummary(e)
<1>1. e = [time |-> e.time, type_ |-> e.type_, code |-> e.code, value |-> e.value]
  BY DEF Events
<1>2. [e EXCEPT !.time = 0] = NewEvent(e.type_, e.code, e.value)
  BY <1>1 DEF NewEvent
<1>3. CASE types = {}
  <2>1. s = OtherSummary(e) BY <1>3 DEF EventSummary
  <2>2. /\ s.variant = "Other" /\ s.event = e /\ s.kind = <<e.type_, e.code>>
        /\ s.value = e.value
    BY <2>1 DEF OtherSummary
  <2>3. s # Unreachable BY <2>1 DEF OtherSummary, Unreachable
  <2>4. Rebuilt(s) = NewEvent(e.type_, e.code, e.value) BY <2>2 DEF Rebuilt
  <2>5. \A n \in DOMAIN Newtype : NewtypeCode(n) # e.type_
    BY <1>3, DispatchFits DEF NewtypeCode
  <2> QED BY <1>2, <2>2, <2>3, <2>4, <2>5
<1>4. CASE types # {}
  <2> DEFINE t == CHOOSE t \in types : TRUE
             n == Dispatch[t]
  <2>1. t \in DOMAIN Dispatch /\ TypeCode[t] = e.type_ BY <1>4
  <2>2. s = Summary(n, e) BY <1>4 DEF EventSummary
  <2> HIDE DEF t
  <2>3. n \in DOMAIN Newtype /\ NewtypeCode(n) = e.type_ /\ Newtype[n][2] # "Other"
    BY <2>1, DispatchFits DEF NewtypeCode
  <2> HIDE DEF n
  <2>4. s = [variant |-> Newtype[n][2], newtype |-> n, event |-> e, kind |-> e.code,
             value |-> e.value]
    BY <2>2, <2>3 DEF Summary
  <2> HIDE DEF s
  <2>5. /\ s.variant # "Other" /\ s.event = e /\ s.newtype = n /\ s.kind = e.code
        /\ s.value = e.value
    BY <2>3, <2>4
  <2>6. s # Unreachable BY <2>4 DEF Unreachable
  <2>7. Rebuilt(s) = NewEvent(e.type_, e.code, e.value) BY <2>3, <2>5 DEF Rebuilt, NewOf
  <2> QED BY <1>2, <2>3, <2>5, <2>6, <2>7 DEF s
<1> QED BY <1>3, <1>4

-----------------------------------------------------------------------------
(* Effects *)

\* The identifier may be any: the kernel's, or 0 before it gave one.
WithId(data, n) == [ToEffect(data) EXCEPT !.id = n]

\* A type code is taken by the arm of the kind that wrote it, and by no other.
LEMMA TypeArms ==
  /\ Arms(FromType, EffectCode["FF_CONSTANT"]) = {<<"constant", "Constant">>}
  /\ Arms(FromType, EffectCode["FF_RAMP"]) = {<<"ramp", "Ramp">>}
  /\ Arms(FromType, EffectCode["FF_PERIODIC"]) = {<<"periodic", "Periodic">>}
  /\ Arms(FromType, EffectCode["FF_SPRING"]) = {<<"condition", "Spring">>}
  /\ Arms(FromType, EffectCode["FF_FRICTION"]) = {<<"condition", "Friction">>}
  /\ Arms(FromType, EffectCode["FF_DAMPER"]) = {<<"condition", "Damper">>}
  /\ Arms(FromType, EffectCode["FF_INERTIA"]) = {<<"condition", "Inertia">>}
  /\ Arms(FromType, EffectCode["FF_RUMBLE"]) = {<<"rumble", "Rumble">>}
<1> DEFINE types == {"FF_CONSTANT", "FF_RAMP", "FF_PERIODIC", "FF_SPRING", "FF_FRICTION",
                     "FF_DAMPER", "FF_INERTIA", "FF_RUMBLE"}
<1>1. DOMAIN FromType = types BY DEF FromType
<1>2. \A m, n \in types : EffectCode[m] = EffectCode[n] => m = n BY DEF EffectCode
<1>3. ASSUME NEW n \in types PROVE Arms(FromType, EffectCode[n]) = {FromType[n]}
  <2>1. {m \in DOMAIN FromType : EffectCode[m] = EffectCode[n]} = {n} BY <1>1, <1>2
  <2> QED BY <2>1 DEF Arms
<1> QED BY <1>3 DEF FromType

LEMMA WaveformArms ==
  ASSUME NEW w \in FFWaveform
  PROVE  Arms(FromWaveform, EffectCode[WaveformCode[w]]) = {w}
<1> DEFINE codes == {"FF_SQUARE", "FF_TRIANGLE", "FF_SINE", "FF_SAW_UP", "FF_SAW_DOWN"}
           n == WaveformCode[w]
<1>1. DOMAIN FromWaveform = codes BY DEF FromWaveform
<1>2. \A m, c \in codes : EffectCode[m] = EffectCode[c] => m = c BY DEF EffectCode
<1>3. n \in codes /\ FromWaveform[n] = w BY DEF FFWaveform, WaveformCode, FromWaveform
<1>4. {m \in DOMAIN FromWaveform : EffectCode[m] = EffectCode[n]} = {n}
  BY <1>1, <1>2, <1>3
<1> QED BY <1>3, <1>4 DEF Arms

LEMMA PartsComeBack ==
  /\ \A e \in FFEnvelope : Envelope(Envelope(e)) = e
  /\ \A t \in [button : Int, interval : Int] : Trigger(Trigger(t)) = t
  /\ \A r \in [length : Int, delay : Int] : Replay(Replay(r)) = r
  /\ \A c \in FFCondition : FromCondition(ToCondition(c)) = c
<1>1. \A e \in FFEnvelope : Envelope(Envelope(e)) = e BY DEF FFEnvelope, Envelope
<1>2. \A t \in [button : Int, interval : Int] : Trigger(Trigger(t)) = t BY DEF Trigger
<1>3. \A r \in [length : Int, delay : Int] : Replay(Replay(r)) = r BY DEF Replay
<1>4. \A c \in FFCondition : FromCondition(ToCondition(c)) = c
  BY DEF FFCondition, FromCondition, ToCondition
<1> QED BY <1>1, <1>2, <1>3, <1>4

\* Of a kind: the arm its code selects reads the variant it was written by, and
\* reads the kind itself.
KindReadBack(k, variant) ==
    /\ Arms(FromType, EffectCode[KindCode[k.kind]]) = {<<variant, k.kind>>}
    /\ variant \in DOMAIN Union(k)
    /\ KindFrom(k.kind, Union(k)[variant]) = k
    /\ k \notin {Panic, Garbage}

LEMMA ConstantComesBack ==
  ASSUME NEW k \in [kind : {"Constant"}, level : Int, envelope : FFEnvelope]
  PROVE  KindReadBack(k, "constant")
<1>1. k = [kind |-> "Constant", level |-> k.level, envelope |-> k.envelope]
      /\ k.envelope \in FFEnvelope
  OBVIOUS
<1>2. KindCode[k.kind] = "FF_CONSTANT" BY <1>1 DEF KindCode
<1>3. Union(k) = [constant |-> [level |-> k.level, envelope |-> Envelope(k.envelope)]]
  BY <1>1 DEF Union, ConditionKinds
<1>4. KindFrom("Constant", [level |-> k.level, envelope |-> Envelope(k.envelope)])
        = [kind |-> "Constant", level |-> k.level, envelope |-> Envelope(Envelope(k.envelope))]
  BY DEF KindFrom, ConditionKinds
<1>5. k \notin {Panic, Garbage} BY <1>1 DEF Panic, Garbage
<1>6. Envelope(Envelope(k.envelope)) = k.envelope BY <1>1, PartsComeBack
<1>7. "constant" \in DOMAIN Union(k)
      /\ Union(k)["constant"] = [level |-> k.level, envelope |-> Envelope(k.envelope)]
  BY <1>3
<1>8. KindFrom(k.kind, Union(k)["constant"]) = k BY <1>1, <1>4, <1>6, <1>7
<1> QED BY <1>1, <1>2, <1>5, <1>7, <1>8, TypeArms DEF KindReadBack

LEMMA RampComesBack ==
  ASSUME NEW k \in [kind : {"Ramp"}, start_level : Int, end_level : Int, envelope : FFEnvelope]
  PROVE  KindReadBack(k, "ramp")
<1> DEFINE v == [start_level |-> k.start_level, end_level |-> k.end_level,
                 envelope |-> Envelope(k.envelope)]
<1>1. k = [kind |-> "Ramp", start_level |-> k.start_level, end_level |-> k.end_level,
           envelope |-> k.envelope]
      /\ k.envelope \in FFEnvelope
  OBVIOUS
<1>2. KindCode[k.kind] = "FF_RAMP" BY <1>1 DEF KindCode
<1>3. Union(k) = [ramp |-> v] BY <1>1 DEF Union, ConditionKinds
<1>4. KindFrom("Ramp", v)
        = [kind |-> "Ramp", start_level |-> k.start_level, end_level |-> k.end_level,
           envelope |-> Envelope(Envelope(k.envelope))]
  BY DEF KindFrom, ConditionKinds
<1>5. k \notin {Panic, Garbage} BY <1>1 DEF Panic, Garbage
<1>6. Envelope(Envelope(k.envelope)) = k.envelope BY <1>1, PartsComeBack
<1>7. "ramp" \in DOMAIN Union(k) /\ Union(k)["ramp"] = v BY <1>3
<1> HIDE DEF v
<1>8. KindFrom(k.kind, Union(k)["ramp"]) = k BY <1>1, <1>4, <1>6, <1>7
<1> QED BY <1>1, <1>2, <1>5, <1>7, <1>8, TypeArms DEF KindReadBack

LEMMA PeriodicComesBack ==
  ASSUME NEW k \in [kind : {"Periodic"}, waveform : FFWaveform, period : Int, magnitude : Int,
                    offset : Int, phase : Int, envelope : FFEnvelope]
  PROVE  KindReadBack(k, "periodic")
<1> DEFINE v == [waveform |-> EffectCode[WaveformCode[k.waveform]], period |-> k.period,
                 magnitude |-> k.magnitude, offset |-> k.offset, phase |-> k.phase,
                 envelope |-> Envelope(k.envelope)]
<1>1. k = [kind |-> "Periodic", waveform |-> k.waveform, period |-> k.period,
           magnitude |-> k.magnitude, offset |-> k.offset, phase |-> k.phase,
           envelope |-> k.envelope]
      /\ k.envelope \in FFEnvelope /\ k.waveform \in FFWaveform
  OBVIOUS
<1>2. KindCode[k.kind] = "FF_PERIODIC" BY <1>1 DEF KindCode
<1>3. Union(k) = [periodic |-> v] BY <1>1 DEF Union, ConditionKinds
<1>4. KindFrom("Periodic", v) = PeriodicKind(v) BY DEF KindFrom, ConditionKinds
<1>5. PeriodicKind(v)
        = [kind |-> "Periodic", waveform |-> k.waveform, period |-> k.period,
           magnitude |-> k.magnitude, offset |-> k.offset, phase |-> k.phase,
           envelope |-> Envelope(Envelope(k.envelope))]
  <2>1. Arms(FromWaveform, v.waveform) = {k.waveform} BY <1>1, WaveformArms
  <2>2. (CHOOSE w \in {k.waveform} : TRUE) = k.waveform OBVIOUS
  <2> QED BY <2>1, <2>2 DEF PeriodicKind
<1>6. k \notin {Panic, Garbage} BY <1>1 DEF Panic, Garbage
<1>7. Envelope(Envelope(k.envelope)) = k.envelope BY <1>1, PartsComeBack
<1>8. "periodic" \in DOMAIN Union(k) /\ Union(k)["periodic"] = v BY <1>3
<1> HIDE DEF v
<1>9. KindFrom(k.kind, Union(k)["periodic"]) = k BY <1>1, <1>4, <1>5, <1>7, <1>8
<1> QED BY <1>1, <1>2, <1>6, <1>8, <1>9, TypeArms DEF KindReadBack

LEMMA ConditionComesBack ==
  ASSUME NEW k \in [kind : ConditionKinds, condition : [1 .. 2 -> FFCondition]]
  PROVE  KindReadBack(k, "condition")
<1> DEFINE v == [i \in 1 .. 2 |-> ToCondition(k.condition[i])]
<1>1. k = [kind |-> k.kind, condition |-> k.condition] /\ k.kind \in ConditionKinds
      /\ k.condition \in [1 .. 2 -> FFCondition]
  OBVIOUS
<1>2. Arms(FromType, EffectCode[KindCode[k.kind]]) = {<<"condition", k.kind>>}
  BY <1>1, TypeArms DEF KindCode, ConditionKinds
<1>3. Union(k) = [condition |-> v] BY <1>1 DEF Union, ConditionKinds
<1>4. KindFrom(k.kind, v) = [kind |-> k.kind, condition |-> [i \in 1 .. 2 |-> FromCondition(v[i])]]
  BY <1>1 DEF KindFrom, ConditionKinds
<1>5. \A i \in 1 .. 2 : FromCondition(v[i]) = k.condition[i] BY <1>1, PartsComeBack
<1>6. [i \in 1 .. 2 |-> FromCondition(v[i])] = k.condition BY <1>1, <1>5
<1>7. k \notin {Panic, Garbage} BY <1>1 DEF Panic, Garbage
<1>8. "condition" \in DOMAIN Union(k) /\ Union(k)["condition"] = v BY <1>3
<1> HIDE DEF v
<1>9. KindFrom(k.kind, Union(k)["condition"]) = k BY <1>1, <1>4, <1>6, <1>8
<1> QED BY <1>2, <1>7, <1>8, <1>9 DEF KindReadBack

LEMMA RumbleComesBack ==
  ASSUME NEW k \in [kind : {"Rumble"}, strong_magnitude : Int, weak_magnitude : Int]
  PROVE  KindReadBack(k, "rumble")
<1> DEFINE v == [strong_magnitude |-> k.strong_magnitude, weak_magnitude |-> k.weak_magnitude]
<1>1. k = [kind |-> "Rumble", strong_magnitude |-> k.strong_magnitude,
           weak_magnitude |-> k.weak_magnitude]
  OBVIOUS
<1>2. KindCode[k.kind] = "FF_RUMBLE" BY <1>1 DEF KindCode
<1>3. Union(k) = [rumble |-> v] BY <1>1 DEF Union, ConditionKinds
<1>4. KindFrom("Rumble", v) = [kind |-> "Rumble", strong_magnitude |-> k.strong_magnitude,
                               weak_magnitude |-> k.weak_magnitude]
  BY DEF KindFrom, ConditionKinds
<1>5. k \notin {Panic, Garbage} BY <1>1 DEF Panic, Garbage
<1>6. "rumble" \in DOMAIN Union(k) /\ Union(k)["rumble"] = v BY <1>3
<1> HIDE DEF v
<1>7. KindFrom(k.kind, Union(k)["rumble"]) = k BY <1>1, <1>4, <1>6
<1> QED BY <1>1, <1>2, <1>5, <1>6, <1>7, TypeArms DEF KindReadBack

LEMMA EffectComesBack ==
  ASSUME NEW d \in FFEffectData, NEW n
  PROVE  FromEffect(WithId(d, n)) = d
<1> DEFINE e == WithId(d, n)
<1>1. /\ d = [direction |-> d.direction, trigger |-> d.trigger, replay |-> d.replay,
              kind |-> d.kind]
      /\ d.trigger \in [button : Int, interval : Int]
      /\ d.replay \in [length : Int, delay : Int] /\ d.kind \in FFEffectKind
  BY DEF FFEffectData
<1>2. e = [type_ |-> EffectCode[KindCode[d.kind.kind]], id |-> n, direction |-> d.direction,
           trigger |-> Trigger(d.trigger), replay |-> Replay(d.replay), u |-> Union(d.kind)]
  BY DEF WithId, ToEffect
<1>3. PICK variant : KindReadBack(d.kind, variant)
  BY <1>1, ConstantComesBack, RampComesBack, PeriodicComesBack, ConditionComesBack,
     RumbleComesBack DEF FFEffectKind
<1> HIDE DEF e
<1> DEFINE arm == CHOOSE a \in Arms(FromType, e.type_) : TRUE
<1>4. Arms(FromType, e.type_) = {<<variant, d.kind.kind>>} BY <1>2, <1>3 DEF KindReadBack
<1>5. arm = <<variant, d.kind.kind>> BY <1>4
<1> HIDE DEF arm
<1>6. arm[1] = variant /\ arm[2] = d.kind.kind BY <1>5
<1>7. arm[1] \in DOMAIN e.u /\ KindFrom(arm[2], e.u[arm[1]]) = d.kind
      /\ d.kind \notin {Panic, Garbage}
  BY <1>2, <1>3, <1>6 DEF KindReadBack
<1>8. FromEffect(e) = [direction |-> e.direction, trigger |-> Trigger(e.trigger),
                       replay |-> Replay(e.replay), kind |-> d.kind]
  BY <1>4, <1>7 DEF FromEffect, arm
<1>9. Trigger(e.trigger) = d.trigger /\ Replay(e.replay) = d.replay
      /\ e.direction = d.direction
  BY <1>1, <1>2, PartsComeBack
<1> QED BY <1>1, <1>8, <1>9 DEF e

-----------------------------------------------------------------------------
(* Conversions, step by step *)

\* What is converted is a value of its type, and the two results are those of
\* the conversions.
ConvInv ==
    /\ of = "time" =>
         /\ original.time \in Times
         /\ encoded # Nothing => encoded = SystimeToTimeval(original.time)
         /\ decoded # Nothing =>
              decoded = [time |-> TimevalToSystime(SystimeToTimeval(original.time))]
    /\ of = "effect" =>
         /\ original \in Effects
         /\ encoded # Nothing => \E n \in Nat : encoded = WithId(original, n)
         /\ decoded # Nothing => \E n \in Nat : decoded = FromEffect(WithId(original, n))
    /\ of = "event" =>
         /\ original \in Events
         /\ encoded # Nothing => encoded = EventSummary(original)
         /\ decoded # Nothing =>
              encoded = EventSummary(original) /\ decoded = Rebuilt(EventSummary(original))

LEMMA ZeroIsATime == 0 \in Times
<1> DEFINE p == HalfSecs * NanosPerSec
<1>1. p \in Nat \ {0} BY ClockConstants
<1>2. MinSec * NanosPerSec = - p /\ (MinSec + Seconds) * NanosPerSec = p
  BY ClockConstants
<1> HIDE DEF p
<1> QED BY <1>1, <1>2 DEF Times

LEMMA ConvBegin == Init => ConvInv
<1> SUFFICES ASSUME Init PROVE ConvInv OBVIOUS
<1>1. encoded = Nothing /\ decoded = Nothing BY DEF Init, Resting, ConvInit
<1>2. CASE focus = "conversions"
  <2>1. PICK o \in Originals : of = o.of /\ original = o.value
    BY <1>2 DEF Init, Resting, ConvInit
  <2>2. CASE \E t \in Times : o = [of |-> "time", value |-> [time |-> t]]
    BY <1>1, <2>1, <2>2 DEF ConvInv
  <2>3. CASE \E e \in Effects : o = [of |-> "effect", value |-> e]
    BY <1>1, <2>1, <2>3 DEF ConvInv
  <2>4. CASE \E e \in Events : o = [of |-> "event", value |-> e]
    BY <1>1, <2>1, <2>4 DEF ConvInv
  <2> QED BY <2>1, <2>2, <2>3, <2>4 DEF Originals
<1>3. CASE focus # "conversions"
  <2>1. of = "time" /\ original = [time |-> 0] BY <1>3 DEF Init, Resting
  <2> QED BY <1>1, <2>1, ZeroIsATime DEF ConvInv
<1> QED BY <1>2, <1>3

LEMMA ConvStep ==
  ASSUME ConvInv, [Next]_vars
  PROVE  ConvInv'
<1>1. CASE UNCHANGED convVars BY <1>1 DEF convVars, ConvInv
<1>2. CASE Encode
  <2>0. encoded = Nothing /\ of' = of /\ original' = original /\ decoded' = decoded
    BY <1>2 DEF Encode
  <2>1. CASE of = "time"
    <3>1. encoded' = SystimeToTimeval(original.time) BY <1>2, <2>1 DEF Encode
    <3> QED BY <2>0, <2>1, <3>1 DEF ConvInv
  <2>2. CASE of = "effect"
    <3>1. encoded' = ToEffect(original) BY <1>2, <2>2 DEF Encode
    <3>2. ToEffect(original) = WithId(original, 0) BY DEF WithId, ToEffect
    <3> QED BY <2>0, <2>2, <3>1, <3>2 DEF ConvInv
  <2>3. CASE of = "event"
    <3>1. encoded' = EventSummary(original) BY <1>2, <2>3 DEF Encode
    <3> QED BY <2>0, <2>3, <3>1 DEF ConvInv
  <2> QED BY <2>0, <2>1, <2>2, <2>3 DEF ConvInv
<1>3. CASE Upload
  <2>1. /\ of = "effect" /\ encoded # Nothing /\ encoded' = [encoded EXCEPT !.id = 1]
        /\ of' = of /\ original' = original /\ decoded' = decoded
    BY <1>3 DEF Upload
  <2>2. PICK n \in Nat : encoded = WithId(original, n) BY <2>1 DEF ConvInv
  <2>3. encoded' = WithId(original, 1) BY <2>1, <2>2 DEF WithId, ToEffect
  <2> QED BY <2>1, <2>3 DEF ConvInv
<1>4. CASE Decode
  <2>0. encoded # Nothing /\ of' = of /\ original' = original /\ encoded' = encoded
    BY <1>4 DEF Decode
  <2>1. CASE of = "time"
    <3>1. decoded' = [time |-> TimevalToSystime(encoded)] BY <1>4, <2>1 DEF Decode
    <3> QED BY <2>0, <2>1, <3>1 DEF ConvInv
  <2>2. CASE of = "effect"
    <3>1. decoded' = FromEffect(encoded) BY <1>4, <2>2 DEF Decode
    <3> QED BY <2>0, <2>2, <3>1 DEF ConvInv
  <2>3. CASE of = "event"
    <3>1. encoded = EventSummary(original) /\ original \in Events BY <2>0, <2>3 DEF ConvInv
    <3>2. encoded # Unreachable BY <3>1, EventComesBack
    <3>3. decoded' = Rebuilt(encoded) BY <1>4, <2>3, <3>2 DEF Decode
    <3> QED BY <2>0, <2>3, <3>1, <3>3 DEF ConvInv
  <2> QED BY <2>0, <2>1, <2>2, <2>3 DEF ConvInv
<1>5. CASE Again BY <1>5 DEF Again, ConvInv
<1> QED BY <1>1, <1>2, <1>3, <1>4, <1>5, PartStep DEF ConvNext

LEMMA ConversionsComeBack == ConvInv => TimeRoundTrip /\ EffectRoundTrip /\ EventRoundTrip
<1> SUFFICES ASSUME ConvInv PROVE TimeRoundTrip /\ EffectRoundTrip /\ EventRoundTrip
  OBVIOUS
<1>1. TimeRoundTrip
  <2> SUFFICES ASSUME of = "time", decoded # Nothing PROVE TimeRoundTrip
    BY DEF TimeRoundTrip, Done
  <2> DEFINE t == original.time
             returned == TimevalToSystime(SystimeToTimeval(t))
  <2>1. t \in Times /\ decoded = [time |-> returned] BY DEF ConvInv
  <2> HIDE DEF t, returned
  <2>2. decoded.time = returned BY <2>1
  <2>3. LET truncated == (Magnitude(t) \div NanosPerMicro) * NanosPerMicro
        IN  IF t >= 0 THEN returned = truncated ELSE returned \in {truncated, - truncated, OutOfRange}
    BY <2>1, TimeComesBack DEF returned
  <2> QED BY <2>2, <2>3 DEF TimeRoundTrip, t
<1>2. EffectRoundTrip
  <2> SUFFICES ASSUME of = "effect", decoded # Nothing PROVE decoded = original
    BY DEF EffectRoundTrip, Done
  <2>1. original \in FFEffectData BY ConversionsAssumption DEF ConvInv
  <2>2. PICK n \in Nat : decoded = FromEffect(WithId(original, n)) BY DEF ConvInv
  <2> QED BY <2>1, <2>2, EffectComesBack
<1>3. EventRoundTrip
  <2> SUFFICES ASSUME of = "event", decoded # Nothing PROVE EventRoundTrip
    BY DEF EventRoundTrip, Done
  <2>1. original \in Events /\ encoded = EventSummary(original) /\ decoded = Rebuilt(encoded)
    BY DEF ConvInv
  <2>2. /\ Rebuilt(encoded) = [original EXCEPT !.time = 0] /\ encoded.event = original
        /\ encoded.variant = "Other" <=> \A n \in DOMAIN Newtype : NewtypeCode(n) # original.type_
    BY <2>1, EventComesBack
  <2> QED BY <2>1, <2>2 DEF EventRoundTrip
<1> QED BY <1>1, <1>2, <1>3

-----------------------------------------------------------------------------
(* The theorems *)

IInv == SettingsInv /\ WalkInv /\ SetupInv /\ SetInv /\ ConvInv

LEMMA Inductive == Spec => []IInv
<1>1. Init => IInv
  BY SettingsBegin, WalkBegin, SetupBegin, SetBegin, ConvBegin DEF IInv
<1>2. IInv /\ [Next]_vars => IInv'
  BY SettingsStep, WalkStep, SetupStep, SetStep, ConvStep DEF IInv
<1> QED BY <1>1, <1>2, PTL DEF Spec

\* Sets and builders stay well typed, walks and settings while they are in use.
THEOREM TypeCorrect == Spec => []TypeOK
<1>1. IInv => TypeOK
  BY DEF IInv, SettingsInv, WalkInv, SetupInv, SetInv, TypeOK
<1> QED BY <1>1, Inductive, PTL

\* Whichever ends of whichever set an iterator is asked for, it yields the
\* members from its start on, ascending from the front, descending from the
\* back, each once (SliceIter, AttributeSetRefIter): for every T::COUNT.
THEOREM IteratorsYieldTheSet == Spec => []SetIterates
<1>1. IInv => SetIterates BY SetYields DEF IInv
<1> QED BY <1>1, Inductive, PTL

\* A walk of a directory returns no node twice and misses none that was there
\* all the time and can be opened, whatever came and went
\* (EnumerateDevices::next, DevNodes::next_entry): for every directory.
THEOREM WalksAreComplete == Spec => []WalkIsComplete
<1>1. IInv => WalkIsComplete BY DEF IInv, WalkInv, WalkIsComplete, Returned
<1> QED BY <1>1, Inductive, PTL

\* A device opened by its node has what its builder was told, as the kernel
\* registers it (VirtualDeviceBuilder, RawDevice::from_fd, the getters): for any
\* order of any number of calls.
THEOREM OpensWhatWasBuilt == Spec => []OpenedIsBuilt
<1>1. IInv => OpenedIsBuilt BY SetupReadsBack DEF IInv
<1> QED BY <1>1, Inductive, PTL

\* A time comes back but for the part below a microsecond; one before the epoch
\* so, or mirrored, or out of range (systime_to_timeval, timeval_to_systime):
\* for every width of the seconds and every division of them.
THEOREM TimesComeBack == Spec => []TimeRoundTrip
<1>1. IInv => TimeRoundTrip BY ConversionsComeBack DEF IInv
<1> QED BY <1>1, Inductive, PTL

\* An effect comes back from the kernel as it went there (ff.rs): for every
\* effect there is.
THEOREM EffectsComeBack == Spec => []EffectRoundTrip
<1>1. IInv => EffectRoundTrip BY ConversionsComeBack DEF IInv
<1> QED BY <1>1, Inductive, PTL

\* An event is taken by a newtype that accepts it, or by none that would, and is
\* made again from its summary (EventSummary::from and the newtypes): for every
\* type, code and value.
THEOREM EventsComeBack == Spec => []EventRoundTrip
<1>1. IInv => EventRoundTrip BY ConversionsComeBack DEF IInv
<1> QED BY <1>1, Inductive, PTL

=============================================================================
