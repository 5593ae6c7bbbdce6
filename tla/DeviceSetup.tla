------------------------------ MODULE DeviceSetup ------------------------------
(***************************************************************************)
(* A virtual device from its builder, through uinput (external), to the    *)
(* handle that opens its event node and reads back what it is.  Every      *)
(* builder method consumes the builder: one that fails loses it.  Strings  *)
(* are their lengths, code sets are sets of small numbers.                 *)
(***************************************************************************)
EXTENDS Integers, FiniteSets

CONSTANTS
    SetupCodes, \* codes of every type, 0 .. a maximum
    CodeSets,  \* sets of them callers pass
    SwitchMax, \* SW_MAX: smaller, the array of a switch set has spare bits
    Names,     \* lengths of names
    PhysPaths, \* lengths of physical paths
    MaxEffects,\* values for ff_effects_max
    MaxCalls   \* bound: calls of a builder

ASSUME SetupAssumption ==
    /\ SetupCodes \subseteq Nat /\ CodeSets \subseteq SUBSET SetupCodes /\ SwitchMax \in Nat
    /\ Names \cup PhysPaths \cup MaxEffects \subseteq Nat /\ MaxCalls \in Nat

VARIABLES
    stage,   \* of the device: builder, failed, panicked, built, gone, opened
    builder, \* name, id, ff_effects_max of VirtualDeviceBuilder
    udev,    \* bits, properties and path collected by uinput
    device,  \* the kernel's input device
    handle,  \* the Device opened on it
    asked,   \* history: the sets the methods were called with
    calls

setupVars == <<stage, builder, udev, device, handle, asked, calls>>

Types == {"key", "rel", "abs", "sw", "msc", "ff"}
NoSet == {-1}
NoString == -1
Nobody == [ty |-> {}]

Reserved == 0            \* KEY_RESERVED, cleared when a device registers
Rumble == 0              \* FF_RUMBLE, which the kernel makes
Periodic == 1            \* of FF_PERIODIC
NameSize == 80           \* UINPUT_MAX_NAME_SIZE
BufSize == 256           \* of ioctl_get_cstring
FFMaxEffects == 96

SetupTypeOK ==
    /\ stage \in {"builder", "failed", "panicked", "built", "gone", "opened"}
    /\ builder \in [name : Names \cup {0}, id : {"default", "custom"},
                    ff_effects_max : MaxEffects \cup {0}]
    /\ udev.evbit \subseteq Types /\ udev.bits \in [Types -> SUBSET SetupCodes]
    /\ udev.phys \in PhysPaths \cup {NoString} /\ udev.props \subseteq SetupCodes
    /\ calls \in 0 .. MaxCalls
    /\ stage = "opened" <=> handle # Nobody

SetupInit ==
    /\ stage = "builder" /\ calls = 0
    /\ builder = [name |-> 0, id |-> "default", ff_effects_max |-> 0]
    /\ udev = [evbit |-> {}, bits |-> [t \in Types |-> {}], props |-> {}, phys |-> NoString]
    /\ device = Nobody /\ handle = Nobody
    /\ asked = [types |-> {}, codes |-> [t \in Types |-> {}], props |-> {}]

-----------------------------------------------------------------------------
(* The builder's methods *)

Call ==
    /\ stage = "builder" /\ calls < MaxCalls
    /\ calls' = calls + 1
    /\ UNCHANGED <<device, handle>>

Name(n) ==
    /\ Call /\ builder' = [builder EXCEPT !.name = n]
    /\ UNCHANGED <<stage, udev, asked>>

InputId ==
    /\ Call /\ builder' = [builder EXCEPT !.id = "custom"]
    /\ UNCHANGED <<stage, udev, asked>>

WithFFEffectsMax(n) ==
    /\ Call /\ builder' = [builder EXCEPT !.ff_effects_max = n]
    /\ UNCHANGED <<stage, udev, asked>>

WithPhys(n) ==
    /\ Call /\ udev' = [udev EXCEPT !.phys = n]
    /\ UNCHANGED <<stage, builder, asked>>

WithProperties(S) ==
    /\ Call /\ udev' = [udev EXCEPT !.props = @ \cup S]
    /\ asked' = [asked EXCEPT !.props = @ \cup S]
    /\ UNCHANGED <<stage, builder>>

\* UI_SET_EVBIT.
EvBitButMsc(t) == {t} \ {"msc"}
EvBit(t) == {t}

\* The type, then each code; the kernel refuses a code beyond the type's
\* largest, and the error drops the builder.
WithCodes(t, S) ==
    /\ Call
    /\ IF t = "sw" /\ \E c \in S : c > SwitchMax
         THEN stage' = "failed" /\ UNCHANGED udev
         ELSE /\ udev' = [udev EXCEPT !.evbit = @ \cup EvBit(t), !.bits[t] = @ \cup S]
              /\ UNCHANGED stage
    /\ asked' = [asked EXCEPT !.types = @ \cup {t}, !.codes[t] = @ \cup S]
    /\ UNCHANGED builder

WithKeys(S) == WithCodes("key", S)
WithRelativeAxes(S) == WithCodes("rel", S)
WithSwitches(S) == WithCodes("sw", S)
WithFF(S) == WithCodes("ff", S)
WithMsc(S) == WithCodes("msc", S)
WithAbsoluteAxis(c) == WithCodes("abs", {c})

\* A signal interrupts an ioctl, or the kernel refuses an axis's limits.
MethodFails ==
    /\ Call /\ stage' = "failed"
    /\ UNCHANGED <<builder, udev, asked>>

-----------------------------------------------------------------------------
(* Creating the device *)

SetupAccepted ==
    /\ builder.name # 0
    /\ builder.ff_effects_max <= FFMaxEffects
    /\ "ff" \in udev.evbit => builder.ff_effects_max # 0

\* What registers: the kernel drops KEY_RESERVED and the codes of types that
\* are not set, and adds what it can emulate.
Registered ==
    LET ty == udev.evbit \cup IF builder.ff_effects_max > 0 THEN {"ff"} ELSE {}
    IN  [ty |-> ty,
         codes |-> [t \in Types |->
            IF t \notin ty THEN {}
            ELSE CASE t = "key" -> udev.bits[t] \ {Reserved}
                   [] t = "ff" /\ Periodic \in udev.bits[t] -> udev.bits[t] \cup {Rumble}
                   [] OTHER -> udev.bits[t]],
         name |-> builder.name, phys |-> udev.phys, id |-> builder.id,
         props |-> udev.props, ff_effects |-> builder.ff_effects_max]

\* build and VirtualDevice::new: the assertion on the name, UI_DEV_SETUP and
\* UI_DEV_CREATE.
Build ==
    /\ stage = "builder"
    /\ \/ builder.name + 1 >= NameSize /\ stage' = "panicked" /\ UNCHANGED device
       \/ builder.name + 1 < NameSize /\ ~ SetupAccepted
            /\ stage' = "failed" /\ UNCHANGED device
       \/ builder.name + 1 < NameSize /\ SetupAccepted
            /\ stage' = "built" /\ device' = Registered
    /\ UNCHANGED <<builder, udev, handle, asked, calls>>

\* The VirtualDevice is dropped before its node is opened.
Unregister ==
    /\ stage = "built" /\ stage' = "gone"
    /\ UNCHANGED <<builder, udev, device, handle, asked, calls>>

-----------------------------------------------------------------------------
(* Opening it *)

\* ioctl_get_cstring: the kernel writes the string and its terminator, or as
\* much as fits.
CstringPanics(n) == n + 1 > BufSize
Cstring(n) == IF n < 1 THEN NoString ELSE n

FromFd ==
    [ty |-> device.ty, name |-> Cstring(device.name), phys |-> Cstring(device.phys),
     uniq |-> NoString, id |-> device.id, props |-> device.props,
     supported |-> [t \in Types |-> IF t \in device.ty THEN device.codes[t] ELSE NoSet],
     max_ff_effects |-> IF "ff" \in device.ty THEN device.ff_effects ELSE 0]

\* DeviceState::new: which parts of the state there are.
CachedParts(raw) == raw.ty \cap {"key", "abs", "sw", "led"}

FromRawDevice(raw) == [raw |-> raw, ty |-> raw.ty, state |-> CachedParts(raw)]

\* open, for reading and writing or, refused, for reading: from_fd is the same.
Open ==
    /\ stage = "built"
    /\ IF CstringPanics(device.phys)
         THEN stage' = "panicked" /\ UNCHANGED handle
         ELSE stage' = "opened" /\ handle' = FromRawDevice(FromFd)
    /\ UNCHANGED <<builder, udev, device, asked, calls>>

\* The getters of RawDevice, and Device's, which pass them on.
Getters(raw) ==
    [name |-> raw.name, physical_path |-> raw.phys, unique_name |-> raw.uniq,
     input_id |-> raw.id, properties |-> raw.props, supported_events |-> raw.ty,
     supported |-> raw.supported, max_ff_effects |-> raw.max_ff_effects]
Forwarded(dev) == Getters(dev.raw)

SetupNext ==
    \/ \E n \in Names : Name(n)
    \/ \E n \in PhysPaths : WithPhys(n)
    \/ \E n \in MaxEffects : WithFFEffectsMax(n)
    \/ \E c \in SetupCodes : WithAbsoluteAxis(c)
    \/ \E S \in CodeSets : \/ WithKeys(S) \/ WithRelativeAxes(S) \/ WithSwitches(S)
                           \/ WithFF(S) \/ WithMsc(S) \/ WithProperties(S)
    \/ InputId \/ MethodFails \/ Build \/ Unregister \/ Open

-----------------------------------------------------------------------------
\* What is opened is what was built: a device that got through the builder
\* and the kernel reports every type, code, property, name and path that was
\* asked for and nothing else, but for the reserved key and emulated rumble;
\* the cached state has a part for exactly the types with one (the with_*
\* methods, build, from_fd, the getters, DeviceState::new).
OpenedIsBuilt ==
    stage = "opened" =>
      LET r == Forwarded(handle)
          types == asked.types \cup IF builder.ff_effects_max > 0 THEN {"ff"} ELSE {}
      IN  /\ \A t \in Types :
               IF t \in types
                 THEN /\ asked.codes[t] \ {Reserved} \subseteq r.supported[t]
                      /\ r.supported[t] \subseteq asked.codes[t] \cup {Rumble}
                      /\ t # "ff" => r.supported[t] \subseteq asked.codes[t]
                 ELSE r.supported[t] = NoSet
          /\ r.name = builder.name /\ r.input_id = builder.id
          /\ r.physical_path = IF udev.phys = 0 THEN NoString ELSE udev.phys
          /\ r.properties = asked.props
          /\ r.max_ff_effects = builder.ff_effects_max
          /\ handle.state = types \cap {"key", "abs", "sw"}

=============================================================================
