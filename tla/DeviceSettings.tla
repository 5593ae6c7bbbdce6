------------------------------ MODULE DeviceSettings ------------------------------
(***************************************************************************)
(* What a RawDevice keeps of the kernel's settings since it was opened:    *)
(* the autorepeat delays, which it can write, and the supported keys,      *)
(* which follow the keymap.  Several handles write both, and none learns   *)
(* what another has written.  The kernel (external) takes the delays as    *)
(* signed numbers and ignores negative ones, and keeps the set of keys in  *)
(* step with its keymap.                                                   *)
(***************************************************************************)
EXTENDS Integers

CONSTANTS
    Clients,   \* handles
    Delays,    \* delays callers ask for
    MaxDelay,  \* the largest the kernel takes (2^31 - 1)
    Keys,      \* keycodes
    Indices    \* entries of the keymap

ASSUME SettingsAssumption == Delays \subseteq Nat /\ MaxDelay \in Nat /\ 0 \notin Keys

VARIABLES
    hasRepeat,   \* EV_REP: the device repeats keys
    rep,         \* the kernel's delay and period
    keymap,      \* the kernel's keycode of each index
    auto_repeat, supported_keys  \* of each handle, or Unopened

settingVars == <<hasRepeat, rep, keymap, auto_repeat, supported_keys>>

Repeat == [delay : Delays, period : Delays]
NoRepeat == [delay |-> -1, period |-> -1]
Unopened == {-1}

KeyBits == {keymap[i] : i \in Indices}
CurrentRepeat == IF hasRepeat THEN rep ELSE NoRepeat

SettingsTypeOK ==
    /\ hasRepeat \in BOOLEAN /\ rep \in Repeat /\ keymap \in [Indices -> Keys]
    /\ auto_repeat \in [Clients -> Repeat \cup {NoRepeat}]
    /\ \A c \in Clients : supported_keys[c] = Unopened \/ supported_keys[c] \subseteq Keys

SettingsInit ==
    /\ hasRepeat \in BOOLEAN
    /\ rep \in {r \in Repeat : r.delay = r.period /\ r.delay <= MaxDelay}
    /\ keymap \in [Indices -> Keys]
    /\ auto_repeat = [c \in Clients |-> NoRepeat]
    /\ supported_keys = [c \in Clients |-> Unopened]

IsOpened(c) == supported_keys[c] # Unopened

\* from_fd, EVIOCGBIT for keys and EVIOCGREP.
OpenClient(c) ==
    /\ ~ IsOpened(c)
    /\ supported_keys' = [supported_keys EXCEPT ![c] = KeyBits]
    /\ auto_repeat' = [auto_repeat EXCEPT ![c] = CurrentRepeat]
    /\ UNCHANGED <<hasRepeat, rep, keymap>>

DropClient(c) ==
    /\ IsOpened(c)
    /\ supported_keys' = [supported_keys EXCEPT ![c] = Unopened]
    /\ auto_repeat' = [auto_repeat EXCEPT ![c] = NoRepeat]
    /\ UNCHANGED <<hasRepeat, rep, keymap>>

Accepted(new, old) == IF new <= MaxDelay THEN new ELSE old

\* The ioctl fails with ENOSYS without EV_REP; otherwise it succeeds, also
\* when the kernel ignores a value, and the copy is what was asked for.
UpdateAutoRepeat(c, r) ==
    /\ IsOpened(c) /\ hasRepeat
    /\ rep' = [delay |-> Accepted(r.delay, rep.delay),
               period |-> Accepted(r.period, rep.period)]
    /\ auto_repeat' = [auto_repeat EXCEPT ![c] = r]
    /\ UNCHANGED <<hasRepeat, keymap, supported_keys>>

\* update_scancode_by_index, and update_scancode, whose scancode is the index
\* if it is of 1, 2 or 4 bytes (else EINVAL).  No handle learns of it.
UpdateScancode(c, i, k) ==
    /\ IsOpened(c)
    /\ keymap' = [keymap EXCEPT ![i] = k]
    /\ UNCHANGED <<hasRepeat, rep, auto_repeat, supported_keys>>

SettingsNext ==
    \E c \in Clients :
        \/ OpenClient(c) \/ DropClient(c)
        \/ \E r \in Repeat : UpdateAutoRepeat(c, r)
        \/ \E i \in Indices, k \in Keys : UpdateScancode(c, i, k)

=============================================================================
