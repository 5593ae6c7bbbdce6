----------------------------- MODULE InputEvents -----------------------------
(***************************************************************************)
(* The data shared by every module about input devices: the stateful       *)
(* controls of a device, the values they take and the events that report   *)
(* them.  A control stands for an (event type, code) pair; only the four   *)
(* types DeviceState has a field for are modelled, because events of the   *)
(* other types are passed on without being looked at.                      *)
(***************************************************************************)
EXTENDS Integers

CONSTANTS
    Control,    \* the controls the device supports, numbered in ascending
                \* order of (type, code) as SyncState walks them
    TypeOf,     \* the event type of each control
    AxisValue   \* the positions of an absolute axis

BitsType == {"KEY", "SWITCH", "LED"}
ControlType == BitsType \cup {"ABSOLUTE"}

\* SyncState visits keys, then axes, then switches, then LEDs.
Rank == [t \in ControlType |->
           CASE t = "KEY" -> 1 [] t = "ABSOLUTE" -> 2
             [] t = "SWITCH" -> 3 [] t = "LED" -> 4]

ASSUME ControlAssumption ==
    /\ Control \subseteq Nat
    /\ TypeOf \in [Control -> ControlType]
    /\ \A c, d \in Control : c < d => Rank[TypeOf[c]] <= Rank[TypeOf[d]]

ASSUME AxisValueAssumption == AxisValue \subseteq Int /\ 0 \in AxisValue

\* What DeviceState holds for a control: a bit of an AttributeSet, or the
\* value field of an input_absinfo.
Level(c) == IF TypeOf[c] = "ABSOLUTE" THEN AxisValue ELSE {0, 1}

Levels == {s \in [Control -> Int] : \A c \in Control : s[c] \in Level(c)}

\* DeviceState::new: empty attribute sets and ABS_VALS_INIT.
EmptyLevels == [c \in Control |-> 0]

\* What an event may carry: a key also reports autorepeat with value 2.
Raw(c) == IF TypeOf[c] = "KEY" THEN {0, 1, 2} ELSE Level(c)

StoredRaw(c, v) == v

\* The value process_event stores: keys.set(code, value != 0), or the position.
Stored(c, v) == IF TypeOf[c] = "KEY" /\ v # 0 THEN 1 ELSE v

\* The event types process_event has an arm for.
Tracked(c) == TypeOf[c] \in {"KEY", "ABSOLUTE"}

-----------------------------------------------------------------------------
NoControl == -1

\* n is a serial number the code does not have: it names the event in
\* properties and gives the set of queued events its order.
Event == {e \in [n : Nat, kind : {"input", "SYN_REPORT", "SYN_DROPPED"},
                 ctl : Int, val : Int] :
            e.kind = "input" => e.ctl \in Control /\ e.val \in Raw(e.ctl)}

Input(n, c, v) == [n |-> n, kind |-> "input", ctl |-> c, val |-> v]
Report(n)  == [n |-> n, kind |-> "SYN_REPORT", ctl |-> NoControl, val |-> 0]
Dropped(n) == [n |-> n, kind |-> "SYN_DROPPED", ctl |-> NoControl, val |-> 0]

On(e, c) == e.kind = "input" /\ e.ctl = c

\* What a reader of the event stream that tracks every control does with an
\* event: the whole of what an application builds on the stream.
Fold(levels, e) ==
    IF e.kind = "input" THEN [levels EXCEPT ![e.ctl] = Stored(e.ctl, e.val)]
                        ELSE levels

=============================================================================
