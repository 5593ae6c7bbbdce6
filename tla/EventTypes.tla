------------------------------- MODULE EventTypes -------------------------------
(***************************************************************************)
(* Input events and the newtypes made of them: a match on the event's type *)
(* chooses the newtype, whose constructor checks the type again, and the   *)
(* newtype's destructure gives the variant of EventSummary.                *)
(***************************************************************************)
EXTENDS Integers

\* EventType; a code without a name is OTHER to the match.
TypeCode ==
    [SYNCHRONIZATION |-> 0, KEY |-> 1, RELATIVE |-> 2, ABSOLUTE |-> 3, MISC |-> 4,
     SWITCH |-> 5, LED |-> 17, SOUND |-> 18, REPEAT |-> 20, FORCEFEEDBACK |-> 21,
     POWER |-> 22, FORCEFEEDBACKSTATUS |-> 23, UINPUT |-> 257]

Unreachable == [unreachable |-> TRUE]

\* InputEvent::new.
NewEvent(t, c, v) == [time |-> 0, type_ |-> t, code |-> c, value |-> v]

-----------------------------------------------------------------------------
(* The newtypes, each with its type and its variant of EventSummary *)

Newtype ==
    [SynchronizationEvent |-> <<"SYNCHRONIZATION", "Synchronization">>,
     KeyEvent |-> <<"KEY", "Key">>, RelativeAxisEvent |-> <<"RELATIVE", "RelativeAxis">>,
     AbsoluteAxisEvent |-> <<"ABSOLUTE", "AbsoluteAxis">>, MiscEvent |-> <<"MISC", "Misc">>,
     SwitchEvent |-> <<"SWITCH", "Switch">>, LedEvent |-> <<"LED", "Led">>,
     SoundEvent |-> <<"SOUND", "Sound">>, RepeatEvent |-> <<"REPEAT", "Repeat">>,
     FFEvent |-> <<"FORCEFEEDBACK", "ForceFeedback">>, PowerEvent |-> <<"POWER", "Power">>,
     FFStatusEvent |-> <<"FORCEFEEDBACKSTATUS", "ForceFeedbackStatus">>,
     UInputEvent |-> <<"UINPUT", "UInput">>]

NewtypeCode(n) == TypeCode[Newtype[n][1]]

\* new, with the code of the newtype's kind.
NewOf(n, c, v) == NewEvent(NewtypeCode(n), c, v)

\* from_event, then destructure and the conversion to EventSummary.
Summary(n, e) ==
    IF e.type_ # NewtypeCode(n) THEN Unreachable
    ELSE [variant |-> Newtype[n][2], newtype |-> n, event |-> e, kind |-> e.code, value |-> e.value]

\* OtherEvent keeps the type in its kind.
OtherSummary(e) ==
    [variant |-> "Other", newtype |-> "OtherEvent", event |-> e,
     kind |-> <<e.type_, e.code>>, value |-> e.value]

-----------------------------------------------------------------------------
DispatchStatus ==
    [t \in DOMAIN TypeCode |-> CASE t = "FORCEFEEDBACK" -> "FFStatusEvent"
                               [] OTHER -> CHOOSE n \in DOMAIN Newtype : Newtype[n][1] = t]

\* From<InputEvent> for EventSummary: the newtype each type is given to.
Dispatch ==
    [SYNCHRONIZATION |-> "SynchronizationEvent", KEY |-> "KeyEvent",
     RELATIVE |-> "RelativeAxisEvent", ABSOLUTE |-> "AbsoluteAxisEvent", MISC |-> "MiscEvent",
     SWITCH |-> "SwitchEvent", LED |-> "LedEvent", SOUND |-> "SoundEvent",
     REPEAT |-> "RepeatEvent", FORCEFEEDBACK |-> "FFEvent", POWER |-> "PowerEvent",
     FORCEFEEDBACKSTATUS |-> "FFStatusEvent", UINPUT |-> "UInputEvent"]

EventSummary(e) ==
    LET types == {t \in DOMAIN Dispatch : TypeCode[t] = e.type_}
    IN  IF types = {} THEN OtherSummary(e)
        ELSE Summary(Dispatch[CHOOSE t \in types : TRUE], e)

\* Building an event again from what a summary says of it.
Rebuilt(s) ==
    IF s.variant = "Other" THEN NewEvent(s.kind[1], s.kind[2], s.value)
    ELSE NewOf(s.newtype, s.kind, s.value)

=============================================================================
