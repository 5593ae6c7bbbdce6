------------------------------ MODULE Conversions ------------------------------
(***************************************************************************)
(* The crate's pure conversions, there and back: what a caller has is      *)
(* converted to the kernel's form and what the kernel hands back is        *)
(* converted again.                                                        *)
(***************************************************************************)
EXTENDS Clock, EffectData, EventTypes

CONSTANTS
    Effects,    \* FFEffectData values
    EventValues \* numbers for types and codes that no table has, and values

ASSUME ConversionsAssumption == EventValues \subseteq Nat /\ Effects \subseteq FFEffectData

VARIABLES
    of,       \* what is converted: "time", "effect" or "event"
    original, encoded, decoded

convVars == <<of, original, encoded, decoded>>

Nothing == [nothing |-> TRUE]

\* Event types: those of the table and some others.
SomeTypes == {TypeCode[t] : t \in DOMAIN TypeCode} \cup EventValues

Events == [time : {0, 1}, type_ : SomeTypes, code : EventValues, value : EventValues]

Originals ==
    {[of |-> "time", value |-> [time |-> t]] : t \in Times}
    \cup {[of |-> "effect", value |-> e] : e \in Effects}
    \cup {[of |-> "event", value |-> e] : e \in Events}

ConvInit ==
    /\ \E o \in Originals : of = o.of /\ original = o.value
    /\ encoded = Nothing /\ decoded = Nothing

\* systime_to_timeval, ff_effect::from, destructure.
Encode ==
    /\ encoded = Nothing
    /\ encoded' = CASE of = "time" -> SystimeToTimeval(original.time)
                    [] of = "effect" -> ToEffect(original)
                    [] of = "event" -> EventSummary(original)
    /\ UNCHANGED <<of, original, decoded>>

\* The kernel gives an effect its identifier.
Upload ==
    /\ of = "effect" /\ encoded # Nothing /\ encoded.id = 0
    /\ encoded' = [encoded EXCEPT !.id = 1]
    /\ UNCHANGED <<of, original, decoded>>

\* timeval_to_systime, FFEffectData::from, and an event made anew.
Decode ==
    /\ encoded # Nothing /\ decoded = Nothing
    /\ decoded' = CASE of = "time" -> [time |-> TimevalToSystime(encoded)]
                    [] of = "effect" -> FromEffect(encoded)
                    [] of = "event" -> IF encoded = Unreachable THEN Unreachable
                                       ELSE Rebuilt(encoded)
    /\ UNCHANGED <<of, original, encoded>>

Again ==
    /\ decoded # Nothing
    /\ encoded' = Nothing /\ decoded' = Nothing
    /\ UNCHANGED <<of, original>>

ConvNext == Encode \/ Upload \/ Decode \/ Again

Done(what) == of = what /\ decoded # Nothing

-----------------------------------------------------------------------------
\* A time from the epoch on comes back without what is below a microsecond.
\* One before it comes back so, or is mirrored to after the epoch (the
\* microseconds have lost its sign), or is out of range (the seconds have
\* become unsigned): never is any other time made of it
\* (systime_to_timeval in new_now, timeval_to_systime in timestamp).
TimeRoundTrip ==
    Done("time") =>
      LET truncated == (Magnitude(original.time) \div NanosPerMicro) * NanosPerMicro
      IN  IF original.time >= 0 THEN decoded.time = truncated
          ELSE decoded.time \in {truncated, - truncated, OutOfRange}

\* An effect that went to the kernel and came back, with the identifier the
\* kernel gave it, is the effect: the union is read by the variant it was
\* written by and no field changes place (ff.rs, all conversions).
EffectRoundTrip == Done("effect") => decoded = original

\* Every event has a summary (no newtype refuses what the match gives it) that
\* holds the event itself, is Other just for the types no newtype has, and
\* says enough to make the event again but for its time (EventSummary::from,
\* the newtypes' from_event, destructure and new).
EventRoundTrip ==
    Done("event") =>
        /\ decoded = [original EXCEPT !.time = 0]
        /\ encoded.event = original
        /\ encoded.variant = "Other" <=> \A n \in DOMAIN Newtype : NewtypeCode(n) # original.type_

=============================================================================
