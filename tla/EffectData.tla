------------------------------- MODULE EffectData -------------------------------
(***************************************************************************)
(* FFEffectData and the kernel's struct ff_effect: a type code and a union *)
(* in which only the variant last written may be read.  Numbers pass       *)
(* through unchanged, so a few values stand for all.                       *)
(***************************************************************************)
EXTENDS Integers

Panic == [panic |-> TRUE]      \* unreachable!()
Garbage == [garbage |-> TRUE]  \* bytes of another variant

\* FFEffectCode.
EffectCode ==
    [FF_RUMBLE |-> 80, FF_PERIODIC |-> 81, FF_CONSTANT |-> 82, FF_SPRING |-> 83,
     FF_FRICTION |-> 84, FF_DAMPER |-> 85, FF_INERTIA |-> 86, FF_RAMP |-> 87,
     FF_SQUARE |-> 88, FF_TRIANGLE |-> 89, FF_SINE |-> 90, FF_SAW_UP |-> 91,
     FF_SAW_DOWN |-> 92, FF_CUSTOM |-> 93]

-----------------------------------------------------------------------------
(* The types *)

FFEnvelope == [attack_length : Int, attack_level : Int, fade_length : Int, fade_level : Int]
FFCondition == [right_saturation : Int, left_saturation : Int, right_coefficient : Int,
                left_coefficient : Int, deadband : Int, center : Int]
FFWaveform == {"Square", "Triangle", "Sine", "SawUp", "SawDown"}
ConditionKinds == {"Spring", "Friction", "Damper", "Inertia"}

FFEffectKind ==
    [kind : {"Constant"}, level : Int, envelope : FFEnvelope]
    \cup [kind : {"Ramp"}, start_level : Int, end_level : Int, envelope : FFEnvelope]
    \cup [kind : {"Periodic"}, waveform : FFWaveform, period : Int, magnitude : Int,
          offset : Int, phase : Int, envelope : FFEnvelope]
    \cup [kind : ConditionKinds, condition : [1 .. 2 -> FFCondition]]
    \cup [kind : {"Rumble"}, strong_magnitude : Int, weak_magnitude : Int]

FFEffectData == [direction : Int, trigger : [button : Int, interval : Int],
                 replay : [length : Int, delay : Int], kind : FFEffectKind]

-----------------------------------------------------------------------------
(* From<FFEffectData> for ff_effect *)

\* The parts with the same field names on both sides.
Envelope(e) == [attack_length |-> e.attack_length, attack_level |-> e.attack_level,
                fade_length |-> e.fade_length, fade_level |-> e.fade_level]
Trigger(t) == [button |-> t.button, interval |-> t.interval]
Replay(r) == [length |-> r.length, delay |-> r.delay]

ToCondition(c) ==
    [right_saturation |-> c.right_saturation, left_saturation |-> c.left_saturation,
     right_coeff |-> c.right_coefficient, left_coeff |-> c.left_coefficient,
     deadband |-> c.deadband, center |-> c.center]

FromConditionSwapped(c) ==
    [right_saturation |-> c.right_saturation, left_saturation |-> c.left_saturation,
     right_coefficient |-> c.left_coeff, left_coefficient |-> c.right_coeff,
     deadband |-> c.deadband, center |-> c.center]

FromCondition(c) ==
    [right_saturation |-> c.right_saturation, left_saturation |-> c.left_saturation,
     right_coefficient |-> c.right_coeff, left_coefficient |-> c.left_coeff,
     deadband |-> c.deadband, center |-> c.center]

WaveformCode ==
    [Square |-> "FF_SQUARE", Triangle |-> "FF_TRIANGLE", Sine |-> "FF_SINE",
     SawUp |-> "FF_SAW_UP", SawDown |-> "FF_SAW_DOWN"]

KindCode ==
    [Damper |-> "FF_DAMPER", Inertia |-> "FF_INERTIA", Constant |-> "FF_CONSTANT",
     Ramp |-> "FF_RAMP", Periodic |-> "FF_PERIODIC", Spring |-> "FF_SPRING",
     Friction |-> "FF_FRICTION", Rumble |-> "FF_RUMBLE"]

Union(k) ==
    CASE k.kind = "Constant" ->
           [constant |-> [level |-> k.level, envelope |-> Envelope(k.envelope)]]
      [] k.kind = "Ramp" ->
           [ramp |-> [start_level |-> k.start_level, end_level |-> k.end_level,
                      envelope |-> Envelope(k.envelope)]]
      [] k.kind = "Periodic" ->
           [periodic |-> [waveform |-> EffectCode[WaveformCode[k.waveform]],
                          period |-> k.period, magnitude |-> k.magnitude,
                          offset |-> k.offset, phase |-> k.phase,
                          envelope |-> Envelope(k.envelope)]]
      [] k.kind \in ConditionKinds ->
           [condition |-> [i \in 1 .. 2 |-> ToCondition(k.condition[i])]]
      [] k.kind = "Rumble" ->
           [rumble |-> [strong_magnitude |-> k.strong_magnitude,
                        weak_magnitude |-> k.weak_magnitude]]

ToEffect(data) ==
    [type_ |-> EffectCode[KindCode[data.kind.kind]], id |-> 0,
     direction |-> data.direction, trigger |-> Trigger(data.trigger),
     replay |-> Replay(data.replay), u |-> Union(data.kind)]

-----------------------------------------------------------------------------
(* From<ff_effect> for FFEffectData *)

\* The arms of the match on a code that are taken for it: one or none.
Arms(table, code) == {table[n] : n \in {m \in DOMAIN table : EffectCode[m] = code}}

FromWaveform ==
    [FF_SQUARE |-> "Square", FF_TRIANGLE |-> "Triangle", FF_SINE |-> "Sine",
     FF_SAW_UP |-> "SawUp", FF_SAW_DOWN |-> "SawDown"]

\* The variant of the union each type reads and the kind it becomes.
FromType ==
    [FF_CONSTANT |-> <<"constant", "Constant">>, FF_RAMP |-> <<"ramp", "Ramp">>,
     FF_PERIODIC |-> <<"periodic", "Periodic">>, FF_SPRING |-> <<"condition", "Spring">>,
     FF_FRICTION |-> <<"condition", "Friction">>, FF_DAMPER |-> <<"condition", "Damper">>,
     FF_INERTIA |-> <<"condition", "Inertia">>, FF_RUMBLE |-> <<"rumble", "Rumble">>]

PeriodicKind(p) ==
    IF Arms(FromWaveform, p.waveform) = {} THEN Panic
    ELSE [kind |-> "Periodic",
          waveform |-> CHOOSE w \in Arms(FromWaveform, p.waveform) : TRUE,
          period |-> p.period, magnitude |-> p.magnitude, offset |-> p.offset,
          phase |-> p.phase, envelope |-> Envelope(p.envelope)]

KindFrom(kind, v) ==
    CASE kind = "Constant" -> [kind |-> kind, level |-> v.level, envelope |-> Envelope(v.envelope)]
      [] kind = "Ramp" -> [kind |-> kind, start_level |-> v.start_level,
                           end_level |-> v.end_level, envelope |-> Envelope(v.envelope)]
      [] kind = "Periodic" -> PeriodicKind(v)
      [] kind \in ConditionKinds ->
           [kind |-> kind, condition |-> [i \in 1 .. 2 |-> FromCondition(v[i])]]
      [] kind = "Rumble" -> [kind |-> kind, strong_magnitude |-> v.strong_magnitude,
                             weak_magnitude |-> v.weak_magnitude]

FromEffect(e) ==
    IF Arms(FromType, e.type_) = {} THEN Panic
    ELSE LET arm == CHOOSE a \in Arms(FromType, e.type_) : TRUE
             kind == IF arm[1] \in DOMAIN e.u THEN KindFrom(arm[2], e.u[arm[1]]) ELSE Garbage
         IN  IF kind \in {Panic, Garbage} THEN kind
             ELSE [direction |-> e.direction, trigger |-> Trigger(e.trigger),
                   replay |-> Replay(e.replay), kind |-> kind]

=============================================================================
