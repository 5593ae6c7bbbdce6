------------------------------- MODULE MCLibrary -------------------------------
EXTENDS Library

MCCodes == 0 .. 9

MCDelays == {0, 1, 5}
MCKeys == {1, 2, 3}
MCIndices == 0 .. 1

MCSetupCodes == 0 .. 2
MCCodeSets == {{0}, {1, 2}}
MCNames == {5, 78, 79}
MCPhysPaths == {0, 255, 256}
MCMaxEffects == {1, 97}

MCEventValues == {0, 6, 31}

MCEnvelope == [attack_length |-> 1, attack_level |-> 2, fade_length |-> 3, fade_level |-> 4]
MCCondition(n) ==
    [right_saturation |-> n, left_saturation |-> n + 1, right_coefficient |-> n + 2,
     left_coefficient |-> n + 3, deadband |-> n + 4, center |-> n + 5]
MCKinds ==
    {[kind |-> "Constant", level |-> 5, envelope |-> MCEnvelope],
     [kind |-> "Ramp", start_level |-> 5, end_level |-> 6, envelope |-> MCEnvelope],
     [kind |-> "Rumble", strong_magnitude |-> 5, weak_magnitude |-> 6]}
    \cup {[kind |-> "Periodic", waveform |-> w, period |-> 5, magnitude |-> 6, offset |-> 7,
           phase |-> 8, envelope |-> MCEnvelope] : w \in DOMAIN WaveformCode}
    \cup {[kind |-> k, condition |-> <<MCCondition(1), MCCondition(11)>>] : k \in ConditionKinds}
MCEffects ==
    {[direction |-> 1, trigger |-> [button |-> 2, interval |-> 3],
      replay |-> [length |-> 4, delay |-> 5], kind |-> k] : k \in MCKinds}

=============================================================================
