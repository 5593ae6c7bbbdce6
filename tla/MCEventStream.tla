----------------------------- MODULE MCEventStream -----------------------------
(* Values of EventStream's constants for TLC. *)
EXTENDS EventStream

MCOne == {0}
MCTwo == {0, 1}

MCAxis == [c \in MCOne |-> "ABSOLUTE"]
MCAxisLed == [c \in MCTwo |-> IF c = 0 THEN "ABSOLUTE" ELSE "LED"]
MCPositions == {0, 1}
=============================================================================
