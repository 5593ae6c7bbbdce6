----------------------------- MODULE MCSyncDevice -----------------------------
(* Values of SyncDevice's constants for TLC. *)
EXTENDS SyncDevice

MCOne == {0}
MCTwo == {0, 1}

MCAxis == [c \in MCOne |-> "ABSOLUTE"]
MCKey == [c \in MCOne |-> "KEY"]
MCAxes == [c \in MCTwo |-> "ABSOLUTE"]
MCKeyAxis == [c \in MCTwo |-> IF c = 0 THEN "KEY" ELSE "ABSOLUTE"]
MCPositions == {0, 1}
=============================================================================
