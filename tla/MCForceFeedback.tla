----------------------------- MODULE MCForceFeedback -----------------------------
(* Values of ForceFeedback's constants for TLC. *)
EXTENDS ForceFeedback

MCSlots == {0, 1}
=============================================================================
