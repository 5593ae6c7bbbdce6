------------------------------ MODULE MCRawStream ------------------------------
(* Values of RawStream's constants for TLC. *)
EXTENDS RawStream

MCBatches == {0, 1, 2}

-----------------------------------------------------------------------------
\* The ring takes one event after the other; Pushed says what becomes of it.
PushOne(q, n) == IF Len(q) + 1 < RingSize THEN Append(q, n) ELSE <<n - 1, n>>

ASSUME PushedAssumption ==
    \A r \in 0 .. RingSize - 1 : \A n \in 1 .. 4 * RingSize :
        LET q == [i \in 1 .. r |-> i]
        IN  Pushed(q, r + 1, r + n) = FoldLeft(PushOne, q, [i \in 1 .. n |-> r + i])
=============================================================================
