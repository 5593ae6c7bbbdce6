----------------------------- MODULE EventChannel -----------------------------
(***************************************************************************)
(* What reading a device through the crate promises, whatever the front    *)
(* end: the ring takes events, the reader gets some of them, in order and  *)
(* each at most once.  If gaps are announced, events are only skipped      *)
(* after a compensation, which brings the reader up to date.               *)
(***************************************************************************)
EXTENDS Integers

CONSTANT Announced  \* whether every gap is announced

VARIABLES
    passed,     \* serial of the last event that entered the ring
    last,       \* serial of the last event the reader got
    resynced    \* the reader got a compensation since

Init == passed = 0 /\ last = 0 /\ resynced = FALSE

Pass == /\ passed' \in Nat /\ passed' > passed
        /\ UNCHANGED <<last, resynced>>

Deliver == /\ last' \in last + 1 .. passed
           /\ Announced => last' = last + 1 \/ resynced
           /\ resynced' = FALSE
           /\ UNCHANGED passed

Compensate == resynced' = TRUE /\ UNCHANGED <<passed, last>>

Next == Pass \/ Deliver \/ Compensate

Spec == Init /\ [][Next]_<<passed, last, resynced>>

=============================================================================
