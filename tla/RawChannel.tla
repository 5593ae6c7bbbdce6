------------------------------ MODULE RawChannel ------------------------------
(***************************************************************************)
(* What reading a device without synchronization promises: events come out *)
(* in the order they went in and none is passed over, except the newest    *)
(* ones, not read yet, that an overflow throws away, and those that a      *)
(* caller with direct access to the device takes out and ignores.          *)
(***************************************************************************)
EXTENDS Integers, Sequences

CONSTANT Direct   \* whether there are callers with direct access

VARIABLES
    queue,   \* serials of the events nobody has got yet
    last     \* serial of the last event somebody got

Init == queue = <<>> /\ last = 0

\* New events enter; of those already there the newest may be lost.
Enter ==
    /\ \E k \in 0 .. Len(queue) :
         /\ SubSeq(queue', 1, k) = SubSeq(queue, 1, k)
         /\ \A i \in k + 1 .. Len(queue') :
              queue'[i] > last /\ \A j \in 1 .. i - 1 : queue'[j] < queue'[i]
    /\ UNCHANGED last

Leave ==
    /\ queue # <<>>
    /\ last' = Head(queue) /\ queue' = Tail(queue)

TakeOut ==
    /\ Direct
    /\ \E k \in 1 .. Len(queue) :
         /\ queue' = SubSeq(queue, k + 1, Len(queue))
         /\ last' \in {last} \cup {queue[i] : i \in 1 .. k}

Next == Enter \/ Leave \/ TakeOut

Spec == Init /\ [][Next]_<<queue, last>>

=============================================================================
