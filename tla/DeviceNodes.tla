------------------------------- MODULE DeviceNodes -------------------------------
(***************************************************************************)
(* The walks over a directory of input devices: enumerate, which opens the *)
(* event nodes of /dev/input, and DevNodes, which lists those of a virtual *)
(* device in sysfs.  Devices come and go meanwhile.  A directory stream    *)
(* (external) yields once what is there all the time, and ends after an    *)
(* error.                                                                  *)
(***************************************************************************)
EXTENDS Integers, FiniteSets, Sequences

CONSTANTS
    Nodes,      \* event nodes that may exist
    Unopenable, \* those of them that open(2) refuses
    Others      \* entries with other names

ASSUME NodesAssumption ==
    /\ Unopenable \subseteq Nodes /\ Nodes \cap Others = {} /\ "error" \notin Nodes
    /\ IsFiniteSet(Nodes \cup Others)

VARIABLES
    walk,     \* "enumerate" or "nodes"
    present,  \* entries of the directory
    ahead,    \* entries the directory stream will still yield
    broken,   \* the directory stream has failed
    walking,  \* the iterator has not returned None
    yielded,  \* what it returned
    steady,   \* history: entries there since the walk began
    known     \* history: entries that have been there

walkVars == <<walk, present, ahead, broken, walking, yielded, steady, known>>

Entries == Nodes \cup Others

WalkTypeOK ==
    /\ walk \in {"enumerate", "nodes"}
    /\ present \subseteq Entries /\ ahead \subseteq Entries /\ steady \subseteq present
    /\ present \subseteq known /\ known \subseteq Entries
    /\ walking \in BOOLEAN /\ broken \in BOOLEAN
    /\ yielded \in Seq(Nodes \cup {"error"})

WalkInit ==
    /\ walk \in {"enumerate", "nodes"}
    /\ present \in SUBSET Entries
    /\ ahead = present /\ steady = present /\ known = present
    /\ walking = TRUE /\ broken = FALSE /\ yielded = <<>>

Unplug(e) ==
    /\ walking /\ e \in present
    /\ present' = present \ {e} /\ steady' = steady \ {e}
    /\ ahead' \in {ahead, ahead \ {e}}
    /\ UNCHANGED <<walk, broken, walking, yielded, known>>

\* Bound: a name is not used again.
Plug(e) ==
    /\ walking /\ e \notin known
    /\ present' = present \cup {e} /\ known' = known \cup {e}
    /\ ahead' \in {ahead, IF broken THEN ahead ELSE ahead \cup {e}}
    /\ UNCHANGED <<walk, broken, walking, yielded, steady>>

-----------------------------------------------------------------------------
AnyEntry(e) == TRUE
\* The file name starts with "event".
IsEvent(e) == e \in Nodes

\* EnumerateDevices passes over what is not an event node or cannot be opened.
Opens(e) == IsEvent(e) /\ e \in present \ Unopenable

StopsAt(e) == IF Opens(e) THEN ahead \ {e} ELSE {}
Left(e) == ahead \ {e}

\* One entry of the directory: returned, or passed over.
NextDevice(e) ==
    /\ walk = "enumerate" /\ walking /\ e \in ahead
    /\ ahead' = Left(e)
    /\ yielded' = IF Opens(e) THEN Append(yielded, e) ELSE yielded
    /\ UNCHANGED <<walk, broken, present, walking, steady, known>>

\* DevNodesBlocking::next and DevNodes::next_entry open nothing.
NextNode(e) ==
    /\ walk = "nodes" /\ walking /\ e \in ahead
    /\ ahead' = ahead \ {e}
    /\ yielded' = IF IsEvent(e) THEN Append(yielded, e) ELSE yielded
    /\ UNCHANGED <<walk, broken, present, walking, steady, known>>

\* Reading the directory fails: DevNodes returns the error, EnumerateDevices
\* goes on; for both the stream is at its end then.
ReadDirFails ==
    /\ walking /\ ahead # {}
    /\ broken' = TRUE /\ ahead' = {}
    /\ steady' = {}
    /\ yielded' = IF walk = "nodes" THEN Append(yielded, "error") ELSE yielded
    /\ UNCHANGED <<walk, present, walking, known>>

NeverAtEnd == FALSE
AtEnd == ahead = {}

WalkEnds ==
    /\ walking /\ AtEnd
    /\ walking' = FALSE
    /\ UNCHANGED <<walk, broken, present, ahead, yielded, steady, known>>

Walking == (\E e \in Entries : NextDevice(e) \/ NextNode(e)) \/ WalkEnds

WalkNext ==
    \/ \E e \in Entries : Plug(e) \/ Unplug(e)
    \/ ReadDirFails
    \/ Walking

-----------------------------------------------------------------------------
\* A walk returns no node twice, and by its end it has returned every node
\* that was there all the time and can be opened, whatever came and went and
\* whatever stood between (EnumerateDevices::next, DevNodes::next_entry).
WalkIsComplete ==
    /\ \A i, j \in 1 .. Len(yielded) : i # j => yielded[i] # yielded[j]
    /\ ~ walking => \A e \in steady \cap Nodes :
         e \notin Unopenable \/ walk = "nodes" => \E i \in 1 .. Len(yielded) : yielded[i] = e

\* A walk that is asked for entries comes to an end: nothing that is passed
\* over keeps next in its loop.
WalkTerminates == walking ~> ~ walking

=============================================================================
