---------------------------- MODULE SyncProperties ----------------------------
(***************************************************************************)
(* What both front ends of the synchronization engine are required to do,  *)
(* in terms of the variables they share.  The modules SyncDevice and       *)
(* EventStream say when each step happens.                                 *)
(***************************************************************************)
EXTENDS SyncEngine

\* The positions the front end holds lie inside event_buf: an index or a
\* drain beyond its end would be a panic, and both outlive the call that
\* computed them (event_buf[idx] in sync_events, drain(..consumed_to)).
InBounds ==
    /\ consumed_to <= Len(event_buf)
    /\ ~ RangeIsEmpty => range.end <= consumed_to

\* A caller never gets an event twice nor an older event after a newer one,
\* however reads cut the stream into batches, blocks are dropped, iterators
\* abandoned and calls interrupted: the range of a block and the drained
\* prefix of event_buf stay in step (sync_stream.rs, sync_events and Drop).
OrderedDelivery ==
    [][pc = "iterate" /\ FromBuffer => last' > last]_engineVars

\* The front end implements the channel that delivers in order, from the
\* events that entered the ring and from nothing else.
Lossy == INSTANCE EventChannel WITH Announced <- FALSE
ImplementsChannel == Lossy!Spec

\* It implements the channel that also announces every gap.
Announcing == INSTANCE EventChannel WITH Announced <- TRUE
ImplementsAnnouncingChannel == Announcing!Spec

\* Between two kernel events of which the second does not directly follow the
\* first, the caller got a whole compensation: no gap goes unannounced.
GapsAreSynced ==
    [][last' # last => last' = last + 1 \/ resynced]_engineVars

\* When the fake SYN_REPORT is returned, a reader of the stream that agreed
\* with the cache before the resynchronisation agrees with it again, although
\* it was only told the differences (compensate_events walks every control
\* exactly once, whatever was synced when).
CompensationExact ==
    [][Compensating /\ sync' = NoSync /\ pc = "iterate" /\ pc' = "iterate"
         => \A c \in agree : view'[c] = state'[c]]_engineVars

\* Something that will still change the cache is on its way: a block to
\* process, or a resynchronisation.
Unprocessed(c) ==
    \/ \E i \in consumed_to + 1 .. Len(event_buf) : On(event_buf[i], c)
    \/ \E e \in kqueue \cup kpend : On(e, c)

DropAhead ==
    \/ block_dropped \/ pc = "sync"
    \/ \E i \in consumed_to + 1 .. Len(event_buf) :
          event_buf[i].kind = "SYN_DROPPED"
    \/ \E e \in kqueue : e.kind = "SYN_DROPPED"

\* The cache has the kernel's level of a control unless an event or a
\* resynchronisation is ahead, or the control has never moved.
CacheTracks(c) ==
    \/ Unprocessed(c) \/ DropAhead
    \/ c \in fresh /\ state[c] = EmptyLevels[c]
    \/ state[c] = kstate[c]

\* cached_state follows the axes through overflows, resynchronisations,
\* leftover blocks and abandoned iterators.
CacheTracksAxes ==
    \A c \in Control : TypeOf[c] = "ABSOLUTE" => CacheTracks(c)

\* The same claim for keys (lib.rs: "fully re-synchronized with the kernel if
\* the stream drops any events").
CacheTracksKeys ==
    \A c \in Control : TypeOf[c] = "KEY" => CacheTracks(c)

\* Nothing is left to read, process or deliver, and no fetch is needed.
Undelivered(c) ==
    \/ \E i \in range.start + 1 .. Len(event_buf) : On(event_buf[i], c)
    \/ \E e \in kqueue \cup kpend : On(e, c)

\* A reader of the stream has the level of every control the kernel has,
\* unless an event or a compensation is still to come (README: "callers see
\* state transition messages consistent with actual device state").
ViewTracksDevice ==
    \A c \in Control :
        \/ Undelivered(c) \/ DropAhead
        \/ Compensating /\ Differs(c)
        \/ c \in fresh
        \/ view[c] = kstate[c]

\* A compensation comes to its end: compensate_events moves past the control
\* it has just reported, also when prev_state does not learn of the report.
CompensationTerminates == Compensating ~> ~ Compensating

\* In a stream without overflow every event passed to the ring is delivered.
EventuallyDelivered ==
    \A n \in 1 .. MaxSent : passed >= n ~> last >= n

\* fetch_events does not stay in read() while there is something to return:
\* a compensation, or a block left over by the last iterator.
ReadyEventsReturned ==
    pc = "read" /\ (Compensating \/ \E j \in DOMAIN event_buf :
                                       event_buf[j].kind = "SYN_REPORT")
        ~> pc = "iterate"

=============================================================================
