# A verification of the evdev crate

The crate reads and writes Linux input devices. Its own logic, and what this
project verifies first, is the *synchronization engine*: a cache of the
device's state, kept by a `Device` beside the event buffer, that makes up for
events the kernel drops when the ring of an open evdev file overflows. Around
it lie reading without synchronization, virtual devices and their
force-feedback protocol, handles, and a number of pure helpers. This
directory holds TLA+ modules translated from the source, TLC configurations
that check them on small instances, and TLAPS proofs of the safety properties
for every instance. Line numbers below are of `src/src/sync_stream.rs` unless
another file is named; `PROJECT.json` maps every definition to its lines.

## 1. Inventory

| Component | State | Operations | Hard about it |
|---|---|---|---|
| Kernel (external) | level of every control, open packet, ring of the open file | input, SYN_REPORT, overflow, `EVIOCG*` ioctls that also flush | runs concurrently with everything; loses events; ioctls edit the ring |
| `DeviceState` (`device_state.rs`) | key, axis, switch and LED levels | `new`, `clone_from`, `process_event` | only keys and axes learn from events |
| `RawDevice` (`raw_stream.rs`) | descriptor, `event_buf`, capability sets, `grabbed`, `auto_repeat` | `fill_events`, `fetch_events`, `update_*_state`, `get_*`, grab, auto-repeat, keymap, force feedback, open | a read ends anywhere in a block; local copies go stale |
| `Device` (`sync_stream.rs`) | `state`, `prev_state`, `block_dropped` over a `RawDevice` | `fetch_events`, `cached_state`, forwards | cache, snapshot, ring and buffer are four views of one device |
| `FetchEventsSynced` | `range`, `consumed_to`, `sync` | `next` (`compensate_events`, `sync_events`), `drop` | positions in a buffer that outlives the iterator; abandoned half way |
| tokio `EventStream` | `event_range`, `consumed_to`, `sync`, readiness of `AsyncFd` | `poll_event`, `device_mut` | positions held across polls, spurious polls, `WouldBlock`, lost wakeups |
| raw and virtual tokio streams | `index` into `event_buf` | `poll_event`, `device_mut` | index and buffer changed behind each other's back |
| `FFEffect` (`lib.rs`), force feedback of `RawDevice` | duplicated descriptor, id | upload, play, stop, update, drop | life time against the device's, failure between steps |
| `VirtualDevice` (`uinput.rs`) | descriptor, `event_buf` | builder, `emit`, `fetch_events`, `process_ff_upload`/`erase` and the drop of what they return | a request protocol with the kernel and another process, ended by `Drop` |
| `AttributeSet` | bytes of a bit set | `insert`, `remove`, `contains`, `slice_iter`, ... | index arithmetic, bounds |
| Directory walks (`raw_stream.rs`, `uinput.rs`) | a directory stream | `EnumerateDevices::next`, `DevNodesBlocking::next`, `DevNodes::next_entry` | entries come and go, cannot be opened, reading fails |
| Capabilities and settings of a handle | sets, strings, `auto_repeat` | `from_fd`, getters, `update_auto_repeat`, `update_scancode*` | copies made once beside settings others change |
| `lib.rs` helpers | none | `systime_to_timeval`, `timeval_to_systime`, `fd_write_all`, `destructure` | sign and width, short writes |
| `ff.rs`, `event_variants.rs` | none | conversions from and to the kernel's structs | a union read by its tag; lists that must agree |
| `inputid.rs`, `constants.rs`, `scancodes.rs`, `sys.rs`, `compat*` | none | tables and bindings | nothing a model checker reaches |

How they interact. A caller owns a `Device` and calls `fetch_events`, which may
resynchronise (snapshot, four kinds of ioctl) and always reads; the iterator
it returns borrows the device, processes whole blocks of `event_buf` into
`state`, and deletes what it consumed when it is dropped. When it meets a
block with `SYN_DROPPED` it only sets `block_dropped`: the *next* fetch
resynchronises, and the iterator after that starts with fake events for every
difference between `prev_state` and `state`. The asynchronous stream does the
same without an iterator: positions live in the stream, the task is woken by
tokio's reactor. The kernel moves on between any two system calls.

What makes each part correct:

* engine: events are delivered in order and at most once; gaps are announced
  by a compensation; a compensation reports exactly the differences and ends;
  the cache and a reader of the stream agree with the device once everything
  has been read;
* stream: the same, and no position leaves the buffer, no wakeup is lost;
* raw and virtual streams: every event read is returned once;
* handles: exactly one grab, released with the last descriptor; every uploaded
  effect is erased or owned;
* force-feedback requests: an answer goes to the request it was made for, both
  sides agree on the effects there are, clients are not left blocked;
* emitting: a packet that reaches the readers is the batch of an `emit`, each
  event once, whatever the writes take;
* walks: complete, without repetition, and finite;
* pure helpers: bit operations agree with sets, conversions round-trip.

## 2. Plan

Order of work; (done) marks what this directory contains.

1. (done) `InputEvents`, `EvdevKernel`, `SyncEngine`: data, environment,
   shared steps of the engine.
2. (done) `SyncDevice` and `EventStream`: the two front ends, sharing
   `SyncProperties`; `EventChannel`, the abstract specification of both.
3. (done) `EvdevKernelProofs`, `SyncEngineProofs`, `SyncDeviceProofs`,
   `EventStreamProofs`.
4. (done) `Emitter`, `RawStream`: emitting, and the asynchronous reading of
   a `RawDevice` with `device_mut().fetch_events()` mixed in; `RawChannel`, the
   abstract specification: a queue that may lose its newest events.
5. (done) `FFKernel`, `DeviceHandles`, `UinputRequests`, composed in
   `ForceFeedback`: client ioctl, the kernel's request and effect tables, the
   owner with `process_ff_upload`/`erase` and drops in any order, grabs and
   effects over shared and duplicated descriptors.
6. (done) `AttributeSets`, `DeviceNodes`, `DeviceSettings`, `DeviceSetup`,
   `Clock`, `EffectData`, `EventTypes`, `Conversions`, composed in `Library`:
   the parts that share nothing but their caller.
7. (done) `RawStreamProofs`, `ForceFeedbackProofs`, `LibraryProofs`: every
   safety property the runs of these modules check.
8. (done) `SyncTrackingProofs`: that the cache tracks the axes and that the
   blocking device announces every gap.
9. The synchronized `EventStream` with `device_mut().fetch_events()` mixed in.

## 3. The modules and the code

* **`InputEvents`**: controls, levels, events. A control is a natural number
  that stands for an (event type, code) pair; the assumption on `TypeOf` is
  the order in which `compensate_events` walks them (keys, axes, switches,
  LEDs; codes ascending). `Stored` and `Tracked` are `process_event`. Event
  types without cached state (relative axes, MSC, sound...) are passed on
  unseen by the engine and have no counterpart. An event carries a serial
  number the code does not have; it names the event in properties.
* **`EvdevKernel`** (external): `input_event` buffering a packet until
  SYN_REPORT, evdev's ring with overflow (everything unread is replaced by
  SYN_DROPPED and the event that did not fit), and the flush that
  `EVIOCGKEY`, `EVIOCGSW` and `EVIOCGLED` perform on queued events of their
  type. `EVIOCGABS` flushes nothing.
* **`SyncEngine`**: variables named after the fields of `Device`, `RawDevice`,
  `FetchEventsSynced`/`EventStream`, and the pieces of behaviour both front
  ends execute. `TakeDropped` is `fetch_events_inner` up to its first system
  call; each ioctl is a step (`SyncBits`, `SyncAxis`), the read takes one
  event per step (`FillOne`) and may return as soon as the ring is empty or
  the buffer's minimum room `Batch` is used, never before the first event.
  `CompensateControl` and `CompensateReport` are one return of
  `compensate_events` each. `NextFromBlock`, `NextNewBlock`, `DroppedBlock`
  and `NoBlock` are the four ways through `sync_events`; the loop over the
  buffer is the operator `ProcessEvents` (the last event on a control wins).
  History variables (`view`, `last`, `resynced`, `agree`) record what a caller
  has seen; no guard reads them.
* **`SyncDevice`**: `fetch_events` with its error returns, `next`, and `drop`.
* **`EventStream`**: `poll_event` with its two loops. `ready` is AsyncFd's
  flag, `edge` the notification the reactor has not taken; `try_io` clears
  `ready` only on `WouldBlock`. A Pending task may be polled again at any
  time.
* **`SyncProperties`**: what both front ends must satisfy, over the shared
  variables.
* **`EventChannel`**: the abstract specification. The ring takes events; the
  reader gets later and later ones; with `Announced`, it only skips events
  after a compensation. The refinement mapping is the identity on `passed`,
  `last` and `resynced`.
* **`Emitter`**: `VirtualDevice::emit` is two calls of `write_events`, each a
  loop of `write(2)`: `WriteSome` is one that takes some of what is left
  (`Remaining` is the slice expression of `fd_write_all`), `WriteFails` an
  error in any of them, the last included, and `WriteEnds` one that returns 0:
  the empty one at the end, or one that takes none of what is left, which
  `fd_write_all` reports as success all the same (`lib.rs` 539). `emit` then
  goes on with the SYN_REPORT; `untaken` is how many events of the batch the
  packet lacks, `torn` that an `emit` is over (also with `Ok`, when it was the
  SYN_REPORT that was not taken) and its events are in a packet still open. The
  input core collects what is written into a packet; a
  SYN_REPORT that ends nothing is not passed on. What a packet leaves in the
  ring, overflow included, is written in closed form (`Pushed`); the MC module
  assumes it equal to pushing the events one at a time and TLC evaluates that.
* **`RawStream`**: `poll_event` with `event_buf` and `index`; `DeviceMut` is a
  `fetch_events` between two polls, of whose events the caller looks at some.
  `ready` and `edge` are as in `EventStream`. When the virtual device is gone
  the read fails with ENODEV, which `try_io` passes on without clearing
  readiness. `VirtualEventStream::poll_event` is the same text.
* **`RawChannel`**: the abstract specification. Under the mapping `queue` is
  what is in the buffer behind `index` and then the ring, `last` is `taken`.
* **`FFKernel`** (external): the evdev, ff-core and uinput drivers as far as
  the crate talks to them. One ioctl is under way at a time (they are
  serialized); `Submit` makes it a uinput request and an event for the owner;
  the release of a file whose last descriptor is closed erases its effects one
  by one (as kernels from 5.0 do) and ends its grab.
* **`DeviceHandles`**: the handles and `FFEffect`s of the clients. A handle's
  file is its own or, through `FromFd`, another handle's. `Device` ungrabs when
  it is dropped, `RawDevice` does not; an `FFEffect` keeps a descriptor of its
  own. `Return` is what `upload_ff_effect`, `update` and the drops do with the
  ioctl's result, the failure of `try_clone` behind a successful upload
  included. `faults` counts what goes wrong: failures of `try_clone`, signals,
  refusals, time-outs.
* **`UinputRequests`**: the process with the virtual device. It reads by
  `FetchEvents` or `PollEvent`, begins requests (`Process`), and ends them by
  dropping what it got (`DropFFUpload`, `DropFFErase`), in any order. `End` is
  the end ioctl: it ends whatever request has the id now; `EndInterrupted` is
  the same stopped by a signal, whose result both drops discard. A request the
  owner has lost that way, or by a failed `try_clone` or an interrupted begin, is
  marked `orphan`. `store` is what the program keeps, by the pattern of `examples/virtual_ff.rs`.
* **`ForceFeedback`**: clients, kernel and owner together, and what they
  promise. Request numbers count modulo 3: at most one request waits, so that
  tells a request from its predecessors, which the ids in the code do not.
* **`AttributeSets`**: a bit array of whole bytes that may be longer than
  `COUNT`; `inner` is `IterOnes` over a slice, `offset` what `next` adds to it
  and `next_back` does not.
* **`DeviceNodes`**: one step of a walk per directory entry; the directory
  changes under it.
* **`DeviceSettings`**: copies of settings in several handles; only their types
  are checked. A handle never learns of another's `update_auto_repeat` or
  `update_scancode`, so a copy agrees with the kernel's settings as long as
  nobody changes them, which says nothing about the code. Without BY_INDEX
  the kernel takes the scancode for the index, so `update_scancode` and
  `update_scancode_by_index` are one action.
* **`DeviceSetup`**: from the builder through uinput to an opened `Device`. The
  six `with_*` methods that set codes are one schema, `WithCodes`; a failing
  method loses the builder, which it has consumed. Strings are lengths.
* **`Clock`, `EffectData`, `EventTypes`**: the conversions as operators, with
  seconds from `-HalfSecs` to `HalfSecs - 1` (2^63 in the code),
  the casts' wrap-around, the union as a record with one field, and the macro's
  instances as a table. **`Conversions`** applies one to every value and
  converts back.
* **`Library`**: the five parts above side by side; `focus` says which is in
  use. They share no state, so nothing is lost by moving one at a time.
* **`MC...`**: the constants' values for TLC.

## 4. What is checked

| Run | Bounds | Properties |
|---|---|---|
| `SyncHostile` | key + axis, ring of 4, 1 event a packet, 9 events, batch 1; nonblocking, interrupted, abandoned | `TypeOK`, `OrderedDelivery`, `CompensationExact`, `ImplementsChannel` |
| `SyncBlocking` | 2 axes, ring of 5, up to 2 events a packet, 10 events, batch 1 | `CacheTracksAxes`, `ImplementsAnnouncingChannel` |
| `SyncDelivery` | key + axis, ring of 12 (no overflow), 7 events, batch 2, fair | `EventuallyDelivered` |
| `StreamSafety` | axis + LED, ring of 4, 8 events, interrupted ioctls, fair | `TypeOK`, `InBounds`, `OrderedDelivery`, `CompensationExact`, `ImplementsChannel`, `CompensationTerminates` |
| `StreamDelivery` | axis, ring of 12 (no overflow), 7 events, fair | `EventuallyDelivered` |
| `RawStream` | batches of 0 to 2 events, 3 calls of `emit`, ring of 6, batch 2; writes that fail or take nothing, `fetch_events` mixed in, fair | `TypeOK`, `PacketsAreBatches`, `StreamAscending`, `ImplementsRawChannel`, `EventuallyTaken`, `GoneIsReported` |
| `ForceFeedback` | one `Device`, one `RawDevice`, 2 slots, 2 uploads or updates, 1 fault, fair | `TypeOK`, `EffectsOwned`, `SlotsAccounted`, `TablesAgree`, `GrabKnown`, `PlaysStored`, `AnswersOwnRequest`, `RequestsAnswered` |
| `Library` | see below | `TypeOK`, `SetIterates`, `WalkIsComplete`, `WalkTerminates`, `OpenedIsBuilt`, `TimeRoundTrip`, `EffectRoundTrip`, `EventRoundTrip` |

The bounds. A dropped block needs a ring that overflows while something is
unread: a ring of 4 or 5 slots overflows with two packets, and 8 to 10 events
are enough for a second overflow before, during or after the
resynchronisation of the first. A batch of one or two events cuts every block
at every place; the capacity of a `Vec` may exceed its reservation, so a read
may always take more. Two controls are the least that tell "skipped" from
"repeated" in a compensation and one type's flush from another's. `MaxSent`
ends the device's activity, so these configurations allow deadlock: a blocking
read of an exhausted device waits for ever, as it should.

* `RawStream`: three packets of up to three slots overflow a ring of 6 while
  one is in the buffer; a batch of 2 lets a read take part of a packet; an event
  left in the packet by one call can meet a second and a third. Its
  stream never stops (a pending task may always be polled), so deadlock is
  checked.
* `ForceFeedback`: two handles are the least with which a file is shared or a
  grab refused; two slots tell an effect from another, two uploads let one
  request follow another while the first one's event is still held; one fault
  puts each failure at every place without two hiding each other; a request
  lost to a failed `try_clone` or an interrupted ioctl may time out besides. Events of plays
  are queued only behind fewer than `MaxQueue` others, and the owner goes away
  only while a call is under way or a request is held, since nothing follows
  otherwise. A device that is gone leaves nothing to do, so deadlock is not
  checked. uinput's own queue of 16 events is not filled.
* `Library`: sets of 6 codes in an array of 8 bits, all starts; three nodes, one of
  which cannot be opened, and another entry, no name used again while a walk
  goes on; two handles, delays on both sides of the largest the kernel takes, three keys at
  two indices; names and paths on both sides of each limit (78 and 79, 255 and
  256), a switch code beyond the largest, too many effects, four calls of the
  builder; seconds from -8 to 7 with 4 parts each, so that every cast wraps; every
  kind of effect with every waveform; every event type and three others. A
  finished walk and a lost builder do nothing more, so deadlock is not checked.

Fairness. The device and the kernel promise nothing. `SyncDevice` assumes a
caller that keeps fetching and drives every iterator to its end (the loop in
the crate's documentation, `lib.rs` 98-113), and that a read with
something to return returns. `EventStream` assumes that the reactor runs, that
a task keeps asking for the next event while it is running, and that a Pending
task is polled again *if readiness was set*: a task that was not woken may
never be polled, which is what makes `EventuallyDelivered` a check against
lost wakeups. `RawStream` assumes the same of its reactor and task, and nothing
of the emitter or of the caller who mixes. `ForceFeedback` assumes that the
owner reads on and answers what it holds, and that the kernel returns from an
answered call; clients need do nothing and nothing need time out, so
`RequestsAnswered` is not satisfied by waiting 30 seconds. `Library` assumes
only that the caller of an iterator asks until it gets `None`.

What the conditions in the properties say. `TablesAgree`, `PlaysStored` and
`AnswersOwnRequest` hold *until a request times out* (`late`): the id of a
request is reused, and an answer after its time can end another request.
`RequestsAnswered` excepts requests the owner has lost (`orphan`): begun by a
`process_ff_upload` or `process_ff_erase` whose ioctl was interrupted or whose
`try_clone` failed after it, or held by an event whose drop was interrupted.
`SlotsAccounted` and `GrabKnown` name the ways a slot or a grab is lost until
its file is closed. `PacketsAreBatches` names the two ways a packet differs from
its batch: events a write took none of, and those an earlier `emit` has left.
None is assumed away: the runs take each of these ways.

### Where the code and its documentation disagree

* `SyncStuckKey` (`CacheTracksKeys`). Events read behind a dropped block stay
  in `event_buf`. The next fetch reads the keys by ioctl, which also removes
  newer key events from the ring, and then processes the older left-over
  block on top: a key can stay "pressed" in the cache and for the caller
  until it is pressed again. `lib.rs` 143-144 promises a full
  resynchronisation. For axes, whose ioctl flushes nothing, the same claim
  holds and is checked (`CacheTracksAxes`).
* `SyncHiddenChange` (`ViewTracksDevice`). The events of a dropped block are
  fed to the cache (654) before the snapshot `prev_state` is taken from it
  (328). Such a change is neither delivered nor compensated, although the
  README promises messages "consistent with actual device state".
* `SyncWithheld` (`ReadyEventsReturned`). A fetch that has resynchronised
  still enters `read()` (339) and blocks with the compensation in hand, while
  346 says it blocks "until events are available".
* `StreamLostSync` (`GapsAreSynced`). On a nonblocking descriptor the read
  after the resynchronisation usually fails with EAGAIN; `block_dropped` is
  already taken and the `SyncState` dropped, so no compensation ever comes.
  27-29 promise synthetic events. A nonblocking `Device` loses them the same
  way; so does an ioctl interrupted by a signal, after which the cache is not
  refreshed either (`CacheTracksAxes` needs `MayInterrupt = FALSE`).

Smaller disagreements met in the code that no run is spent on:

* `timeval_to_systime` (`lib.rs` 511) casts `tv_sec` to `u64` before it looks
  at the sign, so a time a second or more before the epoch leads to an overflow
  panic, and one within the last second is mirrored (`TimeRoundTrip` lists
  these outcomes).
* `update_scancode` and `update_scancode_by_index` say "The return value is the
  previous keycode" (`raw_stream.rs` 596, 620); the ioctl returns 0.
* `get_scancode_by_keycode` asks with a scancode of length 0 and not by index,
  which the kernel refuses with EINVAL.
* `get_auto_repeat` "Returns the current auto repeat settings"
  (`raw_stream.rs` 280); it returns the handle's copy, which another handle's
  `update_auto_repeat` leaves behind, and so does a delay above 2^31 - 1, which
  the kernel ignores while the ioctl succeeds.
* `old_effect` (`uinput.rs` 496-498) panics for an upload that replaces
  nothing; `FromEffect` shows the arm.
* `set_effect_id` (`uinput.rs` 505-508) has no effect: the kernel has chosen
  the slot already.
* `upload_ff_effect` lets the kernel write the id through a shared reference
  (`raw_stream.rs` 686); the builds read it back, which the model assumes.
* `next_back` does not add the iterator's offset (`attribute_set.rs` 121); only
  `slice_iter` sets one, and it is only used forwards.

## 5. What is proved

Every safety property a passing run checks, invariant, action property or
refinement, is a theorem: TLAPS proves it for every value of the constants that
satisfies the assumptions below.

| Module | Theorems | State |
|---|---|---|
| `SyncDeviceProofs` | `TypeCorrect`, `DeliveryIsOrdered`, `CompensationIsExact`, `DeviceImplementsChannel` | `TypeOK`, `OrderedDelivery`, `CompensationExact`, `ImplementsChannel` of the blocking and nonblocking `Device` |
| `EventStreamProofs` | `StreamTypeCorrect`, `StreamInBounds`, `StreamIsOrdered`, `StreamCompensationIsExact`, `StreamImplementsChannel` | the same of the stream, and `InBounds` |
| `SyncTrackingProofs` | `CacheFollowsAxes`, `GapsAreAnnounced` | `CacheTracksAxes`, `ImplementsAnnouncingChannel`, each under the hypothesis named below |
| `RawStreamProofs` | `TypeCorrect`, `StreamReturnsInOrder`, `EmitsItsBatches`, `StreamImplementsChannel` | `TypeOK`, `StreamAscending`, `PacketsAreBatches`, `ImplementsRawChannel` |
| `ForceFeedbackProofs` | `TypeCorrect`, `EffectsAreOwned`, `NoSlotLeaks`, `GrabIsKnown`, `TablesAreEqual`, `PlaysWhatIsStored`, `AnswersTheRightRequest` | `TypeOK`, `EffectsOwned`, `SlotsAccounted`, `GrabKnown`, `TablesAgree`, `PlaysStored`, `AnswersOwnRequest` |
| `LibraryProofs` | `TypeCorrect`, `IteratorsYieldTheSet`, `WalksAreComplete`, `OpensWhatWasBuilt`, `TimesComeBack`, `EffectsComeBack`, `EventsComeBack` | `TypeOK`, `SetIterates`, `WalkIsComplete`, `OpenedIsBuilt`, `TimeRoundTrip`, `EffectRoundTrip`, `EventRoundTrip` |

`EvdevKernelProofs` and `SyncEngineProofs` hold the lemmas the first three
share.

### Assumptions

On constants, all evaluated by TLC on the runs:

* `ControlAssumption`, `AxisValueAssumption`, `KernelAssumption` (a ring holds
  more than one packet), `EngineAssumption`, and for the stream
  `StreamAssumption` (`new` sets O_NONBLOCK);
* `EmitterAssumption` (the ring has room for SYN_DROPPED, one event and one
  more), `RawStreamAssumption` (a read has room for an event);
* `FFAssumption`, `HandlesAssumption`: the slots are a nonempty finite set of
  numbers, no handle is of both types, bounds are numbers;
* `AttributeSetAssumption`: sizes and codes are numbers, elements not empty;
* `NodesAssumption` (a directory is finite, and the word for a failed entry is
  no node), `SettingsAssumption`, `SetupAssumption`;
* `ClockAssumption`: a second has a whole number of microseconds.
  `ConversionsAssumption`: effects have the fields of `ff.rs`.

On the use, for two theorems:

* `CacheFollowsAxes` assumes `~ MayInterrupt`. With a signal in the middle of a
  resynchronisation the property is false (section 4): `block_dropped` has been
  taken and half of the cache is old.
* `GapsAreAnnounced` assumes `Undisturbed`: a blocking descriptor, no signals,
  iterators driven to their end, and axes only. Each condition is needed.
  `EVIOCGKEY` and its like take events out of the ring *after* the snapshot, so
  that on a device with keys a number can be missing without a SYN_DROPPED; the
  run `StreamLostSync` shows what nonblocking use does; an abandoned iterator
  takes the rest of its compensation with it.

### The arguments

**The engine, order.** `OrderedDelivery` is not inductive: that an event about
to be delivered is younger than `last` follows from where it is, in the ring, in
the buffer, or in the block being returned. The invariant `IInv` states

* `RingInv` (`EvdevKernelProofs`): serials in the ring are distinct, at most
  `passed`, and the open packet lies above them; the overflow and the flush
  keep this;
* `OrderInv` (`SyncEngineProofs`): the buffer is strictly ascending and wholly
  before the ring; positions lie inside it; every event behind `consumed_to`
  or behind `range.start` is younger than `last`;
* `SyncInv`: while compensating, a reader has the cache's level of every
  agreed control below the cursor `sync`, and the snapshot's level of every
  agreed control from the cursor on (a control is agreed when reader and cache
  agreed on it as the resynchronisation began).

`SyncEngineProofs` has one lemma per shared step; the two front-end modules
combine them, add the facts about their own control points, and derive the
theorems. `CompensationIsExact` then needs no induction over the walk: at the
fake SYN_REPORT no difference is left, so both halves of `SyncInv` meet.

**The engine, cache.** `TrackInv` says of every axis that the cache has the
kernel's level, or that something ahead will correct it, where "ahead" is the
buffer behind `consumed_to`, the ring and the open packet. What is ahead must
*decide*: a last event on the axis must carry the kernel's level, and a
SYN_DROPPED stands for any. An ioctl sets the level while older events of the
axis are still ahead; that is harmless as the last of them has the very level
the ioctl read, which is where keys differ: their ioctl removes that last one.

**The engine, gaps.** `GapInv` speaks of the serials the caller may still get,
and the next one to be made: one whose predecessor is missing is the next the
caller gets and a compensation is due, or it is the SYN_DROPPED's own. A second
overflow behind the first, a left-over block behind a dropped one and a dropped
block at the end of a read are the cases of its proof. The refinement follows:
an event that skips others is only returned with `resynced`.

**The raw stream.** `PacketInv` relates the cursor of `fd_write_all` to the
packet: what has been written of the batch is the packet's tail, and all of it
unless an earlier emit was torn; while the SYN_REPORT is written, that is the
batch without the `untaken` events a write took none of. `OrderInv` states that serials ascend from
`taken` over the buffer behind `index` and the ring to the packet, and that all
in front of `index` were taken: with that, `index` and the drain of
`device_mut().fetch_events()` cannot part. `ImplementsRawChannel` maps every
step to one of the channel's by what it does to the concatenation.

**Force feedback.** `EffectsOwned`, `SlotsAccounted` and `GrabKnown` need that
the slot of a call under way is empty while it is filled or erased (`CallInv`),
that a file being released has no descriptor left and no two handles hold the
grab (`FileInv`). They hold after a time-out too. The protocol is right only
until then: under `~ late`, `RequestInv` says that the request on its way is the
last event there is, in one place only, that of the call under way, and
`StoreInv` that the owner keeps what the kernel has but for that call's slot,
depending on whether it has been answered, and that every play on its way is of
a kept effect. `OrphanInv` is what a lost request leaves behind: the call waits,
nothing is held and nothing is on its way, until the time-out. The three conditional properties follow from the two.

**The library.** The five parts have invariants of their own, and a step moves
one. `IterInv` puts what has been yielded from both ends and what is left
together: the three are disjoint, ordered and as many as there are members.
`WalkInv` says that a steady node is ahead of the directory stream or returned,
and that what was returned is behind it. `SetupInv` follows what was asked to
uinput's tables; of the settings only the types are proved.
`ConvInv` only says which conversion the two results are of; the work is in
`TimeComesBack` (whole seconds and the truncated rest make whole microseconds;
the three cases of a negative time by the sign its seconds have after the
casts), `EffectComesBack` (the arm a type code selects reads the variant it was
written by, kind by kind) and `EventComesBack` (the dispatch of a type gives a
newtype of that type).

### Model-checked only

The liveness properties `EventuallyDelivered`, `CompensationTerminates`,
`EventuallyTaken`, `GoneIsReported`, `RequestsAnswered` and `WalkTerminates`:
they rest on fairness, which the prover cannot reason about. The four
disagreements of section 4 are counterexamples of TLC. That `Pushed` is pushing
one at a time, an induction over the events, is evaluated by TLC for small
rings.

## 6. What is not modelled

* `device_mut().fetch_events()` on a polled *synchronized* stream: a caller
  that mixes both front ends of one `Device`. For the raw stream it is modelled;
  on a `VirtualEventStream` the drain hands out once more what the stream has
  returned, so that a request may be processed twice.
* `send_events`, `set_ff_gain`, `set_ff_autocenter`: one write each. The
  direct `get_*` queries: one ioctl into a fresh buffer each, which changes
  nothing here (though it flushes the ring of key, switch and LED events, as
  `EvdevKernel` describes).
* The capabilities a virtual device cannot have (LEDs, sounds), the driver's
  version, axis limits beyond "the kernel may refuse them".
* Timestamps as part of delivered events, and event types without cached state.
* Names of codes (`Debug`, `FromStr`, serde): one lookup in a table each.
* A name of the directory used again while a walk goes on: `WalkIsComplete`
  tells nodes by their names.
* `next_back` of an iterator with a start: nothing in the crate asks for one.
* Formatting (`Debug`, `Display`), paths and strings beyond their lengths, the
  tables of constants and scancodes but for event types and effect codes, the
  ioctl bindings and struct layouts, `compat` for other systems.
* Removal of the device under the synchronization engine (ENODEV): reads and
  ioctls then fail for good, which its error paths cover up to the error's
  code. `RawStream` and `ForceFeedback` model it.
