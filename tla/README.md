# Verification of Music Party Sync

TLA+ models of the parts of this repository that keep state shared by several
tasks, processes or devices, the TLC runs that check them, and proofs that TLAPS
checks. Source references are relative to the repository's root (`src/` in
`PROJECT.json`).

The repository's README holds a title only; what the code promises is in the
doc comments of its Rust crates, in the comments of its JavaScript, and in its tests.
These are what the properties are taken from.

## 1. The system

```
 host's phone (Flutter)                            guests' phones (Flutter)
   |  HTTP: create, delete       HTTP: join, get      |
   |            \                  /                  |
   |         api_server (Rust, one mutex, a thread per connection)
   |                      | POST /api/rooms/:id/sync (fire and forget)
   |                      v
   +---- socket.io ---- backend (Node) ---- socket.io ---+
   |    join-room, leave-room, media events; room-updated, room-cancelled
   +---- HTTP: upload ---^ ---- HTTP: fetch song.mp3 ---->+

 The audio path (Rust library crates, twice: at the root and under echosync/)
   capture -> streaming (queues, workers) -> network_engine (UDP)
           -> streaming -> buffer (jitter buffer) -> scheduler (timeline, queue) -> player
                           buffer::sync (clock synchronizer) --offset--^
```

| Component | Source | State | Operations | What is hard |
|---|---|---|---|---|
| Jitter buffer | `buffer/src/core/buffer/` | ordered map of packets, watermark, duplicate cache, delay, totals, a length outside the lock | push, pop, clear, reset, set delay | reordering, duplicates, overflow and staleness the window is not told of, saturation at `u64::MAX`, the copied length |
| Clock synchronizer, drift estimator, statistics | `buffer/src/core/sync/` | applied and target offset, drift window, statistics, running flag | start, stop, synchronize, update, reset, snapshot | flag tested before the lock is taken, passes failing half way, convergence, the slope over a window that slides |
| Packet queue | `streaming/src/queue.rs` | mpsc channel, mutex around its receiver, atomic length | enqueue, dequeue, clear, len | length changed after the channel, cancelled dequeue, a mutex held across an await |
| Streaming engine | `streaming/src/engine.rs` | lifecycle in a watch channel, worker handles, metrics | start, stop, pause, resume, enqueue, send_packet, receive_packet, dequeue, clear | cancellation by `select!`, retry and timeout against a full transport, racing lifecycle calls |
| Playback scheduler | `scheduler/src/` | timeline anchor, ordered queue, statistics, running flag | start, stop, schedule, next, cancel, clear | three locks taken one after the other, the anchor set by whoever comes first, restart under calls in progress |
| Composed audio path | `echosync/streaming`, `echosync/buffer`, `echosync/scheduler` | the states of all of these | the crates' calls, in the order their docs draw | loss, repetition and reordering between the crates, an offset that moves, who accounts for a packet |
| Network engine | `network_engine/` | announcement, maps of addresses | advertise, scan, request, receive, broadcast | UDP; one unanswered datagram decides who is a client |
| Rust server | `api_server/src/main.rs` | rooms by id, a thread per connection | create, join, delete, get, post to Node | requests in pieces, a mutex held while connecting, two spellings of an id, hand-written JSON |
| Room server | `backend/controllers/`, `backend/sockets/` | its own copy of the rooms, `roomId` and `userName` per socket, the playback record | sync, join-room, leave-room, disconnect, media events | two writers, departures against joins on their way, a disconnect after a leave |
| Upload server | `backend/server.js` | temporary and current song file | upload, serve | one file name for everybody |
| Waiting room, socket service | `frontend/lib/` | screen, room shown, one socket | open, dispose, react to broadcasts | reconnection without rejoining, disposal while requests are out |
| Player | `frontend/lib/features/player/` | playlist, index, play state | pick, announce, play, pause, end, sync a late guest | an await between an event and its effect, answers broadcast to all |

How they interact. Inside the audio path by calls under locks. The root crates
have no caller in the repository and are modelled each against an environment that may
call it in any way its API allows; the `echosync/` crates document how they fit
together, and `AudioPipeline` composes them so. The scheduler asks the
synchronizer for its offset on every packet. The Rust and Node servers
interact by posts nobody waits for; Node and the devices by socket events, ordered
per connection; the devices and the Rust server by HTTP. The room itself meets in
`RoomSync`, because the three copies are what can go wrong, and playback in
`PartyPlayback`, together with the uploads it depends on.

What makes each component correct, in short (the properties are named in
section 3): the *buffer* releases in sequence order, at most once, and its counters
add up; the *queue* is FIFO and loses nothing to a cancelled call; the *engine*
loses no packet over its lifecycle, and stop means stopped; the *scheduler* never
inverts timestamps nor releases early; the *synchronizer* converges by
bounded steps, and refuses only clocks that drift; the *audio path* plays in order,
once, and does not get stuck; the *Rust server* answers every request truly; a *room*
shows the same current list to everybody in it; a *party* settles on one song and
play state. `PROJECT.json` lists the hazards, each at the line where it bites, with the
properties that would catch it.

## 2. Modules

| Module | Models | Remarks |
|---|---|---|
| `PacketWindow` | `packet_window.rs` | sequence numbers `0..MaxSeq`, saturating at `MaxSeq` for `u64::MAX` |
| `JitterBuffer` (extends it) | `jitter_buffer.rs`, `config.rs` | time is the age of each packet |
| `BufferManager` (extends it) | `buffer_manager.rs` | the component: an operation is one action since it runs under the mutex without awaiting, except `clear()`, whose loop is visible to `size()` |
| `OrderedDelivery` | -- | the abstract specification `BufferManager` implements |
| `PacketQueue` | `queue.rs` | channel operation and counter update are separate steps; calls are cancelled where they await |
| `BoundedFifo` | -- | the abstract specification `PacketQueue` implements |
| `StreamingEngine` | `engine.rs` | lifecycle calls as check, send, lock, join; `select!` as two polls; the queue operations are single steps, refined in `PacketQueue` |
| `Synchronizer` | `synchronizer.rs`, `clock_manager.rs` | flag test and locked part are separate steps; which passes fail for their drift is left open |
| `DriftEstimator` | `drift_estimator.rs` | the window and the slope, in exact fractions |
| `ClockStatistics` (extends both) | `statistics.rs` | the whole clock; implements `Synchronizer` |
| `PlaybackScheduler` | `scheduler.rs`, `timeline.rs`, `playback_queue.rs` | one step per lock taken |
| `PartyTransport` | `network_engine/` | a host and one guest; datagrams are lost, repeated, reordered |
| `AudioStream` (extends it) | `echosync/streaming` | two engines, call by call |
| `AudioBuffer` | `echosync/buffer/src/core/buffer` | call by call |
| `AudioPlayback` | `echosync/buffer/src/core/sync`, `echosync/scheduler` | clock and scheduler, call by call |
| `AudioPipeline` (extends the three) | the composition | the tasks between two crates are external |
| `JsonText` | `main.rs:308-382` | how a text is written and read, character by character |
| `ApiServer` (extends it) | `main.rs` | threads, mutex, requests in pieces, ids, posts |
| `RoomSync` | `main.rs`, `roomController.js`, `socketHandler.js`, `waiting_room_screen.dart`, `socket_service.dart` | one room, three stores |
| `SongUpload` | `server.js` | the handler between its file calls |
| `PartyPlayback` (extends it) | `player_screen.dart`, `socketHandler.js` | players, relayed events, loading songs, uploads |
| `BufferProofs`, `QueueProofs`, `EngineProofs`, `SchedulerProofs` | -- | theorems about `BufferManager`, `PacketQueue`, `StreamingEngine`, `PlaybackScheduler` |
| `SynchronizerProofs` | -- | theorems about `Synchronizer` and the clock of `ClockStatistics` |
| `PipelineProofs` | -- | theorems about `AudioPipeline` |
| `ApiProofs` | -- | theorems about `ApiServer` |
| `PartyProofs` | -- | theorems about a party: `RoomSync` and `PartyPlayback`, whose names differ so that one module can extend both |
| `MC*` | -- | instances for TLC |

Definitions carry the names of the functions they stand for, `PROJECT.json`
"map" gives their lines. Definitions whose comment says *mutant* are variants with a
plausible bug, used only to show that each property can fail; no specification uses them.
Variables commented *history* do not exist in the code; no guard depends on
them, except that those named as bounds stop the environment.

The `echosync/` crates repeat the code of the root crates with small differences.
The root modules have the steps within a call, the `Audio*` modules the same
code call by call, as it is seen from the next crate; each maps the lines of its own copy.

### Abstractions

* A packet is its sequence number (buffer, audio path), its rank in the order that breaks
  ties (scheduler) or the number under which it was accepted (queue, engine). Contents are left out.
* Buffer time is the age of each packet, saturating one tick above every threshold
  it is compared with. The jitter estimate (floating point) enters only the
  adaptive delay, as a headroom of any size: `AdaptTargetDelay` chooses the candidate freely.
* Synchronizer offsets are integers. A correction in the code is a fraction of
  the error, capped; here it is *any* non-zero step towards the target within cap and error,
  hence at least one unit: the code's ever smaller steps are not, see section 4.
* The drift is an exact fraction where the code has a floating-point number, so that what
  is shown of it is the formula's, not the rounding's.
* The scheduler's `Duration` arithmetic does not overflow. Its running means are left out.
* `AudioPlayback` keeps the time since the anchor and the time left to each deadline in the
  place of absolute times; both saturate where they make no difference.
* The engine's transport is external: a bounded channel that may be emptied,
  stay full, or close. So is UDP, which may do anything to a datagram but change it.
* Bytes of a request are counted in units; of JSON, names are texts over the characters
  that matter, the rest are records.
* Rooms: one room, users with different names, one HTTP request and its
  answer in one step (`ApiServer` has the steps), the post to Node in another. A lost post is one that stays in the bag.
  A device reads a `room-updated` when it is sent (its connection is ordered and it
  keeps the last one); acting on `room-cancelled` comes later.
* Playback: a song is its title, and positions within a song are left out. The devices that
  are in the room stay.

## 3. Runs

| Run | Configuration | States | Properties |
|---|---|---|---|
| `Buffer` | numbers 0..3, cache 2, tolerance 1, capacity 2, delay 1 in 0..2 adapted by 1, age limit 2, 4 pushes | 57,579 | `ReleasedInOrderOnce`, `LossAccounting`, `Conservation`, `SizeIsExact`, `ImplementsOrderedDelivery`, `PacketsLeave` |
| `Queue` | 2 producers, 2 consumers, 1 clearer, capacity 2, length modulo 6, 4 packets, symmetry | 2,664 | `LengthAccounting`, `ExactlyOnce`, `ImplementsBoundedFifo` |
| `Engine` | 1 caller, 1 producer, at most 2 workers, queue 1, transport 1, 1 retry, 2 packets | 236,656 | `TypeOK`, `PacketsAccountedFor`, `WorkerOrder`, `StateMatchesWorkers`, `StopReturns`, `QueueDrains` |
| `Scheduler` | 2 feeders, 1 player, timestamps 3 and 0, offset -1, capacity 2, 2 offers, 2 sessions, horizon 2 | 554,182 | `TimelineMonotone`, `Accounting`, `ReleasedOnTime`, `PacketsReleased` |
| `Sync` | 2 tasks, range 2, step 2, threshold 1, measurements -3..3, 3 passes, window 2, drift limit 1, 2 ticks | 75,259 | `OffsetInRange`, `AccuracyIsExact`, `PassesCounted`, `StatisticsAgree`, `NeverJumps`, `SteadyClockAccepted`, `Converges` |
| `Room` | host and 2 guests, 1 connection each, 2 joins, 1 broken connection | 478,296 | `ListsCurrent`, `NodeListsMembers`, `GuestsSentHome` |
| `Api` | 3 connections, names with an escaped and a quoted character, room numbers modulo 2, requests of two shapes | 203,282 | `PostsInOrder`, `DeletedGone`, `ServedWhole`, `ListedAsTyped`, `JoinedRoomExists`, `Answered` |
| `Playback` | host, one guest, one late guest; 1 song, 1 toggle and what the late guest sends, or 2 songs and 1 toggle, or 1 song and an upload of another party | 615,688 | `ServedSong`, `Settles` |
| `Pipeline` | packets 0..2, engine queues 1, buffer 2, cache 1, delay 0..1, scheduler queue 2, measured offsets 0, -1 and -2 of which the last is out of range, 1 trouble, such as a packet too large for the guest's engine | 406,882 | `PlayedInOrder`, `NothingVanishes`, `Flows` |
| `EngineClear` | as `Engine`, 1 packet | violated | `ClearReturns` |
| `RoomDeparted` | as `Room`, no broken connection | violated | `DepartedStayGone` |
| `LateGuest` | as `Playback`, the first of the three | violated | `LateGuestSynced` |

Deadlock is checked in `Buffer`, `Queue`, `Engine`, `Scheduler`, `Sync` and `EngineClear`. In the
others the system may stop: everybody has left, every connection has been served, the party's songs have
ended, or every packet has been played. `MCSynchronizer` also checks, over all windows of
up to three samples, that `DriftEstimator`'s regression is the weighted mean of the slopes between any two
samples; `MCApiServer`, over all texts of up to four characters, that reading undoes
writing up to the first quotation mark. `RegressionIsMean` and `TextsReadBack` (section 5) prove the two for windows and
texts of any length.

### What the properties say

*Buffer.* `ReleasedInOrderOnce`: between two resets numbers are released in strictly
increasing order. `LossAccounting`: `packets_lost` is exactly
the numbers skipped between the first and the last released, whether they never
came, overflowed or went stale. `Conservation`: accepted = buffered + delivered + dropped + thrown away
by resets. `SizeIsExact`: the length outside the lock agrees with the map.
`ImplementsOrderedDelivery`: all of it is a lossy
store that delivers in increasing order and never past an item it holds.
`PacketsLeave`: no packet is buffered for ever.

*Queue.* `LengthAccounting`: the length is off by exactly the
calls between the channel and the counter. `ExactlyOnce`: each packet is in the
channel, in the hands of one call, returned or cleared, and what left are the first
numbers accepted. `ImplementsBoundedFifo`: to its callers the queue is an atomic
bounded FIFO, cancelled calls having no effect.

*Engine.* `TypeOK`: among the types, that a retry stays within its bound (this is the only run that checks
one). `PacketsAccountedFor`: accepted = queued + in delivery + sent + failed + cleared, through
every cancellation, pause, stop, retry and close. `WorkerOrder`: each worker forwards in
order (with several, the whole is not ordered; a `start()` while paused adds a
second pool, which is how two workers come up in this run). `StateMatchesWorkers`: for one caller, no
worker outlives a stop, and none is missing otherwise. `StopReturns`: stop returns. `QueueDrains`: the queue
empties unless the engine stops running; with finitely many packets offered, none stays in it.

*Scheduler.* `TimelineMonotone`: within a session deadlines never invert adjusted
timestamps, whichever feeder set the anchor. `ReleasedOnTime`: nothing leaves before its
deadline or before an earlier queued packet, although the player reads the time before it
waits for the queue. `Accounting`: counters and queue agree up to calls in progress, no
packet is queued twice. `PacketsReleased`: the queue empties while the scheduler runs
and is polled, also of packets with a deadline from before a restart.

*Synchronizer.* `OffsetInRange`: only measurements are checked against the range, yet
no correction leaves it. `NeverJumps`: the applied offset moves by at most one step except when seeded.
`AccuracyIsExact`, `PassesCounted`, `StatisticsAgree`: accuracy, counters, extremes and means hold on failed passes and
across restarts too. `SteadyClockAccepted`: as long as measurements differ by no more than the drift limit
times the time between them, no pass is refused. `Converges`: repeated updates
reach the threshold.

*Room.* `ListsCurrent`: what a device in the room shows is the Node server's list, or it has been told that
the room is closed. `NodeListsMembers`: while the Rust server has the room, Node shows nobody it does
not know. `GuestsSentHome`: the host's leaving, or the loss of his
connection, sends home every guest in the room.

*Api.* `PostsInOrder`: a room's posts only grow, although different threads write them and the creator's without the
mutex. `DeletedGone`: a room deleted under either spelling is found under neither. `JoinedRoomExists`: when a guest is told that he joined,
the room is there with him in it. `ListedAsTyped`: names go through the server's JSON and Node's
unchanged, but for quotation marks. `ServedWhole`: nothing is served before the announced body has
come. `Answered`: every connection is answered or closed. The first two presuppose that
no two rooms got the same number.

*Playback.* `Settles`: every guest in the player ends up with the song and the play state of the room's
record; the exceptions its comment lists are each a counterexample that TLC found, and a way in
which players really stay apart. `ServedSong`: `song.mp3` is one whole upload; and once the song announced last has been stored, it is
that song, a newer one still to be announced, another party's -- or one of a pick that was still going on together with the
announced one's. A song that was over when the announced one was picked does not come back. Provided no two uploads began in one millisecond.

*Pipeline.* `PlayedInOrder`: whatever happens on the way, what reaches the audio output is in order and without
repetition, as long as the clock's offset moves by no more than the time between two packets and the
buffer is not reset. `NothingVanishes`: each packet is in one queue, in one counter, or gone one of the ways
its comment lists, the guest's engine refusing it, stopped or with a smaller size limit than the host assumed, among them. `Flows`: the path empties, again and again, without waiting for what was lost.

### Disagreements found

Shown by a run:

1. `EngineClear`: `clear()`, "safe to call in any lifecycle state", waits for the mutex
   an idle worker holds while it waits for a packet (`engine.rs:326-329`, `queue.rs:84-85`).
2. `RoomDeparted`: a guest reported as removed is listed again by the next join of anybody, since
   the Rust server never removes guests, and by a late post (`roomController.js:126`,
   `socketHandler.js:21`).
3. `LateGuest`: the host's answer for a late guest reaches him in the waiting room, which does not listen to it;
   "so the guest is synced immediately" he is not (`socketHandler.js:80-81`, `waiting_room_screen.dart:32-68`).

Seen while modelling or proving, without a run of their own:

* `dequeue` may decrement the length before the `enqueue` that sent the
  packet has incremented it; `len()` then wraps to `usize::MAX` (`queue.rs:87, 107`). `LengthAccounting` says how far it may be off.
* `resync_count` is looked for where it cannot happen (`clock_manager.rs:226`, `statistics.rs:33-35`); the theorem
  `ResyncsNeverCounted` shows that it stays 0.
* `current_offset_ms`, "the most recently applied offset", holds the offset last measured
  (`statistics.rs:14-15, 74`, `clock_manager.rs:174`).
* A `start()` that saw `Stopped` overwrites the `Stopped` of a `stop()` in progress, which then waits for
  workers that go on (`engine.rs:155, 195`); hence one caller in `StopReturns` and `StateMatchesWorkers`.
* A name with a quotation mark is cut at it, and the case for it in `json_unescape` is dead (`main.rs:332-368`).
* Room numbers are milliseconds modulo 36^6 and collide (`main.rs:389`).
* `clear()` of the buffer counts what it throws away as delivered (`buffer_manager.rs:46, 114-123`), and so does the model;
  a duplicate of a packet that is still buffered is not counted as one (`packet_window.rs:30-32`, `jitter_buffer.rs:110-113`);
  a buffer that was reset hands out again a packet that comes again.
* A worker whose `select!` polled the state just before a `pause()` still takes a packet while paused (`engine.rs:46-47`).
* Late and early packets are counted before the queue may refuse them (`scheduler.rs:146-166`), and a packet the buffer
  has released is gone when it does. A constant clock offset cancels out of all deadlines, for the anchor is adjusted by it too.
* The guest's engine refuses packets above its `max_packet_size_bytes` without counting them, and the host's takes them
  (`echosync/streaming/src/engine.rs:252-272, 302-307`): with limits that differ such a packet disappears.
* Nothing keeps the host from picking the next song while an upload is awaited (`player_screen.dart:446, 913-918`). A slow answer to the
  first announces it after the second, while `song.mp3` is the second; a slow first upload is renamed over the second after that was
  announced. A request that fails at the client is announced alike (`player_screen.dart:459-461`), even if it never gets to the server.
* The network engine's client asks to join with one datagram, does not repeat it and does not listen (`network_engine/index.js:34-53`).
* The Node server's playback record is reset by every post of the Rust server and read by nobody who
  would notice (`roomController.js:118-137`); after an announcement the host may be paused while the guests play.

### Bounds, and why they are enough

* *Buffer.* A cache of 2 is smaller than the history of 4 numbers, so entries are forgotten; the largest number
  is reached, where the watermark saturates; capacity 2 overflows with the third push, also by a packet that sorts
  first; ages 0..3 cover not ready, ready and stale, for each delay the adaptation can reach.
  `MaxOffered` bounds the pushes. That nothing here depends on the
  sizes is what section 5 proves.
* *Queue.* Two consumers, so that one waits for the mutex the other keeps while it waits for a packet; capacity
  below the number of packets, so that `try_send` fails; `Modulus` above what can be held at once, so that a
  wrap is visible as such. `MaxPackets` bounds what is accepted.
* *Engine.* Two workers suffice for one to wait for the mutex while the other waits for a packet; queue and transport
  of 1 are full with one packet; one retry gives first, last and exhausted attempt. `MaxOffered`, `PoolSize`
  bound packets and worker tasks; a `start()` that would exceed the pool does not begin. `WorkerCount` is 1 in
  the runs (the default is 2); the second worker comes from `start()` while paused.
* *Scheduler.* Timestamps 3 and 0 give an anchor that is not the earliest, the same packet offered twice a duplicate and a tie, and the
  offset makes timestamps negative before they are cut off at 0. `Horizon` is the last tick that
  schedules packets; the clock goes on until every deadline that can result has passed.
  `MaxOffers`, `MaxStarts` bound calls and sessions.
* *Sync.* The range holds a whole correction step, an incomplete one and measurements beyond it; three passes seed, retarget and fail.
  A window of 2 samples slides at the third. `MaxPasses` bounds the calls of `synchronize()`, not of the others, and
  `MaxElapsed` the time a session lasts.
* *Room.* Two guests are what it takes for a post made by one to bring back the other. One connection per
  device at a time (`Connections`): a device that comes back before the server has noticed its disconnect is not
  covered by the run, and neither is more than one lost connection (`MaxDrops`) or two joins (`MaxJoins`). The proofs of
  section 5 cover any number of each.
* *Api.* Three connections are a create, and two of any kind that race over what it made. `Period` 2 makes numbers
  collide and gives two rooms. One shape of request is served, the other fails for its header or its body.
* *Playback.* A guest in the room from the beginning and one who comes late. `Limits` is a set of bounds of which one must hold: one song, one press
  or end of a song, and the late guest's post and question; two songs, the second picked at any time after the first, and one press; one
  song and an upload of another party. Two picks are what it takes for answers or renames to change places. All of it at
  once exceeds what can be explored in minutes.
* *Pipeline.* Three packets are one more than the buffer and the scheduler's queue hold, and can be before, in and behind each of them; a
  cache of 1 forgets. The measured offset moves by the time between two packets, the most `PlayedInOrder` allows, and one measurement is refused. `MaxTrouble` bounds, together, datagrams lost or repeated, packets not handed over or too large for the guest's engine, and interrupting calls: each of them is
  explored alone against every interleaving. Reordering is not bounded.

### Fairness

* *Buffer:* the consumer polls (`PopPacket`), time passes, and the task in `clear()` runs on. Producers owe nothing.
* *Engine:* a lifecycle call that has begun goes on, and so do workers and producers' calls: tokio runs every ready task, and the
  code never blocks a thread. `ClearDrain` is strongly fair because tokio's mutex is a fair queue. Nobody
  must call anything and the transport owes nothing, neither to take packets nor to close.
* *Scheduler:* time passes, calls end, and the player polls: `next_packet` does not wait, so nothing comes out otherwise.
* *Sync:* calls that wait for the lock get it; `update()` is called again and again while the engine runs
  (its documentation speaks of every frame, `synchronizer.rs:134-136`), hence the strong fairness of its beginning.
* *Room:* events that have been sent on open connections are handled, and a device told that the room is closed leaves it.
  Posts, requests and users owe nothing.
* *Api:* threads run on; reads have a timeout and writes end. The mutex of the standard library is not fair, and need not be: there are
  finitely many connections.
* *Playback:* events on open connections arrive and are handled, requests are answered, the audio player's calls end.
  Uploads owe nothing, nor must the host's be answered. Nobody must press anything.
* *Pipeline:* time passes, workers and the tasks between the crates run, what is on the wire arrives or is lost, and the output polls. Nobody must
  stop, start or interrupt anything, nor repeat a request.

`Queue`, `RoomDeparted` and `LateGuest` check safety only and use `Spec` (`PartySpec`).

## 4. What is only model-checked

Liveness (`PacketsLeave`, `StopReturns`, `QueueDrains`, `PacketsReleased`, `Converges`,
`GuestsSentHome`, `Answered`, `Settles`, `Flows`), since the prover does not reason about `ENABLED`. Every invariant and
action property of a passing run is a theorem, and so are the two statements about all inputs that TLC evaluates on
bounded ones (section 3). The safety half of `Converges` is a theorem as well (`UpdatesApproach`); that updates go on being called,
and end within the threshold, is what is left to TLC. It rests on integer steps: in the code
steps shrink with the error, and reach the threshold because it is
positive and each step takes a fixed share of the error.

## 5. What is proved

`BufferProofs`, for every value of the constants that `BufferConfig::validate` accepts (assumptions
`WindowAssumption`, `BufferConfigAssumption`, `OfferedAssumption`) -- any cache size, capacity, delays and
age limit, and any largest sequence number:

| Theorem | States |
|---|---|
| `TypeCorrect` | `[]TypeOK` |
| `ReleasesInOrderOnce` | `[]ReleasedInOrderOnce` |
| `BufferedStaysAhead` | `[]BufferedAheadOfReleased` |
| `LossIsExact` | `[]LossAccounting` |
| `NothingLeaks` | `[]Conservation` |
| `NeverOverfull` | `[]OccupancyBounded` |
| `SizeExact` | `[]SizeIsExact` |
| `Refinement` | `BufferManager` implements `OrderedDelivery` |

The argument. Release order is not inductive: that the next release is larger than the
last needs that everything buffered is (`BufferedAheadOfReleased`), and that a newly admitted packet is
needs what the window remembers. `WindowInv` says it: after a release the watermark is
the successor of the last released number -- saturated --, the duplicate cache is not empty, ends with that number and holds
nothing larger. Below `MaxSeq` the watermark alone rejects what is behind
(`LEMMA AdmittedAhead`). When the last released number *is* `MaxSeq` the watermark equals it and would
admit it again; there the cache is what rejects it, which is why its last entry belongs
in the invariant and why a cache of size 0, which `validate()` refuses, would break the property.
`BufferInv` joins the two with the types; one lemma per action shows that it is preserved, and the
temporal theorems follow. `CountInv` (conservation and occupancy) is proved on top of it:
removing the first packet removes exactly one (`FirstIsSingleton`), and `Overflow` makes
room for the one inserted. The refinement maps `pending` to the buffered set and `out` to the history of
releases; each operation is an `Accept`, `Deliver`, `Lose`, `Restart` or a stutter, by `BufferInv`.

`QueueProofs`, for any tasks, capacity, packets and width of the counter (`QueueAssumption`):

| Theorem | States |
|---|---|
| `QueueTypeCorrect` | `[]TypeOK` |
| `LengthIsAccurate` | `[]LengthAccounting` |
| `QueueImplementsFifo` | `PacketQueue` implements `BoundedFifo` |
| `NothingLostOrTwice` | `[]ExactlyOnce` |

The argument. `QueueInv` says who may be where (`Roles`), that the mutex is held by exactly the one call that is past
it, and that only that call has packets in hand: so that a call cancelled while it waits loses none. The length is compared
modulo its width, and `ModAdd` lets the remainder be taken at every step. The refinement maps the abstract queue to
the packets in hand followed by the channel; sending, taking and clearing are its steps and everything else a
stutter. `ExactlyOnce` follows because what is held are always the last numbers accepted, in order.

`EngineProofs`, for any callers, producers, pool, capacities and retries (`EngineAssumption`; producers are finitely
many, as the carriers are counted):

| Theorem | States |
|---|---|
| `EngineTypeCorrect` | `[]TypeOK` |
| `NoPacketLost` | `[]PacketsAccountedFor` |
| `HandedInOrder` | `[]WorkerOrder` |
| `OneCallerMatches` | `[]StateMatchesWorkers`, for `Callers = {c}` |

The argument. `EngineInv` adds to the balance that a packet is carried exactly by a task in the middle of a delivery, that
whoever backs off has an attempt left, and that packets accepted and calls still trying do not exceed the bound of those
offered. Each step moves one packet between queue, carrier and counter, or none. For the order, what a sender
hands over is the packet it carries, which it took after everything it handed over before and before everything still queued.
`StateMatchesWorkers` speaks of the time between calls; `MatchInv` says what holds at each place of the one caller's calls: the
handles are the tasks there are, none of them has exited unless the engine is stopped, and there are some unless it is stopped or `start()`
has yet to spawn them. That it spawns at least one needs a smallest free worker (`SpawnsSome`). With two callers the
property is false (section 3), so the hypothesis is the code's and not the proof's.

`SynchronizerProofs`, for any number of tasks, measurements, range, correction rate and threshold
(`SyncAssumption`), and for the clock with its estimator and statistics (with `DriftAssumption`):

| Theorem | States |
|---|---|
| `SyncTypeCorrect` | `[]TypeOK` |
| `StaysInRange` | `[]OffsetInRange` |
| `AccuracyExact` | `[]AccuracyIsExact` |
| `PassesExact` | `[]PassesCounted` |
| `OffsetNeverJumps` | `NeverJumps` |
| `CorrectionsKeepSync` | `CorrectionKeepsSync` |
| `ResyncsNeverCounted` | the counter of resynchronizations stays 0 |
| `ClockImplementsSynchronizer` | `ClockStatistics` implements `Synchronizer` |
| `ClockStaysInRange`, `ClockNeverJumps` | `OffsetInRange`, `NeverJumps` of the whole clock |
| `StatisticsExact` | `[]StatisticsAgree` |
| `SteadyClocksAccepted` | `SteadyClockAccepted` of the whole clock |
| `RegressionIsMean` | the regression is the weighted mean of all slopes, for every window |
| `UpdatesApproach` | while the target stays, the error never grows and every `update()` decreases it |

The argument. A correction step lies strictly between the applied offset and the target or reaches it
(`StepProperties`), so it stays in the range both are in and does not increase the error; the error
is what `is_synchronized` compares with the threshold, hence a step can gain synchronization but
not lose it, and the code's test for a loss in `apply_correction` never succeeds. `SyncInv` joins
`TypeOK`, `OffsetInRange`, `AccuracyIsExact` and `PassesCounted`. `Synchronizer` may refuse any pass for its drift, so
that the clock whose estimator decides implements it, step by step. The mean of the statistics is a
quotient; its bound is proved as one on the sum (`TrackerInv`).

The regression is four sums over a window of any length. Sums are folds; `TotalUnrolled` and `NextTotal` turn such a fold into
its last term and the sum of those before, and what holds of it for every length is then shown by induction (see below).
That `n * Sxy - Sx * Sy` is the sum over pairs of `(xi - xj) * (yi - yj)` is Lagrange's identity. If no pair is
further apart than the limit of drift times the time between them, neither are their sums (`ScatterBounded`), so the slope is within
the limit, whatever samples have slid out of the window (`SteadyNotTooLarge`).

`SchedulerProofs`, for any number of feeders and players, packets, timestamps, clock offsets, thresholds
and restarts (`SchedulerAssumption`; feeders and players are finitely many):

| Theorem | States |
|---|---|
| `SchedulerTypeCorrect` | `[]TypeOK` |
| `DeadlinesMonotone` | `[]TimelineMonotone` |
| `ReleasesAreOnTime` | `ReleasedOnTime` |
| `AccountsAgree` | `[]Accounting` |

The argument. `TimelineMonotone` compares two deadlines and says nothing of where they come from.
`SchedulerInv` adds that every deadline of the present session -- in the queue or in the hands of a feeder
that waits for it -- is the present anchor's play time of its timestamp (`SessionDeadlines`), which is monotone
(`PlayTimeProperties`). An anchor once set stays until the reset (`AnchorProperties`), and the reset begins
a session to which no deadline belongs yet (`StartResetInv`). For the releases, the time a player has
read is not ahead of the clock while the session lasts (`ReadingsPassed`), and the head of the queue precedes
everything in it when it is taken, not when the time was read (`TakeOnTime`). That the queue is
finite, so that `clear()` counts a number of packets, is an invariant of its own (`FiniteQueue`). For the
accounts (`AccountInv`) a call must enqueue the packet it was made with, since that is the one the queue was asked for; then
each step moves the queue, one counter and at most one call that still has to record.

`PipelineProofs`, for any packets, sizes, delays, offsets and any number of troubles (the assumptions of the three modules it composes):

| Theorem | States |
|---|---|
| `PipelineTypes` | `[]PipelineInv`: the types, and that buffer and wire are finite and the buffer within its size |
| `NothingEverVanishes` | `[]NothingVanishes` |
| `AlwaysPlayedInOrder` | `[]PlayedInOrder` |
| `PipelineTypeCorrect` | `[]TypeOK`, and the duplicate cache stays within its size |

The argument. Each crate's account is a balance over its own state, proved to change by the same amount on both sides at every
call (`StreamInv`; the buffer's and the scheduler's in `AccountInv`); crates meet in one counter each, of the packets fed to the buffer and of those it has
delivered, so that a step between two crates moves both balances. That nothing flows backwards (`OneWay`) is
part of the invariant. For the order, being played, queued and buffered is not enough: `Ordered` puts the window's mark
between what has been released and what is buffered, and says of each queued packet how late it can be due at most: the
play time of its timestamp under *some* offset of the range (`InTime`). A packet released later has a later timestamp,
by at least `Spacing`, and the offset cannot take back more than that; hence it is queued behind. Time that saturates
(`LeftLimit`) is the second way of being in time. A reset makes the condition of the property false for good.
The duplicate cache after packets are released together is a fold of `Remembered` over them; `Remembering` is the recursive function
the fold unrolls to, and each of its steps keeps a sequence of numbers no longer than `CacheSize` (`CacheInv`).

`ApiProofs`, for any connections, names, shapes of requests, numbers and limits (`ApiAssumption`; connections are finitely many):

| Theorem | States |
|---|---|
| `AlwaysServedWhole` | `[]ServedWhole` |
| `JoinedRoomsExist` | `JoinedRoomExists` |
| `PostsAlwaysInOrder` | `[]PostsInOrder` |
| `DeletedRoomsGone` | `[]DeletedGone` |
| `AlwaysListedAsTyped` | `[]ListedAsTyped` |
| `ApiTypeCorrect` | `[]TypeOK` |
| `TextsReadBack` | reading a written text gives it back, up to its first quotation mark, for every text |

The argument has two halves. `ThreadInv` holds whatever numbers are drawn: what each thread knows at its place (`ConnInv`), that the thread in the
middle of a join is the one that holds the mutex and that the store still has the room it found (`HeldInv`), that
a room is stored under the key its creator drew and not before he inserted it (`RoomsInv`), and that users ask for numbers somebody has been
told, or for one nobody has (`ToldInv`). The first two theorems follow from it.
The others suppose that no two rooms got one number (`~Collided`), as the properties do; `ApartInv` adds, under that condition, that
a creator's room is unchanged until his post is written (`PostingInv`), since nobody else knows its number yet, that every post is a prefix of
the list that is stored, if any is, as JSON (`PostsInv`), and that both spellings of a deleted key are empty (`GoneInv`).
A collision, once there, stays, so the condition may be assumed before a step when it holds after.

For the names, what writing and reading make of a text is shown by induction over its characters (`TextInduction`): escaping works character by
character, and the loop of `unescape` -- a fold with one bit of memory -- consumes what one character was escaped to and is back
where it was (`UnescapeEscaped`). Only a quotation mark ends a text early, for `extract_json_value` stops at the first one, escaped or not.
`ListedInv` then carries names from the request through store and mutex to the answer and the post.

*Induction over data.* The library's induction theorems take an operator as a parameter, which no prover here can instantiate. `WFMin` does not: a
set of numbers without a least one is empty. Applied to the counterexamples of a statement it gives induction for
statements told as sets (`Induction` in `PipelineProofs` and `ApiProofs`, and `SynchronizerProofs` alike), from which everything above about folds follows.

`PartyProofs`, for any number of guests, connections, joins and broken connections (`RoomAssumption`), and any playback (`UploadAssumption`, `PlaybackAssumption`):

| Theorem | States |
|---|---|
| `ListsStayCurrent` | `[]ListsCurrent` |
| `OnlyMembersListed` | `[]NodeListsMembers` |
| `AlwaysServedSong` | `PartySpec => []ServedSong`, for any uploads, list of songs, overlapping picks and devices |

The argument for the room. That Node lists members only is not inductive, for it lists whoever a post or a socket event brings.
`MembersKnown` adds that every post on its way and every `join-room` not yet handled is of members, as long as the room exists;
and because the room is created once, nothing of the kind may be on its way before (`NothingYet`). That the room exists at the
Rust server is necessary: after its deletion a guest's `join-room` creates it at Node alone.

For the song (`UploadInv`): as long as no two uploads share a name, each writes a file of its own, and the temporary name it renames still
leads there (`OwnFiles`). A pick that was not made together with a later one was over by then, so that it is neither announced nor
stored again; hence, after the announcement, later picks not made together with it are still awaited, and what `song.mp3` holds
after a pick was stored is that pick, a later one, one made together with it or another party's (`PicksInOrder`). Names and files are given once, hence a shared name stays shared (`SharedForGood`).

## 6. What is not modelled

* *`echosync/api_server`:* an earlier server without members, joins or posts, which nothing starts.
* *Node's HTTP routes for creating and joining rooms:* the client calls the Rust server for both.
* *BLE (stubs), and `close`, `stopAdvertising`, `removeDevice`, `updateLatency` of the network engine*, which nobody calls.
* *Positions within a song (`media-seek`), volume, leaving the player:* relayed as toggles are, and nothing depends on them.
* *The guest's screen after a lost connection beyond what `RoomSync` has, layout, widgets, platform projects.*
* *Floating point and means of the scheduler, error texts, packet contents.*
* *The scheduler's stop and start, the drift window and the statistics of the `echosync/` copies:* as in the root crates.

What could be added: a device that reconnects before the server has noticed (two `Connections` in the `Room` run, which
exceeds what TLC explores in minutes), and users who leave and come back during a party (a composition of
`RoomSync` and `PartyPlayback`).

## 7. Reproducing

In this directory: `tlc -workers 2 -config <run's cfg> <run's module>` for each run of `PROJECT.json`, and
`tlapm` for each of the eight modules named `*Proofs.tla`. The longest runs take a few minutes on two cores, and so do
the longest proof modules, `PipelineProofs` and `ApiProofs`.
