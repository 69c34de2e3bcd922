------------------------- MODULE PlaybackScheduler -------------------------
(***************************************************************************)
(* The playback scheduler (scheduler/src/scheduler.rs, timeline.rs,        *)
(* playback_queue.rs): packets get a deadline on a local timeline and come *)
(* out in deadline order once it has passed.                               *)
(*                                                                         *)
(* schedule_packet and next_packet take the timeline, statistics and queue *)
(* locks one after the other, so every call is modelled between them.  The *)
(* offset of the clock synchronizer is whatever it is when asked.          *)
(*                                                                         *)
(* A packet is its rank in the order that breaks ties between deadlines    *)
(* (sequence number, then packet id).  Time is in ticks of the timeline's  *)
(* resolution; Duration arithmetic does not overflow.                      *)
(***************************************************************************)
EXTENDS Integers, Sequences, FiniteSets

CONSTANTS
  Feeders, Players,      \* tasks calling schedule_packet, next_packet
  Packets,               \* packets, by rank
  Timestamp,             \* capture timestamp of each packet
  ClockOffsets,          \* offsets the synchronizer may report
  Latency, MaxLate, MaxEarly,
  QueueCapacity,
  Horizon,               \* bound: the last tick that schedules packets
  MaxOffers,             \* bound: schedule_packet calls
  MaxStarts,             \* bound: completed start() calls
  None

(* The timeline's anchor: a timestamp and the local time it plays at. *)
Anchors == [stamp : Nat, local : Nat]

(* SchedulerConfig::validate *)
ValidSchedulerConfig == MaxLate > 0 /\ MaxEarly > 0 /\ QueueCapacity > 0

ASSUME SchedulerAssumption ==
  /\ Packets \subseteq Nat /\ IsFiniteSet(Feeders) /\ IsFiniteSet(Players)
  /\ Timestamp \in [Packets -> Nat]
  /\ ClockOffsets \subseteq Int
  /\ {Latency, MaxLate, MaxEarly, QueueCapacity} \subseteq Nat
  /\ ValidSchedulerConfig
  /\ Horizon \in Nat /\ MaxOffers \in Nat /\ MaxStarts \in Nat
  /\ None \notin Nat \cup Anchors

VARIABLES
  running,    \* the AtomicBool
  starting,   \* start() between the swap and the reset of the timeline
  clock,      \* the timeline's elapsed time
  anchor,     \* the timeline's anchor, or None
  queue,      \* scheduled packets; ids mirrors their packets
  feeders,    \* per feeder: where its call is, and the packet it computed
  players,    \* per player: where its call is, the time it read, its packet
  stats,      \* the StatisticsTracker's counters
  counts      \* history: offers, starts, enqueued, taken, removed

vars == <<running, starting, clock, anchor, queue, feeders, players, stats, counts>>

(* stamp, the adjusted timestamp, and start, the timeline's session, are   *)
(* history; the code keeps packet and deadline.                            *)
Items == [packet : Packets, deadline : Nat, stamp : Nat, start : Nat]

FeederStates == [at : {"idle", "offset", "enqueue", "record"},
                 packet : Packets \cup {None}, item : Items \cup {None}]
PlayerStates == [at : {"idle", "take", "record"}, now : Nat, start : Nat]
Stats == [scheduled : Nat, played : Nat, dropped : Nat, late : Nat, early : Nat]
Counts == [offers : 0 .. MaxOffers, starts : 0 .. MaxStarts,
           enqueued : Nat, taken : Nat, removed : Nat]

TypeOK ==
  /\ running \in BOOLEAN /\ starting \in BOOLEAN
  /\ clock \in Nat
  /\ anchor \in Anchors \cup {None}
  /\ queue \subseteq Items
  /\ feeders \in [Feeders -> FeederStates]
  /\ players \in [Players -> PlayerStates]
  /\ stats \in Stats
  /\ counts \in Counts

IdleFeeder == [at |-> "idle", packet |-> None, item |-> None]
IdlePlayer == [at |-> "idle", now |-> 0, start |-> 0]

Init ==
  /\ running = FALSE /\ starting = FALSE
  /\ clock = 0
  /\ anchor = None
  /\ queue = {}
  /\ feeders = [f \in Feeders |-> IdleFeeder]
  /\ players = [p \in Players |-> IdlePlayer]
  /\ stats = [scheduled |-> 0, played |-> 0, dropped |-> 0, late |-> 0, early |-> 0]
  /\ counts = [offers |-> 0, starts |-> 0, enqueued |-> 0, taken |-> 0, removed |-> 0]

Max0(n) == IF n < 0 THEN 0 ELSE n

(* Mutant: the natural order, not reversed for the max-heap. *)
PrecedesReversed(x, y) ==
  x.deadline > y.deadline \/ (x.deadline = y.deadline /\ x.packet >= y.packet)

(* ScheduledPacket::cmp: earlier deadline first, then rank. *)
Precedes(x, y) ==
  x.deadline < y.deadline \/ (x.deadline = y.deadline /\ x.packet <= y.packet)

Heads(S) == {x \in S : \A y \in S : Precedes(x, y)}

-----------------------------------------------------------------------------
(* start() and stop(), called by one task; what is queued survives both. *)
StartSwap ==
  /\ ~running /\ counts.starts < MaxStarts
  /\ running' = TRUE /\ starting' = TRUE
  /\ UNCHANGED <<clock, anchor, queue, feeders, players, stats, counts>>

StartReset ==
  /\ starting
  /\ starting' = FALSE
  /\ clock' = 0 /\ anchor' = None
  /\ counts' = [counts EXCEPT !.starts = @ + 1]
  /\ UNCHANGED <<running, queue, feeders, players, stats>>

(* The bound: the last session is not stopped. *)
Stop ==
  /\ running /\ ~starting /\ counts.starts < MaxStarts
  /\ running' = FALSE
  /\ UNCHANGED <<starting, clock, anchor, queue, feeders, players, stats, counts>>

(* The last deadline a packet scheduled up to the horizon may have; past   *)
(* it every clock reads the same.                                          *)
LastTick ==
  LET stamps == {Max0(Timestamp[p] + o) : p \in Packets, o \in ClockOffsets}
  IN  Horizon + Latency + CHOOSE m \in stamps : \A n \in stamps : n <= m

Tick ==
  /\ running /\ clock < LastTick
  /\ clock < Horizon \/ \A f \in Feeders : feeders[f].at # "offset"
  /\ clock' = clock + 1
  /\ UNCHANGED <<running, starting, anchor, queue, feeders, players, stats, counts>>

-----------------------------------------------------------------------------
(* schedule_packet *)

(* It tests the flag, and awaits the synchronizer. *)
ScheduleBegin(f, p) ==
  /\ running /\ clock <= Horizon
  /\ feeders[f].at = "idle" /\ counts.offers < MaxOffers
  /\ feeders' = [feeders EXCEPT ![f] = [at |-> "offset", packet |-> p, item |-> None]]
  /\ counts' = [counts EXCEPT !.offers = @ + 1]
  /\ UNCHANGED <<running, starting, clock, anchor, queue, players, stats>>

(* Mutant: an earlier packet moves the anchor back. *)
AnchorOnEarliest(stamp) ==
  IF anchor = None THEN [stamp |-> stamp, local |-> clock]
  ELSE IF stamp < anchor.stamp THEN [stamp |-> stamp, local |-> clock] ELSE anchor

(* The anchor: set by the first packet after a reset. *)
AnchorFor(stamp) == IF anchor = None THEN [stamp |-> stamp, local |-> clock] ELSE anchor

(* expected_playback_time plus the latency; a packet older than the anchor *)
(* plays at the anchor.                                                    *)
Deadline(stamp) ==
  AnchorFor(stamp).local + Max0(stamp - AnchorFor(stamp).stamp) + Latency

Scheduled(p, stamp) ==
  [packet |-> p, deadline |-> Deadline(stamp), stamp |-> stamp, start |-> counts.starts]

(* record_scheduled, record_played and so on: no mean is kept. *)
Recorded(counter) == [stats EXCEPT ![counter] = @ + 1]

(* Under the timeline lock: the deadline and its lateness now.  Too late   *)
(* and the packet is dropped; late and early are counted at once.          *)
ComputeDeadline(f, o) ==
  LET p == feeders[f].packet
      stamp == Max0(Timestamp[p] + o)
      lead == Deadline(stamp) - clock
  IN  /\ feeders[f].at = "offset"
      /\ anchor' = AnchorFor(stamp)
      /\ IF lead < -MaxLate
           THEN /\ feeders' = [feeders EXCEPT ![f] = IdleFeeder]
                /\ stats' = Recorded("dropped")
           ELSE /\ feeders' = [feeders EXCEPT
                     ![f] = [at |-> "enqueue", packet |-> p, item |-> Scheduled(p, stamp)]]
                /\ stats' = IF lead < 0 THEN Recorded("late")
                            ELSE IF lead > MaxEarly THEN Recorded("early")
                            ELSE stats
      /\ UNCHANGED <<running, starting, clock, queue, players, counts>>

Queued(p) == \E x \in queue : x.packet = p

(* Mutant: duplicates are accepted. *)
RefusesWhenFull(p) == Cardinality(queue) >= QueueCapacity

(* PlaybackQueue::enqueue *)
Refuses(p) == Queued(p) \/ Cardinality(queue) >= QueueCapacity

Enqueue(f) ==
  /\ feeders[f].at = "enqueue"
  /\ IF Refuses(feeders[f].packet)
       THEN /\ feeders' = [feeders EXCEPT ![f] = IdleFeeder]
            /\ UNCHANGED <<queue, counts>>
       ELSE /\ queue' = queue \cup {feeders[f].item}
            /\ feeders' = [feeders EXCEPT ![f] = [IdleFeeder EXCEPT !.at = "record"]]
            /\ counts' = [counts EXCEPT !.enqueued = @ + 1]
  /\ UNCHANGED <<running, starting, clock, anchor, players, stats>>

(* record_scheduled, after the queue lock is released. *)
RecordScheduled(f) ==
  /\ feeders[f].at = "record"
  /\ feeders' = [feeders EXCEPT ![f] = IdleFeeder]
  /\ stats' = Recorded("scheduled")
  /\ UNCHANGED <<running, starting, clock, anchor, queue, players, counts>>

-----------------------------------------------------------------------------
(* next_packet *)

(* It tests the flag and reads the time. *)
NextBegin(p) ==
  /\ running /\ players[p].at = "idle"
  /\ players' = [players EXCEPT ![p] =
                   [at |-> "take", now |-> clock, start |-> counts.starts]]
  /\ UNCHANGED <<running, starting, clock, anchor, queue, feeders, stats, counts>>

DueExactly(now) == {x \in Heads(queue) : x.deadline = now}   \* mutant

(* The packet it may release: the head of the queue, when due. *)
Due(now) == {x \in Heads(queue) : x.deadline <= now}

NextTake(p) ==
  /\ players[p].at = "take"
  /\ \/ \E x \in Due(players[p].now) :
          /\ queue' = queue \ {x}
          /\ players' = [players EXCEPT ![p] = [IdlePlayer EXCEPT !.at = "record"]]
          /\ counts' = [counts EXCEPT !.taken = @ + 1]
     \/ /\ Due(players[p].now) = {}
        /\ players' = [players EXCEPT ![p] = IdlePlayer]
        /\ UNCHANGED <<queue, counts>>
  /\ UNCHANGED <<running, starting, clock, anchor, feeders, stats>>

(* record_played, after the queue lock is released. *)
RecordPlayed(p) ==
  /\ players[p].at = "record"
  /\ players' = [players EXCEPT ![p] = IdlePlayer]
  /\ stats' = Recorded("played")
  /\ UNCHANGED <<running, starting, clock, anchor, queue, feeders, counts>>

(* cancel_packet and clear need no running scheduler. *)
Remove(S) ==
  /\ S # {}
  /\ queue' = queue \ S
  /\ counts' = [counts EXCEPT !.removed = @ + Cardinality(S)]
  /\ UNCHANGED <<running, starting, clock, anchor, feeders, players, stats>>

CancelPacket(p) == Remove({x \in queue : x.packet = p})
Clear == Remove(queue)

Feeder(f) == (\E o \in ClockOffsets : ComputeDeadline(f, o)) \/ Enqueue(f) \/ RecordScheduled(f)
Player(p) == NextBegin(p) \/ NextTake(p) \/ RecordPlayed(p)

Next ==
  \/ StartSwap \/ StartReset \/ Stop \/ Tick
  \/ \E f \in Feeders : Feeder(f) \/ \E p \in Packets : ScheduleBegin(f, p)
  \/ \E p \in Players : Player(p)
  \/ \E p \in Packets : CancelPacket(p)
  \/ Clear

Spec == Init /\ [][Next]_vars

(* Time passes, calls in progress end, and the player keeps polling.       *)
Fairness ==
  /\ WF_vars(Tick) /\ WF_vars(StartReset)
  /\ \A f \in Feeders : WF_vars(Feeder(f))
  /\ \A p \in Players : WF_vars(Player(p))

FairSpec == Spec /\ Fairness

-----------------------------------------------------------------------------
Enqueuing == {f \in Feeders : feeders[f].at = "enqueue"}
Computed == queue \cup {feeders[f].item : f \in Enqueuing}

(* Whoever sets the anchor and in whatever order packets are scheduled,    *)
(* two packets scheduled in the same session play in the order of their    *)
(* adjusted timestamps, never inverted (timeline.rs:72-97).                *)
TimelineMonotone ==
  \A x, y \in Computed :
    x.start = y.start /\ x.stamp <= y.stamp => x.deadline <= y.deadline

(* A packet is released only when its deadline has passed and never before *)
(* a queued one with an earlier deadline, however long the player waited   *)
(* for the queue after it read the time -- unless the scheduler was        *)
(* restarted meanwhile (scheduler.rs:180-213).                             *)
ReleasedOnTime ==
  [][\A p \in Players :
       /\ players[p].at = "take" /\ players'[p].at = "record"
       /\ players[p].start = counts.starts
       => \A x \in queue \ queue' :
            x.deadline <= clock /\ \A y \in queue' : x.deadline <= y.deadline]_vars

(* snapshot(), and statistics(), which adds what is queued. *)
Snapshot(occupancy) ==
  [packets_scheduled |-> stats.scheduled, packets_played |-> stats.played,
   packets_dropped |-> stats.dropped, late_packets |-> stats.late,
   early_packets |-> stats.early, queue_occupancy |-> occupancy]

Statistics == Snapshot(Cardinality(queue))

(* The statistics and the queue agree, up to the calls that have not       *)
(* recorded their packet yet; a packet is queued at most once and no       *)
(* packet is lost by a stop, a restart or a refused enqueue                *)
(* (scheduler.rs:125-235, playback_queue.rs:82-145).                       *)
Accounting ==
  /\ counts.enqueued = Statistics.packets_scheduled
                         + Cardinality({f \in Feeders : feeders[f].at = "record"})
  /\ counts.taken = Statistics.packets_played
                      + Cardinality({p \in Players : players[p].at = "record"})
  /\ counts.enqueued = counts.taken + counts.removed + Statistics.queue_occupancy
  /\ \A x, y \in queue : x.packet = y.packet => x = y

(* No queued packet waits for ever while the scheduler runs and is polled, *)
(* not even one with a deadline computed before a restart: the queue       *)
(* empties, for the packets offered are finitely many                      *)
(* (scheduler.rs:87-213).                                                  *)
PacketsReleased == queue # {} ~> (queue = {} \/ ~running)
=============================================================================
