--------------------------- MODULE SchedulerProofs ---------------------------
(***************************************************************************)
(* Proofs about PlaybackScheduler for any number of tasks and packets, any *)
(* timestamps, clock offsets, thresholds and restarts: deadlines never     *)
(* invert timestamps, nothing is released before its time, and the         *)
(* statistics and the queue agree, although every call updates them under  *)
(* different locks.                                                        *)
(***************************************************************************)
EXTENDS PlaybackScheduler, FiniteSetTheorems, TLAPS

(* The time a timestamp plays at, given the anchor. *)
PlayTime(a, stamp) == a.local + Max0(stamp - a.stamp) + Latency

(* A call that waits for the queue has computed what it will enqueue.      *)
CallsReady ==
  /\ \A f \in Feeders : feeders[f].at = "offset" => feeders[f].packet \in Packets
  /\ \A f \in Enqueuing : feeders[f].item \in Items

(* All deadlines of the present session come from the present anchor, and  *)
(* there is none for a session that has not begun.                         *)
SessionDeadlines ==
  \A x \in Computed :
    /\ x.start <= counts.starts
    /\ x.start = counts.starts =>
         anchor # None /\ x.deadline = PlayTime(anchor, x.stamp)

(* A player's reading of the clock is not ahead of it, in the same session. *)
ReadingsPassed ==
  \A p \in Players : players[p].at = "take" =>
    /\ players[p].start <= counts.starts
    /\ players[p].start = counts.starts => players[p].now <= clock

(* start() holds the flag while it resets the timeline. *)
StartsInBound == starting => running /\ counts.starts < MaxStarts

SchedulerInv ==
  /\ TypeOK /\ CallsReady /\ StartsInBound
  /\ SessionDeadlines /\ TimelineMonotone /\ ReadingsPassed

-----------------------------------------------------------------------------
(* The timeline.                                                           *)

LEMMA Max0Type == \A n \in Int : Max0(n) \in Nat
BY DEF Max0

LEMMA PlayTimeProperties ==
  ASSUME NEW a \in Anchors
  PROVE  /\ \A s \in Nat : PlayTime(a, s) \in Nat
         /\ \A s, u \in Nat : s <= u => PlayTime(a, s) <= PlayTime(a, u)
BY SchedulerAssumption DEF PlayTime, Max0, Anchors

LEMMA AnchorProperties ==
  ASSUME TypeOK, NEW stamp \in Nat
  PROVE  /\ AnchorFor(stamp) \in Anchors /\ AnchorFor(stamp) # None
         /\ anchor # None => AnchorFor(stamp) = anchor
         /\ Deadline(stamp) = PlayTime(AnchorFor(stamp), stamp)
         /\ Deadline(stamp) \in Nat
<1>1. [stamp |-> stamp, local |-> clock] \in Anchors
  BY DEF TypeOK, Anchors
<1>2. AnchorFor(stamp) \in Anchors /\ (anchor # None => AnchorFor(stamp) = anchor)
  BY <1>1 DEF TypeOK, AnchorFor
<1>3. AnchorFor(stamp) # None
  BY <1>2, SchedulerAssumption
<1>4. Deadline(stamp) = PlayTime(AnchorFor(stamp), stamp)
  BY DEF Deadline, PlayTime
<1>5. QED
  BY <1>2, <1>3, <1>4, PlayTimeProperties

LEMMA ItemType ==
  \A x \in Items : x.deadline \in Nat /\ x.stamp \in Nat /\ x.start \in Nat
BY DEF Items

LEMMA ComputedType == TypeOK /\ CallsReady => Computed \subseteq Items
BY DEF TypeOK, CallsReady, Computed

-----------------------------------------------------------------------------
(* Steps that compute no deadline and start no session keep what is known  *)
(* of the deadlines.                                                       *)
LEMMA DeadlinesKept ==
  ASSUME SchedulerInv, Computed' \subseteq Computed,
         anchor' = anchor, counts'.starts = counts.starts
  PROVE  SessionDeadlines' /\ TimelineMonotone'
BY DEF SchedulerInv, SessionDeadlines, TimelineMonotone, PlayTime

(* Steps that leave players, time and session alone keep the readings.     *)
LEMMA ReadingsKept ==
  ASSUME SchedulerInv, players' = players, clock' = clock,
         counts'.starts = counts.starts
  PROVE  ReadingsPassed'
BY DEF SchedulerInv, ReadingsPassed

(* What the record types keep when one counter moves.                      *)
LEMMA CountsStep ==
  ASSUME TypeOK, NEW k \in Nat,
         \/ counts' = counts
         \/ counts' = [counts EXCEPT !.enqueued = counts.enqueued + k]
         \/ counts' = [counts EXCEPT !.taken = counts.taken + k]
         \/ counts' = [counts EXCEPT !.removed = counts.removed + k]
  PROVE  counts' \in Counts /\ counts'.starts = counts.starts
BY DEF TypeOK, Counts

-----------------------------------------------------------------------------
(* The lifecycle and the clock.                                            *)

LEMMA StartSwapInv == SchedulerInv /\ StartSwap => SchedulerInv'
<1> SUFFICES ASSUME SchedulerInv, StartSwap PROVE SchedulerInv'
  OBVIOUS
<1>1. /\ UNCHANGED <<clock, anchor, queue, feeders, players, stats, counts>>
      /\ running' = TRUE /\ starting' = TRUE /\ counts.starts < MaxStarts
  BY Zenon DEF StartSwap
<1>2. TypeOK'
  BY <1>1, Zenon DEF SchedulerInv, TypeOK
<1>3. CallsReady'
  BY <1>1, Zenon DEF SchedulerInv, CallsReady, Enqueuing
<1>4. Computed' = Computed
  BY <1>1, Zenon DEF Computed, Enqueuing
<1>5. StartsInBound'
  BY <1>1, Zenon DEF StartsInBound
<1>6. QED
  BY <1>1, <1>2, <1>3, <1>4, <1>5, DeadlinesKept, ReadingsKept DEF SchedulerInv

LEMMA StopInv == SchedulerInv /\ Stop => SchedulerInv'
<1> SUFFICES ASSUME SchedulerInv, Stop PROVE SchedulerInv'
  OBVIOUS
<1>1. /\ UNCHANGED <<clock, anchor, queue, feeders, players, stats, counts>>
      /\ running' = FALSE /\ starting' = starting /\ ~starting
  BY Zenon DEF Stop
<1>2. TypeOK'
  BY <1>1, Zenon DEF SchedulerInv, TypeOK
<1>3. CallsReady'
  BY <1>1, Zenon DEF SchedulerInv, CallsReady, Enqueuing
<1>4. Computed' = Computed
  BY <1>1, Zenon DEF Computed, Enqueuing
<1>5. StartsInBound'
  BY <1>1, Zenon DEF StartsInBound
<1>6. QED
  BY <1>1, <1>2, <1>3, <1>4, <1>5, DeadlinesKept, ReadingsKept DEF SchedulerInv

(* A new session: whatever is queued or computed belongs to an older one.  *)
LEMMA StartResetInv == SchedulerInv /\ StartReset => SchedulerInv'
<1> SUFFICES ASSUME SchedulerInv, StartReset PROVE SchedulerInv'
  OBVIOUS
<1>1. /\ UNCHANGED <<running, queue, feeders, players, stats>>
      /\ starting' = FALSE /\ clock' = 0 /\ anchor' = None
      /\ counts' = [counts EXCEPT !.starts = counts.starts + 1]
      /\ counts.starts < MaxStarts
  BY Zenon DEF StartReset, SchedulerInv, StartsInBound
<1>2. /\ counts.starts \in Nat /\ counts'.starts = counts.starts + 1
      /\ counts' \in Counts
  BY <1>1, SchedulerAssumption DEF SchedulerInv, TypeOK, Counts
<1>3. TypeOK'
  <2>1. clock' \in Nat
    BY <1>1
  <2>2. QED
    BY <1>1, <1>2, <2>1, Zenon DEF SchedulerInv, TypeOK
<1>4. CallsReady'
  BY <1>1, Zenon DEF SchedulerInv, CallsReady, Enqueuing
<1>5. Computed' = Computed
  BY <1>1, Zenon DEF Computed, Enqueuing
<1>6. StartsInBound'
  BY <1>1, Zenon DEF StartsInBound
<1>7. SessionDeadlines'
  BY <1>2, <1>5, ComputedType, ItemType DEF SchedulerInv, SessionDeadlines
<1>8. TimelineMonotone'
  BY <1>5, Zenon DEF SchedulerInv, TimelineMonotone
<1>9. ReadingsPassed'
  <2>1. \A p \in Players : players[p].start \in Nat
    BY DEF SchedulerInv, TypeOK, PlayerStates
  <2>2. QED
    BY <1>1, <1>2, <2>1 DEF SchedulerInv, ReadingsPassed
<1>10. QED
  BY <1>3, <1>4, <1>6, <1>7, <1>8, <1>9 DEF SchedulerInv

LEMMA TickInv == SchedulerInv /\ Tick => SchedulerInv'
<1> SUFFICES ASSUME SchedulerInv, Tick PROVE SchedulerInv'
  OBVIOUS
<1>1. /\ UNCHANGED <<running, starting, anchor, queue, feeders, players, stats, counts>>
      /\ clock' = clock + 1
  BY Zenon DEF Tick
<1>2. clock \in Nat /\ clock' \in Nat /\ clock <= clock'
  BY <1>1 DEF SchedulerInv, TypeOK
<1>3. TypeOK'
  BY <1>1, <1>2, Zenon DEF SchedulerInv, TypeOK
<1>4. CallsReady'
  BY <1>1, Zenon DEF SchedulerInv, CallsReady, Enqueuing
<1>5. Computed' = Computed
  BY <1>1, Zenon DEF Computed, Enqueuing
<1>6. StartsInBound'
  BY <1>1, Zenon DEF SchedulerInv, StartsInBound
<1>7. ReadingsPassed'
  <2>1. \A p \in Players : players[p].now \in Nat
    BY DEF SchedulerInv, TypeOK, PlayerStates
  <2>2. QED
    BY <1>1, <1>2, <2>1 DEF SchedulerInv, ReadingsPassed
<1>8. QED
  BY <1>1, <1>3, <1>4, <1>5, <1>6, <1>7, DeadlinesKept DEF SchedulerInv

-----------------------------------------------------------------------------
(* schedule_packet.                                                        *)

LEMMA IdleFeederType ==
  IdleFeeder \in FeederStates /\ IdleFeeder.at = "idle"
BY DEF IdleFeeder, FeederStates

(* A step of one feeder that does not make it wait for the queue.          *)
LEMMA FeederLeaves ==
  ASSUME SchedulerInv, NEW f \in Feeders, NEW r \in FeederStates,
         r.at # "enqueue", r.at = "offset" => r.packet \in Packets,
         feeders' = [feeders EXCEPT ![f] = r]
  PROVE  /\ feeders' \in [Feeders -> FeederStates]
         /\ CallsReady'
         /\ Enqueuing' = Enqueuing \ {f}
         /\ \A g \in Enqueuing' : feeders'[g] = feeders[g]
<1>1. feeders \in [Feeders -> FeederStates]
  BY DEF SchedulerInv, TypeOK
<1>2. /\ feeders' \in [Feeders -> FeederStates] /\ feeders'[f] = r
      /\ \A g \in Feeders \ {f} : feeders'[g] = feeders[g]
  BY <1>1
<1>3. Enqueuing' = Enqueuing \ {f}
  BY <1>2 DEF Enqueuing
<1>4. \A g \in Enqueuing' : feeders'[g] = feeders[g]
  BY <1>2, <1>3 DEF Enqueuing
<1>5. CallsReady'
  BY <1>2, <1>3, <1>4 DEF SchedulerInv, CallsReady, Enqueuing
<1>6. QED
  BY <1>2, <1>3, <1>4, <1>5

LEMMA ScheduleBeginInv ==
  ASSUME SchedulerInv, NEW f \in Feeders, NEW p \in Packets, ScheduleBegin(f, p)
  PROVE  SchedulerInv'
<1> DEFINE r == [at |-> "offset", packet |-> p, item |-> None]
<1>1. /\ UNCHANGED <<running, starting, clock, anchor, queue, players, stats>>
      /\ counts.offers < MaxOffers
      /\ counts' = [counts EXCEPT !.offers = counts.offers + 1]
  BY Zenon DEF ScheduleBegin
<1>2. feeders' = [feeders EXCEPT ![f] = r]
  BY Zenon DEF ScheduleBegin
<1>3. r \in FeederStates /\ r.at = "offset" /\ r.packet = p
  BY DEF FeederStates
<1> HIDE DEF r
<1>4. counts' \in Counts /\ counts'.starts = counts.starts
  BY <1>1, SchedulerAssumption DEF SchedulerInv, TypeOK, Counts
<1>5. /\ feeders' \in [Feeders -> FeederStates] /\ CallsReady'
      /\ Enqueuing' = Enqueuing \ {f} /\ \A g \in Enqueuing' : feeders'[g] = feeders[g]
  BY <1>2, <1>3, FeederLeaves
<1>6. TypeOK'
  BY <1>1, <1>4, <1>5, Zenon DEF SchedulerInv, TypeOK
<1>7. Computed' \subseteq Computed
  BY <1>1, <1>5 DEF Computed
<1>8. StartsInBound'
  BY <1>1, <1>4, Zenon DEF SchedulerInv, StartsInBound
<1>9. QED
  BY <1>1, <1>4, <1>5, <1>6, <1>7, <1>8, DeadlinesKept, ReadingsKept DEF SchedulerInv

(* The anchor is set, or was there already.                                *)
LEMMA AnchoredKept ==
  ASSUME SchedulerInv, NEW stamp \in Nat, anchor' = AnchorFor(stamp),
         Computed' \subseteq Computed, counts' = counts
  PROVE  SessionDeadlines' /\ TimelineMonotone'
<1>1. /\ AnchorFor(stamp) # None
      /\ anchor # None => AnchorFor(stamp) = anchor
  BY AnchorProperties DEF SchedulerInv
<1>2. QED
  BY <1>1 DEF SchedulerInv, SessionDeadlines, TimelineMonotone, PlayTime

(* The new deadline fits in with those computed from the same anchor.      *)
LEMMA ScheduledFits ==
  ASSUME SchedulerInv, NEW p \in Packets, NEW stamp \in Nat,
         anchor' = AnchorFor(stamp), counts' = counts,
         Computed' \subseteq Computed \cup {Scheduled(p, stamp)}
  PROVE  SessionDeadlines' /\ TimelineMonotone'
<1> DEFINE new == Scheduled(p, stamp)
<1>1. /\ AnchorFor(stamp) \in Anchors /\ AnchorFor(stamp) # None
      /\ anchor # None => AnchorFor(stamp) = anchor
      /\ Deadline(stamp) = PlayTime(AnchorFor(stamp), stamp)
      /\ Deadline(stamp) \in Nat
  BY AnchorProperties DEF SchedulerInv
<1>2. counts.starts \in Nat
  BY SchedulerAssumption DEF SchedulerInv, TypeOK, Counts
<1>3. /\ new.start = counts.starts /\ new.stamp = stamp
      /\ new.deadline = PlayTime(AnchorFor(stamp), stamp)
  BY <1>1 DEF Scheduled
<1> HIDE DEF new
<1>4. \A x \in Computed \cup {new} :
        /\ x.start <= counts.starts /\ x.stamp \in Nat /\ x.start \in Nat
        /\ x.start = counts.starts => x.deadline = PlayTime(AnchorFor(stamp), x.stamp)
  BY <1>1, <1>2, <1>3, ComputedType, ItemType DEF SchedulerInv, SessionDeadlines
<1>5. Computed' \subseteq Computed \cup {new}
  BY DEF new
<1>6. SessionDeadlines'
  BY <1>1, <1>4, <1>5 DEF SessionDeadlines, PlayTime
<1>7. ASSUME NEW x \in Computed \cup {new}, NEW y \in Computed \cup {new},
             x.start = y.start, x.stamp <= y.stamp
      PROVE  x.deadline <= y.deadline
  <2>1. CASE x.start = counts.starts
    BY <1>1, <1>4, <1>7, <2>1, PlayTimeProperties
  <2>2. CASE x.start # counts.starts
    <3>1. x \in Computed /\ y \in Computed
      BY <1>3, <1>7, <2>2
    <3>2. QED
      BY <1>7, <3>1 DEF SchedulerInv, TimelineMonotone
  <2>3. QED
    BY <2>1, <2>2
<1>8. TimelineMonotone'
  BY <1>5, <1>7 DEF TimelineMonotone
<1>9. QED
  BY <1>6, <1>8

LEMMA ComputeDeadlineInv ==
  ASSUME SchedulerInv, NEW f \in Feeders, NEW o \in ClockOffsets, ComputeDeadline(f, o)
  PROVE  SchedulerInv'
<1> DEFINE p == feeders[f].packet
           stamp == Max0(Timestamp[p] + o)
           lead == Deadline(stamp) - clock
           r == [at |-> "enqueue", packet |-> p, item |-> Scheduled(p, stamp)]
<1>1. p \in Packets
  BY DEF ComputeDeadline, SchedulerInv, CallsReady
<1>2. stamp \in Nat
  <2> HIDE DEF p
  <2>1. Timestamp[p] + o \in Int
    BY <1>1, SchedulerAssumption
  <2>2. QED
    BY <2>1, Max0Type
<1>3. /\ AnchorFor(stamp) \in Anchors /\ AnchorFor(stamp) # None /\ Deadline(stamp) \in Nat
  BY <1>2, AnchorProperties DEF SchedulerInv
<1>4. /\ anchor' = AnchorFor(stamp)
      /\ UNCHANGED <<running, starting, clock, queue, players, counts>>
  BY Zenon DEF ComputeDeadline
<1>5. \/ feeders' = [feeders EXCEPT ![f] = IdleFeeder]
      \/ feeders' = [feeders EXCEPT ![f] = r]
  BY Zenon DEF ComputeDeadline
<1>6. stats' \in Stats
  <2>1. \/ stats' = [stats EXCEPT !.dropped = stats.dropped + 1]
        \/ stats' = [stats EXCEPT !.late = stats.late + 1]
        \/ stats' = [stats EXCEPT !.early = stats.early + 1]
        \/ stats' = stats
    BY Zenon DEF ComputeDeadline, Recorded
  <2> HIDE DEF lead, r
  <2>2. QED
    BY <2>1 DEF SchedulerInv, TypeOK, Stats
<1>7. Scheduled(p, stamp) \in Items
  BY <1>1, <1>2, <1>3, SchedulerAssumption DEF Scheduled, Items, SchedulerInv, TypeOK, Counts
<1>8. r \in FeederStates /\ r.at = "enqueue" /\ r.item = Scheduled(p, stamp)
  BY <1>1, <1>7 DEF FeederStates
<1>9. feeders \in [Feeders -> FeederStates]
  BY DEF SchedulerInv, TypeOK
<1> HIDE DEF p, stamp, lead, r
<1>10. ASSUME feeders' \in [Feeders -> FeederStates], CallsReady',
              SessionDeadlines', TimelineMonotone'
       PROVE  SchedulerInv'
  <2>1. anchor' \in Anchors \cup {None}
    BY <1>3, <1>4
  <2>2. TypeOK'
    BY <1>4, <1>6, <1>10, <2>1, Zenon DEF SchedulerInv, TypeOK
  <2>3. StartsInBound'
    BY <1>4, Zenon DEF SchedulerInv, StartsInBound
  <2>4. ReadingsPassed'
    BY <1>4, ReadingsKept
  <2>5. QED
    BY <1>10, <2>2, <2>3, <2>4 DEF SchedulerInv
<1>11. CASE feeders' = [feeders EXCEPT ![f] = IdleFeeder]
  <2>1. /\ feeders' \in [Feeders -> FeederStates] /\ CallsReady'
        /\ Enqueuing' = Enqueuing \ {f} /\ \A g \in Enqueuing' : feeders'[g] = feeders[g]
    BY <1>11, IdleFeederType, FeederLeaves
  <2>2. Computed' \subseteq Computed
    BY <1>4, <2>1 DEF Computed
  <2>3. QED
    BY <1>2, <1>4, <1>10, <2>1, <2>2, AnchoredKept
<1>12. CASE feeders' = [feeders EXCEPT ![f] = r]
  <2>1. /\ feeders' \in [Feeders -> FeederStates] /\ feeders'[f] = r
        /\ \A g \in Feeders \ {f} : feeders'[g] = feeders[g]
    BY <1>8, <1>9, <1>12
  <2>2. CallsReady'
    BY <1>7, <1>8, <2>1 DEF SchedulerInv, CallsReady, Enqueuing
  <2>3. Computed' \subseteq Computed \cup {Scheduled(p, stamp)}
    BY <1>4, <1>8, <2>1 DEF Computed, Enqueuing
  <2>4. QED
    BY <1>1, <1>2, <1>4, <1>10, <2>1, <2>2, <2>3, ScheduledFits
<1>13. QED
  BY <1>5, <1>11, <1>12

LEMMA EnqueueInv ==
  ASSUME SchedulerInv, NEW f \in Feeders, Enqueue(f)
  PROVE  SchedulerInv'
<1> DEFINE done == [at |-> "record", packet |-> None, item |-> None]
<1>1. /\ UNCHANGED <<running, starting, clock, anchor, players, stats>>
      /\ f \in Enqueuing
  BY Zenon DEF Enqueue, Enqueuing
<1>2. \/ feeders' = [feeders EXCEPT ![f] = IdleFeeder] /\ queue' = queue /\ counts' = counts
      \/ /\ feeders' = [feeders EXCEPT ![f] = done]
         /\ queue' = queue \cup {feeders[f].item}
         /\ counts' = [counts EXCEPT !.enqueued = counts.enqueued + 1]
  BY DEF Enqueue, IdleFeeder
<1>3. done \in FeederStates /\ done.at = "record"
  BY DEF FeederStates
<1> HIDE DEF done
<1>4. /\ feeders' \in [Feeders -> FeederStates] /\ CallsReady'
      /\ Enqueuing' = Enqueuing \ {f} /\ \A g \in Enqueuing' : feeders'[g] = feeders[g]
  BY <1>2, <1>3, IdleFeederType, FeederLeaves
<1>5. counts' \in Counts /\ counts'.starts = counts.starts
  BY <1>2, CountsStep DEF SchedulerInv
<1>6. queue' \subseteq Items
  BY <1>1, <1>2 DEF SchedulerInv, TypeOK, CallsReady
<1>7. TypeOK'
  BY <1>1, <1>4, <1>5, <1>6, Zenon DEF SchedulerInv, TypeOK
<1>8. Computed' \subseteq Computed
  BY <1>1, <1>2, <1>4 DEF Computed
<1>9. StartsInBound'
  BY <1>1, <1>5, Zenon DEF SchedulerInv, StartsInBound
<1>10. QED
  BY <1>1, <1>4, <1>5, <1>7, <1>8, <1>9, DeadlinesKept, ReadingsKept DEF SchedulerInv

LEMMA RecordScheduledInv ==
  ASSUME SchedulerInv, NEW f \in Feeders, RecordScheduled(f)
  PROVE  SchedulerInv'
<1>1. /\ UNCHANGED <<running, starting, clock, anchor, queue, players, counts>>
      /\ feeders' = [feeders EXCEPT ![f] = IdleFeeder]
      /\ stats' = [stats EXCEPT !.scheduled = stats.scheduled + 1]
  BY Zenon DEF RecordScheduled, Recorded
<1>2. /\ feeders' \in [Feeders -> FeederStates] /\ CallsReady'
      /\ Enqueuing' = Enqueuing \ {f} /\ \A g \in Enqueuing' : feeders'[g] = feeders[g]
  BY <1>1, IdleFeederType, FeederLeaves
<1>3. stats' \in Stats
  BY <1>1 DEF SchedulerInv, TypeOK, Stats
<1>4. TypeOK'
  BY <1>1, <1>2, <1>3, Zenon DEF SchedulerInv, TypeOK
<1>5. Computed' \subseteq Computed
  BY <1>1, <1>2 DEF Computed
<1>6. StartsInBound'
  BY <1>1, Zenon DEF SchedulerInv, StartsInBound
<1>7. QED
  BY <1>1, <1>2, <1>4, <1>5, <1>6, DeadlinesKept, ReadingsKept DEF SchedulerInv

-----------------------------------------------------------------------------
(* next_packet, cancel_packet, clear: they only remove from the queue.     *)

(* What remains to be shown of a step of a player.                         *)
LEMMA PlayerStep ==
  ASSUME SchedulerInv, NEW p \in Players, NEW r \in PlayerStates,
         r.at = "take" => r.now = clock /\ r.start = counts.starts,
         players' = [players EXCEPT ![p] = r],
         UNCHANGED <<running, starting, clock, anchor, feeders>>,
         queue' \subseteq queue, stats' \in Stats,
         counts' \in Counts, counts'.starts = counts.starts
  PROVE  SchedulerInv'
<1>1. players \in [Players -> PlayerStates] /\ clock \in Nat /\ counts.starts \in Nat
  BY SchedulerAssumption DEF SchedulerInv, TypeOK, Counts
<1>2. /\ players' \in [Players -> PlayerStates] /\ players'[p] = r
      /\ \A q \in Players \ {p} : players'[q] = players[q]
  BY <1>1
<1>3. TypeOK'
  <2>1. queue' \subseteq Items
    BY DEF SchedulerInv, TypeOK
  <2>2. QED
    BY <1>2, <2>1, Zenon DEF SchedulerInv, TypeOK
<1>4. CallsReady'
  BY Zenon DEF SchedulerInv, CallsReady, Enqueuing
<1>5. Computed' \subseteq Computed
  BY DEF Computed, Enqueuing
<1>6. StartsInBound'
  BY Zenon DEF SchedulerInv, StartsInBound
<1>7. ReadingsPassed'
  BY <1>1, <1>2 DEF SchedulerInv, ReadingsPassed
<1>8. QED
  BY <1>3, <1>4, <1>5, <1>6, <1>7, DeadlinesKept DEF SchedulerInv

LEMMA NextBeginInv ==
  ASSUME SchedulerInv, NEW p \in Players, NextBegin(p)
  PROVE  SchedulerInv'
<1> DEFINE r == [at |-> "take", now |-> clock, start |-> counts.starts]
<1>1. /\ players' = [players EXCEPT ![p] = r]
      /\ UNCHANGED <<running, starting, clock, anchor, queue, feeders, stats, counts>>
  BY Zenon DEF NextBegin
<1>2. r \in PlayerStates /\ r.now = clock /\ r.start = counts.starts
  BY SchedulerAssumption DEF SchedulerInv, TypeOK, Counts, PlayerStates
<1> HIDE DEF r
<1>3. stats \in Stats /\ counts \in Counts
  BY DEF SchedulerInv, TypeOK
<1>4. queue' \subseteq queue
  BY <1>1
<1>5. QED
  BY <1>1, <1>2, <1>3, <1>4, PlayerStep

LEMMA NextTakeInv ==
  ASSUME SchedulerInv, NEW p \in Players, NextTake(p)
  PROVE  SchedulerInv'
<1> DEFINE done == [at |-> "record", now |-> 0, start |-> 0]
<1>1. UNCHANGED <<running, starting, clock, anchor, feeders, stats>>
  BY Zenon DEF NextTake
<1>2. /\ players' = [players EXCEPT ![p] = done] \/ players' = [players EXCEPT ![p] = IdlePlayer]
      /\ queue' \subseteq queue
      /\ counts' = counts \/ counts' = [counts EXCEPT !.taken = counts.taken + 1]
  BY DEF NextTake, IdlePlayer
<1>3. /\ done \in PlayerStates /\ done.at = "record"
      /\ IdlePlayer \in PlayerStates /\ IdlePlayer.at = "idle"
  BY DEF PlayerStates, IdlePlayer
<1> HIDE DEF done
<1>4. counts' \in Counts /\ counts'.starts = counts.starts
  BY <1>2, CountsStep DEF SchedulerInv
<1>5. stats' \in Stats
  BY <1>1 DEF SchedulerInv, TypeOK
<1>6. QED
  BY <1>1, <1>2, <1>3, <1>4, <1>5, PlayerStep

LEMMA RecordPlayedInv ==
  ASSUME SchedulerInv, NEW p \in Players, RecordPlayed(p)
  PROVE  SchedulerInv'
<1>1. /\ UNCHANGED <<running, starting, clock, anchor, queue, feeders, counts>>
      /\ players' = [players EXCEPT ![p] = IdlePlayer]
      /\ stats' = [stats EXCEPT !.played = stats.played + 1]
  BY Zenon DEF RecordPlayed, Recorded
<1>2. IdlePlayer \in PlayerStates /\ IdlePlayer.at = "idle"
  BY DEF PlayerStates, IdlePlayer
<1>3. stats' \in Stats /\ counts \in Counts
  BY <1>1 DEF SchedulerInv, TypeOK, Stats
<1>4. queue' \subseteq queue
  BY <1>1
<1>5. QED
  BY <1>1, <1>2, <1>3, <1>4, PlayerStep

LEMMA RemoveInv ==
  ASSUME SchedulerInv, IsFiniteSet(queue), NEW S \in SUBSET queue, Remove(S)
  PROVE  SchedulerInv'
<1>1. /\ UNCHANGED <<running, starting, clock, anchor, feeders, players, stats>>
      /\ counts' = [counts EXCEPT !.removed = counts.removed + Cardinality(S)]
      /\ queue' = queue \ S
  BY Zenon DEF Remove
<1>2. Cardinality(S) \in Nat
  BY FS_Subset, FS_CardinalityType
<1>3. counts' \in Counts /\ counts'.starts = counts.starts
  BY <1>1, <1>2, CountsStep DEF SchedulerInv
<1>4. queue' \subseteq Items
  BY <1>1 DEF SchedulerInv, TypeOK
<1>5. TypeOK'
  BY <1>1, <1>3, <1>4, Zenon DEF SchedulerInv, TypeOK
<1>6. CallsReady'
  BY <1>1, Zenon DEF SchedulerInv, CallsReady, Enqueuing
<1>7. Computed' \subseteq Computed
  BY <1>1 DEF Computed, Enqueuing
<1>8. StartsInBound'
  BY <1>1, <1>3, Zenon DEF SchedulerInv, StartsInBound
<1>9. QED
  BY <1>1, <1>3, <1>5, <1>6, <1>7, <1>8, DeadlinesKept, ReadingsKept DEF SchedulerInv

-----------------------------------------------------------------------------
(* The invariant.                                                          *)

(* Only enqueue adds to the queue, one packet at a time: it stays finite.  *)
FiniteQueue == IsFiniteSet(queue)

LEMMA FiniteQueueStep == FiniteQueue /\ [Next]_vars => FiniteQueue'
<1> SUFFICES ASSUME FiniteQueue, [Next]_vars PROVE FiniteQueue'
  OBVIOUS
<1>1. queue' \subseteq queue \/ \E x : queue' = queue \cup {x}
  <2>1. CASE UNCHANGED vars
    BY <2>1 DEF vars
  <2>2. CASE StartSwap \/ StartReset \/ Stop \/ Tick
    BY <2>2 DEF StartSwap, StartReset, Stop, Tick
  <2>3. CASE \E f \in Feeders, p \in Packets : ScheduleBegin(f, p)
    BY <2>3 DEF ScheduleBegin
  <2>4. CASE \E f \in Feeders, o \in ClockOffsets : ComputeDeadline(f, o)
    BY <2>4 DEF ComputeDeadline
  <2>5. CASE \E f \in Feeders : Enqueue(f)
    BY <2>5 DEF Enqueue
  <2>6. CASE \E f \in Feeders : RecordScheduled(f)
    BY <2>6 DEF RecordScheduled
  <2>7. CASE \E p \in Players : NextBegin(p)
    BY <2>7 DEF NextBegin
  <2>8. CASE \E p \in Players : NextTake(p)
    BY <2>8 DEF NextTake
  <2>9. CASE \E p \in Players : RecordPlayed(p)
    BY <2>9 DEF RecordPlayed
  <2>10. CASE \E S \in SUBSET queue : Remove(S)
    BY <2>10 DEF Remove
  <2>11. QED
    BY <2>1, <2>2, <2>3, <2>4, <2>5, <2>6, <2>7, <2>8, <2>9, <2>10
       DEF Next, Feeder, Player, CancelPacket, Clear
<1>2. QED
  BY <1>1, FS_Subset, FS_AddElement DEF FiniteQueue

LEMMA FiniteQueueInvariant == Spec => []FiniteQueue
<1>1. Init => FiniteQueue
  BY FS_EmptySet DEF Init, FiniteQueue
<1>2. QED
  BY <1>1, FiniteQueueStep, PTL DEF Spec

LEMMA SchedulerInit == Init => SchedulerInv
<1> SUFFICES ASSUME Init PROVE SchedulerInv
  OBVIOUS
<1>1. /\ running = FALSE /\ starting = FALSE /\ clock = 0 /\ anchor = None /\ queue = {}
      /\ feeders = [f \in Feeders |-> IdleFeeder]
      /\ players = [p \in Players |-> IdlePlayer]
  BY Zenon DEF Init
<1>2. IdlePlayer \in PlayerStates /\ IdlePlayer.at = "idle"
  BY DEF PlayerStates, IdlePlayer
<1>3. Computed = {} /\ Enqueuing = {}
  BY <1>1, IdleFeederType DEF Computed, Enqueuing
<1>4. stats \in Stats /\ counts \in Counts
  BY SchedulerAssumption DEF Init, Stats, Counts
<1>5. /\ running \in BOOLEAN /\ starting \in BOOLEAN
  BY <1>1, Zenon
<1>6. /\ clock \in Nat /\ anchor \in Anchors \cup {None} /\ queue \subseteq Items
      /\ feeders \in [Feeders -> FeederStates]
      /\ players \in [Players -> PlayerStates]
  BY <1>1, <1>2, IdleFeederType
<1>7. TypeOK
  BY <1>4, <1>5, <1>6, Zenon DEF TypeOK
<1>8. CallsReady
  BY <1>1, <1>3, IdleFeederType DEF CallsReady
<1>9. SessionDeadlines /\ TimelineMonotone
  BY <1>3 DEF SessionDeadlines, TimelineMonotone
<1>10. ReadingsPassed
  BY <1>1, <1>2 DEF ReadingsPassed
<1>11. StartsInBound
  BY <1>1, Zenon DEF StartsInBound
<1>12. QED
  BY <1>7, <1>8, <1>9, <1>10, <1>11 DEF SchedulerInv

LEMMA SchedulerStutter == SchedulerInv /\ UNCHANGED vars => SchedulerInv'
<1> SUFFICES ASSUME SchedulerInv, UNCHANGED vars PROVE SchedulerInv'
  OBVIOUS
<1>1. UNCHANGED <<running, starting, clock, anchor, queue, feeders, players, stats, counts>>
  BY DEF vars
<1>2. TypeOK' /\ CallsReady' /\ StartsInBound' /\ Computed' = Computed
  BY <1>1, Zenon DEF SchedulerInv, TypeOK, CallsReady, Enqueuing, StartsInBound, Computed
<1>3. QED
  BY <1>1, <1>2, DeadlinesKept, ReadingsKept DEF SchedulerInv

LEMMA SchedulerStep == SchedulerInv /\ FiniteQueue /\ [Next]_vars => SchedulerInv'
<1> SUFFICES ASSUME SchedulerInv, FiniteQueue, [Next]_vars PROVE SchedulerInv'
  OBVIOUS
<1>1. CASE UNCHANGED vars
  BY <1>1, SchedulerStutter
<1>2. CASE StartSwap \/ StartReset \/ Stop \/ Tick
  BY <1>2, StartSwapInv, StartResetInv, StopInv, TickInv
<1>3. ASSUME NEW f \in Feeders, Feeder(f) \/ \E p \in Packets : ScheduleBegin(f, p)
      PROVE  SchedulerInv'
  BY <1>3, ScheduleBeginInv, ComputeDeadlineInv, EnqueueInv, RecordScheduledInv DEF Feeder
<1>4. ASSUME NEW p \in Players, Player(p) PROVE SchedulerInv'
  BY <1>4, NextBeginInv, NextTakeInv, RecordPlayedInv DEF Player
<1>5. CASE Clear \/ \E p \in Packets : CancelPacket(p)
  BY <1>5, RemoveInv DEF Clear, CancelPacket, FiniteQueue
<1>6. QED
  BY <1>1, <1>2, <1>3, <1>4, <1>5 DEF Next

(* The inductive invariant holds of every behaviour of the scheduler.      *)
THEOREM SchedulerInvariant == Spec => []SchedulerInv
BY SchedulerInit, SchedulerStep, FiniteQueueInvariant, PTL DEF Spec

(* Every variable keeps its type: deadlines and times never go below zero. *)
THEOREM SchedulerTypeCorrect == Spec => []TypeOK
<1>1. SchedulerInv => TypeOK
  BY DEF SchedulerInv
<1>2. QED
  BY <1>1, SchedulerInvariant, PTL

(* Within a session deadlines never invert adjusted timestamps, whoever    *)
(* sets the anchor and in whatever order the packets come.                 *)
THEOREM DeadlinesMonotone == Spec => []TimelineMonotone
<1>1. SchedulerInv => TimelineMonotone
  BY DEF SchedulerInv
<1>2. QED
  BY <1>1, SchedulerInvariant, PTL

-----------------------------------------------------------------------------
(* Releases.                                                               *)

ReleaseOnTime(p) ==
  /\ players[p].at = "take" /\ players'[p].at = "record"
  /\ players[p].start = counts.starts
  => \A x \in queue \ queue' :
       x.deadline <= clock /\ \A y \in queue' : x.deadline <= y.deadline

(* The step that takes the packet takes the first one, due at a time the   *)
(* clock has passed; no other step moves the player from take to record.   *)
LEMMA TakeOnTime ==
  ASSUME SchedulerInv, NEW p \in Players, NextTake(p)
  PROVE  ReleaseOnTime(p)
<1> SUFFICES ASSUME players[p].at = "take", players'[p].at = "record",
                    players[p].start = counts.starts,
                    NEW x \in queue \ queue'
             PROVE  x.deadline <= clock /\ \A y \in queue' : x.deadline <= y.deadline
  BY DEF ReleaseOnTime
<1>1. x \in Due(players[p].now) /\ queue' = queue \ {x}
  BY Zenon DEF NextTake
<1>2. players[p].now <= clock
  BY DEF SchedulerInv, ReadingsPassed
<1>3. \A y \in queue : x.deadline <= y.deadline
  <2>1. \A y \in queue : x.deadline \in Nat /\ y.deadline \in Nat
    BY ItemType DEF SchedulerInv, TypeOK
  <2>2. QED
    BY <1>1, <2>1 DEF Due, Heads, Precedes
<1>4. players[p].now \in Nat /\ clock \in Nat /\ x.deadline \in Nat
  BY ItemType DEF SchedulerInv, TypeOK, PlayerStates
<1>5. QED
  BY <1>1, <1>2, <1>3, <1>4 DEF Due

(* A step of another player leaves this one where it is.                   *)
LEMMA OtherPlayer ==
  ASSUME SchedulerInv, NEW p \in Players, NEW q \in Players, Player(q),
         p # q \/ ~ NextTake(q)
  PROVE  players'[p].at = "record" => players[p].at # "take"
BY DEF SchedulerInv, TypeOK, Player, NextBegin, NextTake, RecordPlayed, IdlePlayer

LEMMA ReleaseStep == SchedulerInv /\ [Next]_vars => \A p \in Players : ReleaseOnTime(p)
<1> SUFFICES ASSUME SchedulerInv, [Next]_vars, NEW p \in Players
             PROVE  ReleaseOnTime(p)
  OBVIOUS
<1>1. ASSUME NEW q \in Players, Player(q) PROVE ReleaseOnTime(p)
  BY <1>1, TakeOnTime, OtherPlayer DEF ReleaseOnTime
<1>2. CASE players' = players
  BY <1>2 DEF ReleaseOnTime
<1>3. players' = players \/ \E q \in Players : Player(q)
  BY DEF Next, vars, StartSwap, StartReset, Stop, Tick, Feeder, ScheduleBegin,
         ComputeDeadline, Enqueue, RecordScheduled, CancelPacket, Clear, Remove
<1>4. QED
  BY <1>1, <1>2, <1>3

(* However long a player waits for the queue after it read the time, it    *)
(* releases the packet with the earliest deadline, and not before it.      *)
THEOREM ReleasesAreOnTime == Spec => ReleasedOnTime
<1>1. SchedulerInv /\ [Next]_vars => [\A p \in Players : ReleaseOnTime(p)]_vars
  BY ReleaseStep
<1>2. QED
  BY <1>1, SchedulerInvariant, PTL DEF Spec, ReleasedOnTime, ReleaseOnTime

-----------------------------------------------------------------------------
(* The statistics and the queue.                                           *)

(* The calls that have changed the queue and not recorded it yet. *)
Scheduling == {f \in Feeders : feeders[f].at = "record"}
Playing == {p \in Players : players[p].at = "record"}

(* A call enqueues the packet it was made with. *)
CallsKeepPacket == \A f \in Enqueuing : feeders[f].item.packet = feeders[f].packet

QueuedOnce == \A x, y \in queue : x.packet = y.packet => x = y

AccountInv ==
  /\ FiniteQueue
  /\ CallsKeepPacket
  /\ QueuedOnce
  /\ counts.enqueued = stats.scheduled + Cardinality(Scheduling)
  /\ counts.taken = stats.played + Cardinality(Playing)
  /\ counts.enqueued = counts.taken + counts.removed + Cardinality(queue)

-----------------------------------------------------------------------------
LEMMA Numbers ==
  ASSUME TypeOK, FiniteQueue
  PROVE  /\ counts.enqueued \in Nat /\ counts.taken \in Nat /\ counts.removed \in Nat
         /\ stats.scheduled \in Nat /\ stats.played \in Nat
         /\ IsFiniteSet(Scheduling) /\ Cardinality(Scheduling) \in Nat
         /\ IsFiniteSet(Playing) /\ Cardinality(Playing) \in Nat
         /\ Cardinality(queue) \in Nat
<1>1. IsFiniteSet(Scheduling) /\ IsFiniteSet(Playing)
  BY SchedulerAssumption, FS_Subset DEF Scheduling, Playing
<1>2. QED
  BY <1>1, FS_CardinalityType DEF TypeOK, Counts, Stats, FiniteQueue

(* A step of one feeder at a time: what becomes of the calls that record.  *)
LEMMA FeederMoves ==
  ASSUME TypeOK, NEW f \in Feeders, NEW r, feeders' = [feeders EXCEPT ![f] = r]
  PROVE  /\ Scheduling' = IF r.at = "record" THEN Scheduling \cup {f} ELSE Scheduling \ {f}
         /\ CallsKeepPacket /\ (r.at = "enqueue" => r.item.packet = r.packet)
              => CallsKeepPacket'
<1>1. /\ feeders'[f] = r
      /\ \A g \in Feeders \ {f} : feeders'[g] = feeders[g]
  BY DEF TypeOK
<1>2. QED
  BY <1>1 DEF Scheduling, CallsKeepPacket, Enqueuing

LEMMA PlayerMoves ==
  ASSUME TypeOK, NEW p \in Players, NEW r, players' = [players EXCEPT ![p] = r]
  PROVE  Playing' = IF r.at = "record" THEN Playing \cup {p} ELSE Playing \ {p}
<1>1. /\ players'[p] = r
      /\ \A q \in Players \ {p} : players'[q] = players[q]
  BY DEF TypeOK
<1>2. QED
  BY <1>1 DEF Playing

(* Steps that move none of the accounts. *)
LEMMA AccountsKept ==
  ASSUME AccountInv, queue' = queue, CallsKeepPacket',
         Scheduling' = Scheduling, Playing' = Playing,
         counts'.enqueued = counts.enqueued, counts'.taken = counts.taken,
         counts'.removed = counts.removed,
         stats'.scheduled = stats.scheduled, stats'.played = stats.played
  PROVE  AccountInv'
BY DEF AccountInv, FiniteQueue, QueuedOnce

-----------------------------------------------------------------------------
LEMMA LifecycleAccounts ==
  ASSUME SchedulerInv, AccountInv, StartSwap \/ StartReset \/ Stop \/ Tick \/ UNCHANGED vars
  PROVE  AccountInv'
<1>1. UNCHANGED <<queue, feeders, players, stats>>
  BY DEF StartSwap, StartReset, Stop, Tick, vars
<1>2. /\ counts'.enqueued = counts.enqueued /\ counts'.taken = counts.taken
      /\ counts'.removed = counts.removed
  BY DEF StartSwap, StartReset, Stop, Tick, vars, SchedulerInv, TypeOK, Counts
<1>3. CallsKeepPacket' /\ Scheduling' = Scheduling /\ Playing' = Playing
  BY <1>1 DEF AccountInv, CallsKeepPacket, Enqueuing, Scheduling, Playing
<1>4. QED
  BY <1>1, <1>2, <1>3, AccountsKept

LEMMA ScheduleBeginAccounts ==
  ASSUME SchedulerInv, AccountInv, NEW f \in Feeders, NEW p \in Packets, ScheduleBegin(f, p)
  PROVE  AccountInv'
<1> DEFINE r == [at |-> "offset", packet |-> p, item |-> None]
<1>1. /\ UNCHANGED <<queue, players, stats>> /\ feeders' = [feeders EXCEPT ![f] = r]
      /\ feeders[f].at = "idle"
      /\ counts' = [counts EXCEPT !.offers = counts.offers + 1]
      /\ r.at = "offset"
  BY DEF ScheduleBegin
<1> HIDE DEF r
<1>2. /\ counts'.enqueued = counts.enqueued /\ counts'.taken = counts.taken
      /\ counts'.removed = counts.removed
  BY <1>1 DEF SchedulerInv, TypeOK, Counts
<1>3. CallsKeepPacket' /\ Scheduling' = Scheduling \ {f}
  BY <1>1, FeederMoves DEF SchedulerInv, AccountInv
<1>4. Scheduling' = Scheduling /\ Playing' = Playing
  BY <1>1, <1>3 DEF Scheduling, Playing
<1>5. QED
  BY <1>1, <1>2, <1>3, <1>4, AccountsKept

LEMMA ComputeDeadlineAccounts ==
  ASSUME SchedulerInv, AccountInv, NEW f \in Feeders, NEW o \in ClockOffsets,
         ComputeDeadline(f, o)
  PROVE  AccountInv'
<1> DEFINE p == feeders[f].packet
           stamp == Max0(Timestamp[p] + o)
           r == [at |-> "enqueue", packet |-> p, item |-> Scheduled(p, stamp)]
<1>1. /\ UNCHANGED <<queue, players, counts>> /\ feeders[f].at = "offset"
      /\ \/ feeders' = [feeders EXCEPT ![f] = IdleFeeder]
         \/ feeders' = [feeders EXCEPT ![f] = r]
      /\ \/ stats' = [stats EXCEPT !.dropped = stats.dropped + 1]
         \/ stats' = [stats EXCEPT !.late = stats.late + 1]
         \/ stats' = [stats EXCEPT !.early = stats.early + 1]
         \/ stats' = stats
  BY Zenon DEF ComputeDeadline, Recorded
<1>2. IdleFeeder.at = "idle" /\ r.at = "enqueue" /\ r.item.packet = r.packet
  BY DEF IdleFeeder, Scheduled
<1> HIDE DEF p, stamp, r
<1>3. stats'.scheduled = stats.scheduled /\ stats'.played = stats.played
  BY <1>1 DEF SchedulerInv, TypeOK, Stats
<1>4. CallsKeepPacket' /\ Scheduling' = Scheduling \ {f}
  BY <1>1, <1>2, FeederMoves DEF SchedulerInv, AccountInv
<1>5. Scheduling' = Scheduling /\ Playing' = Playing
  BY <1>1, <1>4 DEF Scheduling, Playing
<1>6. QED
  BY <1>1, <1>3, <1>4, <1>5, AccountsKept

LEMMA EnqueueAccounts ==
  ASSUME SchedulerInv, AccountInv, NEW f \in Feeders, Enqueue(f)
  PROVE  AccountInv'
<1> DEFINE r == [IdleFeeder EXCEPT !.at = "record"]
           x == feeders[f].item
<1>1. UNCHANGED <<players, stats>> /\ feeders[f].at = "enqueue" /\ f \in Enqueuing
  BY DEF Enqueue, Enqueuing
<1>2. IdleFeeder.at = "idle" /\ r.at = "record" /\ x.packet = feeders[f].packet
  BY <1>1 DEF IdleFeeder, AccountInv, CallsKeepPacket
<1>3. CASE Refuses(feeders[f].packet)
  <2>1. feeders' = [feeders EXCEPT ![f] = IdleFeeder] /\ UNCHANGED <<queue, counts>>
    BY <1>3 DEF Enqueue
  <2>2. CallsKeepPacket' /\ Scheduling' = Scheduling \ {f}
    BY <1>2, <2>1, FeederMoves DEF SchedulerInv, AccountInv
  <2>3. Scheduling' = Scheduling /\ Playing' = Playing
    BY <1>1, <2>2 DEF Scheduling, Playing
  <2>4. QED
    BY <1>1, <2>1, <2>2, <2>3, AccountsKept
<1>4. CASE ~ Refuses(feeders[f].packet)
  <2>1. /\ queue' = queue \cup {x}
        /\ feeders' = [feeders EXCEPT ![f] = r]
        /\ counts' = [counts EXCEPT !.enqueued = counts.enqueued + 1]
    BY <1>4 DEF Enqueue
  <2>2. \A y \in queue : y.packet # x.packet
    BY <1>2, <1>4 DEF Refuses, Queued
  <2> HIDE DEF r, x
  <2>3. /\ counts'.enqueued = counts.enqueued + 1 /\ counts'.taken = counts.taken
        /\ counts'.removed = counts.removed
    BY <2>1 DEF SchedulerInv, TypeOK, Counts
  <2>4. CallsKeepPacket' /\ Scheduling' = Scheduling \cup {f} /\ Playing' = Playing
    BY <1>1, <1>2, <2>1, FeederMoves DEF SchedulerInv, AccountInv, Playing
  <2>5. f \notin Scheduling /\ x \notin queue
    BY <1>1, <2>2 DEF Scheduling
  <2>6. /\ counts.enqueued \in Nat /\ counts.taken \in Nat /\ counts.removed \in Nat
        /\ stats.scheduled \in Nat /\ stats.played \in Nat
        /\ IsFiniteSet(Scheduling) /\ Cardinality(Scheduling) \in Nat
        /\ IsFiniteSet(queue) /\ Cardinality(queue) \in Nat
    BY Numbers DEF SchedulerInv, AccountInv, FiniteQueue
  <2>7. Cardinality(Scheduling') = Cardinality(Scheduling) + 1
    BY <2>4, <2>5, <2>6, FS_AddElement
  <2>8. IsFiniteSet(queue') /\ Cardinality(queue') = Cardinality(queue) + 1
    BY <2>1, <2>5, <2>6, FS_AddElement
  <2>9. QueuedOnce'
    BY <2>1, <2>2 DEF AccountInv, QueuedOnce
  <2>10. QED
    BY <1>1, <2>3, <2>4, <2>6, <2>7, <2>8, <2>9 DEF AccountInv, FiniteQueue
<1>5. QED
  BY <1>3, <1>4

LEMMA RecordScheduledAccounts ==
  ASSUME SchedulerInv, AccountInv, NEW f \in Feeders, RecordScheduled(f)
  PROVE  AccountInv'
<1>1. /\ UNCHANGED <<queue, players, counts>>
      /\ feeders' = [feeders EXCEPT ![f] = IdleFeeder] /\ f \in Scheduling
      /\ stats' = [stats EXCEPT !.scheduled = stats.scheduled + 1]
  BY Zenon DEF RecordScheduled, Recorded, Scheduling
<1>2. IdleFeeder.at = "idle"
  BY DEF IdleFeeder
<1>3. stats'.scheduled = stats.scheduled + 1 /\ stats'.played = stats.played
  BY <1>1 DEF SchedulerInv, TypeOK, Stats
<1>4. CallsKeepPacket' /\ Scheduling' = Scheduling \ {f} /\ Playing' = Playing
  BY <1>1, <1>2, FeederMoves DEF SchedulerInv, AccountInv, Playing
<1>5. /\ counts.enqueued \in Nat /\ stats.scheduled \in Nat
      /\ IsFiniteSet(Scheduling) /\ Cardinality(Scheduling) \in Nat
  BY Numbers DEF SchedulerInv, AccountInv
<1>6. Cardinality(Scheduling') = Cardinality(Scheduling) - 1
  BY <1>1, <1>4, <1>5, FS_RemoveElement
<1>7. QED
  BY <1>1, <1>3, <1>4, <1>5, <1>6 DEF AccountInv, FiniteQueue, QueuedOnce

-----------------------------------------------------------------------------
LEMMA NextBeginAccounts ==
  ASSUME SchedulerInv, AccountInv, NEW p \in Players, NextBegin(p)
  PROVE  AccountInv'
<1> DEFINE r == [at |-> "take", now |-> clock, start |-> counts.starts]
<1>1. /\ UNCHANGED <<queue, feeders, stats, counts>> /\ players[p].at = "idle"
      /\ players' = [players EXCEPT ![p] = r] /\ r.at = "take"
  BY DEF NextBegin
<1> HIDE DEF r
<1>2. Playing' = Playing \ {p}
  BY <1>1, PlayerMoves DEF SchedulerInv
<1>3. Playing' = Playing /\ Scheduling' = Scheduling /\ CallsKeepPacket'
  BY <1>1, <1>2 DEF Playing, Scheduling, AccountInv, CallsKeepPacket, Enqueuing
<1>4. QED
  BY <1>1, <1>3, AccountsKept

LEMMA NextTakeAccounts ==
  ASSUME SchedulerInv, AccountInv, NEW p \in Players, NextTake(p)
  PROVE  AccountInv'
<1> DEFINE r == [IdlePlayer EXCEPT !.at = "record"]
<1>1. UNCHANGED <<feeders, stats>> /\ p \notin Playing
  BY DEF NextTake, Playing
<1>2. Scheduling' = Scheduling /\ CallsKeepPacket'
  BY <1>1 DEF Scheduling, AccountInv, CallsKeepPacket, Enqueuing
<1>3. IdlePlayer.at = "idle" /\ r.at = "record"
  BY DEF IdlePlayer
<1>4. CASE players' = [players EXCEPT ![p] = IdlePlayer] /\ UNCHANGED <<queue, counts>>
  <2>1. Playing' = Playing
    BY <1>1, <1>3, <1>4, PlayerMoves, ZenonT(40) DEF SchedulerInv
  <2>2. QED
    BY <1>1, <1>2, <1>4, <2>1, AccountsKept
<1>5. ASSUME NEW x \in queue, queue' = queue \ {x}, players' = [players EXCEPT ![p] = r],
             counts' = [counts EXCEPT !.taken = counts.taken + 1]
      PROVE  AccountInv'
  <2> HIDE DEF r
  <2>1. /\ counts'.enqueued = counts.enqueued /\ counts'.taken = counts.taken + 1
        /\ counts'.removed = counts.removed
    BY <1>5 DEF SchedulerInv, TypeOK, Counts
  <2>2. Playing' = Playing \cup {p}
    BY <1>3, <1>5, PlayerMoves DEF SchedulerInv
  <2>3. /\ counts.enqueued \in Nat /\ counts.taken \in Nat /\ counts.removed \in Nat
        /\ stats.played \in Nat
        /\ IsFiniteSet(Playing) /\ Cardinality(Playing) \in Nat
        /\ IsFiniteSet(queue) /\ Cardinality(queue) \in Nat
    BY Numbers DEF SchedulerInv, AccountInv, FiniteQueue
  <2>4. Cardinality(Playing') = Cardinality(Playing) + 1
    BY <1>1, <2>2, <2>3, FS_AddElement
  <2>5. IsFiniteSet(queue') /\ Cardinality(queue') = Cardinality(queue) - 1
    BY <1>5, <2>3, FS_RemoveElement
  <2>6. QueuedOnce'
    BY <1>5 DEF AccountInv, QueuedOnce
  <2>7. QED
    BY <1>1, <1>2, <2>1, <2>3, <2>4, <2>5, <2>6 DEF AccountInv, FiniteQueue
<1>6. QED
  BY <1>4, <1>5 DEF NextTake, Due, Heads

LEMMA RecordPlayedAccounts ==
  ASSUME SchedulerInv, AccountInv, NEW p \in Players, RecordPlayed(p)
  PROVE  AccountInv'
<1>1. /\ UNCHANGED <<queue, feeders, counts>>
      /\ players' = [players EXCEPT ![p] = IdlePlayer] /\ p \in Playing
      /\ stats' = [stats EXCEPT !.played = stats.played + 1]
  BY Zenon DEF RecordPlayed, Recorded, Playing
<1>2. IdlePlayer.at = "idle"
  BY DEF IdlePlayer
<1>3. stats'.scheduled = stats.scheduled /\ stats'.played = stats.played + 1
  BY <1>1 DEF SchedulerInv, TypeOK, Stats
<1>4. CallsKeepPacket' /\ Scheduling' = Scheduling
  BY <1>1 DEF AccountInv, CallsKeepPacket, Enqueuing, Scheduling
<1>5. Playing' = Playing \ {p}
  BY <1>1, <1>2, PlayerMoves DEF SchedulerInv
<1>6. /\ counts.taken \in Nat /\ stats.played \in Nat
      /\ IsFiniteSet(Playing) /\ Cardinality(Playing) \in Nat
  BY Numbers DEF SchedulerInv, AccountInv
<1>7. Cardinality(Playing') = Cardinality(Playing) - 1
  BY <1>1, <1>5, <1>6, FS_RemoveElement
<1>8. QED
  BY <1>1, <1>3, <1>4, <1>6, <1>7 DEF AccountInv, FiniteQueue, QueuedOnce

(* cancel_packet and clear. *)
LEMMA RemoveAccounts ==
  ASSUME SchedulerInv, AccountInv, NEW S \in SUBSET queue, Remove(S)
  PROVE  AccountInv'
<1>1. /\ UNCHANGED <<feeders, players, stats>> /\ queue' = queue \ S
      /\ counts' = [counts EXCEPT !.removed = counts.removed + Cardinality(S)]
  BY Zenon DEF Remove
<1>2. /\ counts'.enqueued = counts.enqueued /\ counts'.taken = counts.taken
      /\ counts'.removed = counts.removed + Cardinality(S)
  BY <1>1 DEF SchedulerInv, TypeOK, Counts
<1>3. CallsKeepPacket' /\ Scheduling' = Scheduling /\ Playing' = Playing
  BY <1>1 DEF AccountInv, CallsKeepPacket, Enqueuing, Scheduling, Playing
<1>4. /\ counts.enqueued \in Nat /\ counts.taken \in Nat /\ counts.removed \in Nat
      /\ IsFiniteSet(queue) /\ Cardinality(queue) \in Nat
  BY Numbers DEF SchedulerInv, AccountInv, FiniteQueue
<1>5. Cardinality(S) \in Nat /\ queue \cap S = S
  BY <1>4, FS_Subset, FS_CardinalityType
<1>6. IsFiniteSet(queue') /\ Cardinality(queue') = Cardinality(queue) - Cardinality(S)
  BY <1>1, <1>4, <1>5, FS_Difference, ZenonT(40)
<1>7. QueuedOnce'
  BY <1>1 DEF AccountInv, QueuedOnce
<1>8. QED
  BY <1>1, <1>2, <1>3, <1>4, <1>5, <1>6, <1>7 DEF AccountInv, FiniteQueue

-----------------------------------------------------------------------------
LEMMA AccountInit == Init => AccountInv
<1> SUFFICES ASSUME Init PROVE AccountInv
  OBVIOUS
<1>1. Scheduling = {} /\ Playing = {} /\ Enqueuing = {} /\ queue = {}
  BY DEF Init, Scheduling, Playing, Enqueuing, IdleFeeder, IdlePlayer
<1>2. QED
  BY <1>1, FS_EmptySet DEF Init, AccountInv, FiniteQueue, CallsKeepPacket, QueuedOnce

LEMMA AccountStep == SchedulerInv /\ AccountInv /\ [Next]_vars => AccountInv'
<1> SUFFICES ASSUME SchedulerInv, AccountInv, [Next]_vars PROVE AccountInv'
  OBVIOUS
<1>1. CASE StartSwap \/ StartReset \/ Stop \/ Tick \/ UNCHANGED vars
  BY <1>1, LifecycleAccounts
<1>2. CASE \E f \in Feeders : Feeder(f) \/ \E p \in Packets : ScheduleBegin(f, p)
  BY <1>2, ScheduleBeginAccounts, ComputeDeadlineAccounts, EnqueueAccounts,
     RecordScheduledAccounts DEF Feeder
<1>3. CASE \E p \in Players : Player(p)
  BY <1>3, NextBeginAccounts, NextTakeAccounts, RecordPlayedAccounts DEF Player
<1>4. CASE \E p \in Packets : CancelPacket(p)
  <2>1. PICK p \in Packets : Remove({x \in queue : x.packet = p})
    BY <1>4 DEF CancelPacket
  <2>2. QED
    BY <2>1, RemoveAccounts
<1>5. CASE Clear
  BY <1>5, RemoveAccounts DEF Clear
<1>6. QED
  BY <1>1, <1>2, <1>3, <1>4, <1>5 DEF Next

THEOREM AccountInvariant == Spec => []AccountInv
BY AccountInit, AccountStep, SchedulerInvariant, PTL DEF Spec

(* The statistics and the queue agree up to the calls in progress, and no  *)
(* packet is queued twice or leaves unaccounted for, whatever is stopped,  *)
(* cancelled or cleared meanwhile.                                         *)
THEOREM AccountsAgree == Spec => []Accounting
<1>1. AccountInv => Accounting
  BY Zenon DEF AccountInv, Accounting, Statistics, Snapshot, Scheduling, Playing, QueuedOnce
<1>2. QED
  BY <1>1, AccountInvariant, PTL
=============================================================================
