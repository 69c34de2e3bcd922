--------------------------- MODULE AudioPlayback ---------------------------
(***************************************************************************)
(* Clock and scheduler of the echosync workspace                           *)
(* (echosync/buffer/src/core/sync, echosync/scheduler/src), call by call.  *)
(* Synchronizer and PlaybackScheduler model the same code between its      *)
(* locks; here both are running, and the clock may be started anew.        *)
(*                                                                         *)
(* Instead of the time since the timeline's start, the time since its      *)
(* anchor and the time left to every deadline are kept; both saturate      *)
(* where they make no difference any more.                                 *)
(***************************************************************************)
EXTENDS Integers, FiniteSets, Sequences, SequencesExt

CONSTANTS
  MeasuredOffsets,                   \* what a pass may measure
  MaxAllowedOffset,
  CorrectionStep,                    \* max_correction_step
  Spacing,                           \* time between two packets' capture
  Span,                              \* the largest difference of two adjusted timestamps
  Latency, MaxLate, QueueCapacity,
  NoAnchor

(* SchedulerConfig::validate and SyncConfig::validate *)
ValidSchedulerConfig == MaxLate > 0 /\ QueueCapacity > 0
ValidSyncConfig == CorrectionStep > 0 /\ MaxAllowedOffset > 0

ASSUME PlaybackConfigAssumption ==
  /\ MeasuredOffsets \subseteq Int /\ 0 \in MeasuredOffsets
  /\ {MaxAllowedOffset, CorrectionStep, Spacing, Span, Latency, MaxLate, QueueCapacity} \subseteq Nat
  /\ ValidSchedulerConfig /\ ValidSyncConfig
  /\ NoAnchor \notin [stamp : Nat, since : Nat]

VARIABLES
  clock,             \* the applied offset, the one it moves to, and whether there was
                     \* a measurement
  anchor,            \* the anchor's timestamp and the time since, or NoAnchor
  queue,             \* scheduled packets in the order they will be played
  pstats,            \* the scheduler's counters; refused and removed are history
  played             \* history: packets handed to the audio output

timelineVars == <<anchor, queue>>
playbackVars == <<clock, timelineVars, pstats, played>>

(* calculate_offset: others are refused, and change nothing. *)
ClockOffsets == {m \in MeasuredOffsets : m \in -MaxAllowedOffset .. MaxAllowedOffset}

ClockManager == [offset : ClockOffsets, target : ClockOffsets, synced : BOOLEAN]

Anchors == [stamp : Nat, since : Nat]

ScheduledPackets == [seq : Nat, left : Int]

PlaybackCounters == [scheduled : Nat, dropped : Nat, refused : Nat, removed : Nat]

PlaybackTypeOK ==
  /\ clock \in ClockManager
  /\ anchor \in Anchors \cup {NoAnchor}
  /\ queue \in Seq(ScheduledPackets)
  /\ pstats \in PlaybackCounters
  /\ played \in Seq(Nat)

(* ClockManager::new *)
FreshClock == [offset |-> 0, target |-> 0, synced |-> FALSE]

(* PlaybackTimeline::new, PlaybackQueue::new *)
NewTimeline == anchor = NoAnchor
NewSchedule == queue = <<>>

PlaybackInit ==
  /\ clock = FreshClock
  /\ NewTimeline /\ NewSchedule
  /\ pstats = [scheduled |-> 0, dropped |-> 0, refused |-> 0, removed |-> 0]
  /\ played = <<>>

NotNegative(n) == IF n < 0 THEN 0 ELSE n

-----------------------------------------------------------------------------
(* The clock *)

(* correct_drift: one step towards a target, of any size the correction    *)
(* rate may give.                                                          *)
Corrected(from, to) == {o \in ClockOffsets :
                          /\ o - from \in -CorrectionStep .. CorrectionStep
                          /\ \/ from <= o /\ o <= to
                             \/ to <= o /\ o <= from}

(* apply_offset: the first measurement is taken over at once. *)
Applied(o) == [offset |-> IF clock.synced THEN clock.offset ELSE o,
               target |-> o, synced |-> TRUE]

(* estimate_drift needs two measurements, and refuses a drift too large. *)
DriftRefused(c) == IF clock.synced THEN {c} ELSE {}

(* synchronize: a measurement in range (others change nothing) becomes the *)
(* target; a step follows, unless the drift is refused.                    *)
Synchronize(o) ==
  /\ clock' \in LET c == Applied(o)
                IN  DriftRefused(c) \cup {[c EXCEPT !.offset = n] : n \in Corrected(c.offset, o)}
  /\ clock' # clock
  /\ UNCHANGED <<timelineVars, pstats, played>>

(* update *)
Update ==
  /\ \E o \in Corrected(clock.offset, clock.target) \ {clock.offset} :
       clock' = [clock EXCEPT !.offset = o]
  /\ UNCHANGED <<timelineVars, pstats, played>>

(* ClockManager::reset *)
ClockReset == clock' = FreshClock

(* stop and start *)
RestartClock ==
  /\ clock # FreshClock
  /\ ClockReset
  /\ UNCHANGED <<timelineVars, pstats, played>>

-----------------------------------------------------------------------------
(* schedule_packet *)

CurrentOffset == clock.offset

(* The timestamp on the shared clock. *)
AdjustedStamp(p) == NotNegative(p * Spacing + CurrentOffset)

AnchoredAt(stamp) == IF anchor = NoAnchor THEN [stamp |-> stamp, since |-> 0] ELSE anchor

(* How far away the deadline of a packet is. *)
TimeLeft(stamp) ==
  NotNegative(stamp - AnchoredAt(stamp).stamp) - AnchoredAt(stamp).since + Latency

(* Mutant: ties between deadlines are broken the other way round. *)
PlaysBeforeReversed(x, y) == x.left < y.left \/ (x.left = y.left /\ x.seq > y.seq)

(* ScheduledPacket::cmp *)
PlaysBefore(x, y) == x.left < y.left \/ (x.left = y.left /\ x.seq < y.seq)

(* The queue with x at its place. *)
Inserted(x) ==
  LET place == Cardinality({i \in 1 .. Len(queue) : PlaysBefore(queue[i], x)})
  IN  SubSeq(queue, 1, place) \o <<x>> \o SubSeq(queue, place + 1, Len(queue))

(* PlaybackQueue::enqueue refuses a packet that is queued already. *)
QueueRefuses(p) == Len(queue) >= QueueCapacity \/ \E i \in 1 .. Len(queue) : queue[i].seq = p

(* record_scheduled, record_dropped; what the queue refuses is history. *)
Recorded(counter) == [pstats EXCEPT ![counter] = @ + 1]

SchedulePacket(p) ==
  LET stamp == AdjustedStamp(p)
      left == TimeLeft(stamp)
      expired == left < -MaxLate
  IN  /\ anchor' = AnchoredAt(stamp)
      /\ queue' = IF expired \/ QueueRefuses(p) THEN queue
                  ELSE Inserted([seq |-> p, left |-> left])
      /\ pstats' = IF expired THEN Recorded("dropped")
                   ELSE IF QueueRefuses(p) THEN Recorded("refused")
                   ELSE Recorded("scheduled")
      /\ UNCHANGED <<clock, played>>

-----------------------------------------------------------------------------
(* PlaybackQueue::dequeue *)
Dequeue == queue' = Tail(queue)

(* Mutant: a packet is played at its deadline or not at all. *)
DueOnTheDot == queue # <<>> /\ Head(queue).left = 0

Peek == Head(queue)

Due == queue # <<>> /\ Peek.left <= 0

(* next_packet: the first packet, when it is due. *)
NextPacket ==
  /\ Due /\ Dequeue
  /\ played' = Append(played, Head(queue).seq)
  /\ UNCHANGED <<clock, anchor, pstats>>

-----------------------------------------------------------------------------
(* cancel_packet, clear *)

Removed(keep) ==
  /\ queue' = keep
  /\ pstats' = [pstats EXCEPT !.removed = @ + Len(queue) - Len(keep)]
  /\ UNCHANGED <<clock, anchor, played>>

CancelPacket(p) ==
  \E i \in 1 .. Len(queue) :
    /\ queue[i].seq = p
    /\ Removed(RemoveAt(queue, i))

ClearSchedule == queue # <<>> /\ Removed(<<>>)

-----------------------------------------------------------------------------
(* Past these times every packet would be too late, and every queued one   *)
(* is due before any that is not queued yet.                               *)
SinceLimit == Span + Latency + MaxLate + 1
LeftLimit == -(MaxLate + 1)

Nearer == [i \in 1 .. Len(queue) |->
             [queue[i] EXCEPT !.left = IF @ > LeftLimit THEN @ - 1 ELSE @]]

Longer == IF anchor = NoAnchor \/ anchor.since >= SinceLimit THEN anchor
          ELSE [anchor EXCEPT !.since = @ + 1]

-----------------------------------------------------------------------------
Snapshot(occupancy) ==
  [packets_scheduled |-> pstats.scheduled, packets_played |-> Len(played),
   packets_dropped |-> pstats.dropped, queue_occupancy |-> occupancy]

(* statistics() *)
SchedulerStatistics == Snapshot(Len(queue))

(* What was scheduled is queued or was played; what was not was too late   *)
(* or, and that nothing counts, was refused by the queue.                  *)
PlaybackAccounted(popped) ==
  LET s == SchedulerStatistics
  IN  /\ popped = s.packets_scheduled + s.packets_dropped + pstats.refused
      /\ s.packets_scheduled = s.queue_occupancy + s.packets_played + pstats.removed
=============================================================================
