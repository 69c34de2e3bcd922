---------------------------- MODULE JitterBuffer ----------------------------
(***************************************************************************)
(* The jitter buffer (buffer/src/core/buffer/jitter_buffer.rs): packets    *)
(* wait in sequence order until they are old enough to be played.          *)
(*                                                                         *)
(* Abstractions.  A packet is its sequence number.  Time is the age of     *)
(* each buffered packet in ticks, saturating one above every threshold it  *)
(* is compared with.  The floating-point jitter estimate only enters the   *)
(* adaptive target delay, as a headroom of any size.                       *)
(***************************************************************************)
EXTENDS PacketWindow, FiniteSets

CONSTANTS
  MaxBufferSize,
  TargetDelay, MinTargetDelay, MaxTargetDelay, MaxPacketAge,
  AdaptiveEnabled, AdaptiveStep

(* What BufferConfig::validate requires -- in particular nothing relates   *)
(* MaxPacketAge to the delays.                                             *)
ValidBufferConfig ==
  /\ MaxBufferSize > 0
  /\ MinTargetDelay <= MaxTargetDelay
  /\ TargetDelay \in MinTargetDelay .. MaxTargetDelay
  /\ CacheSize > 0

ASSUME BufferConfigAssumption ==
  /\ {MaxBufferSize, MinTargetDelay, MaxTargetDelay, MaxPacketAge, AdaptiveStep} \subseteq Nat
  /\ AdaptiveEnabled \in BOOLEAN
  /\ ValidBufferConfig

VARIABLES
  entries,      \* the keys of the entries map
  age,          \* elapsed() of each entry; 0 for a number not buffered
  targetDelay,
  totals,       \* packets_*_total and max_occupancy
  discarded     \* history: packets thrown away by reset()

bufferVars == <<entries, age, targetDelay, totals, discarded, windowVars>>

AgeCap ==
  1 + (IF MaxPacketAge > MaxTargetDelay THEN MaxPacketAge ELSE MaxTargetDelay)

Totals == [buffered : Nat, delivered : Nat, dropped : Nat, maxOccupancy : Nat]

BufferTypeOK ==
  /\ WindowTypeOK
  /\ entries \in SUBSET SeqNums
  /\ age \in [SeqNums -> 0 .. AgeCap]
  /\ targetDelay \in MinTargetDelay .. MaxTargetDelay
  /\ totals \in Totals
  /\ discarded \in Nat

BufferInit ==
  /\ WindowInit
  /\ entries = {}
  /\ age = [s \in SeqNums |-> 0]
  /\ targetDelay = TargetDelay
  /\ totals = [buffered |-> 0, delivered |-> 0, dropped |-> 0, maxOccupancy |-> 0]
  /\ discarded = 0

-----------------------------------------------------------------------------
(* The first key of the ordered map S, as a set of at most one element. *)
First(S) == {s \in S : \A t \in S : s <= t}

(* Replace the buffered packets by S, whose members keep their age. *)
Keep(S) ==
  /\ entries' = S
  /\ age' = [s \in SeqNums |-> IF s \in S \cap entries THEN age[s] ELSE 0]

Clamp(d) ==
  IF d < MinTargetDelay THEN MinTargetDelay
  ELSE IF d > MaxTargetDelay THEN MaxTargetDelay ELSE d

(* adapt_target_delay: at most one step towards the delay that leaves      *)
(* headroom for the observed jitter.                                       *)
Stepped(candidate) ==
  IF candidate > targetDelay
    THEN IF targetDelay + AdaptiveStep < candidate
           THEN targetDelay + AdaptiveStep ELSE candidate
    ELSE IF targetDelay - AdaptiveStep > candidate
           THEN targetDelay - AdaptiveStep ELSE candidate

AdaptTargetDelay ==
  IF AdaptiveEnabled
    THEN \E candidate \in TargetDelay .. MaxTargetDelay :
           targetDelay' = Clamp(Stepped(candidate))
    ELSE UNCHANGED targetDelay

(* insert_packet, a number still buffered: refused before the window is    *)
(* asked, so nothing is counted.                                           *)
InsertBuffered(s) == s \in entries /\ UNCHANGED bufferVars

(* insert_packet, refused by the window. *)
InsertRefused(s) ==
  /\ s \notin entries
  /\ Reject(s)
  /\ UNCHANGED <<entries, age, targetDelay, totals, discarded>>

(* insert_packet accepted: a full buffer drops its first packet, even when *)
(* the new one sorts before it.  The window is not told of the drop.       *)
Overflow == IF Cardinality(entries) >= MaxBufferSize THEN First(entries) ELSE {}

InsertAccepted(s) ==
  /\ s \notin entries
  /\ Admit(s)
  /\ Keep((entries \ Overflow) \cup {s})
  /\ totals' = [totals EXCEPT
       !.buffered = totals.buffered + 1,
       !.dropped = totals.dropped + Cardinality(Overflow),
       !.maxOccupancy = IF Cardinality(entries') > totals.maxOccupancy
                          THEN Cardinality(entries') ELSE totals.maxOccupancy]
  /\ AdaptTargetDelay
  /\ UNCHANGED discarded

InsertPacket(s) == InsertAccepted(s) \/ InsertRefused(s) \/ InsertBuffered(s)

-----------------------------------------------------------------------------
(* evict_stale *)
Stale == {s \in entries : age[s] > MaxPacketAge}

(* Mutant: any packet that is old enough. *)
ReadyAnywhere(S) == {s \in S : age[s] >= targetDelay}

(* The packet next_packet may hand out once S is what is buffered: only    *)
(* the first of S is considered, however old the others are.               *)
Ready(S) == {s \in First(S) : age[s] >= targetDelay}

(* next_packet returning a packet *)
ReleaseNext(s) ==
  /\ s \in Ready(entries \ Stale)
  /\ Keep(entries \ (Stale \cup {s}))
  /\ Advance(s)
  /\ totals' = [totals EXCEPT !.delivered = totals.delivered + 1,
                              !.dropped = totals.dropped + Cardinality(Stale)]
  /\ UNCHANGED <<targetDelay, discarded>>

(* Mutants: an empty-handed poll leaves the stale packets in place, or     *)
(* removes them without counting them.                                     *)
ReleaseNothingKeepsStale ==
  Ready(entries \ Stale) = {} /\ UNCHANGED bufferVars

ReleaseNothingUncounted ==
  /\ Ready(entries \ Stale) = {}
  /\ Keep(entries \ Stale)
  /\ UNCHANGED <<totals, targetDelay, discarded, windowVars>>

(* next_packet returning None: the stale packets are gone all the same. *)
ReleaseNothing ==
  /\ Ready(entries \ Stale) = {}
  /\ Keep(entries \ Stale)
  /\ totals' = [totals EXCEPT !.dropped = @ + Cardinality(Stale)]
  /\ UNCHANGED <<targetDelay, discarded, windowVars>>

(* One iteration of flush(): the first packet, whatever its age. *)
FlushOne(s) ==
  /\ s \in First(entries)
  /\ Keep(entries \ {s})
  /\ Advance(s)
  /\ totals' = [totals EXCEPT !.delivered = @ + 1]
  /\ UNCHANGED <<targetDelay, discarded>>

(* reset(): the totals survive, the window's statistics do not. *)
BufferReset ==
  /\ Keep({})
  /\ WindowReset
  /\ targetDelay' = TargetDelay
  /\ discarded' = discarded + Cardinality(entries)
  /\ UNCHANGED totals

(* set_target_delay; a delay out of bounds is refused and changes nothing. *)
SetDelay(d) ==
  /\ d \in MinTargetDelay .. MaxTargetDelay
  /\ targetDelay' = d
  /\ UNCHANGED <<entries, age, totals, discarded, windowVars>>

(* Time passes for every buffered packet. *)
TimePasses ==
  /\ age' = [s \in SeqNums |->
               IF s \in entries /\ age[s] < AgeCap THEN age[s] + 1 ELSE age[s]]
  /\ UNCHANGED <<entries, targetDelay, totals, discarded, windowVars>>

-----------------------------------------------------------------------------
(* A buffered packet is always ahead of everything released, so releasing  *)
(* the first one never steps backwards, even after overflow dropped        *)
(* packets the window was never told about (jitter_buffer.rs:107-150).     *)
BufferedAheadOfReleased ==
  released # <<>> => \A s \in entries : s > LastReleased

(* The buffer never holds more than max_buffer_size packets and the        *)
(* recorded maximum occupancy agrees (jitter_buffer.rs:124-142).           *)
OccupancyBounded ==
  /\ Cardinality(entries) <= totals.maxOccupancy
  /\ totals.maxOccupancy <= MaxBufferSize

(* Every packet ever accepted is delivered, dropped, still buffered or was *)
(* thrown away by a reset: none leaks and none is counted twice            *)
(* (jitter_buffer.rs:107-285).                                             *)
Conservation ==
  totals.buffered = totals.delivered + totals.dropped + discarded
                      + Cardinality(entries)
=============================================================================
