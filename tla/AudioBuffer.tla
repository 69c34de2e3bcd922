---------------------------- MODULE AudioBuffer ----------------------------
(***************************************************************************)
(* The buffer layer of the echosync workspace                              *)
(* (echosync/buffer/src/core/buffer), call by call: push_packet puts a     *)
(* packet in sequence order, pop_packet removes what is too old and        *)
(* releases the first packet when it has waited long enough; clear, reset  *)
(* and set_target_delay may come in between.  BufferManager models the     *)
(* same code between its locks, with the window's statistics.              *)
(*                                                                         *)
(* A packet is its sequence number; ages saturate past every threshold.    *)
(***************************************************************************)
EXTENDS Integers, FiniteSets, Sequences, SequencesExt

CONSTANTS
  CacheSize, MaxBufferSize,
  TargetDelay, MinTargetDelay, MaxTargetDelay, MaxPacketAge, AdaptiveStep,
  None

(* BufferConfig::validate *)
ValidBufferConfig ==
  /\ MaxBufferSize > 0
  /\ MinTargetDelay <= MaxTargetDelay
  /\ TargetDelay \in MinTargetDelay .. MaxTargetDelay
  /\ CacheSize > 0

ASSUME AudioBufferAssumption ==
  /\ {CacheSize, MaxBufferSize, MinTargetDelay, MaxTargetDelay, MaxPacketAge, AdaptiveStep}
       \subseteq Nat
  /\ None \notin Nat
  /\ ValidBufferConfig

VARIABLES
  buffered,     \* the packets in the jitter buffer, with their ages
  expected,     \* the window's next number, or None
  seen,         \* the window's duplicate cache, oldest first
  targetDelay,
  bstats,       \* totals of buffer and window
  unseen        \* history: what no total tells

windowVars == <<expected, seen>>
bufferVars == <<windowVars, buffered, targetDelay, bstats, unseen>>

BufferedEntries == [seq : Nat, age : Nat]

JitterBufferStatistics ==
  [buffered : Nat, delivered : Nat, dropped : Nat, duplicates : Nat]

BufferStatistics ==
  [size : 0 .. MaxBufferSize, delay : MinTargetDelay .. MaxTargetDelay, buffered : Nat,
   delivered : Nat, dropped : Nat, duplicates : Nat]

(* statistics() *)
Statistics == [size |-> Cardinality(buffered), delay |-> targetDelay,
               buffered |-> bstats.buffered, delivered |-> bstats.delivered,
               dropped |-> bstats.dropped, duplicates |-> bstats.duplicates]

BufferTypeOK ==
  /\ buffered \subseteq BufferedEntries
  /\ expected \in Nat \cup {None}
  /\ seen \in Seq(Nat)
  /\ targetDelay \in MinTargetDelay .. MaxTargetDelay
  /\ bstats \in JitterBufferStatistics /\ Statistics \in BufferStatistics
  /\ unseen \in [repeated : Nat, flushed : Nat, discarded : Nat, resets : Nat]

WindowInit == expected = None /\ seen = <<>>

BufferInit ==
  /\ WindowInit
  /\ buffered = {}
  /\ targetDelay = TargetDelay
  /\ bstats = [buffered |-> 0, delivered |-> 0, dropped |-> 0, duplicates |-> 0]
  /\ unseen = [repeated |-> 0, flushed |-> 0, discarded |-> 0, resets |-> 0]

Firsts(S) == {x \in S : \A y \in S : x.seq <= y.seq}

-----------------------------------------------------------------------------
(* push_packet *)

Held(p) == \E x \in buffered : x.seq = p

(* PacketWindow::admit refuses what was released and what is too late. *)
NotAdmitted(p) ==
  \/ \E i \in 1 .. Len(seen) : seen[i] = p
  \/ expected # None /\ p < expected

(* A full buffer drops its first packet. *)
Overflowing == IF Cardinality(buffered) >= MaxBufferSize THEN Firsts(buffered) ELSE {}

(* adapt_target_delay: a step towards what the jitter asks for, which is   *)
(* never less than the configured delay.                                   *)
Adapted == {d \in TargetDelay .. MaxTargetDelay :
              d - targetDelay \in -AdaptiveStep .. AdaptiveStep}

(* A number still buffered is refused before anything is counted. *)
PushPacket(p) ==
  IF Held(p)
    THEN /\ unseen' = [unseen EXCEPT !.repeated = @ + 1]
         /\ UNCHANGED <<buffered, windowVars, targetDelay, bstats>>
  ELSE IF NotAdmitted(p)
    THEN /\ bstats' = [bstats EXCEPT !.duplicates = @ + 1]
         /\ UNCHANGED <<buffered, windowVars, targetDelay, unseen>>
  ELSE /\ buffered' = (buffered \ Overflowing) \cup {[seq |-> p, age |-> 0]}
       /\ bstats' = [bstats EXCEPT !.buffered = @ + 1,
                                   !.dropped = @ + Cardinality(Overflowing)]
       /\ targetDelay' \in Adapted
       /\ UNCHANGED <<windowVars, unseen>>

-----------------------------------------------------------------------------
(* pop_packet *)

TooOld == {x \in buffered : x.age > MaxPacketAge}

ReadyToPlay == {x \in Firsts(buffered \ TooOld) : x.age >= targetDelay}

(* PacketWindow::remember *)
Remembered(cache, p) ==
  IF \E i \in 1 .. Len(cache) : cache[i] = p THEN cache
  ELSE Append(IF Len(cache) < CacheSize THEN cache ELSE Tail(cache), p)

(* PacketWindow::advance for one packet after the other: the mark never    *)
(* moves back.                                                             *)
Advance(released) ==
  /\ expected' = LET next == Last(released) + 1
                 IN  IF expected # None /\ expected > next THEN expected ELSE next
  /\ seen' = FoldLeft(Remembered, seen, released)

PopReady(p) ==
  /\ \E x \in ReadyToPlay :
       /\ x.seq = p
       /\ buffered' = buffered \ (TooOld \cup {x})
  /\ Advance(<<p>>)
  /\ bstats' = [bstats EXCEPT !.delivered = @ + 1, !.dropped = @ + Cardinality(TooOld)]
  /\ UNCHANGED <<targetDelay, unseen>>

PopNothing ==
  /\ ReadyToPlay = {}
  /\ buffered' = buffered \ TooOld
  /\ bstats' = [bstats EXCEPT !.dropped = @ + Cardinality(TooOld)]
  /\ UNCHANGED <<windowVars, targetDelay, unseen>>

-----------------------------------------------------------------------------
(* clear, reset, set_target_delay *)

InOrder(S) == {f \in [1 .. Cardinality(S) -> S] :
                 \A i, j \in 1 .. Cardinality(S) : i < j => f[i] < f[j]}

(* clear flushes packet after packet, each of which counts as delivered    *)
(* and then is thrown away.                                                *)
ClearBuffer ==
  /\ buffered # {}
  /\ buffered' = {}
  /\ \E released \in InOrder({x.seq : x \in buffered}) : Advance(released)
  /\ bstats' = [bstats EXCEPT !.delivered = @ + Cardinality(buffered)]
  /\ unseen' = [unseen EXCEPT !.flushed = @ + Cardinality(buffered)]
  /\ UNCHANGED targetDelay

(* PacketWindow::reset, with its count of duplicates. *)
WindowReset ==
  /\ expected' = None /\ seen' = <<>>
  /\ bstats' = [bstats EXCEPT !.duplicates = 0]

(* reset also forgets what was released. *)
ResetBuffer ==
  /\ buffered' = {}
  /\ WindowReset
  /\ targetDelay' = TargetDelay
  /\ unseen' = [unseen EXCEPT !.repeated = @ + bstats.duplicates, !.resets = @ + 1,
                              !.discarded = @ + Cardinality(buffered)]

SetTargetDelay(d) ==
  /\ d \in MinTargetDelay .. MaxTargetDelay
  /\ targetDelay' = d
  /\ UNCHANGED <<buffered, windowVars, bstats, unseen>>

AgeLimit == 1 + (IF MaxPacketAge > MaxTargetDelay THEN MaxPacketAge ELSE MaxTargetDelay)

Older == {[x EXCEPT !.age = IF @ < AgeLimit THEN @ + 1 ELSE @] : x \in buffered}

-----------------------------------------------------------------------------
(* What was pushed is buffered, was handed out or counted once -- but for  *)
(* repetitions of a buffered packet, which nothing counts, and what clear  *)
(* and reset threw away.                                                   *)
BufferAccounted(pushed) ==
  /\ pushed = Statistics.buffered + Statistics.duplicates + unseen.repeated
  /\ Statistics.buffered =
       Statistics.delivered + Statistics.dropped + Statistics.size + unseen.discarded
=============================================================================
