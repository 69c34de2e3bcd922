---------------------------- MODULE PacketWindow ----------------------------
(***************************************************************************)
(* The sequence-number window of the jitter buffer                         *)
(* (buffer/src/core/buffer/packet_window.rs).  The window stores no packet:*)
(* it decides whether a sequence number may enter the buffer (admit) and   *)
(* records that one was released (advance).                                *)
(*                                                                         *)
(* Sequence numbers are u64 in the code; here they are 0 .. MaxSeq, MaxSeq *)
(* standing for u64::MAX, and the watermark saturates there as the code's  *)
(* saturating_add does.                                                    *)
(***************************************************************************)
EXTENDS Integers, Sequences

CONSTANTS
  MaxSeq,       \* the largest sequence number (u64::MAX)
  CacheSize,    \* duplicate_cache_size; validate() refuses zero
  MaxMissing,   \* max_missing_packets
  None          \* the watermark before the first release

ASSUME WindowAssumption ==
  /\ MaxSeq \in Nat
  /\ CacheSize \in Nat \ {0}
  /\ MaxMissing \in Nat
  /\ None \notin Nat

VARIABLES
  expected,     \* expected_sequence
  seen,         \* seen_cache: the most recently released numbers, oldest first
  wstats,       \* WindowStatistics
  released      \* history: every number released since the last reset

windowVars == <<expected, seen, wstats, released>>

SeqNums == 0 .. MaxSeq

(* seen_set mirrors seen_cache. *)
SeenSet == {seen[i] : i \in 1 .. Len(seen)}

LastReleased == released[Len(released)]

SaturatingSucc(s) == IF s < MaxSeq THEN s + 1 ELSE MaxSeq

WindowStats ==
  [inOrder : Nat, reordered : Nat, late : Nat, duplicates : Nat, lost : Nat]

WindowTypeOK ==
  /\ expected \in SeqNums \cup {None}
  /\ seen \in Seq(SeqNums)
  /\ wstats \in WindowStats
  /\ released \in Seq(SeqNums)

FreshStats ==
  [inOrder |-> 0, reordered |-> 0, late |-> 0, duplicates |-> 0, lost |-> 0]

WindowInit ==
  /\ expected = None
  /\ seen = <<>>
  /\ wstats = FreshStats
  /\ released = <<>>

-----------------------------------------------------------------------------
(* Mutant: the duplicate cache is not consulted. *)
BehindWatermark(s) == expected # None /\ s < expected

(* admit: the two rejections.  Both count as a duplicate. *)
Inadmissible(s) ==
  \/ s \in SeenSet
  \/ expected # None /\ s < expected

Reject(s) ==
  /\ Inadmissible(s)
  /\ wstats' = [wstats EXCEPT !.duplicates = @ + 1]
  /\ UNCHANGED <<expected, seen, released>>

(* admit: the accepting branches only classify the arrival. *)
Admit(s) ==
  /\ ~Inadmissible(s)
  /\ \/ /\ expected \in {None, s}
        /\ wstats' = [wstats EXCEPT !.inOrder = @ + 1]
     \/ /\ expected \notin {None, s}
        /\ wstats' = [wstats EXCEPT
             !.reordered = wstats.reordered + 1,
             !.late = wstats.late + (IF s - expected > MaxMissing THEN 1 ELSE 0)]
  /\ UNCHANGED <<expected, seen, released>>

(* remember: a FIFO of CacheSize entries without repetition. *)
Remember(s) ==
  IF s \in SeenSet THEN seen
  ELSE IF Len(seen) < CacheSize THEN Append(seen, s)
  ELSE Append(Tail(seen), s)

(* Mutant: only gaps beyond the tolerance count as loss. *)
LargeGap(s) ==
  IF expected # None /\ s > expected + MaxMissing THEN s - expected ELSE 0

Gap(s) == IF expected # None /\ s > expected THEN s - expected ELSE 0

(* advance: raise the watermark, count the skipped numbers as lost. *)
Advance(s) ==
  /\ expected' = IF expected # None /\ expected > SaturatingSucc(s)
                   THEN expected ELSE SaturatingSucc(s)
  /\ seen' = Remember(s)
  /\ wstats' = [wstats EXCEPT !.lost = @ + Gap(s)]
  /\ released' = Append(released, s)

WindowReset ==
  /\ expected' = None
  /\ seen' = <<>>
  /\ wstats' = FreshStats
  /\ released' = <<>>

-----------------------------------------------------------------------------
(* Packets leave the window in strictly increasing sequence order between  *)
(* two resets, so none is released twice.  At u64::MAX the watermark       *)
(* cannot move past the last number and only the duplicate cache protects  *)
(* it (packet_window.rs:85-134).                                           *)
ReleasedInOrderOnce ==
  \A i, j \in 1 .. Len(released) : i < j => released[i] < released[j]

(* The loss statistic is exactly the number of sequence numbers skipped    *)
(* between the first and the last packet released since the last reset,    *)
(* whatever overflow, staleness or reordering did in between               *)
(* (packet_window.rs:119-134, WindowStatistics::packets_lost).             *)
LossAccounting ==
  IF released = <<>> THEN wstats.lost = 0
  ELSE wstats.lost = (LastReleased - released[1] + 1) - Len(released)
=============================================================================
