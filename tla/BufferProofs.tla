---------------------------- MODULE BufferProofs ----------------------------
(***************************************************************************)
(* Proofs about BufferManager for every configuration validate() accepts:  *)
(* type correctness, ordered at-most-once release, loss accounting and the *)
(* refinement of OrderedDelivery.                                          *)
(***************************************************************************)
EXTENDS BufferManager, FiniteSetTheorems, WellFoundedInduction, TLAPS

(* The window's inductive invariant: watermark and duplicate cache both    *)
(* remember the last released number, which is the largest.                *)
WindowInv ==
  /\ ReleasedInOrderOnce
  /\ LossAccounting
  /\ released = <<>> => expected = None /\ seen = <<>>
  /\ released # <<>> =>
       /\ expected = SaturatingSucc(LastReleased)
       /\ seen # <<>>
       /\ seen[Len(seen)] = LastReleased
       /\ \A i \in 1 .. Len(seen) : seen[i] <= LastReleased

(* What makes release ordered: the window's invariant, and every buffered  *)
(* packet being ahead of the last one released.                            *)
BufferInv == BufferTypeOK /\ WindowInv /\ BufferedAheadOfReleased

(* The buffer's counters agree with its contents. *)
CountInv == OccupancyBounded /\ Conservation

-----------------------------------------------------------------------------
(* What the window operations preserve. *)

(* The successor of a sequence number is one: saturating_add stays in u64. *)
LEMMA SuccType == \A s \in SeqNums : SaturatingSucc(s) \in SeqNums
BY WindowAssumption DEF SeqNums, SaturatingSucc

(* The duplicate cache stays a sequence of numbers, ends with the number   *)
(* just released, and holds nothing larger.                                *)
LEMMA RememberProperties ==
  ASSUME NEW s \in SeqNums, seen \in Seq(SeqNums),
         \A i \in 1 .. Len(seen) : seen[i] < s
  PROVE  /\ Remember(s) \in Seq(SeqNums)
         /\ Remember(s) # <<>>
         /\ Remember(s)[Len(Remember(s))] = s
         /\ \A i \in 1 .. Len(Remember(s)) : Remember(s)[i] <= s
<1>1. s \notin SeenSet
  BY WindowAssumption DEF SeenSet, SeqNums
<1>2. CASE Len(seen) < CacheSize
  <2>1. Remember(s) = Append(seen, s)
    BY <1>1, <1>2 DEF Remember
  <2>2. QED
    BY WindowAssumption, <2>1 DEF SeqNums
<1>3. CASE ~(Len(seen) < CacheSize)
  <2>1. Remember(s) = Append(Tail(seen), s)
    BY <1>1, <1>3 DEF Remember
  <2>2. Len(seen) \in Nat /\ seen # <<>>
    BY <1>3, WindowAssumption
  <2>3. /\ Tail(seen) \in Seq(SeqNums)
        /\ Len(Tail(seen)) = Len(seen) - 1
        /\ \A i \in 1 .. Len(Tail(seen)) : Tail(seen)[i] = seen[i + 1]
    BY <2>2
  <2>4. \A i \in 1 .. Len(Tail(seen)) : Tail(seen)[i] < s
    BY <2>2, <2>3
  <2>5. QED
    <3> DEFINE t == Tail(seen)
    <3>1. /\ t \in Seq(SeqNums) /\ Len(t) \in Nat
          /\ \A i \in 1 .. Len(t) : t[i] < s
      BY <2>3, <2>4
    <3> HIDE DEF t
    <3>2. /\ Append(t, s) \in Seq(SeqNums)
          /\ Len(Append(t, s)) = Len(t) + 1
          /\ Append(t, s)[Len(t) + 1] = s
          /\ \A i \in 1 .. Len(t) : Append(t, s)[i] = t[i]
      BY <3>1
    <3>3. \A i \in 1 .. Len(t) + 1 : Append(t, s)[i] <= s
      BY WindowAssumption, <3>1, <3>2, SMTT(20) DEF SeqNums
    <3>4. Remember(s) = Append(t, s)
      BY <2>1 DEF t
    <3>5. Remember(s) # <<>>
      BY <2>1
    <3>6. QED
      BY <3>2, <3>3, <3>4, <3>5
<1>4. QED
  BY <1>2, <1>3

(* Releasing a number ahead of everything released keeps the window        *)
(* well formed, in order, and its loss counter exact.                      *)
LEMMA AdvancePreserves ==
  ASSUME WindowTypeOK, WindowInv, NEW s \in SeqNums, Advance(s),
         released # <<>> => s > LastReleased
  PROVE  WindowTypeOK' /\ WindowInv' /\ LastReleased' = s /\ released' # <<>>
<1>1. /\ released' = Append(released, s)
      /\ released \in Seq(SeqNums)
      /\ released' \in Seq(SeqNums)
      /\ Len(released') = Len(released) + 1
      /\ released'[Len(released')] = s
      /\ \A i \in 1 .. Len(released) : released'[i] = released[i]
  BY DEF Advance, WindowTypeOK
<1>2. LastReleased' = s /\ released' # <<>>
  BY <1>1 DEF LastReleased
<1>3. \A i \in 1 .. Len(released) : released[i] <= LastReleased /\ released[i] < s
  <2> SUFFICES ASSUME NEW i \in 1 .. Len(released)
               PROVE  released[i] <= LastReleased /\ released[i] < s
    OBVIOUS
  <2>1. released # <<>> /\ Len(released) \in 1 .. Len(released)
    BY <1>1
  <2>2. released[i] <= LastReleased
    BY WindowAssumption, <1>1, <2>1, SMTT(20) DEF WindowInv, ReleasedInOrderOnce, LastReleased, SeqNums
  <2>3. QED
    BY WindowAssumption, <1>1, <2>1, <2>2 DEF LastReleased, SeqNums
<1>4. ReleasedInOrderOnce'
  <2> SUFFICES ASSUME NEW i \in 1 .. Len(released'), NEW j \in 1 .. Len(released'), i < j
               PROVE  released'[i] < released'[j]
    BY DEF ReleasedInOrderOnce
  <2>1. Len(released) \in Nat /\ i \in 1 .. Len(released)
    BY <1>1
  <2>2. CASE j \in 1 .. Len(released)
    BY <1>1, <2>1, <2>2 DEF WindowInv, ReleasedInOrderOnce
  <2>3. CASE j = Len(released')
    BY <1>1, <1>3, <2>1, <2>3
  <2>4. QED
    BY <1>1, <2>1, <2>2, <2>3
<1>5. \A i \in 1 .. Len(seen) : seen[i] < s
  <2>1. CASE released = <<>>
    BY <2>1 DEF WindowInv
  <2>2. CASE released # <<>>
    <3>1. LastReleased \in SeqNums
      BY <1>1, <2>2 DEF LastReleased
    <3>2. QED
      BY WindowAssumption, <2>2, <3>1, SMTT(20) DEF WindowInv, WindowTypeOK, SeqNums
  <2>3. QED
    BY <2>1, <2>2
<1>6. /\ seen' \in Seq(SeqNums) /\ seen' # <<>>
      /\ seen'[Len(seen')] = s
      /\ \A i \in 1 .. Len(seen') : seen'[i] <= s
  BY <1>5, RememberProperties DEF Advance, WindowTypeOK
<1>7. expected' = SaturatingSucc(s) /\ expected' \in SeqNums
  <2>1. CASE released = <<>>
    BY <2>1, SuccType DEF Advance, WindowInv
  <2>2. CASE released # <<>>
    <3>1. LastReleased \in SeqNums
      BY <1>1, <2>2 DEF LastReleased
    <3>2. expected = SaturatingSucc(LastReleased) /\ s > LastReleased
      BY <2>2 DEF WindowInv
    <3>3. ~(expected > SaturatingSucc(s))
      BY WindowAssumption, <3>1, <3>2 DEF SaturatingSucc, SeqNums
    <3>4. QED
      BY <3>3, SuccType DEF Advance
  <2>3. QED
    BY <2>1, <2>2
<1>8. LossAccounting' /\ wstats' \in WindowStats
  <2>0. wstats \in WindowStats
    BY DEF WindowTypeOK
  <2>1. wstats' = [wstats EXCEPT !.lost = @ + Gap(s)]
    BY DEF Advance
  <2>2. CASE released = <<>>
    <3>1. Gap(s) = 0
      BY <2>2 DEF Gap, WindowInv
    <3>2. wstats.lost = 0
      BY <2>2 DEF WindowInv, LossAccounting
    <3>3. released'[1] = s /\ Len(released') = 1
      BY <1>1, <2>2
    <3>4. wstats' \in WindowStats /\ wstats'.lost = 0
      BY <2>0, <2>1, <3>1, <3>2 DEF WindowStats
    <3>5. LastReleased' = released'[1] /\ released'[1] \in Int
      BY WindowAssumption, <1>2, <3>3 DEF SeqNums
    <3>6. (LastReleased' - released'[1] + 1) - Len(released') = 0
      BY <3>3, <3>5
    <3>7. QED
      BY <1>2, <3>4, <3>6 DEF LossAccounting
  <2>3. CASE released # <<>>
    <3>1. LastReleased \in SeqNums /\ Len(released) \in Nat \ {0}
      BY <1>1, <2>3 DEF LastReleased
    <3>2. Gap(s) = s - LastReleased - 1 /\ Gap(s) \in Nat
      BY WindowAssumption, <2>3, <3>1 DEF Gap, WindowInv, SaturatingSucc, SeqNums
    <3>3. wstats.lost = (LastReleased - released[1] + 1) - Len(released)
      BY <2>3 DEF WindowInv, LossAccounting
    <3>4. released'[1] = released[1] /\ released[1] \in SeqNums
      BY <1>1, <3>1
    <3>5. released' # <<>> /\ Len(released') = Len(released) + 1 /\ LastReleased' = s
      BY <1>1, <1>2
    <3>6. wstats'.lost = wstats.lost + Gap(s) /\ wstats' \in WindowStats
      <4>1. Gap(s) \in Nat
        BY <3>2
      <4>2. QED
        BY <2>0, <2>1, <4>1, SMTT(20) DEF WindowStats
    <3>7. wstats'.lost = (s - released[1] + 1) - (Len(released) + 1)
      <4>1. PICK a \in Int, b \in Int, n \in Int, g \in Int :
               a = LastReleased /\ b = released[1] /\ n = Len(released) /\ g = Gap(s)
        BY WindowAssumption, <3>1, <3>2, <3>4 DEF SeqNums
      <4>2. s \in Int
        BY WindowAssumption DEF SeqNums
      <4>3. g = s - a - 1 /\ wstats.lost = (a - b + 1) - n /\ wstats'.lost = wstats.lost + g
        BY <3>2, <3>3, <3>6, <4>1
      <4>4. wstats'.lost = ((a - b + 1) - n) + (s - a - 1)
        BY <4>3
      <4>5. wstats'.lost = (s - b + 1) - (n + 1)
        BY <4>2, <4>4
      <4>6. QED
        BY <4>1, <4>5
    <3>8. QED
      BY <3>4, <3>5, <3>6, <3>7 DEF LossAccounting
  <2>4. QED
    BY <2>2, <2>3
<1>9. QED
  BY <1>1, <1>2, <1>4, <1>6, <1>7, <1>8 DEF WindowTypeOK, WindowInv

(* admit changes nothing but the arrival statistics. *)
LEMMA AdmitPreserves ==
  ASSUME WindowTypeOK, WindowInv, NEW s \in SeqNums, Admit(s) \/ Reject(s)
  PROVE  /\ WindowTypeOK' /\ WindowInv'
         /\ UNCHANGED <<expected, seen, released>>
<1>1. UNCHANGED <<expected, seen, released>>
  BY DEF Admit, Reject
<1>2. wstats' \in WindowStats /\ wstats'.lost = wstats.lost
  <2>1. wstats \in WindowStats /\ wstats.late \in Nat
    BY DEF WindowTypeOK, WindowStats
  <2>2. CASE wstats' = [wstats EXCEPT !.duplicates = @ + 1]
    BY <2>1, <2>2 DEF WindowStats
  <2>3. CASE wstats' = [wstats EXCEPT !.inOrder = @ + 1]
    BY <2>1, <2>3 DEF WindowStats
  <2>4. CASE wstats' = [wstats EXCEPT
                !.reordered = wstats.reordered + 1,
                !.late = wstats.late + (IF s - expected > MaxMissing THEN 1 ELSE 0)]
    <3>0. /\ wstats.reordered + 1 \in Nat
          /\ wstats.late + (IF s - expected > MaxMissing THEN 1 ELSE 0) \in Nat
      BY <2>1 DEF WindowStats
    <3>1. PICK n \in Nat, m \in Nat :
            wstats' = [wstats EXCEPT !.reordered = n, !.late = m]
      BY <2>4, <3>0, Zenon
    <3>2. wstats' \in WindowStats
      BY <2>1, <3>1 DEF WindowStats
    <3>3. wstats'.lost = wstats.lost
      BY <2>1, <3>1 DEF WindowStats
    <3>4. QED
      BY <3>2, <3>3
  <2>5. QED
    BY <2>2, <2>3, <2>4 DEF Admit, Reject
<1>3. QED
  BY <1>1, <1>2 DEF WindowTypeOK, WindowInv, ReleasedInOrderOnce, LossAccounting,
                    LastReleased

(* An admitted number is ahead of everything released.  At MaxSeq the      *)
(* watermark alone does not give this: the duplicate cache does.           *)
LEMMA AdmittedAhead ==
  ASSUME WindowTypeOK, WindowInv, NEW s \in SeqNums, ~Inadmissible(s),
         released # <<>>
  PROVE  s > LastReleased
<1>1. LastReleased \in SeqNums /\ LastReleased \in SeenSet
  <2>1. Len(seen) \in 1 .. Len(seen) /\ Len(released) \in 1 .. Len(released)
    BY DEF WindowTypeOK, WindowInv
  <2>2. QED
    BY <2>1 DEF WindowTypeOK, WindowInv, LastReleased, SeenSet
<1>2. expected = SaturatingSucc(LastReleased)
  BY DEF WindowInv
<1>3. s # LastReleased /\ ~(s < expected)
  BY WindowAssumption, <1>1, <1>2, SuccType, SMTT(20) DEF Inadmissible, SeqNums
<1>4. QED
  BY WindowAssumption, <1>1, <1>2, <1>3 DEF SaturatingSucc, SeqNums

(* A new window and a reset one are well formed and have released nothing. *)
LEMMA WindowFresh ==
  /\ WindowInit => WindowTypeOK /\ WindowInv /\ released = <<>>
  /\ WindowReset => WindowTypeOK' /\ WindowInv' /\ released' = <<>>
<1>1. FreshStats \in WindowStats /\ FreshStats.lost = 0
  BY DEF FreshStats, WindowStats
<1>2. ASSUME WindowInit
      PROVE  WindowTypeOK /\ WindowInv /\ released = <<>>
  <2>1. WindowTypeOK
    BY <1>1, <1>2 DEF WindowInit, WindowTypeOK
  <2>2. WindowInv
    BY <1>1, <1>2 DEF WindowInit, WindowInv, ReleasedInOrderOnce, LossAccounting
  <2>3. QED
    BY <1>2, <2>1, <2>2 DEF WindowInit
<1>3. ASSUME WindowReset
      PROVE  WindowTypeOK' /\ WindowInv' /\ released' = <<>>
  <2>1. WindowTypeOK'
    BY <1>1, <1>3 DEF WindowReset, WindowTypeOK
  <2>2. WindowInv'
    BY <1>1, <1>3 DEF WindowReset, WindowInv, ReleasedInOrderOnce, LossAccounting
  <2>3. QED
    BY <1>3, <2>1, <2>2 DEF WindowReset
<1>4. QED
  BY <1>2, <1>3
-----------------------------------------------------------------------------
(* What the buffer operations preserve. *)

(* What is buffered is finite, so that it can be counted. *)
LEMMA FiniteSubsets ==
  ASSUME NEW S \in SUBSET SeqNums
  PROVE  IsFiniteSet(S) /\ Cardinality(S) \in Nat
<1>1. IsFiniteSet(SeqNums)
  BY WindowAssumption, FS_Interval DEF SeqNums
<1>2. IsFiniteSet(S)
  BY <1>1, FS_Subset
<1>3. QED
  BY <1>2, FS_CardinalityType

(* Keeping a set of packets leaves entries and ages well typed. *)
LEMMA KeepType ==
  ASSUME BufferTypeOK, NEW S \in SUBSET SeqNums, Keep(S)
  PROVE  entries' = S /\ entries' \in SUBSET SeqNums /\ age' \in [SeqNums -> 0 .. AgeCap]
<1>1. AgeCap \in Nat
  BY BufferConfigAssumption DEF AgeCap
<1>2. age \in [SeqNums -> 0 .. AgeCap]
  BY DEF BufferTypeOK
<1>3. QED
  BY <1>1, <1>2 DEF Keep

(* The first key of a set is its least member. *)
LEMMA FirstProperties ==
  \A S \in SUBSET SeqNums : \A s \in First(S) : s \in S /\ \A t \in S : s <= t
BY DEF First

(* Removing the first packet and advancing past it leaves the rest ahead. *)
LEMMA ReleaseStep ==
  ASSUME BufferInv, NEW S \in SUBSET entries, NEW s \in First(S), Advance(s),
         entries' = S \ {s}
  PROVE  WindowTypeOK' /\ WindowInv' /\ BufferedAheadOfReleased'
<1>1. S \in SUBSET SeqNums /\ entries \in SUBSET SeqNums
  BY DEF BufferInv, BufferTypeOK
<1>2. s \in S /\ s \in SeqNums /\ \A t \in S : s <= t
  BY <1>1, FirstProperties
<1>3. released # <<>> => s > LastReleased
  BY <1>2 DEF BufferInv, BufferedAheadOfReleased
<1>4. WindowTypeOK' /\ WindowInv' /\ LastReleased' = s /\ released' # <<>>
  BY <1>2, <1>3, AdvancePreserves DEF BufferInv, BufferTypeOK
<1>5. \A t \in entries' : t > s
  BY <1>1, <1>2, WindowAssumption DEF SeqNums
<1>6. QED
  BY <1>4, <1>5 DEF BufferedAheadOfReleased

(* Accepting a packet, with or without dropping one, keeps the invariant. *)
LEMMA InsertAcceptedInv ==
  ASSUME BufferInv, NEW s \in SeqNums, InsertAccepted(s)
  PROVE  BufferInv'
<1>1. /\ WindowTypeOK' /\ WindowInv'
      /\ UNCHANGED <<expected, seen, released>>
  BY AdmitPreserves DEF InsertAccepted, BufferInv, BufferTypeOK
<1>2. /\ entries' = (entries \ Overflow) \cup {s}
      /\ entries' \in SUBSET SeqNums
      /\ age' \in [SeqNums -> 0 .. AgeCap]
  <2>1. (entries \ Overflow) \cup {s} \in SUBSET SeqNums
    BY DEF BufferInv, BufferTypeOK
  <2>2. QED
    BY <2>1, KeepType DEF InsertAccepted, BufferInv
<1>3. BufferedAheadOfReleased'
  <2> SUFFICES ASSUME released' # <<>>, NEW t \in entries'
               PROVE  t > LastReleased'
    BY DEF BufferedAheadOfReleased
  <2>1. released # <<>> /\ LastReleased' = LastReleased
    BY <1>1 DEF LastReleased
  <2>2. CASE t = s
    BY <2>1, <2>2, AdmittedAhead
       DEF InsertAccepted, Admit, BufferInv, BufferTypeOK
  <2>3. CASE t \in entries
    BY <2>1, <2>3 DEF BufferInv, BufferedAheadOfReleased
  <2>4. QED
    BY <1>2, <2>2, <2>3
<1>4. targetDelay' \in MinTargetDelay .. MaxTargetDelay
  <2>1. targetDelay \in MinTargetDelay .. MaxTargetDelay
    BY DEF BufferInv, BufferTypeOK
  <2>2. \A d \in Int : Clamp(d) \in MinTargetDelay .. MaxTargetDelay
    BY BufferConfigAssumption DEF ValidBufferConfig, Clamp
  <2>3. \A c \in TargetDelay .. MaxTargetDelay : Stepped(c) \in Int
    BY <2>1, BufferConfigAssumption DEF Stepped
  <2>4. QED
    BY <2>1, <2>2, <2>3 DEF InsertAccepted, AdaptTargetDelay
<1>5. totals' \in Totals
  <2>1. /\ totals \in Totals
        /\ Overflow \in SUBSET SeqNums
    BY DEF BufferInv, BufferTypeOK, Overflow, First
  <2>2. Cardinality(Overflow) \in Nat /\ Cardinality(entries') \in Nat
    BY <1>2, <2>1, FiniteSubsets
  <2>3. /\ totals.buffered + 1 \in Nat
        /\ totals.dropped + Cardinality(Overflow) \in Nat
        /\ (IF Cardinality(entries') > totals.maxOccupancy
              THEN Cardinality(entries') ELSE totals.maxOccupancy) \in Nat
    BY <2>1, <2>2 DEF Totals
  <2>4. PICK n \in Nat, m \in Nat, k \in Nat :
          totals' = [totals EXCEPT !.buffered = n, !.dropped = m, !.maxOccupancy = k]
    BY <2>3, Zenon DEF InsertAccepted
  <2>5. QED
    BY <2>1, <2>4 DEF Totals
<1>6. QED
  BY <1>1, <1>2, <1>3, <1>4, <1>5
     DEF BufferInv, BufferTypeOK, InsertAccepted

(* A refusal by the window changes only its statistics. *)
LEMMA InsertRefusedInv ==
  ASSUME BufferInv, NEW s \in SeqNums, InsertRefused(s)
  PROVE  BufferInv'
<1>1. /\ WindowTypeOK' /\ WindowInv'
      /\ UNCHANGED <<expected, seen, released>>
  BY AdmitPreserves DEF InsertRefused, BufferInv, BufferTypeOK
<1>2. QED
  BY <1>1 DEF InsertRefused, BufferInv, BufferTypeOK, BufferedAheadOfReleased,
              LastReleased

(* Handing out the first packet after an eviction keeps the invariant. *)
LEMMA ReleaseNextInv ==
  ASSUME BufferInv, NEW s \in entries, ReleaseNext(s)
  PROVE  BufferInv'
<1> DEFINE fresh == entries \ Stale
<1>1. fresh \in SUBSET entries /\ s \in First(fresh)
  BY DEF ReleaseNext, Ready
<1>2. entries \in SUBSET SeqNums /\ entries \ (Stale \cup {s}) = fresh \ {s}
  BY DEF BufferInv, BufferTypeOK
<1>3. entries' = fresh \ {s} /\ entries' \in SUBSET SeqNums
      /\ age' \in [SeqNums -> 0 .. AgeCap]
  BY <1>2, KeepType DEF ReleaseNext, BufferInv
<1>4. WindowTypeOK' /\ WindowInv' /\ BufferedAheadOfReleased'
  BY <1>1, <1>3, ReleaseStep DEF ReleaseNext
<1>5. totals' \in Totals
  <2>1. totals \in Totals /\ Stale \in SUBSET SeqNums
    BY <1>2 DEF BufferInv, BufferTypeOK, Stale
  <2>2. /\ totals.delivered + 1 \in Nat
        /\ totals.dropped + Cardinality(Stale) \in Nat
    BY <2>1, FiniteSubsets DEF Totals
  <2>3. PICK n \in Nat, m \in Nat :
          totals' = [totals EXCEPT !.delivered = n, !.dropped = m]
    BY <2>2, Zenon DEF ReleaseNext
  <2>4. QED
    BY <2>1, <2>3 DEF Totals
<1>6. QED
  BY <1>3, <1>4, <1>5 DEF BufferInv, BufferTypeOK, ReleaseNext

(* A poll that only evicts stale packets keeps the invariant. *)
LEMMA ReleaseNothingInv ==
  ASSUME BufferInv, ReleaseNothing
  PROVE  BufferInv'
<1>1. entries \in SUBSET SeqNums /\ entries \ Stale \in SUBSET SeqNums
  BY DEF BufferInv, BufferTypeOK
<1>2. entries' = entries \ Stale /\ entries' \in SUBSET SeqNums
      /\ age' \in [SeqNums -> 0 .. AgeCap]
  BY <1>1, KeepType DEF ReleaseNothing, BufferInv
<1>3. totals' \in Totals
  <2>1. totals \in Totals /\ Stale \in SUBSET SeqNums
    BY <1>1 DEF BufferInv, BufferTypeOK, Stale
  <2>2. Cardinality(Stale) \in Nat
    BY <2>1, FiniteSubsets
  <2>3. QED
    BY <2>1, <2>2 DEF ReleaseNothing, Totals
<1>4. UNCHANGED windowVars
  BY DEF ReleaseNothing
<1>5. WindowTypeOK' /\ WindowInv' /\ BufferedAheadOfReleased'
  BY <1>2, <1>4 DEF BufferInv, BufferTypeOK, WindowTypeOK, WindowInv, windowVars,
     ReleasedInOrderOnce, LossAccounting, LastReleased, BufferedAheadOfReleased
<1>6. QED
  BY <1>2, <1>3, <1>5 DEF BufferInv, BufferTypeOK, ReleaseNothing

(* An iteration of flush() keeps the invariant. *)
LEMMA FlushOneInv ==
  ASSUME BufferInv, NEW s \in entries, FlushOne(s)
  PROVE  BufferInv'
<1>1. entries \in SUBSET SeqNums /\ s \in First(entries)
  BY DEF BufferInv, BufferTypeOK, FlushOne
<1>2. entries' = entries \ {s} /\ entries' \in SUBSET SeqNums
      /\ age' \in [SeqNums -> 0 .. AgeCap]
  BY <1>1, KeepType DEF FlushOne, BufferInv
<1>3. WindowTypeOK' /\ WindowInv' /\ BufferedAheadOfReleased'
  BY <1>1, <1>2, ReleaseStep DEF FlushOne
<1>4. totals' \in Totals
  <2>1. totals \in Totals
    BY DEF BufferInv, BufferTypeOK
  <2>2. QED
    BY <2>1 DEF FlushOne, Totals
<1>5. QED
  BY <1>2, <1>3, <1>4 DEF BufferInv, BufferTypeOK, FlushOne

(* reset() establishes the invariant anew. *)
LEMMA BufferResetInv ==
  ASSUME BufferInv, BufferReset
  PROVE  BufferInv'
<1>1. entries' \in SUBSET SeqNums /\ age' \in [SeqNums -> 0 .. AgeCap]
  BY KeepType DEF BufferReset, BufferInv
<1>2. WindowTypeOK' /\ WindowInv' /\ released' = <<>>
  BY WindowFresh DEF BufferReset
<1>3. discarded' \in Nat
  BY FiniteSubsets DEF BufferReset, BufferInv, BufferTypeOK
<1>4. targetDelay' \in MinTargetDelay .. MaxTargetDelay
  BY BufferConfigAssumption DEF ValidBufferConfig, BufferReset
<1>5. QED
  BY <1>1, <1>2, <1>3, <1>4
     DEF BufferReset, BufferInv, BufferTypeOK, BufferedAheadOfReleased

(* A new target delay touches nothing the invariant speaks of. *)
LEMMA SetDelayInv ==
  ASSUME BufferInv, NEW d, SetDelay(d)
  PROVE  BufferInv'
BY DEF SetDelay, BufferInv, BufferTypeOK, WindowTypeOK, WindowInv, windowVars,
       ReleasedInOrderOnce, LossAccounting, LastReleased, BufferedAheadOfReleased

(* Ageing touches nothing the invariant speaks of but the ages. *)
LEMMA TimePassesInv ==
  ASSUME BufferInv, TimePasses
  PROVE  BufferInv'
<1>1. age' \in [SeqNums -> 0 .. AgeCap]
  <2>1. age \in [SeqNums -> 0 .. AgeCap] /\ AgeCap \in Nat
    BY BufferConfigAssumption DEF BufferInv, BufferTypeOK, AgeCap
  <2>2. QED
    BY <2>1 DEF TimePasses
<1>2. QED
  BY <1>1
  DEF TimePasses, BufferInv, BufferTypeOK, WindowTypeOK, WindowInv, windowVars,
      ReleasedInOrderOnce, LossAccounting, LastReleased, BufferedAheadOfReleased
-----------------------------------------------------------------------------
(* The manager: every action is one of the buffer's under the lock. *)

(* A step of the manager either leaves the buffer alone or is one buffer   *)
(* operation.                                                              *)
LEMMA BufferStep ==
  ASSUME Next
  PROVE  \/ \E s \in SeqNums : InsertAccepted(s) \/ InsertRefused(s)
         \/ \E s \in entries : ReleaseNext(s) \/ FlushOne(s)
         \/ ReleaseNothing \/ BufferReset \/ TimePasses
         \/ \E d \in MinTargetDelay .. MaxTargetDelay : SetDelay(d)
         \/ UNCHANGED bufferVars
BY DEF Next, PushPacket, PopPacket, ClearBegin, ClearStep, ClearEnd, Reset,
       SetTargetDelay, Tick, InsertPacket, InsertBuffered

(* Every step of the manager keeps the buffer invariant. *)
LEMMA BufferInvStep == BufferInv /\ [Next]_vars => BufferInv'
<1> SUFFICES ASSUME BufferInv, [Next]_vars PROVE BufferInv'
  OBVIOUS
<1>1. CASE UNCHANGED bufferVars
  BY <1>1 DEF bufferVars, BufferInv, BufferTypeOK, WindowTypeOK, WindowInv, windowVars,
     ReleasedInOrderOnce, LossAccounting, LastReleased, BufferedAheadOfReleased
<1>2. CASE Next
  BY <1>1, <1>2, BufferStep, InsertAcceptedInv, InsertRefusedInv, ReleaseNextInv,
     FlushOneInv, ReleaseNothingInv, BufferResetInv, TimePassesInv, SetDelayInv
<1>3. QED
  BY <1>1, <1>2 DEF vars

(* The buffer starts in the invariant. *)
LEMMA BufferInvInit == Init => BufferInv
<1> SUFFICES ASSUME Init PROVE BufferInv
  OBVIOUS
<1>1. WindowTypeOK /\ WindowInv /\ released = <<>>
  BY WindowFresh DEF Init, BufferInit
<1>2. AgeCap \in Nat
  BY BufferConfigAssumption DEF AgeCap
<1>3. QED
  BY <1>1, <1>2, BufferConfigAssumption
     DEF ValidBufferConfig, Init, BufferInit, BufferInv, BufferTypeOK, BufferedAheadOfReleased, Totals

(* Every variable of the buffer and its manager keeps its type, for every  *)
(* configuration that validate() accepts.                                  *)
THEOREM TypeCorrect == Spec => []TypeOK
<1>1. Init => TypeOK
  <2> SUFFICES ASSUME Init PROVE TypeOK
    OBVIOUS
  <2>1. BufferTypeOK
    BY BufferInvInit DEF BufferInv
  <2>2. QED
    BY <2>1 DEF Init, TypeOK
<1>2. BufferInv /\ BufferInv' /\ TypeOK /\ [Next]_vars => TypeOK'
  <2> SUFFICES ASSUME BufferInv, BufferInv', TypeOK, [Next]_vars PROVE TypeOK'
    OBVIOUS
  <2>1. BufferTypeOK' /\ entries' \in SUBSET SeqNums
    BY DEF BufferInv, BufferTypeOK
  <2>2. Cardinality(entries') \in Nat
    BY <2>1, FiniteSubsets
  <2>3. approxLen \in Nat /\ lock \in {"free", "clear"} /\ offered \in Nat
    BY DEF TypeOK
  <2> DEFINE ManagerTyped == /\ approxLen' \in Nat /\ lock' \in {"free", "clear"}
                             /\ offered' \in Nat
  <2>4. ASSUME NEW s \in SeqNums, PushPacket(s) PROVE ManagerTyped
    BY <2>2, <2>3, <2>4 DEF PushPacket
  <2>5. ASSUME PopPacket PROVE ManagerTyped
    BY <2>2, <2>3, <2>5 DEF PopPacket
  <2>6. ASSUME ClearBegin \/ ClearStep \/ ClearEnd \/ Reset PROVE ManagerTyped
    BY <2>3, <2>6 DEF ClearBegin, ClearStep, ClearEnd, Reset, managerVars
  <2>7. ASSUME UNCHANGED managerVars PROVE ManagerTyped
    BY <2>3, <2>7 DEF managerVars
  <2>8. ManagerTyped
    BY <2>4, <2>5, <2>6, <2>7 DEF Next, vars, SetTargetDelay, Tick
  <2>9. QED
    BY <2>1, <2>8 DEF TypeOK
<1>3. QED
  BY <1>1, <1>2, BufferInvInit, BufferInvStep, PTL DEF Spec

(* The buffer invariant holds throughout. *)
LEMMA BufferInvariant == Spec => []BufferInv
BY BufferInvInit, BufferInvStep, PTL DEF Spec

(* Packets leave the buffer in strictly increasing order, each at most     *)
(* once between resets, for every buffer size, duplicate cache size and    *)
(* range of sequence numbers.                                              *)
THEOREM ReleasesInOrderOnce == Spec => []ReleasedInOrderOnce
<1>1. BufferInv => ReleasedInOrderOnce
  BY DEF BufferInv, WindowInv
<1>2. QED
  BY <1>1, BufferInvariant, PTL

(* Whatever is buffered is ahead of everything released. *)
THEOREM BufferedStaysAhead == Spec => []BufferedAheadOfReleased
<1>1. BufferInv => BufferedAheadOfReleased
  BY DEF BufferInv
<1>2. QED
  BY <1>1, BufferInvariant, PTL

(* The loss statistic counts exactly the sequence numbers skipped between  *)
(* the first and the last release.                                         *)
THEOREM LossIsExact == Spec => []LossAccounting
<1>1. BufferInv => LossAccounting
  BY DEF BufferInv, WindowInv
<1>2. QED
  BY <1>1, BufferInvariant, PTL

-----------------------------------------------------------------------------
(* The counters. *)

(* The first packet of a non-empty buffer exists and is unique. *)
LEMMA FirstIsSingleton ==
  ASSUME NEW S \in SUBSET SeqNums, S # {}
  PROVE  Cardinality(First(S)) = 1
<1>1. S \subseteq Nat
  BY WindowAssumption DEF SeqNums
<1>2. PICK s \in S : \A t \in S : ~(<<t, s>> \in OpToRel(<, Nat))
  BY <1>1, WFMin, NatLessThanWellFounded
<1>3. \A t \in S : s <= t
  <2> SUFFICES ASSUME NEW t \in S PROVE s <= t
    OBVIOUS
  <2>1. <<t, s>> \in Nat \X Nat /\ s \in Nat /\ t \in Nat
    BY <1>1
  <2>2. ~(<<t, s>>[1] < <<t, s>>[2])
    BY <1>2, <2>1, Zenon DEF OpToRel
  <2>3. QED
    BY <2>1, <2>2
<1>4. First(S) = {s}
  <2>1. \A x \in First(S) : x = s
    BY <1>1, <1>3 DEF First
  <2>2. s \in First(S)
    BY <1>3 DEF First
  <2>3. QED
    BY <2>1, <2>2
<1>5. QED
  BY <1>4, FS_Singleton

(* Removing part of a set of sequence numbers subtracts its size. *)
LEMMA RemoveCount ==
  ASSUME NEW S \in SUBSET SeqNums, NEW T \in SUBSET S
  PROVE  Cardinality(S \ T) = Cardinality(S) - Cardinality(T)
<1>1. IsFiniteSet(S) /\ S \cap T = T
  BY FiniteSubsets
<1>2. QED
  BY <1>1, FS_Difference, ZenonT(40)

(* Accepting a packet adds one, minus the packet dropped from a full buffer. *)
LEMMA InsertCount ==
  ASSUME BufferInv, NEW s \in SeqNums, InsertAccepted(s)
  PROVE  /\ Cardinality(entries') = Cardinality(entries) - Cardinality(Overflow) + 1
         /\ Cardinality(Overflow) \in {0, 1}
         /\ Cardinality(entries) >= MaxBufferSize => Cardinality(Overflow) = 1
<1>1. /\ entries \in SUBSET SeqNums /\ Overflow \in SUBSET entries
      /\ entries \ Overflow \in SUBSET SeqNums
      /\ s \notin entries \ Overflow
  BY DEF BufferInv, BufferTypeOK, Overflow, First, InsertAccepted
<1>2. entries' = (entries \ Overflow) \cup {s}
  BY DEF InsertAccepted, Keep
<1>3. Cardinality(entries') = Cardinality(entries \ Overflow) + 1
  BY <1>1, <1>2, FiniteSubsets, FS_AddElement
<1>4. Cardinality(entries \ Overflow) = Cardinality(entries) - Cardinality(Overflow)
  BY <1>1, RemoveCount
<1>5. CASE Cardinality(entries) >= MaxBufferSize
  <2>1. entries # {}
    BY <1>5, FS_EmptySet, BufferConfigAssumption DEF ValidBufferConfig
  <2>2. Cardinality(Overflow) = 1
    BY <1>1, <1>5, <2>1, FirstIsSingleton DEF Overflow
  <2>3. QED
    BY <1>3, <1>4, <2>2
<1>6. CASE ~(Cardinality(entries) >= MaxBufferSize)
  BY <1>3, <1>4, <1>6, FS_EmptySet DEF Overflow
<1>7. QED
  BY <1>5, <1>6

(* Every operation moves packets between the counters without losing one. *)
LEMMA CountStep ==
  ASSUME BufferInv, CountInv, Next
  PROVE  CountInv'
<1> DEFINE Len0 == Cardinality(entries)
<1>1. /\ totals \in Totals /\ entries \in SUBSET SeqNums
      /\ Len0 \in Nat /\ discarded \in Nat
      /\ Stale \in SUBSET entries /\ Cardinality(Stale) \in Nat
  <2>1. entries \in SUBSET SeqNums /\ Stale \in SUBSET SeqNums
    BY DEF BufferInv, BufferTypeOK, Stale
  <2>2. QED
    BY <2>1, FiniteSubsets DEF BufferInv, BufferTypeOK, Stale
<1>2. /\ Len0 <= totals.maxOccupancy /\ totals.maxOccupancy <= MaxBufferSize
      /\ totals.buffered = totals.delivered + totals.dropped + discarded + Len0
  BY DEF CountInv, OccupancyBounded, Conservation
<1>3. ASSUME NEW s \in SeqNums, InsertAccepted(s)
      PROVE  CountInv'
  <2> DEFINE k == Cardinality(Overflow)
  <2>1. /\ Cardinality(entries') = Len0 - k + 1
        /\ k \in {0, 1} /\ (Len0 >= MaxBufferSize => k = 1)
    BY <1>3, InsertCount
  <2>2. /\ totals'.buffered = totals.buffered + 1
        /\ totals'.delivered = totals.delivered
        /\ totals'.dropped = totals.dropped + k
        /\ totals'.maxOccupancy = IF Cardinality(entries') > totals.maxOccupancy
                                     THEN Cardinality(entries') ELSE totals.maxOccupancy
        /\ discarded' = discarded
    BY <1>1, <1>3 DEF InsertAccepted, Totals
  <2> HIDE DEF k, Len0
  <2>3. Conservation'
    BY <1>1, <1>2, <2>1, <2>2 DEF Conservation, Totals, Len0
  <2>4. Cardinality(entries') <= MaxBufferSize
    BY <1>1, <1>2, <2>1, BufferConfigAssumption DEF Totals
  <2>5. OccupancyBounded'
    BY <1>1, <1>2, <2>1, <2>2, <2>4, BufferConfigAssumption DEF OccupancyBounded, Totals
  <2>6. QED
    BY <2>3, <2>5 DEF CountInv
<1>4. ASSUME NEW s \in entries, ReleaseNext(s)
      PROVE  CountInv'
  <2>1. Stale \cup {s} \in SUBSET entries /\ s \notin Stale
    BY <1>1, <1>4 DEF ReleaseNext, Ready, First
  <2>2. Cardinality(Stale \cup {s}) = Cardinality(Stale) + 1
    BY <1>1, <2>1, FiniteSubsets, FS_AddElement
  <2>3. Cardinality(entries') = Len0 - Cardinality(Stale) - 1
    <3>1. entries' = entries \ (Stale \cup {s})
      BY <1>4 DEF ReleaseNext, Keep
    <3>2. Cardinality(entries \ (Stale \cup {s})) = Len0 - Cardinality(Stale \cup {s})
      BY <1>1, <2>1, RemoveCount
    <3>3. QED
      BY <1>1, <2>2, <3>1, <3>2
  <2>4. /\ totals'.buffered = totals.buffered
        /\ totals'.delivered = totals.delivered + 1
        /\ totals'.dropped = totals.dropped + Cardinality(Stale)
        /\ totals'.maxOccupancy = totals.maxOccupancy
        /\ discarded' = discarded
    BY <1>1, <1>4 DEF ReleaseNext, Totals
  <2>5. QED
    BY <1>1, <1>2, <2>3, <2>4, BufferConfigAssumption
       DEF CountInv, Conservation, OccupancyBounded, Totals
<1>5. ASSUME NEW s \in entries, FlushOne(s)
      PROVE  CountInv'
  <2>1. Cardinality(entries') = Len0 - 1
    BY <1>1, <1>5, FiniteSubsets, FS_RemoveElement DEF FlushOne, Keep
  <2>2. /\ totals'.buffered = totals.buffered
        /\ totals'.delivered = totals.delivered + 1
        /\ totals'.dropped = totals.dropped
        /\ totals'.maxOccupancy = totals.maxOccupancy
        /\ discarded' = discarded
    BY <1>1, <1>5 DEF FlushOne, Totals
  <2>3. QED
    BY <1>1, <1>2, <2>1, <2>2, BufferConfigAssumption
       DEF CountInv, Conservation, OccupancyBounded, Totals
<1>6. CASE ReleaseNothing
  <2>1. Cardinality(entries') = Len0 - Cardinality(Stale)
    BY <1>1, <1>6, RemoveCount DEF ReleaseNothing, Keep
  <2>2. /\ totals'.buffered = totals.buffered
        /\ totals'.delivered = totals.delivered
        /\ totals'.dropped = totals.dropped + Cardinality(Stale)
        /\ totals'.maxOccupancy = totals.maxOccupancy
        /\ discarded' = discarded
    BY <1>1, <1>6 DEF ReleaseNothing, Totals
  <2>3. QED
    BY <1>1, <1>2, <2>1, <2>2, BufferConfigAssumption
       DEF CountInv, Conservation, OccupancyBounded, Totals
<1>7. CASE BufferReset
  <2>1. Cardinality(entries') = 0 /\ discarded' = discarded + Len0 /\ totals' = totals
    BY <1>7, FS_EmptySet DEF BufferReset, Keep
  <2>2. QED
    BY <1>1, <1>2, <2>1, BufferConfigAssumption
       DEF CountInv, Conservation, OccupancyBounded, Totals
<1>8. CASE UNCHANGED <<entries, totals, discarded>>
  BY <1>8 DEF CountInv, Conservation, OccupancyBounded
<1>9. QED
  BY <1>3, <1>4, <1>5, <1>6, <1>7, <1>8, BufferStep
     DEF InsertRefused, TimePasses, SetDelay, bufferVars

(* The counters agree with the contents throughout. *)
LEMMA CountInvariant == Spec => []CountInv
<1>1. Init => CountInv
  BY FS_EmptySet, BufferConfigAssumption
     DEF Init, BufferInit, CountInv, Conservation, OccupancyBounded
<1>2. BufferInv /\ CountInv /\ [Next]_vars => CountInv'
  <2>1. CASE UNCHANGED vars
    BY <2>1 DEF vars, bufferVars, CountInv, Conservation, OccupancyBounded
  <2>2. QED
    BY <2>1, CountStep
<1>3. QED
  BY <1>1, <1>2, BufferInvariant, PTL DEF Spec

(* No packet leaks: what was accepted is delivered, dropped, discarded by  *)
(* a reset, or still buffered.                                             *)
THEOREM NothingLeaks == Spec => []Conservation
<1>1. CountInv => Conservation
  BY DEF CountInv
<1>2. QED
  BY <1>1, CountInvariant, PTL

(* The buffer never exceeds max_buffer_size. *)
THEOREM NeverOverfull == Spec => []OccupancyBounded
<1>1. CountInv => OccupancyBounded
  BY DEF CountInv
<1>2. QED
  BY <1>1, CountInvariant, PTL

(* The lock-free length is exact between operations. *)
THEOREM SizeExact == Spec => []SizeIsExact
<1>1. Init => SizeIsExact
  BY FS_EmptySet DEF Init, BufferInit, SizeIsExact
<1>2. SizeIsExact /\ [Next]_vars => SizeIsExact'
  <2> SUFFICES ASSUME SizeIsExact, [Next]_vars PROVE SizeIsExact'
    OBVIOUS
  <2>1. CASE UNCHANGED vars
    BY <2>1 DEF vars, bufferVars, managerVars, SizeIsExact
  <2>2. CASE (\E s \in SeqNums : PushPacket(s)) \/ PopPacket
    BY <2>2 DEF SizeIsExact, PushPacket, PopPacket
  <2>3. CASE ClearBegin \/ ClearStep
    BY <2>3 DEF SizeIsExact, ClearBegin, ClearStep, managerVars
  <2>4. CASE ClearEnd \/ Reset
    BY <2>4, FS_EmptySet DEF SizeIsExact, ClearEnd, Reset, BufferReset, Keep, bufferVars
  <2>5. CASE (\E d \in MinTargetDelay .. MaxTargetDelay : SetTargetDelay(d)) \/ Tick
    BY <2>5 DEF SizeIsExact, SetTargetDelay, SetDelay, Tick, TimePasses, managerVars
  <2>6. QED
    BY <2>1, <2>2, <2>3, <2>4, <2>5 DEF Next
<1>3. QED
  BY <1>1, <1>2, PTL DEF Spec

-----------------------------------------------------------------------------
(* The refinement. *)

(* Every operation is a step of ordered delivery, or invisible to it. *)
LEMMA PromiseStep ==
  ASSUME BufferInv, Next
  PROVE  Promise!Next \/ UNCHANGED Promise!vars
<1>0. /\ entries \in SUBSET SeqNums
      /\ \A s \in entries : Promise!Ahead(s)
  BY DEF BufferInv, BufferTypeOK, BufferedAheadOfReleased, LastReleased, Promise!Ahead
<1>1. ASSUME NEW s \in SeqNums, InsertAccepted(s)
      PROVE  Promise!Next
  <2>1. released # <<>> => s > LastReleased
    BY <1>1, AdmittedAhead DEF InsertAccepted, Admit, BufferInv, BufferTypeOK
  <2>2. Promise!Accept(s, Overflow)
    BY <1>1, <2>1 DEF Promise!Accept, Promise!Ahead, InsertAccepted, Admit, Keep,
                      LastReleased
  <2>3. Overflow \in SUBSET entries
    BY DEF Overflow, First
  <2>4. QED
    BY <2>2, <2>3 DEF Promise!Next
<1>2. ASSUME NEW s \in entries, ReleaseNext(s)
      PROVE  Promise!Next
  <2>1. Promise!Deliver(s, Stale)
    BY <1>0, <1>2 DEF Promise!Deliver, ReleaseNext, Ready, First, Keep, Advance
  <2>2. Stale \in SUBSET entries
    BY DEF Stale
  <2>3. QED
    BY <1>0, <2>1, <2>2 DEF Promise!Next
<1>3. ASSUME NEW s \in entries, FlushOne(s)
      PROVE  Promise!Next
  <2>1. Promise!Deliver(s, {})
    BY <1>0, <1>3 DEF Promise!Deliver, FlushOne, First, Keep, Advance
  <2>2. QED
    BY <1>0, <2>1 DEF Promise!Next
<1>4. CASE ReleaseNothing
  <2>1. Promise!Lose(Stale) /\ Stale \in SUBSET entries
    BY <1>4 DEF Promise!Lose, ReleaseNothing, Keep, windowVars, Stale
  <2>2. QED
    BY <2>1 DEF Promise!Next
<1>5. CASE BufferReset
  BY <1>5 DEF Promise!Next, Promise!Restart, BufferReset, Keep, WindowReset
<1>6. CASE UNCHANGED <<entries, released>>
  BY <1>6 DEF Promise!vars
<1>7. QED
  BY <1>1, <1>2, <1>3, <1>4, <1>5, <1>6, BufferStep
     DEF InsertRefused, Reject, TimePasses, SetDelay, bufferVars, windowVars

(* The buffer manager, with all its overflow, eviction and rejection       *)
(* paths, implements ordered, at-most-once, lossy delivery.                *)
THEOREM Refinement == Spec => ImplementsOrderedDelivery
<1>1. Init => Promise!Init
  BY DEF Init, BufferInit, WindowInit, Promise!Init
<1>2. BufferInv /\ [Next]_vars => [Promise!Next]_(Promise!vars)
  <2>1. UNCHANGED vars => UNCHANGED Promise!vars
    BY DEF vars, bufferVars, windowVars, Promise!vars
  <2>2. QED
    BY <2>1, PromiseStep
<1>3. QED
  BY <1>1, <1>2, BufferInvariant, PTL DEF Spec, ImplementsOrderedDelivery, Promise!Spec
=============================================================================
