------------------------- MODULE SynchronizerProofs -------------------------
(***************************************************************************)
(* Proofs about Synchronizer for every configuration validate() accepts,   *)
(* any number of tasks and any measurements: the applied offset stays in   *)
(* range and never jumps, and the statistics are exact.  The clock with    *)
(* its drift estimated from the samples and its statistics complete        *)
(* (ClockStatistics) is still Synchronizer's, so that what is proved of    *)
(* that holds of it.  Then what the estimator's regression is, for windows *)
(* of any length, and that updates bring the offset to the target.         *)
(***************************************************************************)
EXTENDS ClockStatistics, WellFoundedInduction, TLAPS

(* The properties need each other: a correction is bounded by the error,   *)
(* so it stays in range only if the target is, and the accuracy recorded   *)
(* is that of the offsets it leaves behind.                                *)
SyncInv == TypeOK /\ OffsetInRange /\ AccuracyIsExact /\ PassesCounted

NoResyncs == resyncs = 0

-----------------------------------------------------------------------------
(* The distance between two integers is one. *)
LEMMA DistanceType == \A m, n \in Int : Abs(m - n) \in Int
BY DEF Abs

(* A correction step from one offset in range towards another stays in     *)
(* range, is bounded, and does not increase the error.                     *)
LEMMA StepProperties ==
  ASSUME NEW from \in Offsets, NEW to \in Offsets, NEW d \in CorrectionSteps(from, to)
  PROVE  /\ from + d \in Offsets
         /\ Abs((from + d) - from) <= MaxCorrectionStep
         /\ Abs(to - (from + d)) <= Abs(to - from)
         /\ Abs(to - (from + d)) \in Nat
BY SyncAssumption DEF Offsets, CorrectionSteps, Abs

(* What correct_drift leaves behind, whichever branch it takes.            *)
LEMMA CorrectProperties ==
  ASSUME NEW from \in Offsets, NEW to \in Offsets, resyncs \in Nat,
         Correct(from, to, Abs(to - from))
  PROVE  /\ current' \in Offsets
         /\ accuracy' = Abs(to - current') /\ accuracy' \in Nat
         /\ resyncs' = resyncs
         /\ Abs(current' - from) <= MaxCorrectionStep
         /\ Abs(to - current') <= Abs(to - from)
<1>1. CASE from = to /\ current' = from /\ accuracy' = Abs(to - from) /\ UNCHANGED resyncs
  BY <1>1, SyncAssumption DEF Offsets, Abs
<1>2. ASSUME NEW d \in CorrectionSteps(from, to),
             current' = from + d,
             accuracy' = Abs(to - (from + d)),
             resyncs' = IF /\ Abs(to - from) <= ResyncThreshold
                           /\ Abs(to - (from + d)) > ResyncThreshold
                          THEN resyncs + 1 ELSE resyncs
      PROVE  /\ current' \in Offsets
             /\ accuracy' = Abs(to - current') /\ accuracy' \in Nat
             /\ resyncs' = resyncs
             /\ Abs(current' - from) <= MaxCorrectionStep
             /\ Abs(to - current') <= Abs(to - from)
  <2>1. Abs(to - from) \in Nat
    BY SyncAssumption DEF Offsets, Abs
  <2>2. ~(/\ Abs(to - from) <= ResyncThreshold
          /\ Abs(to - (from + d)) > ResyncThreshold)
    BY <2>1, StepProperties, SyncAssumption DEF ValidSyncConfig
  <2>3. QED
    BY <1>2, <2>2, StepProperties
<1>3. QED
  BY <1>1, <1>2 DEF Correct

-----------------------------------------------------------------------------
LEMMA SyncInvInit == Init => SyncInv
<1> SUFFICES ASSUME Init PROVE SyncInv
  OBVIOUS
<1>1. /\ Fresh \in [ok : Nat, failed : Nat] /\ Fresh.ok = 0 /\ Fresh.failed = 0
      /\ passes \in [begun : 0 .. MaxPasses, ended : Nat] /\ passes.ended = 0
  BY SyncAssumption DEF Init, Fresh
<1>2. TypeOK
  <2>1. running \in BOOLEAN /\ hasSynced \in BOOLEAN
    BY Zenon DEF Init
  <2>2. /\ current \in Int /\ target \in Int /\ samples \in 0 .. 2
        /\ accuracy \in Nat /\ resyncs \in Nat
    BY DEF Init
  <2>3. calls \in [Tasks -> {"idle", "reset", "synchronize", "update"}]
    BY DEF Init
  <2>4. outcomes \in [ok : Nat, failed : Nat]
    BY <1>1 DEF Init
  <2>5. QED
    BY <1>1, <2>1, <2>2, <2>3, <2>4, Zenon DEF TypeOK
<1>3. OffsetInRange /\ AccuracyIsExact
  BY SyncAssumption DEF Init, OffsetInRange, AccuracyIsExact, Error, Abs, Offsets
<1>4. PassesCounted
  BY <1>1 DEF Init, PassesCounted
<1>5. QED
  BY <1>2, <1>3, <1>4 DEF SyncInv

(* The counters after a pass ended one way or the other.                   *)
LEMMA CountProperties ==
  ASSUME NEW t \in Tasks, NEW outcome \in {"ok", "failed"}, TypeOK, PassesCounted,
         Count(t, outcome)
  PROVE  /\ running' \in BOOLEAN
         /\ calls' \in [Tasks -> {"idle", "reset", "synchronize", "update"}]
         /\ outcomes' \in [ok : Nat, failed : Nat]
         /\ passes' \in [begun : 0 .. MaxPasses, ended : Nat]
         /\ PassesCounted'
<1>1. running' \in BOOLEAN /\ calls' \in [Tasks -> {"idle", "reset", "synchronize", "update"}]
  BY DEF TypeOK, Count, Move
<1>2. /\ outcomes.ok \in Nat /\ outcomes.failed \in Nat /\ passes.ended \in Nat
      /\ passes.begun \in 0 .. MaxPasses
  BY DEF TypeOK
<1>3. passes' \in [begun : 0 .. MaxPasses, ended : Nat] /\ passes'.ended = passes.ended + 1
  BY <1>2 DEF Count, TypeOK
<1>4. CASE outcome = "ok"
  <2>1. /\ outcomes' \in [ok : Nat, failed : Nat]
        /\ outcomes'.ok = outcomes.ok + 1 /\ outcomes'.failed = outcomes.failed
    BY <1>2, <1>4 DEF Count, TypeOK
  <2>2. QED
    BY <1>1, <1>2, <1>3, <2>1 DEF PassesCounted
<1>5. CASE outcome = "failed"
  <2>1. /\ outcomes' \in [ok : Nat, failed : Nat]
        /\ outcomes'.failed = outcomes.failed + 1 /\ outcomes'.ok = outcomes.ok
    BY <1>2, <1>5 DEF Count, TypeOK
  <2>2. QED
    BY <1>1, <1>2, <1>3, <2>1 DEF PassesCounted
<1>6. QED
  BY <1>4, <1>5

(* What every kind of pass leaves of the clock.                            *)
LEMMA PassProperties ==
  ASSUME NEW t \in Tasks, NEW m \in -Measurable .. Measurable, SyncInv,
         PassRefused(t, m) \/ PassSucceeds(t, m) \/ PassDrifts(t, m)
  PROVE  /\ SyncInv'
         /\ resyncs' = resyncs
         /\ hasSynced => Abs(current' - current) <= MaxCorrectionStep
         /\ hasSynced /\ target' = target => Abs(target' - current') <= Abs(target - current)
<1> USE DEF SyncInv
<1>0. m \in Int /\ current \in Offsets /\ target \in Offsets /\ hasSynced \in BOOLEAN
  BY SyncAssumption DEF OffsetInRange, TypeOK
<1>1. CASE PassRefused(t, m)
  <2>1. /\ UNCHANGED <<current, target, hasSynced, samples, accuracy, resyncs>>
        /\ Count(t, "failed")
    BY <1>1 DEF PassRefused
  <2>2. TypeOK' /\ PassesCounted'
    BY <2>1, CountProperties DEF TypeOK
  <2>3. OffsetInRange' /\ AccuracyIsExact'
    BY <2>1 DEF OffsetInRange, AccuracyIsExact, Error
  <2>4. Abs(current' - current) <= MaxCorrectionStep
        /\ Abs(target' - current') <= Abs(target - current)
    BY <1>0, <2>1, SyncAssumption DEF Offsets, Abs
  <2>5. QED
    BY <2>1, <2>2, <2>3, <2>4
<1>2. ASSUME PassSucceeds(t, m) \/ PassDrifts(t, m)
      PROVE  /\ m \in Offsets /\ Seeded(m) \in Offsets
             /\ target' = m /\ hasSynced' = TRUE /\ samples' \in 0 .. 2
             /\ hasSynced => Seeded(m) = current
  <2>1. Abs(m) <= MaxAllowedOffset /\ ApplyOffset(m)
    BY <1>2 DEF PassSucceeds, PassDrifts
  <2>2. m \in Offsets
    BY <1>0, <2>1, SyncAssumption DEF Offsets, Abs
  <2>3. Seeded(m) \in Offsets /\ (hasSynced => Seeded(m) = current)
    BY <1>0, <2>2 DEF Seeded
  <2>4. samples' \in 0 .. 2
    BY <2>1 DEF ApplyOffset, TypeOK
  <2>5. QED
    BY <2>1, <2>2, <2>3, <2>4 DEF ApplyOffset
<1>3. CASE PassSucceeds(t, m)
  <2>1. Correct(Seeded(m), m, Abs(m - Seeded(m))) /\ Count(t, "ok")
    BY <1>3 DEF PassSucceeds
  <2>2. /\ current' \in Offsets
        /\ accuracy' = Abs(m - current') /\ accuracy' \in Nat
        /\ resyncs' = resyncs
        /\ Abs(current' - Seeded(m)) <= MaxCorrectionStep
        /\ Abs(m - current') <= Abs(m - Seeded(m))
    BY <1>2, <1>3, <2>1, CorrectProperties DEF TypeOK
  <2>3. TypeOK' /\ PassesCounted'
    BY <1>2, <1>3, <2>1, <2>2, CountProperties, SyncAssumption DEF TypeOK, Offsets
  <2>4. OffsetInRange' /\ AccuracyIsExact'
    BY <1>2, <1>3, <2>2 DEF OffsetInRange, AccuracyIsExact, Error
  <2>5. QED
    BY <1>2, <1>3, <2>2, <2>3, <2>4
<1>4. CASE PassDrifts(t, m)
  <2>1. /\ current' = Seeded(m) /\ accuracy' = Abs(m - Seeded(m))
        /\ Count(t, "failed") /\ UNCHANGED resyncs
    BY <1>4 DEF PassDrifts
  <2>2. accuracy' \in Nat /\ accuracy' = Abs(m - current')
    BY <1>2, <1>4, <2>1, SyncAssumption DEF Offsets, Abs
  <2>3. TypeOK' /\ PassesCounted'
    BY <1>2, <1>4, <2>1, <2>2, CountProperties, SyncAssumption DEF TypeOK, Offsets
  <2>4. OffsetInRange' /\ AccuracyIsExact'
    BY <1>2, <1>4, <2>1, <2>2 DEF OffsetInRange, AccuracyIsExact, Error
  <2>5. hasSynced => /\ Abs(current' - current) <= MaxCorrectionStep
                     /\ target' = target => Abs(target' - current') <= Abs(target - current)
    BY <1>0, <1>2, <1>4, <2>1, SyncAssumption DEF Offsets, Abs
  <2>6. QED
    BY <2>1, <2>3, <2>4, <2>5
<1>5. QED
  BY <1>1, <1>3, <1>4

(* What update() leaves of the clock.                                      *)
LEMMA UpdateProperties ==
  ASSUME NEW t \in Tasks, SyncInv, Update(t)
  PROVE  /\ SyncInv'
         /\ resyncs' = resyncs
         /\ Abs(current' - current) <= MaxCorrectionStep
         /\ Abs(target' - current') <= Abs(target - current)
<1> USE DEF SyncInv
<1>1. /\ Correct(current, target, Abs(target - current)) /\ Move(t, "update", "idle")
      /\ UNCHANGED <<running, target, hasSynced, samples, outcomes, passes>>
  BY DEF Update, AccuracyIsExact, Error
<1>2. /\ current' \in Offsets
      /\ accuracy' = Abs(target - current') /\ accuracy' \in Nat
      /\ resyncs' = resyncs
      /\ Abs(current' - current) <= MaxCorrectionStep
      /\ Abs(target - current') <= Abs(target - current)
  BY <1>1, CorrectProperties DEF TypeOK, OffsetInRange
<1>3. TypeOK'
  BY <1>1, <1>2, SyncAssumption DEF TypeOK, Move, Offsets
<1>4. OffsetInRange' /\ AccuracyIsExact' /\ PassesCounted'
  BY <1>1, <1>2 DEF OffsetInRange, AccuracyIsExact, PassesCounted, Error
<1>5. QED
  BY <1>1, <1>2, <1>3, <1>4

(* start() resets everything the statistics are about.                     *)
LEMMA ResetProperties ==
  ASSUME NEW t \in Tasks, SyncInv, Reset(t)
  PROVE  SyncInv' /\ resyncs' = 0 /\ hasSynced' = FALSE
<1>1. passes' \in [begun : 0 .. MaxPasses, ended : Nat] /\ passes'.ended = 0
  BY DEF Reset, SyncInv, TypeOK
<1>2. TypeOK'
  <2>1. Fresh \in [ok : Nat, failed : Nat]
    BY DEF Fresh
  <2>2. calls' \in [Tasks -> {"idle", "reset", "synchronize", "update"}]
    BY DEF Reset, SyncInv, TypeOK, Move
  <2>3. running' \in BOOLEAN /\ hasSynced' \in BOOLEAN
    BY Zenon DEF Reset, SyncInv, TypeOK
  <2>4. /\ current' \in Int /\ target' \in Int /\ samples' \in 0 .. 2
        /\ accuracy' \in Nat /\ resyncs' \in Nat
    BY DEF Reset
  <2>5. outcomes' \in [ok : Nat, failed : Nat]
    BY <2>1 DEF Reset
  <2>6. QED
    BY <1>1, <2>2, <2>3, <2>4, <2>5, Zenon DEF TypeOK
<1>3. OffsetInRange' /\ AccuracyIsExact'
  BY SyncAssumption DEF Reset, OffsetInRange, AccuracyIsExact, Error, Abs, Offsets
<1>4. PassesCounted'
  BY <1>1 DEF Reset, PassesCounted, Fresh
<1>5. QED
  BY <1>2, <1>3, <1>4 DEF Reset, SyncInv

(* The steps that leave the clock alone.                                   *)
LEMMA QuietProperties ==
  ASSUME SyncInv,
         \/ \E t \in Tasks : \/ StartSwap(t) \/ Stop(t)
                             \/ Begin(t, "synchronize") \/ Begin(t, "update")
         \/ UNCHANGED vars
  PROVE  SyncInv' /\ UNCHANGED clockVars
<1> USE DEF SyncInv
<1>1. ASSUME NEW t \in Tasks, StartSwap(t) \/ Stop(t)
      PROVE  SyncInv' /\ UNCHANGED clockVars
  BY <1>1 DEF StartSwap, Stop, Move, clockVars, TypeOK, OffsetInRange, AccuracyIsExact,
              PassesCounted, Error
<1>2. ASSUME NEW t \in Tasks, Begin(t, "synchronize") \/ Begin(t, "update")
      PROVE  SyncInv' /\ UNCHANGED clockVars
  <2>1. /\ UNCHANGED <<running, clockVars>>
        /\ calls' \in [Tasks -> {"idle", "reset", "synchronize", "update"}]
    BY <1>2 DEF Begin, Move, TypeOK
  <2>2. passes' \in [begun : 0 .. MaxPasses, ended : Nat] /\ passes'.ended = passes.ended
    <3>1. passes.begun \in 0 .. MaxPasses /\ passes.ended \in Nat
      BY DEF TypeOK
    <3>2. UNCHANGED passes \/ (passes.begun < MaxPasses
                               /\ passes' = [passes EXCEPT !.begun = @ + 1])
      BY <1>2 DEF Begin
    <3>3. QED
      BY <3>1, <3>2, SyncAssumption DEF TypeOK
  <2>3. TypeOK'
    BY <2>1, <2>2 DEF clockVars, TypeOK
  <2>4. OffsetInRange' /\ AccuracyIsExact' /\ PassesCounted'
    BY <2>1, <2>2 DEF clockVars, OffsetInRange, AccuracyIsExact, PassesCounted, Error
  <2>5. QED
    BY <2>1, <2>3, <2>4
<1>3. CASE UNCHANGED vars
  BY <1>3 DEF vars, clockVars, TypeOK, OffsetInRange, AccuracyIsExact, PassesCounted, Error
<1>4. QED
  BY <1>1, <1>2, <1>3

-----------------------------------------------------------------------------
(* A step either leaves the clock alone, resets it, or brings it closer to *)
(* its target.                                                             *)
LEMMA SyncStep ==
  ASSUME SyncInv, [Next]_vars
  PROVE  /\ SyncInv'
         /\ \/ UNCHANGED clockVars
            \/ resyncs' = 0 /\ hasSynced' = FALSE
            \/ /\ resyncs' = resyncs
               /\ hasSynced => Abs(current' - current) <= MaxCorrectionStep
               /\ hasSynced /\ target' = target =>
                    Abs(target' - current') <= Abs(target - current)
<1>1. ASSUME NEW t \in Tasks, Synchronize(t)
      PROVE  /\ SyncInv' /\ resyncs' = resyncs
             /\ hasSynced => Abs(current' - current) <= MaxCorrectionStep
             /\ hasSynced /\ target' = target =>
                  Abs(target' - current') <= Abs(target - current)
  <2>1. PICK m \in -Measurable .. Measurable :
          PassRefused(t, m) \/ PassSucceeds(t, m) \/ PassDrifts(t, m)
    BY <1>1 DEF Synchronize
  <2>2. QED
    BY <2>1, PassProperties
<1>2. ASSUME NEW t \in Tasks, Update(t)
      PROVE  /\ SyncInv' /\ resyncs' = resyncs
             /\ Abs(current' - current) <= MaxCorrectionStep
             /\ Abs(target' - current') <= Abs(target - current)
  BY <1>2, UpdateProperties
<1>3. ASSUME NEW t \in Tasks, Reset(t)
      PROVE  SyncInv' /\ resyncs' = 0 /\ hasSynced' = FALSE
  BY <1>3, ResetProperties
<1>4. CASE \/ \E t \in Tasks : \/ StartSwap(t) \/ Stop(t)
                               \/ Begin(t, "synchronize") \/ Begin(t, "update")
           \/ UNCHANGED vars
  BY <1>4, QuietProperties
<1>5. QED
  BY <1>1, <1>2, <1>3, <1>4 DEF Next

LEMMA SyncInvariant == Spec => []SyncInv
<1>1. SyncInv /\ [Next]_vars => SyncInv'
  BY SyncStep
<1>2. QED
  BY <1>1, SyncInvInit, PTL DEF Spec

-----------------------------------------------------------------------------
(* Every reachable state has the declared types                            *)
(* (clock_manager.rs, synchronizer.rs).                                    *)
THEOREM SyncTypeCorrect == Spec => []TypeOK
BY SyncInvariant, PTL DEF SyncInv

(* The applied offset never leaves the accepted range, although only       *)
(* measurements are checked (clock_manager.rs:131-232).                    *)
THEOREM StaysInRange == Spec => []OffsetInRange
BY SyncInvariant, PTL DEF SyncInv

(* The accuracy statistic is exact on every path (clock_manager.rs:156-232). *)
THEOREM AccuracyExact == Spec => []AccuracyIsExact
BY SyncInvariant, PTL DEF SyncInv

(* Every pass is counted once (synchronizer.rs:99-131).                    *)
THEOREM PassesExact == Spec => []PassesCounted
BY SyncInvariant, PTL DEF SyncInv

(* The applied offset moves by bounded steps except when it is seeded or a *)
(* session starts (clock_manager.rs:148-232).                              *)
THEOREM OffsetNeverJumps == Spec => NeverJumps
<1>1. SyncInv /\ [Next]_vars =>
        [\/ Abs(current' - current) <= MaxCorrectionStep
         \/ ~hasSynced \/ ~hasSynced']_vars
  <2> SUFFICES ASSUME SyncInv, [Next]_vars, hasSynced, hasSynced'
               PROVE  Abs(current' - current) <= MaxCorrectionStep
    OBVIOUS
  <2>1. current \in Int
    BY DEF SyncInv, TypeOK
  <2>2. CASE UNCHANGED clockVars
    BY <2>1, <2>2, SyncAssumption DEF clockVars, Abs
  <2>3. QED
    BY <2>2, SyncStep
<1>2. QED
  BY <1>1, SyncInvariant, PTL DEF Spec, NeverJumps

(* A correction never loses the synchronization (clock_manager.rs:202-243). *)
THEOREM CorrectionsKeepSync == Spec => CorrectionKeepsSync
<1>1. SyncInv /\ [Next]_vars =>
        [Synchronized /\ target' = target /\ hasSynced' => Synchronized']_vars
  <2> SUFFICES ASSUME SyncInv, [Next]_vars, Synchronized, target' = target, hasSynced'
               PROVE  Synchronized'
    OBVIOUS
  <2>1. /\ hasSynced /\ Abs(target - current) <= ResyncThreshold
        /\ Abs(target - current) \in Int /\ Abs(target' - current') \in Int
    <3>1. current \in Int /\ target \in Int /\ current' \in Int /\ target' \in Int
      BY SyncStep DEF SyncInv, TypeOK
    <3>2. hasSynced /\ Abs(target - current) <= ResyncThreshold
      BY Zenon DEF Synchronized, Error
    <3>3. Abs(target - current) \in Int /\ Abs(target' - current') \in Int
      BY <3>1, DistanceType, Zenon
    <3>4. QED
      BY <3>2, <3>3, Zenon
  <2>2. UNCHANGED clockVars => Abs(target' - current') <= Abs(target - current)
    BY <2>1 DEF clockVars
  <2>3. CASE Abs(target' - current') <= Abs(target - current)
    BY <2>1, <2>3, SyncAssumption DEF ValidSyncConfig, Synchronized, Error
  <2>4. QED
    BY <2>1, <2>2, <2>3, SyncStep
<1>2. QED
  BY <1>1, SyncInvariant, PTL DEF Spec, CorrectionKeepsSync

(* correct_drift always has a step to take while there is an error.        *)
LEMMA CorrectionPossible ==
  ASSUME NEW from \in Offsets, NEW to \in Offsets, from # to
  PROVE  CorrectionSteps(from, to) # {}
<1>1. CASE from < to
  <2>1. 1 \in CorrectionSteps(from, to)
    BY <1>1, SyncAssumption DEF Offsets, CorrectionSteps, ValidSyncConfig
  <2>2. QED
    BY <2>1
<1>2. CASE to < from
  <2>1. -1 \in CorrectionSteps(from, to)
    BY <1>2, SyncAssumption DEF Offsets, CorrectionSteps, ValidSyncConfig
  <2>2. QED
    BY <2>1
<1>3. QED
  BY <1>1, <1>2 DEF Offsets

LEMMA StepsApproach ==
  ASSUME NEW from \in Offsets, NEW to \in Offsets, NEW d \in CorrectionSteps(from, to)
  PROVE  Abs(to - (from + d)) < Abs(to - from)
BY SyncAssumption DEF Offsets, CorrectionSteps, Abs

(* An update() that has had the lock. *)
UpdateReturns == \E t \in Tasks : calls[t] = "update" /\ calls'[t] = "idle"

LEMMA UpdateIsUpdate ==
  ASSUME TypeOK, [Next]_vars, NEW t \in Tasks, calls[t] = "update", calls'[t] = "idle"
  PROVE  Update(t)
<1>1. calls \in [Tasks -> {"idle", "reset", "synchronize", "update"}]
  BY DEF TypeOK
<1>2. ASSUME NEW u \in Tasks, NEW from, NEW to, from # "update", Move(u, from, to)
      PROVE  FALSE
  BY <1>1, <1>2 DEF Move
<1>3. ASSUME NEW u \in Tasks, Move(u, "update", "idle")
      PROVE  u = t
  BY <1>1, <1>3 DEF Move
<1>4. ASSUME NEW u \in Tasks, Synchronize(u) PROVE FALSE
  <2>1. Move(u, "synchronize", "idle")
    BY <1>4, Zenon DEF Synchronize, PassRefused, PassSucceeds, PassDrifts, Count
  <2>2. "synchronize" # "update"
    OBVIOUS
  <2>3. QED
    BY <1>2, <2>1, <2>2
<1>5. ASSUME NEW u \in Tasks,
             \/ StartSwap(u) \/ Reset(u) \/ Begin(u, "synchronize") \/ Begin(u, "update")
      PROVE  FALSE
  <2>1. \E from, to : from # "update" /\ Move(u, from, to)
    BY <1>5 DEF StartSwap, Reset, Begin
  <2>2. QED
    BY <1>2, <2>1
<1>6. ~UNCHANGED calls
  OBVIOUS
<1>7. PICK u \in Tasks : Update(u)
  BY <1>4, <1>5, <1>6 DEF Next, Stop, vars
<1>8. Move(u, "update", "idle")
  BY <1>7 DEF Update
<1>9. QED
  BY <1>3, <1>7, <1>8

(* While the target stays the error never grows, and every update() makes  *)
(* it smaller until there is none.                                         *)
ErrorShrinks ==
  [][target' = target /\ hasSynced /\ hasSynced' =>
       /\ Error' <= Error
       /\ Error > 0 /\ UpdateReturns => Error' < Error]_vars

(* The distance to the target is what lets an engine converge: no step but *)
(* a new measurement or a new session increases it, and each update()      *)
(* decreases it (clock_manager.rs:202-232).                                *)
THEOREM UpdatesApproach == Spec => ErrorShrinks
<1>1. SyncInv /\ [Next]_vars =>
        [target' = target /\ hasSynced /\ hasSynced' =>
           /\ Error' <= Error
           /\ Error > 0 /\ UpdateReturns => Error' < Error]_vars
  <2> SUFFICES ASSUME SyncInv, [Next]_vars, target' = target, hasSynced, hasSynced'
               PROVE  /\ Error' <= Error
                      /\ Error > 0 /\ UpdateReturns => Error' < Error
    OBVIOUS
  <2>1. current \in Offsets /\ target \in Offsets /\ TypeOK
    BY DEF SyncInv, OffsetInRange
  <2>2. current' \in Int /\ target' \in Int
    BY SyncStep DEF SyncInv, TypeOK
  <2>3. Error' <= Error
    <3>1. Abs(target - current) \in Int /\ Abs(target' - current') \in Int
      BY <2>1, <2>2, DistanceType DEF Offsets
    <3>2. UNCHANGED clockVars => Abs(target' - current') <= Abs(target - current)
      BY <3>1 DEF clockVars
    <3>3. Abs(target' - current') <= Abs(target - current)
      BY <3>2, SyncStep
    <3>4. QED
      BY <3>3 DEF Error
  <2>4. ASSUME Error > 0, UpdateReturns PROVE Error' < Error
    <3>1. PICK t \in Tasks : Update(t)
      BY <2>1, <2>4, UpdateIsUpdate DEF UpdateReturns
    <3>2. Correct(current, target, accuracy)
      BY <3>1, Zenon DEF Update
    <3>3. current # target
      BY <2>1, <2>4 DEF Error, Abs, Offsets
    <3>4. PICK d \in CorrectionSteps(current, target) : current' = current + d
      BY <3>2, <3>3, Zenon DEF Correct
    <3>5. Abs(target - (current + d)) < Abs(target - current)
      BY <2>1, <3>4, StepsApproach
    <3>6. QED
      BY <3>4, <3>5 DEF Error
  <2>5. QED
    BY <2>3, <2>4
<1>2. QED
  BY <1>1, SyncInvariant, PTL DEF Spec, ErrorShrinks

(* The resynchronization counter is dead: no correction increases it, for  *)
(* none loses synchronization (clock_manager.rs:226-228).                  *)
THEOREM ResyncsNeverCounted == Spec => []NoResyncs
<1>1. Init => NoResyncs
  BY DEF Init, NoResyncs
<1>2. SyncInv /\ NoResyncs /\ [Next]_vars => NoResyncs'
  BY SyncStep DEF clockVars, NoResyncs
<1>3. QED
  BY <1>1, <1>2, SyncInvariant, PTL DEF Spec

-----------------------------------------------------------------------------
(* The drift estimator. *)

(* What holds of 0 and, with any number, of the next holds of them all. *)
LEMMA Induction ==
  ASSUME NEW S, 0 \in S, \A n \in Nat : n \in S => n + 1 \in S
  PROVE  Nat \subseteq S
<1> DEFINE T == Nat \ S
<1>1. SUFFICES ASSUME T # {} PROVE FALSE
  OBVIOUS
<1>2. PICK w \in T : \A v \in T : ~(<<v, w>> \in OpToRel(<, Nat))
  BY <1>1, NatLessThanWellFounded, WFMin, Zenon
<1>3. w # 0 /\ w - 1 \in Nat
  OBVIOUS
<1>4. <<w - 1, w>> \in OpToRel(<, Nat)
  BY <1>3 DEF OpToRel
<1>5. w - 1 \notin T
  BY <1>2, <1>4, Zenon
<1>6. (w - 1) + 1 \in S
  BY <1>3, <1>5
<1>7. QED
  BY <1>6

(* The sums of the first terms, up to the k-th.                            *)
Sums(sum, k, terms) ==
  /\ sum \in [0 .. k -> Int]
  /\ sum[0] = 0
  /\ \A i \in 1 .. k : sum[i] = sum[i - 1] + terms[i]

LEMMA SumsExist ==
  ASSUME NEW n \in Nat, NEW terms \in [1 .. n -> Int]
  PROVE  \E sum : Sums(sum, n, terms)
<1> DEFINE S == {k \in Nat : k > n \/ \E sum : Sums(sum, k, terms)}
<1>1. 0 \in S
  <2>1. Sums([i \in 0 .. 0 |-> 0], 0, terms)
    BY DEF Sums
  <2>2. QED
    BY <2>1
<1>2. ASSUME NEW k \in Nat, k \in S
      PROVE  k + 1 \in S
  <2>1. CASE k >= n
    BY <2>1
  <2>2. CASE k < n
    <3>1. PICK sum : Sums(sum, k, terms)
      BY <1>2, <2>2
    <3> DEFINE more == [i \in 0 .. k + 1 |-> IF i = k + 1 THEN sum[k] + terms[k + 1] ELSE sum[i]]
    <3>2. more \in [0 .. k + 1 -> Int]
      BY <2>2, <3>1 DEF Sums
    <3>3. \A i \in 1 .. k + 1 : more[i] = more[i - 1] + terms[i]
      BY <3>1 DEF Sums
    <3>4. more[0] = 0
      BY <3>1 DEF Sums
    <3> HIDE DEF more
    <3>5. Sums(more, k + 1, terms)
      BY <3>2, <3>3, <3>4 DEF Sums
    <3>6. QED
      BY <3>5
  <2>3. QED
    BY <2>1, <2>2
<1> HIDE DEF S
<1>3. n \in S
  BY <1>1, <1>2, Induction
<1>4. QED
  BY <1>3 DEF S

(* Total is what its recursion says.                                       *)
LEMMA TotalUnrolled ==
  ASSUME NEW n \in Nat, NEW terms \in [1 .. n -> Int]
  PROVE  \E sum : Sums(sum, n, terms) /\ Total(terms) = sum[n]
<1> DEFINE Recursion(f) == f = [i \in 0 .. n |-> IF i = 0 THEN 0 ELSE f[i - 1] + terms[i]]
           sum == CHOOSE f : Recursion(f)
<1>1. PICK f : Sums(f, n, terms)
  BY SumsExist
<1>2. Recursion(f)
  BY <1>1 DEF Sums
<1>3. Recursion(sum)
  BY <1>2, Zenon
<1>4. Len(terms) = n
  OBVIOUS
<1>5. Total(terms) = sum[n]
  BY <1>4, Zenon DEF Total
<1> HIDE DEF sum
<1>6. sum[0] = 0 /\ \A i \in 1 .. n : sum[i] = sum[i - 1] + terms[i]
  BY <1>3
<1> DEFINE S == {i \in Nat : i > n \/ sum[i] = f[i]}
<1>7. 0 \in S
  BY <1>1, <1>6 DEF Sums
<1>8. \A i \in Nat : i \in S => i + 1 \in S
  BY <1>1, <1>6 DEF Sums
<1> HIDE DEF S
<1>9. n \in S
  BY <1>7, <1>8, Induction
<1>10. sum[n] = f[n]
  BY <1>9 DEF S
<1>11. QED
  BY <1>1, <1>5, <1>10

(* There is one way to sum. *)
LEMMA SumsAgree ==
  ASSUME NEW n \in Nat, NEW m \in Nat, n <= m, NEW f, NEW g, NEW a, NEW b,
         Sums(f, n, a), Sums(g, m, b), \A i \in 1 .. n : a[i] = b[i]
  PROVE  \A i \in 0 .. n : f[i] = g[i]
<1> DEFINE S == {i \in Nat : i > n \/ f[i] = g[i]}
<1>1. 0 \in S
  BY DEF Sums
<1>2. \A i \in Nat : i \in S => i + 1 \in S
  BY DEF Sums
<1> HIDE DEF S
<1>3. Nat \subseteq S
  BY <1>1, <1>2, Induction
<1>4. QED
  BY <1>3 DEF S

(* The first k of the terms.                                               *)
Upto(terms, k) == [i \in 1 .. k |-> terms[i]]

(* The totals of longer and longer prefixes.                               *)
LEMMA PrefixTotals ==
  ASSUME NEW n \in Nat, NEW terms \in [1 .. n -> Int]
  PROVE  /\ Total(Upto(terms, 0)) = 0
         /\ \A k \in 0 .. n : Total(Upto(terms, k)) \in Int
         /\ \A k \in 1 .. n : Total(Upto(terms, k)) = Total(Upto(terms, k - 1)) + terms[k]
         /\ Upto(terms, n) = terms
<1>1. PICK sum : Sums(sum, n, terms)
  BY SumsExist
<1>2. ASSUME NEW k \in 0 .. n
      PROVE  Total(Upto(terms, k)) = sum[k]
  <2>1. Upto(terms, k) \in [1 .. k -> Int] /\ k \in Nat
    BY DEF Upto
  <2>2. PICK f : Sums(f, k, Upto(terms, k)) /\ Total(Upto(terms, k)) = f[k]
    BY <2>1, TotalUnrolled
  <2>3. \A i \in 1 .. k : Upto(terms, k)[i] = terms[i]
    BY DEF Upto
  <2>4. \A i \in 0 .. k : f[i] = sum[i]
    BY <1>1, <2>1, <2>2, <2>3, SumsAgree
  <2>5. QED
    BY <2>2, <2>4
<1>3. Upto(terms, n) = terms
  BY DEF Upto
<1>4. QED
  BY <1>1, <1>2, <1>3 DEF Sums

LEMMA NextTotal ==
  ASSUME NEW n \in Nat, NEW terms \in [1 .. n -> Int], NEW k \in Nat, k < n
  PROVE  /\ Total(Upto(terms, k)) \in Int
         /\ terms[k + 1] \in Int
         /\ Total(Upto(terms, k + 1)) = Total(Upto(terms, k)) + terms[k + 1]
<1>1. k \in 0 .. n /\ k + 1 \in 1 .. n /\ (k + 1) - 1 = k
  OBVIOUS
<1>2. QED
  BY <1>1, PrefixTotals

LEMMA TotalType ==
  ASSUME NEW n \in Nat, NEW terms \in [1 .. n -> Int]
  PROVE  Total(terms) \in Int
BY PrefixTotals

(* The products of the distances of points from one more.                  *)
LEMMA DistanceProduct ==
  ASSUME NEW k \in Nat, NEW x \in Int, NEW y \in Int, NEW u \in Int, NEW v \in Int,
         NEW a \in Int, NEW b \in Int, NEW c \in Int, NEW p, NEW q,
         p = k * (x * y) - x * b - y * a + c, q = p + (x - u) * (y - v)
  PROVE  q = (k + 1) * (x * y) - x * (b + v) - y * (a + u) + (c + u * v)
OBVIOUS

LEMMA DistanceProducts ==
  ASSUME NEW n \in Nat, NEW xs \in [1 .. n -> Int], NEW ys \in [1 .. n -> Int],
         NEW x \in Int, NEW y \in Int
  PROVE  Total([i \in 1 .. n |-> (x - xs[i]) * (y - ys[i])])
           = n * (x * y) - x * Total(ys) - y * Total(xs) + Total([i \in 1 .. n |-> xs[i] * ys[i]])
<1> DEFINE ps == [i \in 1 .. n |-> (x - xs[i]) * (y - ys[i])]
           zs == [i \in 1 .. n |-> xs[i] * ys[i]]
           S == {k \in Nat : k > n \/ Total(Upto(ps, k))
                   = k * (x * y) - x * Total(Upto(ys, k)) - y * Total(Upto(xs, k)) + Total(Upto(zs, k))}
<1>1. ps \in [1 .. n -> Int] /\ zs \in [1 .. n -> Int]
  OBVIOUS
<1>2. \A i \in 1 .. n : ps[i] = (x - xs[i]) * (y - ys[i]) /\ zs[i] = xs[i] * ys[i]
  OBVIOUS
<1> HIDE DEF ps, zs
<1>3. 0 \in S
  <2>1. /\ Total(Upto(ps, 0)) = 0 /\ Total(Upto(xs, 0)) = 0
        /\ Total(Upto(ys, 0)) = 0 /\ Total(Upto(zs, 0)) = 0
    BY <1>1, PrefixTotals
  <2>2. QED
    BY <2>1
<1>4. ASSUME NEW k \in Nat, k \in S
      PROVE  k + 1 \in S
  <2>1. SUFFICES ASSUME k < n PROVE k + 1 \in S
    OBVIOUS
  <2>2. ps[k + 1] = (x - xs[k + 1]) * (y - ys[k + 1]) /\ zs[k + 1] = xs[k + 1] * ys[k + 1]
    BY <1>2, <2>1
  <2>3. /\ xs[k + 1] \in Int /\ Total(Upto(xs, k)) \in Int
        /\ Total(Upto(xs, k + 1)) = Total(Upto(xs, k)) + xs[k + 1]
    BY <2>1, NextTotal
  <2>4. /\ ys[k + 1] \in Int /\ Total(Upto(ys, k)) \in Int
        /\ Total(Upto(ys, k + 1)) = Total(Upto(ys, k)) + ys[k + 1]
    BY <2>1, NextTotal
  <2>5. /\ Total(Upto(zs, k)) \in Int
        /\ Total(Upto(zs, k + 1)) = Total(Upto(zs, k)) + zs[k + 1]
    BY <1>1, <2>1, NextTotal
  <2>6. Total(Upto(ps, k + 1)) = Total(Upto(ps, k)) + ps[k + 1]
    BY <1>1, <2>1, NextTotal
  <2>7. Total(Upto(ps, k))
          = k * (x * y) - x * Total(Upto(ys, k)) - y * Total(Upto(xs, k)) + Total(Upto(zs, k))
    BY <1>4, <2>1
  <2>8. Total(Upto(ps, k + 1))
          = (k + 1) * (x * y) - x * Total(Upto(ys, k + 1)) - y * Total(Upto(xs, k + 1))
              + Total(Upto(zs, k + 1))
    <3>1. PICK a \in Int, b \in Int, c \in Int :
            a = Total(Upto(xs, k)) /\ b = Total(Upto(ys, k)) /\ c = Total(Upto(zs, k))
      BY <2>3, <2>4, <2>5
    <3>2. PICK u \in Int, v \in Int : u = xs[k + 1] /\ v = ys[k + 1]
      BY <2>3, <2>4
    <3>3. PICK p, q : p = Total(Upto(ps, k)) /\ q = Total(Upto(ps, k + 1))
      OBVIOUS
    <3>4. p = k * (x * y) - x * b - y * a + c /\ q = p + (x - u) * (y - v)
      BY <2>2, <2>6, <2>7, <3>1, <3>2, <3>3
    <3>5. q = (k + 1) * (x * y) - x * (b + v) - y * (a + u) + (c + u * v)
      BY <3>4, DistanceProduct
    <3>6. QED
      BY <2>2, <2>3, <2>4, <2>5, <3>1, <3>2, <3>3, <3>5
  <2>9. QED
    BY <2>8
<1> HIDE DEF S
<1>5. n \in S
  BY <1>3, <1>4, Induction
<1>6. /\ Upto(ps, n) = ps /\ Upto(xs, n) = xs /\ Upto(ys, n) = ys /\ Upto(zs, n) = zs
  BY <1>1, PrefixTotals
<1>7. QED
  BY <1>5, <1>6 DEF S, ps, zs

LEMMA PairStep ==
  ASSUME NEW k \in Nat, NEW a \in Int, NEW b \in Int, NEW c \in Int, NEW u \in Int, NEW v \in Int,
         NEW d, NEW e, d = k * c - a * b, e = k * (u * v) - u * b - v * a + c
  PROVE  d + e = (k + 1) * (c + u * v) - (a + u) * (b + v)
OBVIOUS

(* The sum over the pairs of the products of their distances.              *)
LEMMA PairProducts ==
  ASSUME NEW n \in Nat, NEW xs \in [1 .. n -> Int], NEW ys \in [1 .. n -> Int]
  PROVE  n * Total([i \in 1 .. n |-> xs[i] * ys[i]]) - Total(xs) * Total(ys)
           = Total([j \in 1 .. n |->
                      Total([i \in 1 .. j - 1 |-> (xs[j] - xs[i]) * (ys[j] - ys[i])])])
<1> DEFINE zs == [i \in 1 .. n |-> xs[i] * ys[i]]
           Before(j) == [i \in 1 .. j - 1 |-> (xs[j] - xs[i]) * (ys[j] - ys[i])]
           ds == [j \in 1 .. n |-> Total(Before(j))]
           S == {k \in Nat : k > n \/ Total(Upto(ds, k))
                   = k * Total(Upto(zs, k)) - Total(Upto(xs, k)) * Total(Upto(ys, k))}
<1>1. zs \in [1 .. n -> Int] /\ \A i \in 1 .. n : zs[i] = xs[i] * ys[i]
  OBVIOUS
<1>2. ds \in [1 .. n -> Int] /\ \A j \in 1 .. n : ds[j] = Total(Before(j))
  <2>1. ASSUME NEW j \in 1 .. n PROVE Total(Before(j)) \in Int
    <3>1. j - 1 \in Nat /\ Before(j) \in [1 .. j - 1 -> Int]
      OBVIOUS
    <3> HIDE DEF Before
    <3>2. QED
      BY <3>1, TotalType
  <2> HIDE DEF Before
  <2>2. QED
    BY <2>1
<1>3. ASSUME NEW k \in Nat, k < n
      PROVE  ds[k + 1] = k * (xs[k + 1] * ys[k + 1]) - xs[k + 1] * Total(Upto(ys, k))
                           - ys[k + 1] * Total(Upto(xs, k)) + Total(Upto(zs, k))
  <2>1. /\ Upto(xs, k) \in [1 .. k -> Int] /\ Upto(ys, k) \in [1 .. k -> Int]
        /\ \A i \in 1 .. k : Upto(xs, k)[i] = xs[i] /\ Upto(ys, k)[i] = ys[i]
    BY <1>3 DEF Upto
  <2>2. [i \in 1 .. k |-> Upto(xs, k)[i] * Upto(ys, k)[i]] = Upto(zs, k)
    BY <1>3, <2>1 DEF Upto
  <2>3. [i \in 1 .. k |-> (xs[k + 1] - Upto(xs, k)[i]) * (ys[k + 1] - Upto(ys, k)[i])]
          = Before(k + 1)
    BY <1>3, <2>1
  <2>4. xs[k + 1] \in Int /\ ys[k + 1] \in Int
    BY <1>3
  <2>5. PICK x \in Int, y \in Int : x = xs[k + 1] /\ y = ys[k + 1]
    BY <2>4
  <2>6. PICK us \in [1 .. k -> Int], vs \in [1 .. k -> Int] : us = Upto(xs, k) /\ vs = Upto(ys, k)
    BY <2>1
  <2>7. Total([i \in 1 .. k |-> (x - us[i]) * (y - vs[i])])
           = k * (x * y) - x * Total(vs) - y * Total(us) + Total([i \in 1 .. k |-> us[i] * vs[i]])
    BY <1>3, DistanceProducts, Zenon
  <2>8. ds[k + 1] = Total(Before(k + 1))
    BY <1>2, <1>3
  <2> HIDE DEF Before, ds, zs
  <2>9. QED
    BY <2>2, <2>3, <2>5, <2>6, <2>7, <2>8
<1> HIDE DEF zs, ds
<1>4. 0 \in S
  <2>1. /\ Total(Upto(ds, 0)) = 0 /\ Total(Upto(xs, 0)) = 0
        /\ Total(Upto(ys, 0)) = 0 /\ Total(Upto(zs, 0)) = 0
    BY <1>1, <1>2, PrefixTotals
  <2>2. QED
    BY <2>1
<1>5. ASSUME NEW k \in Nat, k \in S
      PROVE  k + 1 \in S
  <2>1. SUFFICES ASSUME k < n PROVE k + 1 \in S
    OBVIOUS
  <2>2. /\ xs[k + 1] \in Int /\ Total(Upto(xs, k)) \in Int
        /\ Total(Upto(xs, k + 1)) = Total(Upto(xs, k)) + xs[k + 1]
    BY <2>1, NextTotal
  <2>3. /\ ys[k + 1] \in Int /\ Total(Upto(ys, k)) \in Int
        /\ Total(Upto(ys, k + 1)) = Total(Upto(ys, k)) + ys[k + 1]
    BY <2>1, NextTotal
  <2>4. /\ zs[k + 1] = xs[k + 1] * ys[k + 1] /\ Total(Upto(zs, k)) \in Int
        /\ Total(Upto(zs, k + 1)) = Total(Upto(zs, k)) + zs[k + 1]
    <3>1. zs[k + 1] = xs[k + 1] * ys[k + 1]
      BY <1>1, <2>1
    <3>2. QED
      BY <1>1, <2>1, <3>1, NextTotal
  <2>5. Total(Upto(ds, k + 1)) = Total(Upto(ds, k)) + ds[k + 1]
    BY <1>2, <2>1, NextTotal
  <2>6. Total(Upto(ds, k)) = k * Total(Upto(zs, k)) - Total(Upto(xs, k)) * Total(Upto(ys, k))
    BY <1>5, <2>1
  <2>7. PICK a \in Int, b \in Int, c \in Int :
          a = Total(Upto(xs, k)) /\ b = Total(Upto(ys, k)) /\ c = Total(Upto(zs, k))
    BY <2>2, <2>3, <2>4
  <2>8. PICK u \in Int, v \in Int : u = xs[k + 1] /\ v = ys[k + 1]
    BY <2>2, <2>3
  <2>9. PICK d, e : d = Total(Upto(ds, k)) /\ e = ds[k + 1]
    OBVIOUS
  <2>10. d = k * c - a * b /\ e = k * (u * v) - u * b - v * a + c
    BY <1>3, <2>1, <2>6, <2>7, <2>8, <2>9
  <2>11. d + e = (k + 1) * (c + u * v) - (a + u) * (b + v)
    BY <2>10, PairStep
  <2>12. Total(Upto(ds, k + 1))
           = (k + 1) * Total(Upto(zs, k + 1)) - Total(Upto(xs, k + 1)) * Total(Upto(ys, k + 1))
    BY <2>2, <2>3, <2>4, <2>5, <2>7, <2>8, <2>9, <2>11
  <2>13. QED
    BY <2>12
<1> HIDE DEF S
<1>6. n \in S
  BY <1>4, <1>5, Induction
<1>7. /\ Upto(ds, n) = ds /\ Upto(xs, n) = xs /\ Upto(ys, n) = ys /\ Upto(zs, n) = zs
  BY <1>1, <1>2, PrefixTotals
<1>8. QED
  BY <1>6, <1>7 DEF S, ds, zs

BoundedTerms(n, a, b, m) == \A i \in 1 .. n : Abs(a[i]) <= m * b[i]

(* Terms bounded one by one have bounded totals.                           *)
LEMMA TotalBounded ==
  ASSUME NEW n \in Nat, NEW a \in [1 .. n -> Int], NEW b \in [1 .. n -> Int], NEW m \in Nat,
         BoundedTerms(n, a, b, m)
  PROVE  Abs(Total(a)) <= m * Total(b)
<1> DEFINE S == {k \in Nat : k > n \/ Abs(Total(Upto(a, k))) <= m * Total(Upto(b, k))}
<1>1. 0 \in S
  <2>1. Total(Upto(a, 0)) = 0 /\ Total(Upto(b, 0)) = 0
    BY PrefixTotals
  <2>2. QED
    BY <2>1 DEF Abs
<1>2. ASSUME NEW k \in Nat, k \in S
      PROVE  k + 1 \in S
  <2>1. SUFFICES ASSUME k < n PROVE k + 1 \in S
    OBVIOUS
  <2>2. PICK p \in Int, u \in Int : /\ p = Total(Upto(a, k)) /\ u = a[k + 1]
                                    /\ Total(Upto(a, k + 1)) = p + u
    BY <2>1, NextTotal
  <2>3. PICK q \in Int, v \in Int : /\ q = Total(Upto(b, k)) /\ v = b[k + 1]
                                    /\ Total(Upto(b, k + 1)) = q + v
    BY <2>1, NextTotal
  <2>4. Abs(p) <= m * q /\ Abs(u) <= m * v
    BY <1>2, <2>1, <2>2, <2>3 DEF BoundedTerms
  <2>5. m * (q + v) = m * q + m * v
    OBVIOUS
  <2>6. m * q \in Int /\ m * v \in Int /\ m * (q + v) \in Int
    OBVIOUS
  <2>7. Abs(p + u) <= m * (q + v)
    BY <2>4, <2>5, <2>6 DEF Abs
  <2>8. QED
    BY <2>2, <2>3, <2>7
<1> HIDE DEF S
<1>3. n \in S
  BY <1>1, <1>2, Induction
<1>4. QED
  BY <1>3, PrefixTotals DEF S

Samples == [at : Int, offset : Int]

(* The sum of the products, but for the products of the means.            *)
Scatter(n, xs, ys) == n * Total([i \in 1 .. n |-> xs[i] * ys[i]]) - Total(xs) * Total(ys)

(* What is at a pair in f is the product of the distances.                 *)
Distances(n, xs, ys, f) ==
  \A i, j \in 1 .. n : i < j => f[<<i, j>>] = (xs[j] - xs[i]) * (ys[j] - ys[i])

(* The numerator and the denominator sum over the same pairs.              *)
LEMMA PairTotals ==
  ASSUME NEW w, NEW f, Len(w) \in Nat,
         NEW xs \in [1 .. Len(w) -> Int], NEW ys \in [1 .. Len(w) -> Int],
         Distances(Len(w), xs, ys, f)
  PROVE  PairTotal(w, f) = Scatter(Len(w), xs, ys)
<1> DEFINE n == Len(w)
           Before(j) == [i \in 1 .. j - 1 |-> (xs[j] - xs[i]) * (ys[j] - ys[i])]
           Of(j) == [i \in 1 .. j - 1 |-> f[<<i, j>>]]
<1>1. ASSUME NEW j \in 1 .. n PROVE Of(j) = Before(j)
  BY DEF Distances
<1>2. PairTotal(w, f) = Total([j \in 1 .. n |-> Total(Of(j))])
  BY DEF PairTotal
<1>3. Scatter(n, xs, ys) = Total([j \in 1 .. n |-> Total(Before(j))])
  BY PairProducts DEF Scatter
<1> HIDE DEF Of, Before
<1>4. [j \in 1 .. n |-> Total(Of(j))] = [j \in 1 .. n |-> Total(Before(j))]
  BY <1>1
<1>5. QED
  BY <1>2, <1>3, <1>4

(* The columns of a window. *)
Times(w) == [i \in 1 .. Len(w) |-> w[i].at]
Measures(w) == [i \in 1 .. Len(w) |-> w[i].offset]

LEMMA WindowColumns ==
  ASSUME NEW w \in Seq(Samples)
  PROVE  /\ Len(w) \in Nat
         /\ Times(w) \in [1 .. Len(w) -> Int] /\ Measures(w) \in [1 .. Len(w) -> Int]
         /\ \A i \in 1 .. Len(w) : Times(w)[i] = w[i].at /\ Measures(w)[i] = w[i].offset
         /\ Numerator(w) = Scatter(Len(w), Times(w), Measures(w))
         /\ Denominator(w) = Scatter(Len(w), Times(w), Times(w))
<1> DEFINE n == Len(w)
           xs == Times(w)
           ys == Measures(w)
<1>1. n \in Nat /\ \A i \in 1 .. n : w[i].at \in Int /\ w[i].offset \in Int
  <2>1. \A i \in 1 .. n : w[i] \in Samples
    OBVIOUS
  <2>2. QED
    BY <2>1 DEF Samples
<1>2. /\ xs \in [1 .. n -> Int] /\ ys \in [1 .. n -> Int]
      /\ \A i \in 1 .. n : xs[i] = w[i].at /\ ys[i] = w[i].offset
  BY <1>1 DEF Times, Measures
<1>3. /\ [i \in 1 .. n |-> xs[i] * ys[i]] = [i \in 1 .. n |-> w[i].at * w[i].offset]
      /\ [i \in 1 .. n |-> xs[i] * xs[i]] = [i \in 1 .. n |-> w[i].at * w[i].at]
  BY <1>2
<1>4. /\ SumX(w) = Total(xs) /\ SumY(w) = Total(ys)
      /\ SumXY(w) = Total([i \in 1 .. n |-> xs[i] * ys[i]])
      /\ SumXX(w) = Total([i \in 1 .. n |-> xs[i] * xs[i]])
  BY <1>3 DEF SumX, SumY, SumXY, SumXX, Times, Measures
<1>5. Numerator(w) = Scatter(n, xs, ys) /\ Denominator(w) = Scatter(n, xs, xs)
  BY <1>4 DEF Numerator, Denominator, Scatter
<1>6. QED
  BY <1>1, <1>2, <1>5

(* The least squares line is the mean of the slopes between its points,    *)
(* weighted with the squares of the times between them, for every window   *)
(* (drift_estimator.rs:45-84).                                             *)
THEOREM RegressionIsMean ==
  ASSUME NEW w \in Seq(Samples)
  PROVE  Numerator(w) = WeightedSlope(w).num /\ Denominator(w) = WeightedSlope(w).den
<1> DEFINE n == Len(w)
           xs == Times(w)
           ys == Measures(w)
           time == [ij \in Pairs(w) |-> w[ij[2]].at - w[ij[1]].at]
           moved == [ij \in Pairs(w) |-> w[ij[2]].offset - w[ij[1]].offset]
           products == [ij \in Pairs(w) |-> time[ij] * moved[ij]]
           squares == [ij \in Pairs(w) |-> time[ij] * time[ij]]
<1>1. /\ n \in Nat /\ xs \in [1 .. n -> Int] /\ ys \in [1 .. n -> Int]
      /\ \A i \in 1 .. n : xs[i] = w[i].at /\ ys[i] = w[i].offset
      /\ Numerator(w) = Scatter(n, xs, ys) /\ Denominator(w) = Scatter(n, xs, xs)
  BY WindowColumns
<1>2. ASSUME NEW i \in 1 .. n, NEW j \in 1 .. n, i < j
      PROVE  /\ products[<<i, j>>] = (xs[j] - xs[i]) * (ys[j] - ys[i])
             /\ squares[<<i, j>>] = (xs[j] - xs[i]) * (xs[j] - xs[i])
  <2>1. <<i, j>> \in Pairs(w)
    BY <1>2 DEF Pairs
  <2>2. time[<<i, j>>] = xs[j] - xs[i] /\ moved[<<i, j>>] = ys[j] - ys[i]
    BY <1>1, <2>1
  <2>3. QED
    BY <2>1, <2>2
<1>3. WeightedSlope(w) = [num |-> PairTotal(w, products), den |-> PairTotal(w, squares)]
  BY Zenon DEF WeightedSlope
<1>4. Distances(n, xs, ys, products) /\ Distances(n, xs, xs, squares)
  BY <1>2 DEF Distances
<1> HIDE DEF products, squares
<1>5. PairTotal(w, products) = Scatter(n, xs, ys)
  BY <1>1, <1>4, PairTotals
<1>6. PairTotal(w, squares) = Scatter(n, xs, xs)
  BY <1>1, <1>4, PairTotals
<1>7. QED
  BY <1>1, <1>3, <1>5, <1>6

LEMMA ProductBounded ==
  ASSUME NEW x \in Int, NEW y \in Int, NEW m \in Nat, Abs(y) <= m * x
  PROVE  Abs(x * y) <= m * (x * x)
<1>1. m * x \in Int /\ x * y \in Int /\ m * (x * x) \in Int /\ Abs(y) \in Nat
  BY DEF Abs
<1>2. CASE x < 0
  <2>1. m * x <= 0
    BY <1>2
  <2>2. y = 0
    BY <1>1, <2>1 DEF Abs
  <2>3. x * y = 0 /\ x * x \in Nat
    BY <1>2, <2>2
  <2>4. QED
    BY <2>3 DEF Abs
<1>3. CASE x >= 0
  <2>1. y <= m * x /\ -y <= m * x
    BY <1>1 DEF Abs
  <2>2. x * y <= x * (m * x) /\ x * (-y) <= x * (m * x)
    BY <1>1, <1>3, <2>1
  <2>3. x * (m * x) = m * (x * x) /\ x * (-y) = -(x * y)
    OBVIOUS
  <2>4. QED
    BY <1>1, <2>2, <2>3 DEF Abs
<1>4. QED
  BY <1>2, <1>3

LEMMA ScatterBounded ==
  ASSUME NEW n \in Nat, NEW xs \in [1 .. n -> Int], NEW ys \in [1 .. n -> Int], NEW m \in Nat,
         \A i, j \in 1 .. n : i < j => Abs(ys[j] - ys[i]) <= m * (xs[j] - xs[i])
  PROVE  Abs(Scatter(n, xs, ys)) <= m * Scatter(n, xs, xs)
<1> DEFINE Product(j) == [i \in 1 .. j - 1 |-> (xs[j] - xs[i]) * (ys[j] - ys[i])]
           Square(j) == [i \in 1 .. j - 1 |-> (xs[j] - xs[i]) * (xs[j] - xs[i])]
           ps == [j \in 1 .. n |-> Total(Product(j))]
           qs == [j \in 1 .. n |-> Total(Square(j))]
<1>1. Scatter(n, xs, ys) = Total(ps) /\ Scatter(n, xs, xs) = Total(qs)
  BY PairProducts DEF Scatter
<1>2. ASSUME NEW j \in 1 .. n
      PROVE  /\ Total(Product(j)) \in Int /\ Total(Square(j)) \in Int
             /\ Abs(Total(Product(j))) <= m * Total(Square(j))
  <2>1. j - 1 \in Nat /\ \A i \in 1 .. j - 1 : xs[j] - xs[i] \in Int /\ ys[j] - ys[i] \in Int
    OBVIOUS
  <2>2. Product(j) \in [1 .. j - 1 -> Int] /\ Square(j) \in [1 .. j - 1 -> Int]
    <3>1. Product(j) \in [1 .. j - 1 -> Int]
      BY <2>1
    <3>2. Square(j) \in [1 .. j - 1 -> Int]
      BY <2>1
    <3>3. QED
      BY <3>1, <3>2
  <2>3. ASSUME NEW i \in 1 .. j - 1 PROVE Abs(Product(j)[i]) <= m * Square(j)[i]
    <3>1. PICK x \in Int, y \in Int : x = xs[j] - xs[i] /\ y = ys[j] - ys[i]
      OBVIOUS
    <3>2. Abs(y) <= m * x
      BY <3>1
    <3>3. Abs(x * y) <= m * (x * x)
      BY <3>2, ProductBounded
    <3>4. QED
      BY <3>1, <3>3
  <2> HIDE DEF Product, Square
  <2>4. BoundedTerms(j - 1, Product(j), Square(j), m)
    BY <2>3 DEF BoundedTerms
  <2>5. Total(Product(j)) \in Int /\ Total(Square(j)) \in Int
    BY <2>1, <2>2, TotalType
  <2>6. Abs(Total(Product(j))) <= m * Total(Square(j))
    BY <2>1, <2>2, <2>4, TotalBounded, Zenon
  <2>7. QED
    BY <2>5, <2>6
<1> HIDE DEF Product, Square
<1>3. ps \in [1 .. n -> Int] /\ qs \in [1 .. n -> Int]
  BY <1>2
<1>4. BoundedTerms(n, ps, qs, m)
  BY <1>2 DEF BoundedTerms
<1> HIDE DEF ps, qs
<1>5. Abs(Total(ps)) <= m * Total(qs)
  BY <1>3, <1>4, TotalBounded, Zenon
<1>6. QED
  BY <1>1, <1>5

(* No two samples are further apart than the drift allows.                 *)
Steady(w, m) ==
  \A ij \in Pairs(w) : Abs(w[ij[2]].offset - w[ij[1]].offset) <= m * (w[ij[2]].at - w[ij[1]].at)

LEMMA ScatterType ==
  ASSUME NEW n \in Nat, NEW xs \in [1 .. n -> Int], NEW ys \in [1 .. n -> Int]
  PROVE  Scatter(n, xs, ys) \in Int
<1> DEFINE zs == [i \in 1 .. n |-> xs[i] * ys[i]]
<1>1. zs \in [1 .. n -> Int]
  OBVIOUS
<1>2. Scatter(n, xs, ys) = n * Total(zs) - Total(xs) * Total(ys)
  BY DEF Scatter
<1> HIDE DEF zs
<1>3. Total(xs) \in Int /\ Total(ys) \in Int /\ Total(zs) \in Int
  BY <1>1, TotalType
<1>4. QED
  BY <1>2, <1>3

LEMMA SlopeType ==
  ASSUME NEW w \in Seq(Samples)
  PROVE  Slope(w).num \in Int /\ Slope(w).den \in Int
<1>1. Numerator(w) \in Int /\ Denominator(w) \in Int
  BY WindowColumns, ScatterType
<1>2. QED
  BY <1>1 DEF Slope

LEMMA SteadySlope ==
  ASSUME NEW w \in Seq(Samples), NEW m \in Nat, Steady(w, m)
  PROVE  Abs(Slope(w).num) <= m * Slope(w).den
<1> DEFINE n == Len(w)
           xs == Times(w)
           ys == Measures(w)
<1>1. /\ n \in Nat /\ xs \in [1 .. n -> Int] /\ ys \in [1 .. n -> Int]
      /\ \A i \in 1 .. n : xs[i] = w[i].at /\ ys[i] = w[i].offset
      /\ Numerator(w) = Scatter(n, xs, ys) /\ Denominator(w) = Scatter(n, xs, xs)
  BY WindowColumns
<1>2. ASSUME NEW i \in 1 .. n, NEW j \in 1 .. n, i < j
      PROVE  Abs(ys[j] - ys[i]) <= m * (xs[j] - xs[i])
  <2>1. <<i, j>> \in Pairs(w)
    BY <1>2 DEF Pairs
  <2>2. QED
    BY <1>1, <2>1 DEF Steady
<1>3. Abs(Numerator(w)) <= m * Denominator(w)
  BY <1>1, <1>2, ScatterBounded
<1>4. QED
  BY <1>3 DEF Slope, Abs

-----------------------------------------------------------------------------
(* The clock with its statistics.                                          *)

TrackerType == [last : Int, sum : Int, count : Nat, largest : Nat, drifts : Nat]

(* Besides StatisticsAgree: the bound on the sum without the quotient, and *)
(* what the offset called current is.                                      *)
TrackerInv ==
  /\ tracker \in TrackerType
  /\ tracker.drifts = tracker.count
  /\ outcomes.ok <= tracker.count /\ tracker.count <= outcomes.ok + outcomes.failed
  /\ Abs(tracker.sum) <= tracker.count * tracker.largest
  /\ tracker.last = target

-----------------------------------------------------------------------------
(* Each step of the clock with its statistics is one of Synchronizer's, or *)
(* time passing.                                                           *)
LEMMA ClockStep == [ClockNext]_allVars => [Next]_vars
<1> SUFFICES ASSUME ClockNext PROVE [Next]_vars
  BY DEF allVars
<1>1. CASE TimePasses
  BY <1>1 DEF TimePasses
<1>2. ASSUME NEW t \in Tasks,
             \/ Quiet(StartSwap(t)) \/ ClockReset(t) \/ Quiet(Stop(t))
             \/ Quiet(Begin(t, "synchronize")) \/ Quiet(Begin(t, "update"))
             \/ ClockSynchronize(t) \/ Quiet(Update(t))
      PROVE  Next
  <2>1. CASE ClockSynchronize(t)
    <3>1. Synchronize(t)
      BY <2>1, Zenon DEF ClockSynchronize, Synchronize, Quiet
    <3>2. QED
      BY <3>1, Zenon DEF Next
  <2>2. CASE ~ClockSynchronize(t)
    <3>1. \/ StartSwap(t) \/ Reset(t) \/ Stop(t)
          \/ Begin(t, "synchronize") \/ Begin(t, "update") \/ Update(t)
      BY <1>2, <2>2, Zenon DEF ClockReset, Quiet
    <3>2. QED
      BY <3>1, Zenon DEF Next
  <2>3. QED
    BY <2>1, <2>2
<1>3. QED
  BY <1>1, <1>2, Zenon DEF ClockNext

(* The synchronizer whose passes fail for a drift that is really estimated *)
(* implements the one that leaves it open (drift_estimator.rs:45-84,       *)
(* clock_manager.rs:181-200).                                              *)
THEOREM ClockImplementsSynchronizer == ClockSpec => Spec
<1>1. ClockInit => Init
  BY DEF ClockInit
<1>2. [ClockNext]_allVars => [Next]_vars
  BY ClockStep
<1>3. QED
  BY <1>1, <1>2, PTL DEF ClockSpec, Spec

LEMMA ClockSyncInvariant == ClockSpec => []SyncInv
BY ClockImplementsSynchronizer, SyncInvariant, PTL

-----------------------------------------------------------------------------
LEMMA TrackerInvInit == ClockInit => TrackerInv
<1> SUFFICES ASSUME ClockInit PROVE TrackerInv
  OBVIOUS
<1>1. /\ tracker = FreshTracker /\ target = 0 /\ outcomes = Fresh
  BY DEF ClockInit, Init
<1>2. QED
  BY <1>1 DEF TrackerInv, TrackerType, FreshTracker, Fresh, Abs

LEMMA OneMore == \A n, c \in Nat : (n + 1) * c = n * c + c
OBVIOUS

(* A sum of n numbers no larger than b, and one more.                      *)
LEMMA SumBound ==
  ASSUME NEW s \in Int, NEW m \in Int, NEW n \in Nat, NEW b \in Nat,
         Abs(s) <= n * b,
         NEW c \in Nat, c = IF Abs(m) > b THEN Abs(m) ELSE b
  PROVE  Abs(s + m) <= (n + 1) * c
<1>1. b <= c /\ Abs(m) <= c /\ Abs(m) \in Nat
  BY DEF Abs
<1>2. n * b <= n * c
  BY <1>1
<1>3. (n + 1) * c = n * c + c
  BY OneMore
<1>4. n * b \in Nat /\ n * c \in Nat
  OBVIOUS
<1>5. Abs(s + m) <= Abs(s) + Abs(m)
  BY DEF Abs
<1>6. Abs(s) \in Nat /\ Abs(s + m) \in Nat
  BY DEF Abs
<1>7. QED
  BY <1>1, <1>2, <1>3, <1>4, <1>5, <1>6

(* What a measurement does to the tracker.                                 *)
LEMMA MeasureProperties ==
  ASSUME TrackerInv, NEW m \in Int, Measure(m)
  PROVE  /\ tracker' \in TrackerType
         /\ tracker'.drifts = tracker'.count /\ tracker'.count = tracker.count + 1
         /\ Abs(tracker'.sum) <= tracker'.count * tracker'.largest
         /\ tracker'.last = m
<1> DEFINE largest == IF Abs(m) > tracker.largest THEN Abs(m) ELSE tracker.largest
<1>1. /\ tracker.sum \in Int /\ tracker.count \in Nat /\ tracker.largest \in Nat
      /\ tracker.drifts \in Nat /\ tracker.drifts = tracker.count
      /\ Abs(tracker.sum) <= tracker.count * tracker.largest
  BY DEF TrackerInv, TrackerType
<1>2. largest \in Nat
  BY <1>1 DEF Abs
<1>3. tracker' = [last |-> m, sum |-> tracker.sum + m, count |-> tracker.count + 1,
                  largest |-> largest, drifts |-> tracker.drifts + 1]
  BY DEF Measure, DriftRecorded, OffsetRecorded, TrackerInv, TrackerType
<1>4. Abs(tracker.sum + m) <= (tracker.count + 1) * largest
  BY <1>1, <1>2, SumBound
<1> HIDE DEF largest
<1>5. QED
  BY <1>1, <1>2, <1>3, <1>4 DEF TrackerType

LEMMA TrackerStep ==
  ASSUME SyncInv, TrackerInv, [ClockNext]_allVars
  PROVE  TrackerInv'
<1>1. outcomes \in [ok : Nat, failed : Nat]
  BY DEF SyncInv, TypeOK
<1>2. ASSUME UNCHANGED <<tracker, target, outcomes>>
      PROVE  TrackerInv'
  BY <1>2 DEF TrackerInv
<1>3. CASE UNCHANGED allVars \/ TimePasses
  BY <1>2, <1>3 DEF allVars, vars, clockVars, statVars, TimePasses
<1>4. ASSUME NEW t \in Tasks,
             \/ Quiet(StartSwap(t)) \/ Quiet(Stop(t))
             \/ Quiet(Begin(t, "synchronize")) \/ Quiet(Begin(t, "update")) \/ Quiet(Update(t))
      PROVE  TrackerInv'
  <2>1. UNCHANGED <<tracker, target, outcomes>>
    BY <1>4 DEF Quiet, statVars, clockVars, StartSwap, Stop, Begin, Update
  <2>2. QED
    BY <1>2, <2>1
<1>5. ASSUME NEW t \in Tasks, ClockReset(t)
      PROVE  TrackerInv'
  <2>1. tracker' = FreshTracker /\ target' = 0 /\ outcomes' = Fresh
    BY <1>5 DEF ClockReset, Reset
  <2>2. QED
    BY <2>1 DEF TrackerInv, TrackerType, FreshTracker, Fresh, Abs
<1>6. ASSUME NEW t \in Tasks, NEW m \in -Measurable .. Measurable, Quiet(PassRefused(t, m))
      PROVE  TrackerInv'
  <2>1. /\ UNCHANGED <<tracker, target>>
        /\ outcomes' = [outcomes EXCEPT !["failed"] = outcomes["failed"] + 1]
    BY <1>6 DEF Quiet, statVars, PassRefused, Count
  <2>2. outcomes'.ok = outcomes.ok /\ outcomes'.failed = outcomes.failed + 1
    BY <1>1, <2>1
  <2>3. tracker.count \in Nat
    BY DEF TrackerInv, TrackerType
  <2>4. QED
    BY <1>1, <2>1, <2>2, <2>3 DEF TrackerInv
<1>7. ASSUME NEW t \in Tasks, NEW m \in -Measurable .. Measurable, Measure(m),
             PassDrifts(t, m) \/ PassSucceeds(t, m)
      PROVE  TrackerInv'
  <2>1. m \in Int
    BY SyncAssumption
  <2>2. /\ tracker' \in TrackerType
        /\ tracker'.drifts = tracker'.count /\ tracker'.count = tracker.count + 1
        /\ Abs(tracker'.sum) <= tracker'.count * tracker'.largest
        /\ tracker'.last = m
    BY <1>7, <2>1, MeasureProperties
  <2>3. target' = m
    BY <1>7 DEF PassDrifts, PassSucceeds, ApplyOffset
  <2>4. \/ outcomes' = [outcomes EXCEPT !["failed"] = outcomes["failed"] + 1]
        \/ outcomes' = [outcomes EXCEPT !["ok"] = outcomes["ok"] + 1]
    BY <1>7, Zenon DEF PassDrifts, PassSucceeds, Count
  <2>5. \/ outcomes'.ok = outcomes.ok /\ outcomes'.failed = outcomes.failed + 1
        \/ outcomes'.ok = outcomes.ok + 1 /\ outcomes'.failed = outcomes.failed
    BY <1>1, <2>4
  <2>6. /\ tracker.count \in Nat
        /\ outcomes.ok <= tracker.count /\ tracker.count <= outcomes.ok + outcomes.failed
    BY DEF TrackerInv, TrackerType
  <2>7. outcomes'.ok <= tracker'.count /\ tracker'.count <= outcomes'.ok + outcomes'.failed
    BY <1>1, <2>2, <2>5, <2>6
  <2>8. QED
    BY <2>2, <2>3, <2>7 DEF TrackerInv
<1>8. ASSUME NEW t \in Tasks, ClockSynchronize(t)
      PROVE  TrackerInv'
  BY <1>6, <1>7, <1>8, Zenon DEF ClockSynchronize
<1>9. QED
  BY <1>3, <1>4, <1>5, <1>8, Zenon DEF ClockNext

LEMMA TrackerInvariant == ClockSpec => []TrackerInv
<1>1. ClockInit => TrackerInv
  BY TrackerInvInit
<1>2. SyncInv /\ TrackerInv /\ [ClockNext]_allVars => TrackerInv'
  BY TrackerStep
<1>3. QED
  BY <1>1, <1>2, ClockSyncInvariant, PTL DEF ClockSpec

(* For any measurements, window and range the statistics agree with each   *)
(* other and with the clock, also after passes that were refused for their *)
(* drift (clock_manager.rs:147-200, statistics.rs:71-142).                 *)
THEOREM StatisticsExact == ClockSpec => []StatisticsAgree
<1>1. SyncInv /\ TrackerInv => StatisticsAgree
  <2> SUFFICES ASSUME SyncInv, TrackerInv PROVE StatisticsAgree
    OBVIOUS
  <2>1. /\ tracker.sum \in Int /\ tracker.last \in Int
        /\ tracker.count \in Nat /\ tracker.largest \in Nat
    BY DEF TrackerInv, TrackerType
  <2>2. tracker.drifts = tracker.count /\ tracker.last = target
        /\ outcomes.ok <= tracker.count /\ tracker.count <= outcomes.ok + outcomes.failed
    BY DEF TrackerInv
  <2>3. Abs(tracker.sum)
          <= (IF tracker.count > 0 THEN tracker.count ELSE 1) * tracker.largest
    <3>1. CASE tracker.count > 0
      BY <3>1 DEF TrackerInv
    <3>2. CASE tracker.count = 0
      BY <2>1, <3>2 DEF TrackerInv, Abs
    <3>3. QED
      BY <2>1, <3>1, <3>2
  <2>4. Abs(tracker.last - current) = accuracy
    BY <2>2 DEF SyncInv, AccuracyIsExact, Error
  <2>5. QED
    BY <2>2, <2>3, <2>4 DEF StatisticsAgree, Snapshot, Mean
<1>2. QED
  BY <1>1, ClockSyncInvariant, TrackerInvariant, PTL

(* What is proved of Synchronizer holds of the clock with its estimator,   *)
(* which is what the run checks: the range (clock_manager.rs:131-145).     *)
THEOREM ClockStaysInRange == ClockSpec => []OffsetInRange
BY ClockImplementsSynchronizer, StaysInRange, PTL

(* Likewise that the applied offset moves by bounded steps.                *)
THEOREM ClockNeverJumps == ClockSpec => NeverJumps
BY ClockImplementsSynchronizer, OffsetNeverJumps

-----------------------------------------------------------------------------
WindowInv == window \in Seq(Samples) /\ elapsed \in Nat

(* No window grows past the configured number of samples, which is at      *)
(* least two; that is not needed here.                                     *)
LEMMA RecordedSamples ==
  ASSUME NEW w \in Seq(Samples), NEW sample \in Samples, NEW size \in Nat
  PROVE  RecordSample(w, size, sample) \in Seq(Samples)
<1> DEFINE kept == IF size < 2 THEN 2 ELSE size
           before == IF Len(w) >= kept THEN Tail(w) ELSE w
<1>1. before \in Seq(Samples)
  <2>1. CASE Len(w) >= kept
    <3>1. w # <<>>
      BY <2>1
    <3>2. Tail(w) \in Seq(Samples)
      BY <3>1
    <3>3. QED
      BY <2>1, <3>2
  <2>2. CASE ~(Len(w) >= kept)
    BY <2>2
  <2>3. QED
    BY <2>1, <2>2
<1>2. RecordSample(w, size, sample) = Append(before, sample)
  BY DEF RecordSample
<1> HIDE DEF before
<1>3. QED
  BY <1>1, <1>2

LEMMA MeasureWindow ==
  ASSUME WindowInv, NEW m \in Int, Measure(m), UNCHANGED elapsed
  PROVE  WindowInv' /\ drift' = Slope(window')
<1>1. Sample(elapsed, m) \in Samples
  BY DEF WindowInv, Sample, Samples
<1>2. RecordSample(window, DriftWindowSamples, Sample(elapsed, m)) \in Seq(Samples)
  BY <1>1, RecordedSamples, DriftAssumption DEF WindowInv
<1>3. QED
  BY <1>2 DEF Measure, WindowInv

LEMMA WindowStep == WindowInv /\ [ClockNext]_allVars => WindowInv'
<1> SUFFICES ASSUME WindowInv, [ClockNext]_allVars PROVE WindowInv'
  OBVIOUS
<1>1. CASE UNCHANGED <<window, elapsed>>
  BY <1>1 DEF WindowInv
<1>2. CASE TimePasses
  BY <1>2 DEF TimePasses, statVars, WindowInv
<1>3. ASSUME NEW t \in Tasks, ClockReset(t)
      PROVE  WindowInv'
  BY <1>3 DEF ClockReset, WindowInv
<1>4. ASSUME NEW t \in Tasks, NEW m \in -Measurable .. Measurable, Measure(m), UNCHANGED elapsed
      PROVE  WindowInv'
  BY <1>4, SyncAssumption, MeasureWindow
<1>5. ASSUME NEW t \in Tasks, ClockSynchronize(t)
      PROVE  WindowInv'
  BY <1>1, <1>4, <1>5, Zenon DEF ClockSynchronize, Quiet, statVars
<1>6. QED
  BY <1>1, <1>2, <1>3, <1>5, Zenon DEF ClockNext, Quiet, statVars, allVars

LEMMA WindowInvariant == ClockSpec => []WindowInv
<1>1. ClockInit => WindowInv
  BY DEF ClockInit, WindowInv
<1>2. QED
  BY <1>1, WindowStep, PTL DEF ClockSpec

(* The slope of a steady clock is not too large. *)
LEMMA SteadyNotTooLarge ==
  ASSUME NEW w \in Seq(Samples), ~\E ij \in Pairs(w) :
           LET s == w[ij[1]]  r == w[ij[2]]
           IN  Abs(r.offset - s.offset) > MaxDrift * (r.at - s.at)
  PROVE  ~DriftTooLarge(Slope(w))
<1>1. ASSUME NEW ij \in Pairs(w)
      PROVE  Abs(w[ij[2]].offset - w[ij[1]].offset) <= MaxDrift * (w[ij[2]].at - w[ij[1]].at)
  <2>1. ij[1] \in 1 .. Len(w) /\ ij[2] \in 1 .. Len(w)
    BY DEF Pairs
  <2>2. w[ij[1]] \in Samples /\ w[ij[2]] \in Samples
    BY <2>1
  <2>3. PICK x \in Int, y \in Int : /\ x = w[ij[2]].at - w[ij[1]].at
                                    /\ y = w[ij[2]].offset - w[ij[1]].offset
    <3>1. /\ w[ij[1]].at \in Int /\ w[ij[1]].offset \in Int
          /\ w[ij[2]].at \in Int /\ w[ij[2]].offset \in Int
      BY <2>2 DEF Samples
    <3>2. w[ij[2]].at - w[ij[1]].at \in Int /\ w[ij[2]].offset - w[ij[1]].offset \in Int
      BY <3>1
    <3>3. QED
      BY <3>2, Zenon
  <2>4. ~(Abs(y) > MaxDrift * x)
    BY <2>3
  <2>5. Abs(y) \in Int /\ MaxDrift * x \in Int
    BY DriftAssumption DEF Abs
  <2>6. QED
    BY <2>3, <2>4, <2>5
<1>2. Steady(w, MaxDrift)
  BY <1>1 DEF Steady
<1>3. Abs(Slope(w).num) <= MaxDrift * Slope(w).den
  BY <1>2, SteadySlope, DriftAssumption, Zenon
<1>4. PICK a, b : a = Abs(Slope(w).num) /\ b = MaxDrift * Slope(w).den
  OBVIOUS
<1>5. a \in Int /\ b \in Int
  BY <1>4, SlopeType, DriftAssumption DEF Abs
<1>6. QED
  BY <1>3, <1>4, <1>5 DEF DriftTooLarge

LEMMA SteadyStep ==
  ASSUME SyncInv, WindowInv, [ClockNext]_allVars,
         outcomes'.failed > outcomes.failed, tracker' # tracker
  PROVE  \E ij \in Pairs(window') :
           LET s == window'[ij[1]]  r == window'[ij[2]]
           IN  Abs(r.offset - s.offset) > MaxDrift * (r.at - s.at)
<1>1. outcomes \in [ok : Nat, failed : Nat]
  BY DEF SyncInv, TypeOK
<1>2. ASSUME NEW t \in Tasks PROVE ~ClockReset(t)
  <2>1. SUFFICES ASSUME ClockReset(t) PROVE FALSE
    OBVIOUS
  <2>2. outcomes' = Fresh
    BY <2>1 DEF ClockReset, Reset
  <2>3. QED
    BY <1>1, <2>2 DEF Fresh
<1>3. ~TimePasses /\ ~UNCHANGED allVars
  BY DEF TimePasses, statVars, allVars
<1>4. PICK t \in Tasks : ClockSynchronize(t)
  BY <1>2, <1>3, Zenon DEF ClockNext, Quiet, statVars
<1>5. PICK m \in -Measurable .. Measurable :
        /\ Measure(m) /\ UNCHANGED elapsed
        /\ IF DriftTooLarge(drift') THEN PassDrifts(t, m) ELSE PassSucceeds(t, m)
  BY <1>4, Zenon DEF ClockSynchronize, Quiet, statVars
<1>6. WindowInv' /\ drift' = Slope(window')
  BY <1>5, SyncAssumption, MeasureWindow
<1>7. ~PassSucceeds(t, m)
  <2>1. SUFFICES ASSUME PassSucceeds(t, m) PROVE FALSE
    OBVIOUS
  <2>2. outcomes' = [outcomes EXCEPT !["ok"] = outcomes["ok"] + 1]
    BY <2>1, Zenon DEF PassSucceeds, Count
  <2>3. outcomes'.failed = outcomes.failed
    BY <1>1, <2>2
  <2>4. QED
    BY <1>1, <2>3
<1>8. DriftTooLarge(Slope(window'))
  BY <1>5, <1>6, <1>7
<1>9. QED
  BY <1>6, <1>8, SteadyNotTooLarge DEF WindowInv

(* For any window, range of drift and measurements: a pass that is refused *)
(* for its drift has two samples that are really further apart than the    *)
(* drift allows: neither the regression nor the window makes one up        *)
(* (drift_estimator.rs:40-84, clock_manager.rs:186-199).                   *)
THEOREM SteadyClocksAccepted == ClockSpec => SteadyClockAccepted
<1>1. SyncInv /\ WindowInv /\ [ClockNext]_allVars
        => [\A t \in Tasks :
              calls[t] = "synchronize" /\ outcomes'.failed > outcomes.failed /\ tracker' # tracker
                => \E ij \in Pairs(window') :
                     LET s == window'[ij[1]]  r == window'[ij[2]]
                     IN  Abs(r.offset - s.offset) > MaxDrift * (r.at - s.at)]_allVars
  BY SteadyStep
<1>2. QED
  BY <1>1, ClockSyncInvariant, WindowInvariant, PTL DEF ClockSpec, SteadyClockAccepted
=============================================================================
