---------------------------- MODULE Synchronizer ----------------------------
(***************************************************************************)
(* The clock synchronizer (buffer/src/core/sync/synchronizer.rs and        *)
(* clock_manager.rs): the applied offset follows the last measured one in  *)
(* small steps.  Tasks share the ClockManager behind a lock, but test the  *)
(* running flag before they wait for it, so start(), stop() and the other  *)
(* calls interleave between the two.                                       *)
(*                                                                         *)
(* Abstractions.  Offsets are integers, and a correction, a fraction of    *)
(* the error in the code, is any non-zero step towards the target within   *)
(* the configured maximum.  The regression of drift_estimator.rs is a      *)
(* choice between an estimate in and out of range, in range while there    *)
(* are fewer than two samples.                                             *)
(***************************************************************************)
EXTENDS Integers

CONSTANTS
  Tasks,              \* callers of the synchronizer
  MaxAllowedOffset, MaxCorrectionStep, ResyncThreshold,
  Measurable,         \* bound: largest offset anybody measures
  MaxPasses           \* bound: calls of synchronize()

(* SyncConfig::validate *)
ValidSyncConfig ==
  /\ MaxAllowedOffset > 0 /\ MaxCorrectionStep > 0
  /\ ResyncThreshold \in 1 .. MaxAllowedOffset

ASSUME SyncAssumption ==
  /\ {MaxAllowedOffset, MaxCorrectionStep, Measurable, MaxPasses} \subseteq Nat
  /\ ValidSyncConfig

VARIABLES
  running,     \* the AtomicBool
  calls,       \* per task: the call that waits for the lock
  current,     \* current_offset_ms
  target,      \* target_offset_ms
  hasSynced,   \* has_synced
  samples,     \* samples in the drift window, counted to two
  accuracy,    \* statistics: sync_accuracy_ms
  resyncs,     \* statistics: resync_count
  outcomes,    \* statistics: successful_syncs and failed_syncs
  passes       \* history: synchronize() calls begun; of this session, ended

clockVars == <<current, target, hasSynced, samples, accuracy, resyncs, outcomes>>
vars == <<running, calls, clockVars, passes>>

Offsets == -MaxAllowedOffset .. MaxAllowedOffset

TypeOK ==
  /\ running \in BOOLEAN
  /\ calls \in [Tasks -> {"idle", "reset", "synchronize", "update"}]
  /\ current \in Int /\ target \in Int
  /\ hasSynced \in BOOLEAN
  /\ samples \in 0 .. 2
  /\ accuracy \in Nat
  /\ resyncs \in Nat
  /\ outcomes \in [ok : Nat, failed : Nat]
  /\ passes \in [begun : 0 .. MaxPasses, ended : Nat]

Fresh == [ok |-> 0, failed |-> 0]

Init ==
  /\ running = FALSE
  /\ calls = [t \in Tasks |-> "idle"]
  /\ current = 0 /\ target = 0
  /\ hasSynced = FALSE
  /\ samples = 0
  /\ accuracy = 0
  /\ resyncs = 0
  /\ outcomes = Fresh
  /\ passes = [begun |-> 0, ended |-> 0]

Abs(n) == IF n < 0 THEN -n ELSE n

Error == Abs(target - current)
Synchronized == hasSynced /\ Error <= ResyncThreshold

Move(t, from, to) == calls[t] = from /\ calls' = [calls EXCEPT ![t] = to]

-----------------------------------------------------------------------------
(* start() sets the flag, and resets the clock once it has the lock.       *)
StartSwap(t) ==
  /\ ~running
  /\ running' = TRUE
  /\ Move(t, "idle", "reset")
  /\ UNCHANGED <<clockVars, passes>>

Reset(t) ==
  /\ Move(t, "reset", "idle")
  /\ current' = 0 /\ target' = 0
  /\ hasSynced' = FALSE
  /\ samples' = 0 /\ accuracy' = 0 /\ resyncs' = 0
  /\ outcomes' = Fresh
  /\ passes' = [passes EXCEPT !.ended = 0]
  /\ UNCHANGED running

Stop(t) ==
  /\ running /\ calls[t] = "idle"
  /\ running' = FALSE
  /\ UNCHANGED <<calls, clockVars, passes>>

(* synchronize() and update() test the flag, then wait for the lock. *)
Begin(t, call) ==
  /\ running
  /\ Move(t, "idle", call)
  /\ IF call = "synchronize"
       THEN passes.begun < MaxPasses /\ passes' = [passes EXCEPT !.begun = @ + 1]
       ELSE UNCHANGED passes
  /\ UNCHANGED <<running, clockVars>>

-----------------------------------------------------------------------------
(* Mutant: the correction is bounded by the configured step alone.         *)
OvershootingSteps(from, to) ==
  {d \in -MaxCorrectionStep .. MaxCorrectionStep : d * (to - from) > 0}

(* correct_drift: the steps it may take from one offset towards another. *)
CorrectionSteps(from, to) ==
  {d \in -MaxCorrectionStep .. MaxCorrectionStep :
     from + d \in (from + 1) .. to \cup to .. (from - 1)}

(* Mutant: the accuracy recorded is the one before the step. *)
CorrectRecordingFirst(from, to, recorded) ==
  \/ from = to /\ current' = from /\ accuracy' = recorded /\ UNCHANGED resyncs
  \/ \E d \in CorrectionSteps(from, to) :
       /\ current' = from + d
       /\ accuracy' = Abs(to - from)
       /\ UNCHANGED resyncs

(* correct_drift, with from the applied offset, to the target and recorded *)
(* the accuracy by then.  A resynchronization is counted when this very    *)
(* step loses the synchronization.                                         *)
Correct(from, to, recorded) ==
  \/ from = to /\ current' = from /\ accuracy' = recorded /\ UNCHANGED resyncs
  \/ \E d \in CorrectionSteps(from, to) :
       /\ current' = from + d
       /\ accuracy' = Abs(to - (from + d))
       /\ resyncs' = IF /\ Abs(to - from) <= ResyncThreshold
                        /\ Abs(to - (from + d)) > ResyncThreshold
                       THEN resyncs + 1 ELSE resyncs

Count(t, outcome) ==
  /\ Move(t, "synchronize", "idle")
  /\ outcomes' = [outcomes EXCEPT ![outcome] = @ + 1]
  /\ passes' = [passes EXCEPT !.ended = @ + 1]
  /\ UNCHANGED running

(* calculate_offset refuses the measurement. *)
PassRefused(t, m) ==
  /\ Abs(m) > MaxAllowedOffset
  /\ Count(t, "failed")
  /\ UNCHANGED <<current, target, hasSynced, samples, accuracy, resyncs>>

(* Mutant: every measurement is applied at once. *)
SeededAlways(m) == m

(* apply_offset: the target moves, the applied offset only the first time. *)
Seeded(m) == IF hasSynced THEN current ELSE m

ApplyOffset(m) ==
  /\ target' = m
  /\ hasSynced' = TRUE
  /\ samples' = IF samples < 2 THEN samples + 1 ELSE 2

PassSucceeds(t, m) ==
  /\ Abs(m) <= MaxAllowedOffset
  /\ ApplyOffset(m)
  /\ Correct(Seeded(m), m, Abs(m - Seeded(m)))
  /\ Count(t, "ok")

(* Mutant: the pass that fails on drift is not counted. *)
PassDriftsUncounted(t, m) ==
  /\ Abs(m) <= MaxAllowedOffset
  /\ ApplyOffset(m)
  /\ samples' = 2
  /\ current' = Seeded(m)
  /\ accuracy' = Abs(m - Seeded(m))
  /\ Move(t, "synchronize", "idle")
  /\ passes' = [passes EXCEPT !.ended = @ + 1]
  /\ UNCHANGED <<running, resyncs, outcomes>>

(* estimate_drift fails after the measurement has been applied, and no     *)
(* correction follows.                                                     *)
PassDrifts(t, m) ==
  /\ Abs(m) <= MaxAllowedOffset
  /\ ApplyOffset(m)
  /\ samples' = 2
  /\ current' = Seeded(m)
  /\ accuracy' = Abs(m - Seeded(m))
  /\ Count(t, "failed")
  /\ UNCHANGED resyncs

Synchronize(t) ==
  \E m \in -Measurable .. Measurable :
    PassRefused(t, m) \/ PassSucceeds(t, m) \/ PassDrifts(t, m)

UpdateForgetting(t) ==   \* mutant: no correction
  /\ Move(t, "update", "idle")
  /\ UNCHANGED <<running, clockVars, passes>>

Update(t) ==
  /\ Move(t, "update", "idle")
  /\ Correct(current, target, accuracy)
  /\ UNCHANGED <<running, target, hasSynced, samples, outcomes, passes>>

Next ==
  \E t \in Tasks :
    \/ StartSwap(t) \/ Reset(t) \/ Stop(t)
    \/ Begin(t, "synchronize") \/ Begin(t, "update")
    \/ Synchronize(t) \/ Update(t)

Spec == Init /\ [][Next]_vars

(* Whoever waits for the lock gets it, and update() keeps being called, as *)
(* its documentation asks (once per playback frame).                       *)
Fairness ==
  \A t \in Tasks :
    /\ WF_vars(Reset(t) \/ Synchronize(t) \/ Update(t))
    /\ SF_vars(Begin(t, "update"))

FairSpec == Spec /\ Fairness

-----------------------------------------------------------------------------
(* The applied offset never leaves the range of offsets the engine accepts *)
(* although only the measurements are checked against it: no correction    *)
(* overshoots (clock_manager.rs:131-232).                                  *)
OffsetInRange == current \in Offsets /\ target \in Offsets

(* The applied offset never jumps: it moves by at most max_correction_step *)
(* unless it is seeded by the first measurement or a session starts        *)
(* (clock_manager.rs:148-232).                                             *)
NeverJumps ==
  [][\/ Abs(current' - current) <= MaxCorrectionStep
     \/ ~hasSynced \/ ~hasSynced']_vars

(* A synchronized clock loses its synchronization only to a new            *)
(* measurement or a new session, never to a correction                     *)
(* (clock_manager.rs:202-243).                                             *)
CorrectionKeepsSync ==
  [][Synchronized /\ target' = target /\ hasSynced' => Synchronized']_vars

(* The accuracy statistic is the distance between the applied offset and   *)
(* the target on every path, failed passes included                        *)
(* (clock_manager.rs:156-232, statistics.rs:27-31).                        *)
AccuracyIsExact == accuracy = Error

(* Every pass of a session that got past the flag is counted as exactly    *)
(* one success or failure (synchronizer.rs:99-131).                        *)
PassesCounted == outcomes.ok + outcomes.failed = passes.ended

(* An engine that keeps being updated converges once measurements stop     *)
(* (clock_manager.rs:202-232).                                             *)
Converges == (running /\ hasSynced) ~> (Synchronized \/ ~running \/ ~hasSynced)
=============================================================================
