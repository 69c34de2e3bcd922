---------------------------- MODULE EngineProofs ----------------------------
(***************************************************************************)
(* Proofs about StreamingEngine for any callers, producers, pool of        *)
(* workers, capacities and retries: every packet accepted is in one place  *)
(* or counted once, and each worker hands packets over in the order they   *)
(* were accepted.                                                          *)
(***************************************************************************)
EXTENDS StreamingEngine, FiniteSetTheorems, SequenceTheorems, WellFoundedInduction, TLAPS

(* Workers and producers have states of their own. *)
Roles ==
  /\ \A w \in Workers :
       tasks[w] \in {"none", "check", "paused", "select", "poll", "exited", "deliver", "backoff"}
  /\ \A p \in Producers : tasks[p] \in {"idle", "try", "deliver", "backoff"}

(* A packet is carried exactly while it is being delivered, and a sender   *)
(* that backs off has an attempt left.                                     *)
Carrying ==
  \A s \in Senders :
    /\ carried[s] # Nobody <=> tasks[s] \in {"deliver", "backoff"}
    /\ tasks[s] = "backoff" => attempts[s] > 0

(* What was offered is accepted, refused, or still to be tried. *)
Trying == {p \in Producers : tasks[p] = "try"}

Offered == counts.accepted + Cardinality(Trying) <= counts.offered

EngineInv == TypeOK /\ Roles /\ Carrying /\ Offered /\ PacketsAccountedFor

-----------------------------------------------------------------------------
LEMMA SendersFinite ==
  /\ IsFiniteSet(Senders) /\ Workers \subseteq Nat /\ Workers \cap Producers = {}
  /\ Workers \subseteq Senders /\ Producers \subseteq Senders /\ Nobody \notin Packets
<1>1. IsFiniteSet(1 .. PoolSize)
  BY FS_Interval, EngineAssumption
<1>2. IsFiniteSet(Senders)
  BY <1>1, FS_Union, EngineAssumption DEF Senders, Workers
<1>3. QED
  BY <1>2, EngineAssumption DEF Senders, Workers, Packets

LEMMA CarriersFinite == IsFiniteSet(Carriers) /\ Cardinality(Carriers) \in Nat
<1>1. Carriers \subseteq Senders
  BY DEF Carriers
<1>2. QED
  BY <1>1, SendersFinite, FS_Subset, FS_CardinalityType

LEMMA TryingFinite == IsFiniteSet(Trying) /\ Cardinality(Trying) \in Nat
<1>1. Trying \subseteq Producers
  BY DEF Trying
<1>2. QED
  BY <1>1, EngineAssumption, FS_Subset, FS_CardinalityType

(* The parts of the type the packets' steps rest on. *)
LEMMA Typed ==
  ASSUME TypeOK
  PROVE  /\ queue \in Seq(Packets) /\ Len(queue) \in Nat
         /\ carried \in [Senders -> Packets \cup {Nobody}]
         /\ attempts \in [Senders -> 0 .. MaxRetryCount]
         /\ metrics = [sent |-> metrics.sent, dropped |-> metrics.dropped,
                       failed |-> metrics.failed]
         /\ metrics.sent \in Nat /\ metrics.dropped \in Nat /\ metrics.failed \in Nat
         /\ handed \in Seq([packet : Packets, by : Senders]) /\ Len(handed) \in Nat
         /\ taken \in 0 .. Len(handed)
         /\ counts = [offered |-> counts.offered, accepted |-> counts.accepted,
                      cleared |-> counts.cleared]
         /\ counts.offered \in 0 .. MaxOffered /\ counts.accepted \in 0 .. MaxOffered
         /\ counts.cleared \in 0 .. MaxOffered /\ MaxOffered \in Nat /\ MaxRetryCount \in Nat
<1>1. Len(queue) \in Nat /\ Len(handed) \in Nat
  BY LenProperties DEF TypeOK
<1>2. QED
  BY <1>1, EngineAssumption DEF TypeOK

LEMMA EngineInit == Init => EngineInv
<1> SUFFICES ASSUME Init PROVE EngineInv
  OBVIOUS
<1>1. /\ state = "Stopped" /\ unseen = [w \in Workers |-> FALSE]
      /\ callers = [c \in Callers |-> "idle"] /\ handles = {} /\ handlesLock = Nobody
      /\ tasks = [s \in Senders |-> IF s \in Workers THEN "none" ELSE "idle"]
      /\ queue = <<>> /\ receiver = Nobody /\ carried = [s \in Senders |-> Nobody]
      /\ attempts = [s \in Senders |-> 0]
      /\ metrics = [sent |-> 0, dropped |-> 0, failed |-> 0]
      /\ handed = <<>> /\ taken = 0 /\ sink = "open"
      /\ counts = [offered |-> 0, accepted |-> 0, cleared |-> 0]
  BY DEF Init
<1>2. TypeOK
  <2>1. unseen \in [Workers -> BOOLEAN]
    BY <1>1, Zenon
  <2>2. /\ queue \in Seq(Packets) /\ handed \in Seq([packet : Packets, by : Senders])
        /\ Len(handed) = 0
    BY <1>1
  <2>3. /\ carried \in [Senders -> Packets \cup {Nobody}]
        /\ attempts \in [Senders -> 0 .. MaxRetryCount]
        /\ metrics \in [sent : Nat, dropped : Nat, failed : Nat]
        /\ counts \in [offered : 0 .. MaxOffered, accepted : 0 .. MaxOffered,
                       cleared : 0 .. MaxOffered]
    BY <1>1, EngineAssumption
  <2>4. tasks \in [Senders -> {"none", "check", "paused", "select", "poll", "exited",
                               "idle", "try", "deliver", "backoff"}]
    BY <1>1
  <2>5. QED
    BY <1>1, <2>1, <2>2, <2>3, <2>4 DEF TypeOK, EngineState
<1>3. Roles /\ Carrying
  BY <1>1, SendersFinite DEF Roles, Carrying
<1>4. Trying = {} /\ Carriers = {}
  BY <1>1, SendersFinite DEF Trying, Carriers
<1>5. Cardinality({}) = 0 /\ Len(<<>>) = 0
  BY FS_EmptySet
<1>6. Offered /\ PacketsAccountedFor
  BY <1>1, <1>4, <1>5 DEF Offered, PacketsAccountedFor
<1>7. QED
  BY <1>2, <1>3, <1>6 DEF EngineInv

(* The numbers the accounting is about. *)
LEMMA Numbers ==
  ASSUME EngineInv
  PROVE  /\ Len(queue) \in Nat /\ Cardinality(Carriers) \in Nat /\ Cardinality(Trying) \in Nat
         /\ metrics.sent \in Nat /\ metrics.failed \in Nat /\ MaxOffered \in Nat
         /\ counts.offered \in 0 .. MaxOffered /\ counts.accepted \in 0 .. MaxOffered
         /\ counts.cleared \in 0 .. MaxOffered
         /\ counts.accepted + Cardinality(Trying) <= counts.offered
         /\ counts.accepted = Len(queue) + Cardinality(Carriers) + metrics.sent
                                + metrics.failed + counts.cleared
BY CarriersFinite, TryingFinite, Typed DEF EngineInv, Offered, PacketsAccountedFor

(* Steps that move no packet. *)
LEMMA NothingMoved ==
  ASSUME EngineInv, TypeOK', Trying' = Trying,
         UNCHANGED <<queue, carried, counts>>,
         metrics'.sent = metrics.sent, metrics'.failed = metrics.failed
  PROVE  Offered' /\ PacketsAccountedFor'
<1>1. Carriers' = Carriers
  BY DEF Carriers
<1>2. QED
  BY <1>1 DEF EngineInv, Offered, PacketsAccountedFor

-----------------------------------------------------------------------------
(* The lifecycle calls. *)
LEMMA LifecycleInv ==
  ASSUME EngineInv, NEW c \in Callers, Lifecycle(c)
  PROVE  EngineInv'
<1>1. /\ UNCHANGED <<queue, receiver, carried, attempts, metrics, handed, taken, sink, counts>>
      /\ CallBegin(c) \/ CallStep(c)
  BY DEF Lifecycle, transportVars
<1> DEFINE Names == {"none", "check", "paused", "select", "poll", "exited",
                     "idle", "try", "deliver", "backoff"}
<1>2. /\ tasks \in [Senders -> Names] /\ callers \in [Callers -> {"idle", "start", "spawn",
                    "stop", "lock", "join", "pause", "resume", "clear"}]
      /\ handles \subseteq Workers /\ state \in {"Stopped", "Running", "Paused"}
      /\ unseen \in [Workers -> BOOLEAN] /\ handlesLock \in Callers \cup {Nobody}
  BY DEF EngineInv, TypeOK, EngineState
<1>3. /\ tasks' \in [Senders -> Names]
      /\ \A s \in Senders : \/ tasks'[s] = tasks[s]
                            \/ /\ s \in Workers /\ tasks[s] \in {"none", "exited"}
                               /\ tasks'[s] \in {"check", "none"}
  <2>1. CASE tasks' = tasks
    BY <1>2, <2>1
  <2>2. CASE Spawn(c)
    <3>1. tasks' = [s \in Senders |-> IF s \in Spawned THEN "check" ELSE tasks[s]]
      BY <2>2 DEF Spawn
    <3>2. \A s \in Spawned : s \in Workers /\ tasks[s] = "none"
      BY DEF Spawned, Free
    <3>3. QED
      BY <1>2, <3>1, <3>2
  <2>3. CASE StopJoin(c)
    <3>1. /\ tasks' = [s \in Senders |-> IF s \in handles THEN "none" ELSE tasks[s]]
          /\ \A w \in handles : tasks[w] = "exited"
      BY <2>3 DEF StopJoin
    <3>2. QED
      BY <1>2, <3>1
  <2>4. QED
    BY <1>1, <2>1, <2>2, <2>3 DEF CallBegin, CallStep, StartCheck, StopCheck, PauseCheck,
       ResumeCheck, Send, StopLock
<1>4. callers' \in [Callers -> {"idle", "start", "spawn", "stop", "lock", "join",
                                "pause", "resume", "clear"}]
  BY <1>1, <1>2 DEF CallBegin, CallStep, StartCheck, StopCheck, PauseCheck,
     ResumeCheck, Send, StopLock, Spawn, StopJoin, Step
<1>5. state' \in {"Stopped", "Running", "Paused"} /\ handlesLock' \in Callers \cup {Nobody}
  BY <1>1, <1>2 DEF CallBegin, CallStep, StartCheck, StopCheck, PauseCheck,
     ResumeCheck, Send, StopLock, Spawn, StopJoin
<1>6. handles' \subseteq Workers
  <2>1. Spawned \subseteq Workers
    BY DEF Spawned, Free
  <2>2. QED
    BY <1>1, <1>2, <2>1 DEF CallBegin, CallStep, StartCheck, StopCheck, PauseCheck,
       ResumeCheck, Send, StopLock, Spawn, StopJoin
<1>7. unseen' \in [Workers -> BOOLEAN]
  <2>1. \/ unseen' = unseen
        \/ unseen' = [w \in Workers |-> w \in Alive]
        \/ unseen' = [w \in Workers |-> w \in Spawned \/ unseen[w]]
    <3>1. CASE CallBegin(c)
      BY <3>1, Zenon DEF CallBegin, StartCheck, StopCheck, PauseCheck, ResumeCheck
    <3>2. CASE CallStep(c)
      <4>1. \/ Send(c, "start", "spawn", "Running") \/ Send(c, "stop", "lock", "Stopped")
            \/ Send(c, "pause", "idle", "Paused") \/ Send(c, "resume", "idle", "Running")
            \/ Spawn(c) \/ StopLock(c) \/ StopJoin(c)
        BY <3>2 DEF CallStep
      <4>2. ASSUME NEW from, NEW to, NEW new, Send(c, from, to, new)
            PROVE  unseen' = [w \in Workers |-> w \in Alive]
        BY <4>2, Zenon DEF Send
      <4>3. CASE Spawn(c)
        BY <4>3, Zenon DEF Spawn
      <4>4. CASE StopLock(c) \/ StopJoin(c)
        BY <4>4, Zenon DEF StopLock, StopJoin
      <4>5. QED
        BY <4>1, <4>2, <4>3, <4>4
    <3>3. QED
      BY <1>1, <3>1, <3>2, Zenon
  <2>2. [w \in Workers |-> w \in Alive] \in [Workers -> BOOLEAN]
    OBVIOUS
  <2>3. [w \in Workers |-> w \in Spawned \/ unseen[w]] \in [Workers -> BOOLEAN]
    OBVIOUS
  <2>4. QED
    BY <1>2, <2>1, <2>2, <2>3, Zenon
<1>8. TypeOK'
  BY <1>1, <1>3, <1>4, <1>5, <1>6, <1>7 DEF EngineInv, TypeOK, EngineState
<1>9. Roles'
  BY <1>3, SendersFinite DEF EngineInv, Roles
<1>10. Carrying'
  BY <1>1, <1>3, SendersFinite DEF EngineInv, Carrying
<1>11. Trying' = Trying
  BY <1>3, SendersFinite DEF Trying
<1>12. QED
  BY <1>1, <1>8, <1>9, <1>10, <1>11, NothingMoved DEF EngineInv

LEMMA ClearInv ==
  ASSUME EngineInv, NEW c \in Callers, ClearBegin(c) \/ ClearDrain(c)
  PROVE  EngineInv'
<1>1. /\ UNCHANGED <<state, unseen, handles, handlesLock, tasks, receiver, carried,
                     attempts, metrics, handed, taken, sink>>
      /\ callers' \in [Callers -> {"idle", "start", "spawn", "stop", "lock", "join",
                                   "pause", "resume", "clear"}]
  BY DEF ClearBegin, ClearDrain, Step, transportVars, EngineInv, TypeOK
<1>2. Roles' /\ Carrying' /\ Trying' = Trying /\ Carriers' = Carriers
  BY <1>1 DEF EngineInv, Roles, Carrying, Trying, Carriers
<1>3. CASE ClearBegin(c)
  <2>1. UNCHANGED <<queue, counts>>
    BY <1>3 DEF ClearBegin
  <2>2. TypeOK'
    BY <1>1, <2>1 DEF EngineInv, TypeOK
  <2>3. QED
    BY <1>1, <1>2, <2>1, <2>2, NothingMoved DEF EngineInv
<1>4. CASE ClearDrain(c)
  <2>1. /\ queue' = <<>> /\ Len(queue') = 0
        /\ counts' = [counts EXCEPT !.cleared = counts.cleared + Len(queue)]
    BY <1>4 DEF ClearDrain
  <2>2. /\ counts'.cleared = counts.cleared + Len(queue)
        /\ counts'.accepted = counts.accepted /\ counts'.offered = counts.offered
        /\ counts' = [offered |-> counts.offered, accepted |-> counts.accepted,
                      cleared |-> counts.cleared + Len(queue)]
    BY <2>1, Typed DEF EngineInv
  <2>3. counts.cleared + Len(queue) \in 0 .. MaxOffered
    <3>1. /\ Len(queue) \in Nat /\ Cardinality(Carriers) \in Nat /\ metrics.sent \in Nat
          /\ metrics.failed \in Nat /\ counts.cleared \in Nat /\ MaxOffered \in Nat
          /\ counts.accepted \in 0 .. MaxOffered
          /\ counts.accepted = Len(queue) + Cardinality(Carriers) + metrics.sent
                                   + metrics.failed + counts.cleared
      BY Numbers
    <3>2. QED
      BY <3>1, SMTT(20)
  <2>4. counts' \in [offered : 0 .. MaxOffered, accepted : 0 .. MaxOffered,
                     cleared : 0 .. MaxOffered]
    BY <2>2, <2>3, Typed DEF EngineInv
  <2>5. TypeOK'
    BY <1>1, <2>1, <2>4, SMTT(20) DEF EngineInv, TypeOK
  <2>6. Offered'
    BY <1>2, <2>2 DEF EngineInv, Offered
  <2>7. PacketsAccountedFor'
    BY <1>1, <1>2, <2>1, <2>2, Numbers, SMTT(20) DEF PacketsAccountedFor
  <2>8. QED
    BY <1>2, <2>5, <2>6, <2>7 DEF EngineInv
<1>5. QED
  BY <1>3, <1>4

-----------------------------------------------------------------------------
(* The worker loop.  What a sender's own move does to the states. *)
LEMMA Moved ==
  ASSUME EngineInv, NEW s \in Senders, NEW from, NEW to, At(s, from, to),
         s \in Workers => to \in {"none", "check", "paused", "select", "poll", "exited",
                                  "deliver", "backoff"},
         s \in Producers => to \in {"idle", "try", "deliver", "backoff"},
         \A r \in Senders : r # s => carried'[r] = carried[r] /\ attempts'[r] = attempts[r],
         carried'[s] # Nobody <=> to \in {"deliver", "backoff"},
         to = "backoff" => attempts'[s] > 0
  PROVE  /\ tasks[s] = from
         /\ tasks' \in [Senders -> {"none", "check", "paused", "select", "poll", "exited",
                                    "idle", "try", "deliver", "backoff"}]
         /\ Roles' /\ Carrying'
<1>1. /\ tasks[s] = from /\ tasks' = [tasks EXCEPT ![s] = to]
      /\ tasks \in [Senders -> {"none", "check", "paused", "select", "poll", "exited",
                                "idle", "try", "deliver", "backoff"}]
  BY DEF At, EngineInv, TypeOK
<1>2. s \in Workers \/ s \in Producers
  BY DEF Senders
<1>3. tasks'[s] = to /\ \A r \in Senders : r # s => tasks'[r] = tasks[r]
  BY <1>1
<1>4. tasks' \in [Senders -> {"none", "check", "paused", "select", "poll", "exited",
                              "idle", "try", "deliver", "backoff"}]
  BY <1>1, <1>2
<1>5. Roles'
  BY <1>3, SendersFinite DEF EngineInv, Roles
<1>6. Carrying'
  BY <1>3 DEF EngineInv, Carrying
<1>7. QED
  BY <1>1, <1>4, <1>5, <1>6

LEMMA WorkerTrying ==
  ASSUME EngineInv, NEW w \in Workers, NEW from, NEW to, At(w, from, to)
  PROVE  Trying' = Trying
<1>1. \A p \in Producers : tasks'[p] = tasks[p]
  BY SendersFinite DEF At, EngineInv, TypeOK
<1>2. QED
  BY <1>1 DEF Trying

LEMMA LoopTypes ==
  ASSUME EngineInv, NEW w \in Workers, WorkerLoop(w)
  PROVE  /\ UNCHANGED <<state, callers, handles, handlesLock, metrics, handed, taken, sink, counts>>
         /\ unseen' \in [Workers -> BOOLEAN] /\ receiver' \in Workers \cup {Nobody}
<1>1. UNCHANGED <<state, callers, handles, handlesLock, metrics, handed, taken, sink, counts>>
  BY DEF WorkerLoop, Check, Wake, PollState, PollQueue, transportVars
<1>2. unseen' \in [Workers -> BOOLEAN]
  <2>1. unseen \in [Workers -> BOOLEAN] /\ [unseen EXCEPT ![w] = FALSE] \in [Workers -> BOOLEAN]
    BY Zenon DEF EngineInv, TypeOK
  <2>2. unseen' = unseen \/ unseen' = [unseen EXCEPT ![w] = FALSE]
    BY Zenon DEF WorkerLoop, Check, Wake, PollState, PollQueue
  <2>3. QED
    BY <2>1, <2>2, Zenon
<1>3. receiver' \in Workers \cup {Nobody}
  BY DEF WorkerLoop, Check, Wake, PollState, PollQueue, Release, EngineInv, TypeOK
<1>4. QED
  BY <1>1, <1>2, <1>3

(* Steps of the loop other than taking a packet. *)
LEMMA LoopInv ==
  ASSUME EngineInv, NEW w \in Workers, WorkerLoop(w), UNCHANGED <<queue, carried, attempts>>,
         NEW from, NEW to \in {"check", "paused", "select", "poll", "exited"},
         from \notin {"deliver", "backoff"}, At(w, from, to)
  PROVE  EngineInv'
<1>1. w \in Senders /\ w \notin Producers
  BY SendersFinite
<1>2. tasks[w] = from /\ carried[w] = Nobody
  BY <1>1 DEF At, EngineInv, Carrying
<1>3. /\ tasks' \in [Senders -> {"none", "check", "paused", "select", "poll", "exited",
                                 "idle", "try", "deliver", "backoff"}]
      /\ Roles' /\ Carrying'
  <2>1. carried'[w] = Nobody /\ to \notin {"deliver", "backoff"}
    BY <1>2
  <2>2. QED
    BY <1>1, <2>1, Moved
<1>4. TypeOK'
  BY <1>3, LoopTypes DEF EngineInv, TypeOK
<1>5. Trying' = Trying
  BY WorkerTrying
<1>6. QED
  BY <1>3, <1>4, <1>5, LoopTypes, NothingMoved DEF EngineInv

(* A worker takes the first packet of the queue. *)
Takes(w) ==
  /\ At(w, "poll", "deliver") /\ queue # <<>> /\ queue' = Tail(queue)
  /\ carried' = [carried EXCEPT ![w] = Head(queue)]
  /\ attempts' = [attempts EXCEPT ![w] = MaxRetryCount]

(* One sender starts to carry a packet. *)
LEMMA CarriersGain ==
  ASSUME EngineInv, NEW s \in Senders, carried[s] = Nobody, NEW n \in Packets,
         carried' = [carried EXCEPT ![s] = n]
  PROVE  /\ carried' \in [Senders -> Packets \cup {Nobody}]
         /\ carried'[s] = n /\ carried'[s] # Nobody
         /\ \A r \in Senders : r # s => carried'[r] = carried[r]
         /\ Cardinality(Carriers') = Cardinality(Carriers) + 1
<1>1. /\ carried \in [Senders -> Packets \cup {Nobody}] /\ n # Nobody
  BY Typed, SendersFinite DEF EngineInv
<1>2. /\ carried' \in [Senders -> Packets \cup {Nobody}]
      /\ carried'[s] = n /\ \A r \in Senders : r # s => carried'[r] = carried[r]
  BY <1>1
<1>3. Carriers' = Carriers \cup {s} /\ s \notin Carriers
  BY <1>1, <1>2 DEF Carriers
<1>4. Cardinality(Carriers') = Cardinality(Carriers) + 1
  BY <1>3, CarriersFinite, FS_AddElement
<1>5. QED
  BY <1>1, <1>2, <1>4

LEMMA CarriersLose ==
  ASSUME EngineInv, NEW s \in Senders, carried[s] # Nobody,
         carried' = [carried EXCEPT ![s] = Nobody]
  PROVE  /\ carried' \in [Senders -> Packets \cup {Nobody}]
         /\ carried'[s] = Nobody
         /\ \A r \in Senders : r # s => carried'[r] = carried[r]
         /\ Cardinality(Carriers') = Cardinality(Carriers) - 1
<1>1. /\ carried \in [Senders -> Packets \cup {Nobody}]
  BY Typed DEF EngineInv
<1>2. /\ carried' \in [Senders -> Packets \cup {Nobody}]
      /\ carried'[s] = Nobody /\ \A r \in Senders : r # s => carried'[r] = carried[r]
  BY <1>1
<1>3. Carriers' = Carriers \ {s} /\ s \in Carriers
  BY <1>1, <1>2 DEF Carriers
<1>4. Cardinality(Carriers') = Cardinality(Carriers) - 1
  BY <1>3, CarriersFinite, FS_RemoveElement
<1>5. QED
  BY <1>2, <1>4

LEMMA AttemptsSet ==
  ASSUME EngineInv, NEW s \in Senders, NEW k \in 0 .. MaxRetryCount,
         attempts' = [attempts EXCEPT ![s] = k]
  PROVE  /\ attempts' \in [Senders -> 0 .. MaxRetryCount] /\ attempts'[s] = k
         /\ \A r \in Senders : r # s => attempts'[r] = attempts[r]
BY Typed DEF EngineInv

LEMMA TakesInv ==
  ASSUME EngineInv, NEW w \in Workers, WorkerLoop(w), Takes(w)
  PROVE  EngineInv'
<1>1. /\ At(w, "poll", "deliver") /\ queue # <<>> /\ queue' = Tail(queue)
      /\ carried' = [carried EXCEPT ![w] = Head(queue)]
      /\ attempts' = [attempts EXCEPT ![w] = MaxRetryCount]
  BY DEF Takes
<1>2. w \in Senders /\ w \notin Producers /\ MaxRetryCount \in 0 .. MaxRetryCount
  BY SendersFinite, EngineAssumption
<1>3. carried[w] = Nobody
  BY <1>1, <1>2 DEF At, EngineInv, Carrying
<1>4. /\ Head(queue) \in Packets /\ Tail(queue) \in Seq(Packets)
      /\ Len(Tail(queue)) = Len(queue) - 1
  BY <1>1, Typed, HeadTailProperties DEF EngineInv
<1>5. /\ carried' \in [Senders -> Packets \cup {Nobody}] /\ carried'[w] # Nobody
      /\ \A r \in Senders : r # w => carried'[r] = carried[r]
      /\ Cardinality(Carriers') = Cardinality(Carriers) + 1
  BY <1>1, <1>2, <1>3, <1>4, CarriersGain
<1>6. /\ attempts' \in [Senders -> 0 .. MaxRetryCount]
      /\ \A r \in Senders : r # w => attempts'[r] = attempts[r]
  BY <1>1, <1>2, AttemptsSet
<1>7. /\ tasks' \in [Senders -> {"none", "check", "paused", "select", "poll", "exited",
                                 "idle", "try", "deliver", "backoff"}]
      /\ Roles' /\ Carrying'
  BY <1>1, <1>2, <1>5, <1>6, Moved
<1>8. TypeOK'
  BY <1>1, <1>4, <1>5, <1>6, <1>7, LoopTypes DEF EngineInv, TypeOK
<1>9. Trying' = Trying
  BY <1>1, WorkerTrying
<1>10. Offered'
  BY <1>9, LoopTypes DEF EngineInv, Offered
<1>11. PacketsAccountedFor'
  <2>1. /\ counts' = counts /\ metrics' = metrics /\ Len(queue') = Len(queue) - 1
        /\ Len(queue) \in Nat /\ Cardinality(Carriers) \in Nat
    BY <1>1, <1>4, LoopTypes, CarriersFinite, Typed DEF EngineInv
  <2>2. Len(queue') + Cardinality(Carriers') = Len(queue) + Cardinality(Carriers)
    BY <1>5, <2>1
  <2>3. QED
    BY <2>1, <2>2 DEF EngineInv, PacketsAccountedFor
<1>12. QED
  BY <1>7, <1>8, <1>10, <1>11 DEF EngineInv

(* Every step of the loop is one of the two kinds. *)
LEMMA LoopKinds ==
  ASSUME EngineInv, NEW w \in Workers, WorkerLoop(w)
  PROVE  \/ Takes(w)
         \/ /\ UNCHANGED <<queue, carried, attempts>>
            /\ \E from : \E to \in {"check", "paused", "select", "poll", "exited"} :
                 from \notin {"deliver", "backoff"} /\ At(w, from, to)
<1>1. CASE Check(w)
  <2>1. NextCheck \in {"select", "exited", "paused"}
    BY DEF NextCheck, EngineInv, TypeOK, EngineState
  <2>2. QED
    BY <1>1, <2>1 DEF Check
<1>2. CASE Wake(w)
  BY <1>2 DEF Wake
<1>3. CASE PollState(w)
  BY <1>3 DEF PollState
<1>4. CASE PollQueue(w)
  BY <1>4 DEF PollQueue, Takes
<1>5. QED
  BY <1>1, <1>2, <1>3, <1>4 DEF WorkerLoop

LEMMA WorkerLoopInv ==
  ASSUME EngineInv, NEW w \in Workers, WorkerLoop(w)
  PROVE  EngineInv'
<1>1. CASE Takes(w)
  BY <1>1, TakesInv
<1>2. CASE ~Takes(w)
  <2>1. /\ UNCHANGED <<queue, carried, attempts>>
        /\ \E from : \E to \in {"check", "paused", "select", "poll", "exited"} :
             from \notin {"deliver", "backoff"} /\ At(w, from, to)
    BY <1>2, LoopKinds
  <2>2. PICK from : \E to \in {"check", "paused", "select", "poll", "exited"} :
             from \notin {"deliver", "backoff"} /\ At(w, from, to)
    BY <2>1
  <2>3. PICK to \in {"check", "paused", "select", "poll", "exited"} :
             from \notin {"deliver", "backoff"} /\ At(w, from, to)
    BY <2>2
  <2>4. QED
    BY <2>1, <2>3, LoopInv
<1>3. QED
  BY <1>1, <1>2

-----------------------------------------------------------------------------
(* Deliveries.  One that ends is counted as sent or failed.                *)
LEMMA FinishFacts ==
  ASSUME EngineInv, NEW s \in Senders, Finish(s)
  PROVE  /\ carried[s] \in Packets
         /\ carried' \in [Senders -> Packets \cup {Nobody}]
         /\ attempts' \in [Senders -> 0 .. MaxRetryCount]
         /\ tasks' \in [Senders -> {"none", "check", "paused", "select", "poll", "exited",
                                    "idle", "try", "deliver", "backoff"}]
         /\ Roles' /\ Carrying' /\ Trying' = Trying
         /\ Cardinality(Carriers') = Cardinality(Carriers) - 1
         /\ carried'[s] = Nobody /\ \A r \in Senders : r # s => carried'[r] = carried[r]
<1>1. /\ At(s, "deliver", IF s \in Workers THEN "check" ELSE "idle")
      /\ carried' = [carried EXCEPT ![s] = Nobody] /\ attempts' = [attempts EXCEPT ![s] = 0]
  BY DEF Finish
<1>2. carried[s] # Nobody /\ carried[s] \in Packets
  BY <1>1, Typed DEF At, EngineInv, Carrying
<1>3. /\ carried' \in [Senders -> Packets \cup {Nobody}] /\ carried'[s] = Nobody
      /\ \A r \in Senders : r # s => carried'[r] = carried[r]
      /\ Cardinality(Carriers') = Cardinality(Carriers) - 1
  BY <1>1, <1>2, CarriersLose
<1>4. 0 \in 0 .. MaxRetryCount
  BY EngineAssumption
<1>5. /\ attempts' \in [Senders -> 0 .. MaxRetryCount]
      /\ \A r \in Senders : r # s => attempts'[r] = attempts[r]
  BY <1>1, <1>4, AttemptsSet
<1>6. PICK to \in {"check", "idle"} : /\ At(s, "deliver", to)
                                      /\ s \in Workers => to = "check"
                                      /\ s \in Producers => to = "idle"
  BY <1>1, SendersFinite
<1>7. /\ tasks' \in [Senders -> {"none", "check", "paused", "select", "poll", "exited",
                                 "idle", "try", "deliver", "backoff"}]
      /\ Roles' /\ Carrying'
  BY <1>3, <1>5, <1>6, Moved
<1>8. Trying' = Trying
  BY <1>6, SendersFinite DEF At, Trying, EngineInv, TypeOK
<1>9. QED
  BY <1>2, <1>3, <1>5, <1>7, <1>8

(* A delivery that ends: one packet less in hand, one more counted. *)
LEMMA EndedInv ==
  ASSUME EngineInv, NEW s \in Senders, Deliver(s), Sent(s) \/ SinkUnavailable(s) \/ Exhausted(s)
  PROVE  EngineInv'
<1>1. UNCHANGED <<state, unseen, callers, handles, handlesLock, receiver, taken, sink, counts>>
  BY DEF Deliver, lifecycleVars, transportVars
<1>2. Finish(s) /\ queue' = queue
  BY DEF Sent, SinkUnavailable, Exhausted
<1>3. /\ metrics = [sent |-> metrics.sent, dropped |-> metrics.dropped,
                    failed |-> metrics.failed]
      /\ metrics.sent \in Nat /\ metrics.dropped \in Nat /\ metrics.failed \in Nat
  BY Typed DEF EngineInv
<1>4. /\ metrics' \in [sent : Nat, dropped : Nat, failed : Nat]
      /\ metrics'.sent + metrics'.failed = metrics.sent + metrics.failed + 1
  <2>1. CASE metrics' = [metrics EXCEPT !.sent = @ + 1]
    <3>1. metrics' = [sent |-> metrics.sent + 1, dropped |-> metrics.dropped,
                      failed |-> metrics.failed]
      BY <1>3, <2>1
    <3>2. QED
      BY <1>3, <3>1
  <2>2. CASE metrics' = [metrics EXCEPT !.failed = @ + 1]
    <3>1. metrics' = [sent |-> metrics.sent, dropped |-> metrics.dropped,
                      failed |-> metrics.failed + 1]
      BY <1>3, <2>2
    <3>2. QED
      BY <1>3, <3>1
  <2>3. QED
    BY <2>1, <2>2 DEF Sent, SinkUnavailable, Exhausted
<1>5. /\ handed' \in Seq([packet : Packets, by : Senders]) /\ Len(handed') \in Nat
      /\ Len(handed) <= Len(handed')
  <2>1. CASE handed' = handed
    BY <2>1, Typed DEF EngineInv
  <2>2. CASE Sent(s)
    <3>1. handed' = Append(handed, [packet |-> carried[s], by |-> s])
      BY <2>2 DEF Sent
    <3>2. [packet |-> carried[s], by |-> s] \in [packet : Packets, by : Senders]
      BY <1>2, FinishFacts
    <3>3. handed \in Seq([packet : Packets, by : Senders]) /\ Len(handed) \in Nat
      BY Typed DEF EngineInv
    <3>4. QED
      BY <3>1, <3>2, <3>3, AppendProperties
  <2>3. QED
    BY <2>1, <2>2 DEF SinkUnavailable, Exhausted
<1>6. taken' \in 0 .. Len(handed')
  BY <1>1, <1>5, Typed DEF EngineInv
<1>7. TypeOK'
  BY <1>1, <1>2, <1>4, <1>5, <1>6, FinishFacts DEF EngineInv, TypeOK
<1>8. Offered'
  BY <1>1, <1>2, FinishFacts DEF EngineInv, Offered
<1>9. PacketsAccountedFor'
  <2>1. /\ counts' = counts /\ queue' = queue /\ Cardinality(Carriers') = Cardinality(Carriers) - 1
        /\ Cardinality(Carriers) \in Nat /\ Len(queue) \in Nat /\ counts.cleared \in Nat
    BY <1>1, <1>2, FinishFacts, CarriersFinite, Typed DEF EngineInv
  <2>2. metrics'.sent \in Nat /\ metrics'.failed \in Nat
    BY <1>4
  <2>3. counts.accepted = Len(queue) + Cardinality(Carriers) + metrics.sent
                            + metrics.failed + counts.cleared
    BY DEF EngineInv, PacketsAccountedFor
  <2>4. counts.accepted = Len(queue) + (Cardinality(Carriers) - 1) + metrics'.sent
                            + metrics'.failed + counts.cleared
    BY <1>3, <1>4, <2>1, <2>2, <2>3, SMTT(20)
  <2>5. QED
    BY <2>1, <2>4 DEF PacketsAccountedFor
<1>10. QED
  BY <1>2, <1>7, <1>8, <1>9, FinishFacts DEF EngineInv

LEMMA RetryInv ==
  ASSUME EngineInv, NEW s \in Senders, Deliver(s), Retry(s) \/ BackoffOver(s)
  PROVE  EngineInv'
<1>1. UNCHANGED <<state, unseen, callers, handles, handlesLock, receiver, taken, sink, counts,
                  carried, handed, metrics, queue>>
  BY DEF Deliver, Retry, BackoffOver, lifecycleVars, transportVars
<1>2. PICK from \in {"deliver", "backoff"}, to \in {"deliver", "backoff"} :
         /\ At(s, from, to)
         /\ to = "backoff" => attempts'[s] > 0
         /\ attempts' \in [Senders -> 0 .. MaxRetryCount]
         /\ \A r \in Senders : r # s => attempts'[r] = attempts[r]
  <2>1. CASE Retry(s)
    BY <2>1, Typed DEF Retry, EngineInv
  <2>2. CASE BackoffOver(s)
    <3>1. /\ At(s, "backoff", "deliver") /\ attempts' = [attempts EXCEPT ![s] = attempts[s] - 1]
      BY <2>2 DEF BackoffOver
    <3>2. attempts[s] \in 0 .. MaxRetryCount /\ attempts[s] > 0
      BY <3>1, Typed DEF At, EngineInv, Carrying
    <3>3. attempts[s] - 1 \in 0 .. MaxRetryCount
      BY <3>2, EngineAssumption
    <3>4. QED
      BY <3>1, <3>3, AttemptsSet
  <2>3. QED
    BY <2>1, <2>2
<1>3. carried'[s] # Nobody
  BY <1>1, <1>2 DEF At, EngineInv, Carrying
<1>4. /\ tasks' \in [Senders -> {"none", "check", "paused", "select", "poll", "exited",
                                 "idle", "try", "deliver", "backoff"}]
      /\ Roles' /\ Carrying'
  BY <1>1, <1>2, <1>3, Moved
<1>5. Trying' = Trying
  BY <1>2 DEF At, Trying, EngineInv, TypeOK
<1>6. TypeOK'
  BY <1>1, <1>2, <1>4 DEF EngineInv, TypeOK
<1>7. QED
  BY <1>1, <1>4, <1>5, <1>6, NothingMoved DEF EngineInv

LEMMA DeliverInv ==
  ASSUME EngineInv, NEW s \in Senders, Deliver(s)
  PROVE  EngineInv'
BY EndedInv, RetryInv DEF Deliver

-----------------------------------------------------------------------------
(* The producers. *)
LEMMA ProducerFacts ==
  ASSUME EngineInv, NEW p \in Producers, EnqueueCheck(p) \/ Enqueue(p) \/ SendPacket(p)
  PROVE  /\ p \in Senders /\ p \notin Workers
         /\ UNCHANGED <<state, unseen, callers, handles, handlesLock, receiver, handed, taken, sink>>
BY SendersFinite DEF EnqueueCheck, Enqueue, SendPacket, lifecycleVars, transportVars

LEMMA CountsType ==
  ASSUME TypeOK, NEW o \in 0 .. MaxOffered, NEW a \in 0 .. MaxOffered,
         counts' = [counts EXCEPT !.offered = o, !.accepted = a]
  PROVE  /\ counts' = [offered |-> o, accepted |-> a, cleared |-> counts.cleared]
         /\ counts'.offered = o /\ counts'.accepted = a /\ counts'.cleared = counts.cleared
         /\ counts' \in [offered : 0 .. MaxOffered, accepted : 0 .. MaxOffered,
                         cleared : 0 .. MaxOffered]
<1>1. counts = [offered |-> counts.offered, accepted |-> counts.accepted,
                cleared |-> counts.cleared]
  BY Typed
<1>2. counts' = [offered |-> o, accepted |-> a, cleared |-> counts.cleared]
  BY <1>1
<1>3. QED
  BY <1>2, Typed

LEMMA EnqueueCheckInv ==
  ASSUME EngineInv, NEW p \in Producers, EnqueueCheck(p)
  PROVE  EngineInv'
<1>1. /\ counts.offered < MaxOffered /\ At(p, "idle", "try")
      /\ counts' = [counts EXCEPT !.offered = counts.offered + 1]
      /\ UNCHANGED <<queue, carried, attempts, metrics>>
  BY DEF EnqueueCheck
<1>2. p \in Senders /\ p \notin Workers
  BY SendersFinite
<1>3. /\ counts'.offered = counts.offered + 1 /\ counts'.accepted = counts.accepted
      /\ counts'.cleared = counts.cleared
      /\ counts' \in [offered : 0 .. MaxOffered, accepted : 0 .. MaxOffered,
                      cleared : 0 .. MaxOffered]
  <2>1. counts.offered + 1 \in 0 .. MaxOffered
    BY <1>1, Typed DEF EngineInv
  <2>2. counts' = [offered |-> counts.offered + 1, accepted |-> counts.accepted,
                   cleared |-> counts.cleared]
    BY <1>1, Typed DEF EngineInv
  <2>3. QED
    BY <2>1, <2>2, Typed DEF EngineInv
<1>4. carried[p] = Nobody
  BY <1>1, <1>2 DEF At, EngineInv, Carrying
<1>5. /\ tasks' \in [Senders -> {"none", "check", "paused", "select", "poll", "exited",
                                 "idle", "try", "deliver", "backoff"}]
      /\ Roles' /\ Carrying'
  BY <1>1, <1>2, <1>4, Moved
<1>6. TypeOK'
  BY <1>1, <1>3, <1>5, ProducerFacts DEF EngineInv, TypeOK
<1>7. Cardinality(Trying') = Cardinality(Trying) + 1
  <2>1. Trying' = Trying \cup {p} /\ p \notin Trying
    BY <1>1, <1>2, SendersFinite DEF At, Trying, EngineInv, TypeOK
  <2>2. QED
    BY <2>1, TryingFinite, FS_AddElement
<1>8. Offered'
  <2>1. /\ Cardinality(Trying) \in Nat /\ counts.accepted \in Int /\ counts.offered \in Int
        /\ counts.accepted + Cardinality(Trying) <= counts.offered
    BY Numbers, SMTT(20)
  <2>2. (counts.accepted + 0) + (Cardinality(Trying) + 1) <= counts.offered + 1
    BY <2>1
  <2>3. QED
    BY <1>3, <1>7, <2>1, <2>2 DEF Offered
<1>9. PacketsAccountedFor'
  BY <1>1, <1>3 DEF EngineInv, PacketsAccountedFor, Carriers
<1>10. QED
  BY <1>5, <1>6, <1>8, <1>9 DEF EngineInv

(* An enqueue that is over is not trying any more. *)
LEMMA TriedOnce ==
  ASSUME EngineInv, NEW p \in Producers, At(p, "try", "idle"), UNCHANGED <<carried, attempts>>
  PROVE  /\ tasks' \in [Senders -> {"none", "check", "paused", "select", "poll", "exited",
                                    "idle", "try", "deliver", "backoff"}]
         /\ Roles' /\ Carrying' /\ Cardinality(Trying') = Cardinality(Trying) - 1
         /\ Cardinality(Trying) >= 1
<1>1. p \in Senders /\ p \notin Workers
  BY SendersFinite
<1>2. carried[p] = Nobody
  BY <1>1 DEF At, EngineInv, Carrying
<1>3. Trying' = Trying \ {p} /\ p \in Trying
  BY <1>1, SendersFinite DEF At, Trying, EngineInv, TypeOK
<1>4. Cardinality(Trying') = Cardinality(Trying) - 1 /\ Cardinality(Trying) >= 1
  <2>1. Cardinality(Trying') = Cardinality(Trying) - 1
    BY <1>3, TryingFinite, FS_RemoveElement
  <2>2. Cardinality(Trying) # 0
    BY <1>3, TryingFinite, FS_EmptySet
  <2>3. QED
    BY <2>1, <2>2, TryingFinite
<1>5. QED
  BY <1>1, <1>2, <1>4, Moved

LEMMA EnqueueInv ==
  ASSUME EngineInv, NEW p \in Producers, Enqueue(p)
  PROVE  EngineInv'
<1>1. At(p, "try", "idle") /\ UNCHANGED <<carried, attempts>>
  BY DEF Enqueue
<1>2. Carriers' = Carriers
  BY <1>1 DEF Carriers
<1>3. counts.accepted + 1 <= counts.offered
  <2>1. /\ Cardinality(Trying) \in Nat /\ counts.accepted \in Int /\ counts.offered \in Int
        /\ counts.accepted + Cardinality(Trying) <= counts.offered
    BY Numbers, SMTT(20)
  <2>2. Cardinality(Trying) >= 1
    BY <1>1, TriedOnce
  <2>3. QED
    BY <2>1, <2>2
<1>4. CASE /\ counts' = [counts EXCEPT !.accepted = counts.accepted + 1]
           /\ queue' = Append(queue, counts'.accepted) /\ metrics' = metrics
  <2>1. counts.accepted + 1 \in Packets /\ counts.accepted + 1 \in 0 .. MaxOffered
    BY <1>3, Typed DEF EngineInv, Packets
  <2>2. /\ counts' = [offered |-> counts.offered, accepted |-> counts.accepted + 1,
                      cleared |-> counts.cleared]
        /\ counts' \in [offered : 0 .. MaxOffered, accepted : 0 .. MaxOffered,
                        cleared : 0 .. MaxOffered]
    BY <1>4, <2>1, Typed DEF EngineInv
  <2>3. queue' \in Seq(Packets) /\ Len(queue') = Len(queue) + 1
    BY <1>4, <2>1, <2>2, Typed, AppendProperties DEF EngineInv
  <2>4. TypeOK'
    BY <1>1, <1>4, <2>2, <2>3, TriedOnce, ProducerFacts, ZenonT(40) DEF EngineInv, TypeOK
  <2>5. Offered'
    <3>1. /\ counts'.accepted = counts.accepted + 1 /\ counts'.offered = counts.offered
          /\ Cardinality(Trying') = Cardinality(Trying) - 1
      BY <1>1, <2>2, TriedOnce
    <3>2. /\ Cardinality(Trying) \in Nat /\ counts.accepted \in Int /\ counts.offered \in Int
          /\ counts.accepted + Cardinality(Trying) <= counts.offered
      BY Numbers, SMTT(20)
    <3>3. (counts.accepted + 1) + (Cardinality(Trying) - 1) <= counts.offered
      BY <3>2
    <3>4. QED
      BY <3>1, <3>3 DEF Offered
  <2>6. PacketsAccountedFor'
    <3>1. counts.accepted + 1 = (Len(queue) + 1) + Cardinality(Carriers) + metrics.sent
                                  + metrics.failed + counts.cleared
      <4>1. /\ Len(queue) \in Nat /\ Cardinality(Carriers) \in Nat /\ metrics.sent \in Nat
            /\ metrics.failed \in Nat /\ counts.cleared \in Nat /\ MaxOffered \in Nat
            /\ counts.accepted \in 0 .. MaxOffered
            /\ counts.accepted = Len(queue) + Cardinality(Carriers) + metrics.sent
                                     + metrics.failed + counts.cleared
        BY Numbers
      <4>2. QED
        BY <4>1, SMTT(20)
    <3>2. /\ counts'.accepted = counts.accepted + 1 /\ counts'.cleared = counts.cleared
          /\ Cardinality(Carriers') = Cardinality(Carriers)
      BY <1>2, <2>2
    <3>3. QED
      BY <1>4, <2>3, <3>1, <3>2 DEF PacketsAccountedFor
  <2>7. QED
    BY <1>1, <2>4, <2>5, <2>6, TriedOnce DEF EngineInv
<1>5. CASE /\ metrics' = [metrics EXCEPT !.dropped = metrics.dropped + 1]
           /\ UNCHANGED <<counts, queue>>
  <2>1. metrics' = [sent |-> metrics.sent, dropped |-> metrics.dropped + 1,
                    failed |-> metrics.failed]
    BY <1>5, Typed DEF EngineInv
  <2>2. metrics' \in [sent : Nat, dropped : Nat, failed : Nat]
    BY <2>1, Typed DEF EngineInv
  <2>3. TypeOK'
    BY <1>1, <1>5, <2>2, TriedOnce, ProducerFacts DEF EngineInv, TypeOK
  <2>4. Offered'
    BY <1>1, <1>5, TriedOnce, TryingFinite, Typed, SMTT(20) DEF EngineInv, Offered
  <2>5. PacketsAccountedFor'
    BY <1>2, <1>5, <2>1 DEF EngineInv, PacketsAccountedFor
  <2>6. QED
    BY <1>1, <2>3, <2>4, <2>5, TriedOnce DEF EngineInv
<1>6. QED
  BY <1>4, <1>5 DEF Enqueue

LEMMA SendPacketInv ==
  ASSUME EngineInv, NEW p \in Producers, SendPacket(p)
  PROVE  EngineInv'
<1>1. /\ counts.offered < MaxOffered /\ At(p, "idle", "deliver")
      /\ counts' = [counts EXCEPT !.offered = counts.offered + 1,
                                  !.accepted = counts.accepted + 1]
      /\ carried' = [carried EXCEPT ![p] = counts'.accepted]
      /\ attempts' = [attempts EXCEPT ![p] = MaxRetryCount]
      /\ UNCHANGED <<queue, metrics>>
  BY DEF SendPacket
<1>2. p \in Senders /\ p \notin Workers /\ MaxRetryCount \in 0 .. MaxRetryCount
  BY SendersFinite, EngineAssumption
<1>3. counts.accepted <= counts.offered
  BY TryingFinite, Typed DEF EngineInv, Offered
<1>4. /\ counts.offered + 1 \in 0 .. MaxOffered /\ counts.accepted + 1 \in 0 .. MaxOffered
      /\ counts.accepted + 1 \in Packets
  BY <1>1, <1>3, Typed, SMTT(20) DEF EngineInv, Packets
<1>5. /\ counts'.offered = counts.offered + 1 /\ counts'.accepted = counts.accepted + 1
      /\ counts'.cleared = counts.cleared
      /\ counts' \in [offered : 0 .. MaxOffered, accepted : 0 .. MaxOffered,
                      cleared : 0 .. MaxOffered]
  BY <1>1, <1>4, CountsType DEF EngineInv
<1>6. carried[p] = Nobody
  BY <1>1, <1>2 DEF At, EngineInv, Carrying
<1>7. /\ carried' \in [Senders -> Packets \cup {Nobody}] /\ carried'[p] # Nobody
      /\ \A r \in Senders : r # p => carried'[r] = carried[r]
      /\ Cardinality(Carriers') = Cardinality(Carriers) + 1
  <2>1. carried' = [carried EXCEPT ![p] = counts.accepted + 1]
    BY <1>1, <1>5
  <2>2. QED
    BY <1>2, <1>4, <1>6, <2>1, CarriersGain
<1>8. /\ attempts' \in [Senders -> 0 .. MaxRetryCount]
      /\ \A r \in Senders : r # p => attempts'[r] = attempts[r]
  BY <1>1, <1>2, AttemptsSet
<1>9. /\ tasks' \in [Senders -> {"none", "check", "paused", "select", "poll", "exited",
                                 "idle", "try", "deliver", "backoff"}]
      /\ Roles' /\ Carrying'
  BY <1>1, <1>2, <1>7, <1>8, Moved
<1>10. TypeOK'
  BY <1>1, <1>5, <1>7, <1>8, <1>9, ProducerFacts DEF EngineInv, TypeOK
<1>11. Trying' = Trying
  BY <1>1, <1>2, SendersFinite DEF At, Trying, EngineInv, TypeOK
<1>12. Offered'
  <2>1. /\ Cardinality(Trying) \in Nat /\ counts.accepted \in Int /\ counts.offered \in Int
        /\ counts.accepted + Cardinality(Trying) <= counts.offered
    BY Numbers, SMTT(20)
  <2>2. (counts.accepted + 1) + Cardinality(Trying) <= counts.offered + 1
    BY <2>1
  <2>3. QED
    BY <1>5, <1>11, <2>2 DEF Offered
<1>13. PacketsAccountedFor'
  <2>1. counts.accepted + 1 = Len(queue) + (Cardinality(Carriers) + 1) + metrics.sent
                                + metrics.failed + counts.cleared
    <3>1. /\ Len(queue) \in Nat /\ Cardinality(Carriers) \in Nat /\ metrics.sent \in Nat
          /\ metrics.failed \in Nat /\ counts.cleared \in Nat /\ MaxOffered \in Nat
          /\ counts.accepted \in 0 .. MaxOffered
          /\ counts.accepted = Len(queue) + Cardinality(Carriers) + metrics.sent
                                   + metrics.failed + counts.cleared
      BY Numbers
    <3>2. QED
      BY <3>1, SMTT(20)
  <2>2. QED
    BY <1>1, <1>5, <1>7, <2>1 DEF PacketsAccountedFor
<1>14. QED
  BY <1>9, <1>10, <1>12, <1>13 DEF EngineInv

LEMMA TransportInv ==
  ASSUME EngineInv, TransportTake \/ TransportClose
  PROVE  EngineInv'
<1>1. /\ UNCHANGED <<state, unseen, callers, handles, handlesLock, tasks, queue, receiver,
                     carried, attempts, metrics, handed, counts>>
      /\ sink' \in {"open", "closed"}
  BY DEF TransportTake, TransportClose, lifecycleVars, EngineInv, TypeOK
<1>2. taken' \in 0 .. Len(handed)
  <2>1. taken \in 0 .. Len(handed) /\ Len(handed) \in Nat
    BY Typed DEF EngineInv
  <2>2. taken' = taken \/ (taken' = taken + 1 /\ Len(handed) - taken > 0)
    BY DEF TransportTake, TransportClose, InTransport
  <2>3. QED
    BY <2>1, <2>2
<1>3. TypeOK'
  BY <1>1, <1>2 DEF EngineInv, TypeOK
<1>4. Roles' /\ Carrying' /\ Trying' = Trying
  BY <1>1 DEF EngineInv, Roles, Carrying, Trying
<1>5. QED
  BY <1>1, <1>3, <1>4, NothingMoved DEF EngineInv

LEMMA EngineStep == EngineInv /\ [Next]_vars => EngineInv'
<1> SUFFICES ASSUME EngineInv, [Next]_vars PROVE EngineInv'
  OBVIOUS
<1>1. ASSUME NEW c \in Callers, Lifecycle(c) \/ ClearBegin(c) \/ ClearDrain(c) PROVE EngineInv'
  BY <1>1, LifecycleInv, ClearInv
<1>2. ASSUME NEW w \in Workers, Worker(w) PROVE EngineInv'
  BY <1>2, WorkerLoopInv, DeliverInv, SendersFinite DEF Worker
<1>3. ASSUME NEW p \in Producers, EnqueueCheck(p) \/ Enqueue(p) \/ SendPacket(p) \/ Deliver(p)
      PROVE  EngineInv'
  BY <1>3, EnqueueCheckInv, EnqueueInv, SendPacketInv, DeliverInv, SendersFinite
<1>4. CASE TransportTake \/ TransportClose
  BY <1>4, TransportInv
<1>5. CASE UNCHANGED vars
  BY <1>5 DEF vars, lifecycleVars, transportVars, EngineInv, TypeOK, Roles, Carrying,
     Offered, Trying, PacketsAccountedFor, Carriers
<1>6. QED
  BY <1>1, <1>2, <1>3, <1>4, <1>5 DEF Next

(* The invariant of the engine, for any callers, producers and workers. *)
THEOREM EngineInvariant == Spec => []EngineInv
BY EngineInit, EngineStep, PTL DEF Spec

(* Every variable of the engine keeps its type: no attempt is left over, no *)
(* more packets are accepted than offered (engine.rs:48-110).               *)
THEOREM EngineTypeCorrect == Spec => []TypeOK
BY EngineInvariant, PTL DEF EngineInv

(* What was accepted is queued, in delivery or counted once, whatever the   *)
(* lifecycle calls, cancelled dequeues and failed deliveries                *)
(* (engine.rs:354-469).                                                     *)
THEOREM NoPacketLost == Spec => []PacketsAccountedFor
BY EngineInvariant, PTL DEF EngineInv

-----------------------------------------------------------------------------
(* The order of the packets: numbers grow along the way a packet takes     *)
(* backwards -- handed over, carried, queued, accepted.                    *)
QueueSorted ==
  /\ \A i, j \in 1 .. Len(queue) : i < j => queue[i] < queue[j]
  /\ \A i \in 1 .. Len(queue) : queue[i] <= counts.accepted

CarriedFirst ==
  /\ \A s \in Senders : carried[s] # Nobody => carried[s] <= counts.accepted
  /\ \A w \in Workers : carried[w] # Nobody =>
       \A i \in 1 .. Len(queue) : carried[w] < queue[i]

HandedFirst ==
  \A k \in 1 .. Len(handed) :
    /\ handed[k].packet <= counts.accepted
    /\ carried[handed[k].by] # Nobody => handed[k].packet < carried[handed[k].by]
    /\ handed[k].by \in Workers => \A i \in 1 .. Len(queue) : handed[k].packet < queue[i]

OrderInv == QueueSorted /\ CarriedFirst /\ HandedFirst /\ WorkerOrder

(* The numbers compared are integers, in this state and, EngineInv being   *)
(* an invariant, in the next.                                              *)
LEMMA OrderTyped ==
  ASSUME EngineInv
  PROVE  /\ counts.accepted \in Int /\ Len(queue) \in Nat /\ Len(handed) \in Nat
         /\ \A i \in 1 .. Len(queue) : queue[i] \in Packets
         /\ \A k \in 1 .. Len(handed) : handed[k].packet \in Packets /\ handed[k].by \in Senders
         /\ \A s \in Senders : carried[s] # Nobody => carried[s] \in Packets
         /\ Packets \subseteq Int /\ Workers \subseteq Senders
<1>1. /\ queue \in Seq(Packets) /\ Len(queue) \in Nat
      /\ handed \in Seq([packet : Packets, by : Senders]) /\ Len(handed) \in Nat
      /\ carried \in [Senders -> Packets \cup {Nobody}] /\ counts.accepted \in Int
  BY Typed DEF EngineInv
<1>2. \A i \in 1 .. Len(queue) : queue[i] \in Packets
  BY <1>1, ElementOfSeq
<1>3. \A k \in 1 .. Len(handed) : handed[k] \in [packet : Packets, by : Senders]
  BY <1>1, ElementOfSeq
<1>4. QED
  BY <1>1, <1>2, <1>3, SendersFinite DEF Packets

LEMMA OrderInit == Init => OrderInv
<1> SUFFICES ASSUME Init PROVE OrderInv
  OBVIOUS
<1>1. queue = <<>> /\ handed = <<>> /\ carried = [s \in Senders |-> Nobody]
  BY DEF Init
<1>2. QED
  BY <1>1, SendersFinite DEF OrderInv, QueueSorted, CarriedFirst, HandedFirst, WorkerOrder

(* Steps that move no packet, or throw away the queue. *)
LEMMA OrderKept ==
  ASSUME OrderInv, UNCHANGED <<carried, handed>>, counts'.accepted = counts.accepted,
         queue' = queue \/ queue' = <<>>
  PROVE  OrderInv'
<1>1. CASE queue' = queue
  BY <1>1 DEF OrderInv, QueueSorted, CarriedFirst, HandedFirst, WorkerOrder
<1>2. CASE queue' = <<>>
  BY <1>2 DEF OrderInv, QueueSorted, CarriedFirst, HandedFirst, WorkerOrder
<1>3. QED
  BY <1>1, <1>2

LEMMA TakesOrder ==
  ASSUME EngineInv, OrderInv, NEW w \in Workers, Takes(w),
         handed' = handed, counts' = counts
  PROVE  OrderInv'
<1>1. /\ At(w, "poll", "deliver") /\ queue # <<>> /\ queue' = Tail(queue)
      /\ carried' = [carried EXCEPT ![w] = Head(queue)]
  BY DEF Takes
<1>2. /\ queue \in Seq(Packets) /\ carried \in [Senders -> Packets \cup {Nobody}] /\ w \in Senders
  BY Typed, SendersFinite DEF EngineInv
<1>3. /\ Len(queue') = Len(queue) - 1 /\ Head(queue) = queue[1] /\ Len(queue) >= 1
      /\ \A i \in 1 .. Len(queue') : queue'[i] = queue[i + 1] /\ i + 1 \in 1 .. Len(queue)
  BY <1>1, <1>2, HeadTailProperties, OrderTyped
<1>4. /\ carried'[w] = queue[1] /\ \A s \in Senders : s # w => carried'[s] = carried[s]
  BY <1>1, <1>2, <1>3
<1>5. queue[1] \in Packets /\ 1 \in 1 .. Len(queue)
  BY <1>3, OrderTyped
<1>6. QueueSorted'
  <2>1. ASSUME NEW i \in 1 .. Len(queue'), NEW j \in 1 .. Len(queue'), i < j
        PROVE  queue'[i] < queue'[j]
    <3>1. /\ i + 1 \in 1 .. Len(queue) /\ j + 1 \in 1 .. Len(queue) /\ i + 1 < j + 1
          /\ queue'[i] = queue[i + 1] /\ queue'[j] = queue[j + 1]
      BY <1>3, <2>1
    <3>2. QED
      BY <3>1 DEF OrderInv, QueueSorted
  <2>2. ASSUME NEW i \in 1 .. Len(queue') PROVE queue'[i] <= counts'.accepted
    <3>1. i + 1 \in 1 .. Len(queue) /\ queue'[i] = queue[i + 1]
      BY <1>3
    <3>2. QED
      BY <3>1 DEF OrderInv, QueueSorted
  <2>3. QED
    BY <2>1, <2>2 DEF QueueSorted
<1>7. CarriedFirst'
  <2>1. ASSUME NEW s \in Senders, carried'[s] # Nobody PROVE carried'[s] <= counts'.accepted
    BY <1>4, <1>5, <2>1 DEF OrderInv, QueueSorted, CarriedFirst
  <2>2. ASSUME NEW v \in Workers, carried'[v] # Nobody, NEW i \in 1 .. Len(queue')
        PROVE  carried'[v] < queue'[i]
    <3>1. i + 1 \in 1 .. Len(queue) /\ queue'[i] = queue[i + 1] /\ 1 < i + 1
      BY <1>3
    <3>2. CASE v = w
      BY <1>4, <1>5, <3>1, <3>2 DEF OrderInv, QueueSorted
    <3>3. CASE v # w
      <4>1. v \in Senders
        BY SendersFinite
      <4>2. QED
        BY <1>4, <2>2, <3>1, <3>3, <4>1 DEF OrderInv, CarriedFirst
    <3>4. QED
      BY <3>2, <3>3
  <2>3. QED
    BY <2>1, <2>2 DEF CarriedFirst
<1>8. HandedFirst'
  <2> SUFFICES ASSUME NEW k \in 1 .. Len(handed)
               PROVE  /\ handed[k].packet <= counts'.accepted
                      /\ carried'[handed[k].by] # Nobody => handed[k].packet < carried'[handed[k].by]
                      /\ handed[k].by \in Workers =>
                           \A i \in 1 .. Len(queue') : handed[k].packet < queue'[i]
    BY DEF HandedFirst
  <2>1. handed[k].by \in Senders /\ handed[k].packet \in Packets
    BY OrderTyped
  <2>2. /\ handed[k].packet <= counts.accepted
        /\ carried[handed[k].by] # Nobody => handed[k].packet < carried[handed[k].by]
        /\ handed[k].by \in Workers => \A i \in 1 .. Len(queue) : handed[k].packet < queue[i]
    BY DEF OrderInv, HandedFirst
  <2>3. QED
    BY <1>3, <1>4, <1>5, <2>1, <2>2
<1>9. WorkerOrder'
  BY DEF OrderInv, WorkerOrder
<1>10. QED
  BY <1>6, <1>7, <1>8, <1>9 DEF OrderInv

(* A delivery that ends without handing the packet over. *)
LEMMA FailedOrder ==
  ASSUME EngineInv, OrderInv, NEW s \in Senders, Finish(s),
         handed' = handed, counts' = counts, queue' = queue
  PROVE  OrderInv'
<1>1. /\ carried'[s] = Nobody /\ \A r \in Senders : r # s => carried'[r] = carried[r]
  BY FinishFacts
<1>2. \A r \in Senders : carried'[r] # Nobody => carried'[r] = carried[r]
  BY <1>1
<1>3. CarriedFirst'
  BY <1>2, SendersFinite DEF OrderInv, CarriedFirst
<1>4. HandedFirst'
  BY <1>2, OrderTyped DEF OrderInv, HandedFirst
<1>5. QED
  BY <1>3, <1>4 DEF OrderInv, QueueSorted, WorkerOrder

LEMMA SentOrder ==
  ASSUME EngineInv, OrderInv, NEW s \in Senders, Finish(s),
         handed' = Append(handed, [packet |-> carried[s], by |-> s]),
         counts' = counts, queue' = queue
  PROVE  OrderInv'
<1>1. /\ carried'[s] = Nobody /\ \A r \in Senders : r # s => carried'[r] = carried[r]
      /\ carried[s] \in Packets /\ carried[s] # Nobody
  BY FinishFacts, SendersFinite
<1>2. \A r \in Senders : carried'[r] # Nobody => carried'[r] = carried[r]
  BY <1>1
<1> DEFINE e == [packet |-> carried[s], by |-> s]
           n == Len(handed) + 1
<1>3. /\ handed \in Seq([packet : Packets, by : Senders]) /\ e \in [packet : Packets, by : Senders]
  BY <1>1, Typed DEF EngineInv
<1>4. /\ Len(handed') = n /\ handed'[n] = e
      /\ \A k \in 1 .. Len(handed) : handed'[k] = handed[k]
  BY <1>3, AppendProperties
<1>5. e.packet = carried[s] /\ e.by = s
  OBVIOUS
<1> HIDE DEF e
<1>6. CarriedFirst'
  BY <1>2, SendersFinite DEF OrderInv, CarriedFirst
<1>7. ASSUME NEW k \in 1 .. Len(handed')
      PROVE  /\ handed'[k].packet <= counts'.accepted
             /\ carried'[handed'[k].by] # Nobody => handed'[k].packet < carried'[handed'[k].by]
             /\ handed'[k].by \in Workers =>
                  \A i \in 1 .. Len(queue') : handed'[k].packet < queue'[i]
  <2>1. CASE k = n
    BY <1>1, <1>4, <1>5, <2>1 DEF OrderInv, CarriedFirst
  <2>2. CASE k # n
    <3>1. k \in 1 .. Len(handed) /\ handed'[k] = handed[k]
      BY <1>4, <2>2, OrderTyped
    <3>2. handed[k].by \in Senders
      BY <3>1, OrderTyped
    <3>3. QED
      BY <1>2, <3>1, <3>2 DEF OrderInv, HandedFirst
  <2>3. QED
    BY <2>1, <2>2
<1>8. ASSUME NEW i \in 1 .. Len(handed'), NEW j \in 1 .. Len(handed'),
             i < j, handed'[i].by = handed'[j].by
      PROVE  handed'[i].packet < handed'[j].packet
  <2>1. i \in 1 .. Len(handed) /\ handed'[i] = handed[i]
    BY <1>4, <1>8, OrderTyped
  <2>2. CASE j = n
    <3>1. handed[i].by = s /\ handed'[j].packet = carried[s]
      BY <1>4, <1>5, <1>8, <2>1, <2>2
    <3>2. handed[i].packet < carried[s]
      BY <1>1, <2>1, <3>1 DEF OrderInv, HandedFirst
    <3>3. QED
      BY <2>1, <3>1, <3>2
  <2>3. CASE j # n
    <3>1. j \in 1 .. Len(handed) /\ handed'[j] = handed[j]
      BY <1>4, <2>3, OrderTyped
    <3>2. QED
      BY <1>8, <2>1, <3>1 DEF OrderInv, WorkerOrder
  <2>4. QED
    BY <2>2, <2>3
<1>9. HandedFirst' /\ WorkerOrder'
  BY <1>7, <1>8 DEF HandedFirst, WorkerOrder
<1>10. QED
  BY <1>6, <1>9 DEF OrderInv, QueueSorted

LEMMA DeliverOrder ==
  ASSUME EngineInv, OrderInv, NEW s \in Senders, Deliver(s)
  PROVE  OrderInv'
<1>1. counts' = counts
  BY DEF Deliver
<1>2. CASE Sent(s)
  BY <1>1, <1>2, SentOrder DEF Sent
<1>3. CASE SinkUnavailable(s) \/ Exhausted(s)
  BY <1>1, <1>3, FailedOrder DEF SinkUnavailable, Exhausted
<1>4. CASE Retry(s) \/ BackoffOver(s)
  BY <1>1, <1>4, OrderKept DEF Retry, BackoffOver
<1>5. QED
  BY <1>2, <1>3, <1>4 DEF Deliver

(* A packet that is accepted has the largest number so far. *)
LEMMA EnqueueOrder ==
  ASSUME EngineInv, OrderInv, NEW p \in Producers, Enqueue(p)
  PROVE  OrderInv'
<1>1. carried' = carried /\ handed' = handed
  BY DEF Enqueue
<1>2. CASE UNCHANGED <<counts, queue>>
  BY <1>1, <1>2, OrderKept
<1>3. CASE /\ counts' = [counts EXCEPT !.accepted = counts.accepted + 1]
           /\ queue' = Append(queue, counts'.accepted)
  <2>1. counts'.accepted = counts.accepted + 1
    BY <1>3, Typed DEF EngineInv
  <2>2. counts.accepted \in Int /\ Len(queue) \in Nat /\ queue \in Seq(Int)
    BY OrderTyped, Typed, SeqMonotonic DEF EngineInv
  <2>3. /\ Len(queue') = Len(queue) + 1 /\ queue'[Len(queue) + 1] = counts.accepted + 1
        /\ \A i \in 1 .. Len(queue) : queue'[i] = queue[i]
    BY <1>3, <2>1, <2>2, AppendProperties
  <2>4. ASSUME NEW i \in 1 .. Len(queue')
        PROVE  \/ i = Len(queue) + 1 /\ queue'[i] = counts.accepted + 1
               \/ i \in 1 .. Len(queue) /\ queue'[i] = queue[i]
    BY <2>2, <2>3
  <2>5. QueueSorted'
    <3>1. ASSUME NEW i \in 1 .. Len(queue') PROVE queue'[i] <= counts'.accepted
      BY <2>1, <2>2, <2>4, OrderTyped DEF OrderInv, QueueSorted
    <3>2. ASSUME NEW i \in 1 .. Len(queue'), NEW j \in 1 .. Len(queue'), i < j
          PROVE  queue'[i] < queue'[j]
      <4>1. i \in 1 .. Len(queue) /\ queue'[i] = queue[i]
        BY <2>2, <2>3, <3>2
      <4>2. CASE j \in 1 .. Len(queue) /\ queue'[j] = queue[j]
        BY <3>2, <4>1, <4>2 DEF OrderInv, QueueSorted
      <4>3. CASE queue'[j] = counts.accepted + 1
        <5>1. queue[i] <= counts.accepted /\ queue[i] \in Int
          BY <4>1, OrderTyped DEF OrderInv, QueueSorted
        <5>2. QED
          BY <2>2, <4>1, <4>3, <5>1
      <4>4. QED
        BY <2>4, <4>2, <4>3
    <3>3. QED
      BY <3>1, <3>2 DEF QueueSorted
  <2>6. CarriedFirst'
    <3>1. ASSUME NEW s \in Senders, carried[s] # Nobody
          PROVE  carried[s] <= counts.accepted /\ carried[s] \in Int
      BY <3>1, OrderTyped DEF OrderInv, CarriedFirst
    <3>2. ASSUME NEW w \in Workers, carried[w] # Nobody, NEW i \in 1 .. Len(queue')
          PROVE  carried[w] < queue'[i]
      <4>1. CASE i \in 1 .. Len(queue) /\ queue'[i] = queue[i]
        BY <3>2, <4>1 DEF OrderInv, CarriedFirst
      <4>2. CASE queue'[i] = counts.accepted + 1
        <5>1. carried[w] <= counts.accepted /\ carried[w] \in Int
          BY <3>1, <3>2, SendersFinite
        <5>2. QED
          BY <2>2, <4>2, <5>1
      <4>3. QED
        BY <2>4, <4>1, <4>2
    <3>3. \A s \in Senders : carried[s] # Nobody => carried[s] <= counts.accepted + 1
      BY <2>2, <3>1
    <3>4. QED
      BY <1>1, <2>1, <3>2, <3>3 DEF CarriedFirst
  <2>7. HandedFirst'
    <3> SUFFICES ASSUME NEW k \in 1 .. Len(handed)
                 PROVE  /\ handed[k].packet <= counts'.accepted
                        /\ carried[handed[k].by] # Nobody => handed[k].packet < carried[handed[k].by]
                        /\ handed[k].by \in Workers =>
                             \A i \in 1 .. Len(queue') : handed[k].packet < queue'[i]
      BY <1>1 DEF HandedFirst
    <3>1. /\ handed[k].packet <= counts.accepted /\ handed[k].packet \in Int
          /\ carried[handed[k].by] # Nobody => handed[k].packet < carried[handed[k].by]
          /\ handed[k].by \in Workers => \A i \in 1 .. Len(queue) : handed[k].packet < queue[i]
      BY OrderTyped DEF OrderInv, HandedFirst
    <3>2. handed[k].packet <= counts.accepted + 1 /\ handed[k].packet < counts.accepted + 1
      BY <2>2, <3>1
    <3>3. QED
      BY <2>1, <2>4, <3>1, <3>2
  <2>8. WorkerOrder'
    BY <1>1 DEF OrderInv, WorkerOrder
  <2>9. QED
    BY <2>5, <2>6, <2>7, <2>8 DEF OrderInv
<1>4. QED
  BY <1>2, <1>3 DEF Enqueue

LEMMA SendPacketOrder ==
  ASSUME EngineInv, OrderInv, NEW p \in Producers, SendPacket(p)
  PROVE  OrderInv'
<1>1. /\ queue' = queue /\ handed' = handed /\ At(p, "idle", "deliver")
      /\ counts' = [counts EXCEPT !.offered = counts.offered + 1,
                                  !.accepted = counts.accepted + 1]
      /\ carried' = [carried EXCEPT ![p] = counts'.accepted]
  BY DEF SendPacket
<1>2. counts'.accepted = counts.accepted + 1 /\ counts.accepted \in Int
  BY <1>1, Typed DEF EngineInv
<1>3. p \in Senders /\ p \notin Workers
  BY SendersFinite
<1>4. /\ carried'[p] = counts.accepted + 1
      /\ \A s \in Senders : s # p => carried'[s] = carried[s]
      /\ \A w \in Workers : carried'[w] = carried[w]
  BY <1>1, <1>2, <1>3, Typed, SendersFinite DEF EngineInv
<1>5. QueueSorted'
  <2>1. ASSUME NEW i \in 1 .. Len(queue) PROVE queue[i] <= counts.accepted + 1
    BY <1>2, OrderTyped DEF OrderInv, QueueSorted
  <2>2. QED
    BY <1>1, <1>2, <2>1 DEF OrderInv, QueueSorted
<1>6. CarriedFirst'
  <2>1. ASSUME NEW s \in Senders, carried'[s] # Nobody PROVE carried'[s] <= counts.accepted + 1
    <3>1. CASE s = p
      BY <1>2, <1>4, <3>1
    <3>2. CASE s # p
      <4>1. carried'[s] = carried[s] /\ carried[s] <= counts.accepted /\ carried[s] \in Int
        BY <1>4, <2>1, <3>2, OrderTyped DEF OrderInv, CarriedFirst
      <4>2. QED
        BY <1>2, <4>1
    <3>3. QED
      BY <3>1, <3>2
  <2>2. QED
    BY <1>1, <1>2, <1>4, <2>1 DEF OrderInv, CarriedFirst
<1>7. HandedFirst'
  <2> SUFFICES ASSUME NEW k \in 1 .. Len(handed)
               PROVE  /\ handed[k].packet <= counts'.accepted
                      /\ carried'[handed[k].by] # Nobody => handed[k].packet < carried'[handed[k].by]
                      /\ handed[k].by \in Workers =>
                           \A i \in 1 .. Len(queue) : handed[k].packet < queue[i]
    BY <1>1 DEF HandedFirst
  <2>1. /\ handed[k].packet <= counts.accepted /\ handed[k].packet \in Int
        /\ handed[k].by \in Senders
        /\ carried[handed[k].by] # Nobody => handed[k].packet < carried[handed[k].by]
        /\ handed[k].by \in Workers => \A i \in 1 .. Len(queue) : handed[k].packet < queue[i]
    BY OrderTyped DEF OrderInv, HandedFirst
  <2>2. handed[k].packet <= counts.accepted + 1 /\ handed[k].packet < counts.accepted + 1
    BY <1>2, <2>1
  <2>3. QED
    BY <1>2, <1>4, <2>1, <2>2
<1>8. QED
  BY <1>1, <1>5, <1>6, <1>7 DEF OrderInv, WorkerOrder

LEMMA OrderStep == EngineInv /\ OrderInv /\ [Next]_vars => OrderInv'
<1> SUFFICES ASSUME EngineInv, OrderInv, [Next]_vars PROVE OrderInv'
  OBVIOUS
<1>1. ASSUME NEW c \in Callers, Lifecycle(c) \/ ClearBegin(c) PROVE OrderInv'
  BY <1>1, OrderKept DEF Lifecycle, ClearBegin
<1>2. ASSUME NEW c \in Callers, ClearDrain(c) PROVE OrderInv'
  <2>1. /\ queue' = <<>> /\ carried' = carried /\ handed' = handed
        /\ counts' = [counts EXCEPT !.cleared = @ + Len(queue)]
    BY <1>2 DEF ClearDrain
  <2>2. counts'.accepted = counts.accepted
    BY <2>1, Typed DEF EngineInv
  <2>3. QED
    BY <2>1, <2>2, OrderKept
<1>3. ASSUME NEW w \in Workers, WorkerLoop(w) PROVE OrderInv'
  <2>1. handed' = handed /\ counts' = counts
    BY <1>3, LoopTypes
  <2>2. CASE Takes(w)
    BY <2>1, <2>2, TakesOrder
  <2>3. CASE ~Takes(w)
    BY <1>3, <2>1, <2>3, LoopKinds, OrderKept
  <2>4. QED
    BY <2>2, <2>3
<1>4. ASSUME NEW s \in Senders, Deliver(s) PROVE OrderInv'
  BY <1>4, DeliverOrder
<1>5. ASSUME NEW p \in Producers, EnqueueCheck(p) PROVE OrderInv'
  <2>1. /\ queue' = queue /\ carried' = carried /\ handed' = handed
        /\ counts' = [counts EXCEPT !.offered = @ + 1]
    BY <1>5 DEF EnqueueCheck
  <2>2. counts'.accepted = counts.accepted
    BY <2>1, Typed DEF EngineInv
  <2>3. QED
    BY <2>1, <2>2, OrderKept
<1>6. ASSUME NEW p \in Producers, Enqueue(p) \/ SendPacket(p) PROVE OrderInv'
  BY <1>6, EnqueueOrder, SendPacketOrder
<1>7. CASE TransportTake \/ TransportClose
  BY <1>7, OrderKept DEF TransportTake, TransportClose
<1>8. CASE UNCHANGED vars
  BY <1>8, OrderKept DEF vars
<1>9. ASSUME NEW w \in Workers, Worker(w) PROVE OrderInv'
  BY <1>3, <1>4, <1>9, SendersFinite DEF Worker
<1>10. QED
  BY <1>1, <1>2, <1>4, <1>5, <1>6, <1>7, <1>8, <1>9, SendersFinite DEF Next

(* Each worker, and each caller of send_packet, hands packets over in the   *)
(* order they were accepted, retries and cancelled dequeues included        *)
(* (queue.rs:3-5, engine.rs:354-469).                                       *)
THEOREM HandedInOrder == Spec => []WorkerOrder
<1>1. OrderInv => WorkerOrder
  BY DEF OrderInv
<1>2. QED
  BY <1>1, EngineInvariant, OrderInit, OrderStep, PTL DEF Spec

-----------------------------------------------------------------------------
(* One caller *)

(* The handles are the tasks there are; none has exited unless the engine  *)
(* is stopped, and there are some unless it is stopped or being started.   *)
HandlesInv ==
  /\ handles = {w \in Workers : tasks[w] # "none"}
  /\ state # "Stopped" => \A w \in Workers : tasks[w] # "exited"

CallerInv(at) ==
  /\ state = "Stopped" /\ at \in {"idle", "start", "clear"} => handles = {}
  /\ state # "Stopped" /\ at # "spawn" => handles # {}
  /\ at \in {"pause", "resume", "stop"} => state # "Stopped"
  /\ at \in {"lock", "join"} => state = "Stopped"
  /\ at = "spawn" => state = "Running"
  /\ at \in {"start", "spawn"} => Free # {}

MatchInv == HandlesInv /\ \A c \in Callers : CallerInv(callers[c])

(* With a free worker there is one to spawn: the smallest, for one. *)
LEMMA SpawnsSome ==
  ASSUME Free # {}
  PROVE  Spawned # {}
<1>1. Free \subseteq Nat
  BY SendersFinite DEF Free
<1>2. PICK w \in Free : \A v \in Free : ~(<<v, w>> \in OpToRel(<, Nat))
  BY <1>1, NatLessThanWellFounded, WFMin, Zenon
<1>3. \A v \in Free : ~(v < w)
  <2>1. ASSUME NEW v \in Free, v < w PROVE <<v, w>> \in OpToRel(<, Nat)
    BY <1>1, <2>1 DEF OpToRel
  <2>2. QED
    BY <1>2, <2>1, Zenon
<1>4. {v \in Free : v < w} = {}
  BY <1>3
<1>5. Cardinality({v \in Free : v < w}) = 0
  BY <1>4, FS_EmptySet
<1>6. 0 < SpawnCount
  BY EngineAssumption DEF SpawnCount
<1>7. QED
  BY <1>5, <1>6 DEF Spawned

LEMMA FreeCounted ==
  ASSUME NEW c, Callers = {c}, Cardinality(Free) >= Cardinality(Callers) * SpawnCount
  PROVE  Free # {}
<1>1. Cardinality(Callers) = 1
  BY FS_Singleton
<1>2. SpawnCount \in Nat \ {0}
  BY EngineAssumption DEF SpawnCount
<1>3. SUFFICES ASSUME Free = {} PROVE FALSE
  OBVIOUS
<1>4. Cardinality(Free) = 0
  BY <1>3, FS_EmptySet
<1>5. QED
  BY <1>1, <1>2, <1>4

LEMMA MatchInit == Init => MatchInv
<1> SUFFICES ASSUME Init PROVE MatchInv
  OBVIOUS
<1>1. /\ state = "Stopped" /\ handles = {} /\ callers = [c \in Callers |-> "idle"]
      /\ \A w \in Workers : tasks[w] = "none"
  BY SendersFinite DEF Init
<1>2. QED
  BY <1>1 DEF MatchInv, HandlesInv, CallerInv

(* A worker's own step. *)
LEMMA WorkerMatch ==
  ASSUME EngineInv, MatchInv, NEW s \in Senders, NEW from, NEW to, At(s, from, to),
         s \in Workers => from # "none" /\ to # "none" /\ (to = "exited" => state = "Stopped"),
         UNCHANGED <<state, callers, handles>>
  PROVE  MatchInv'
<1>1. /\ tasks[s] = from /\ tasks'[s] = to
      /\ \A r \in Senders : r # s => tasks'[r] = tasks[r]
  BY DEF At, EngineInv, TypeOK
<1>2. \A w \in Workers : /\ tasks'[w] = "none" <=> tasks[w] = "none"
                         /\ tasks'[w] = "exited" => tasks[w] = "exited" \/ state = "Stopped"
  BY <1>1, SendersFinite
<1>3. HandlesInv' /\ Free' = Free
  BY <1>2 DEF MatchInv, HandlesInv, Free
<1>4. \A c \in Callers : CallerInv(callers[c])'
  BY <1>3 DEF MatchInv, CallerInv
<1>5. QED
  BY <1>3, <1>4, Zenon DEF MatchInv

(* A call's check of the state, or its change of it. *)
LEMMA CallMatch ==
  ASSUME EngineInv, MatchInv, NEW c, Callers = {c}, NEW from, NEW to, Step(c, from, to),
         UNCHANGED <<handles, tasks>>,
         state' # "Stopped" => \A w \in Workers : tasks[w] # "exited",
         CallerInv(from) => CallerInv(to)'
  PROVE  MatchInv'
<1>1. callers[c] = from /\ callers'[c] = to
  BY DEF Step, EngineInv, TypeOK
<1>2. HandlesInv'
  BY DEF MatchInv, HandlesInv
<1>3. CallerInv(callers[c])
  BY DEF MatchInv
<1>4. \A d \in Callers : CallerInv(callers[d])'
  BY <1>1, <1>3, Zenon
<1>5. QED
  BY <1>2, <1>4, Zenon DEF MatchInv

LEMMA BeginMatch ==
  ASSUME EngineInv, MatchInv, NEW c, Callers = {c}, CallBegin(c) \/ ClearBegin(c)
  PROVE  MatchInv'
<1>1. /\ UNCHANGED <<state, handles, tasks>> /\ Free' = Free
      /\ state' # "Stopped" => \A w \in Workers : tasks[w] # "exited"
  BY DEF CallBegin, StartCheck, StopCheck, PauseCheck, ResumeCheck, ClearBegin, Free,
     MatchInv, HandlesInv
<1>2. CASE StartCheck(c)
  <2>1. Step(c, "idle", "start") /\ Free # {}
    BY <1>2, FreeCounted DEF StartCheck
  <2>2. CallerInv("idle") => CallerInv("start")'
    BY <1>1, <2>1 DEF CallerInv
  <2>3. QED
    BY <1>1, <2>1, <2>2, CallMatch
<1>3. CASE StopCheck(c)
  <2>1. Step(c, "idle", "stop") /\ state # "Stopped"
    BY <1>3 DEF StopCheck
  <2>2. CallerInv("idle") => CallerInv("stop")'
    BY <1>1, <2>1 DEF CallerInv
  <2>3. QED
    BY <1>1, <2>1, <2>2, CallMatch
<1>4. CASE PauseCheck(c)
  <2>1. Step(c, "idle", "pause") /\ state # "Stopped"
    BY <1>4 DEF PauseCheck
  <2>2. CallerInv("idle") => CallerInv("pause")'
    BY <1>1, <2>1 DEF CallerInv
  <2>3. QED
    BY <1>1, <2>1, <2>2, CallMatch
<1>5. CASE ResumeCheck(c)
  <2>1. Step(c, "idle", "resume") /\ state # "Stopped"
    BY <1>5 DEF ResumeCheck
  <2>2. CallerInv("idle") => CallerInv("resume")'
    BY <1>1, <2>1 DEF CallerInv
  <2>3. QED
    BY <1>1, <2>1, <2>2, CallMatch
<1>6. CASE ClearBegin(c)
  <2>1. Step(c, "idle", "clear")
    BY <1>6 DEF ClearBegin
  <2>2. CallerInv("idle") => CallerInv("clear")'
    BY <1>1 DEF CallerInv
  <2>3. QED
    BY <1>1, <2>1, <2>2, CallMatch
<1>7. QED
  BY <1>2, <1>3, <1>4, <1>5, <1>6 DEF CallBegin

LEMMA ClearDrainMatch ==
  ASSUME EngineInv, MatchInv, NEW c, Callers = {c}, ClearDrain(c)
  PROVE  MatchInv'
<1>1. /\ UNCHANGED <<state, handles, tasks>> /\ Step(c, "clear", "idle") /\ Free' = Free
      /\ state' # "Stopped" => \A w \in Workers : tasks[w] # "exited"
  BY DEF ClearDrain, Free, MatchInv, HandlesInv
<1>2. CallerInv("clear") => CallerInv("idle")'
  BY <1>1 DEF CallerInv
<1>3. QED
  BY <1>1, <1>2, CallMatch

(* A change of the state.  Stopped engines have no handles, so no worker   *)
(* that has exited, when they are started.                                 *)
LEMMA SendMatch ==
  ASSUME EngineInv, MatchInv, NEW c, Callers = {c},
         \/ Send(c, "start", "spawn", "Running") \/ Send(c, "stop", "lock", "Stopped")
         \/ Send(c, "pause", "idle", "Paused") \/ Send(c, "resume", "idle", "Running")
  PROVE  MatchInv'
<1>1. UNCHANGED <<handles, tasks>> /\ Free' = Free
  BY DEF Send, Free
<1>2. /\ CallerInv(callers[c]) /\ state \in {"Stopped", "Running", "Paused"}
      /\ HandlesInv
  BY DEF MatchInv, EngineInv, TypeOK, EngineState
<1>3. CASE Send(c, "start", "spawn", "Running")
  <2>1. Step(c, "start", "spawn") /\ state' = "Running" /\ callers[c] = "start"
    BY <1>3 DEF Send, Step
  <2>2. \A w \in Workers : tasks[w] # "exited"
    <3>1. CASE state = "Stopped"
      BY <1>2, <2>1, <3>1 DEF CallerInv, HandlesInv
    <3>2. CASE state # "Stopped"
      BY <1>2, <3>2 DEF HandlesInv
    <3>3. QED
      BY <3>1, <3>2
  <2>3. CallerInv("start") => CallerInv("spawn")'
    BY <1>1, <2>1 DEF CallerInv
  <2>4. QED
    BY <1>1, <2>1, <2>2, <2>3, CallMatch
<1>4. CASE Send(c, "stop", "lock", "Stopped")
  <2>1. Step(c, "stop", "lock") /\ state' = "Stopped"
    BY <1>4 DEF Send
  <2>2. CallerInv("stop") => CallerInv("lock")'
    BY <1>1, <2>1 DEF CallerInv
  <2>3. QED
    BY <1>1, <2>1, <2>2, CallMatch
<1>5. ASSUME NEW from \in {"pause", "resume"}, NEW new \in {"Paused", "Running"},
             Send(c, from, "idle", new)
      PROVE  MatchInv'
  <2>1. /\ Step(c, from, "idle") /\ state' = new /\ callers[c] = from
        /\ state' # "Stopped"
    BY <1>5 DEF Send, Step
  <2>2. state # "Stopped" /\ \A w \in Workers : tasks[w] # "exited"
    BY <1>2, <2>1 DEF CallerInv, HandlesInv
  <2>3. CallerInv(from) => CallerInv("idle")'
    BY <1>1, <2>1, <2>2 DEF CallerInv
  <2>4. QED
    BY <1>1, <2>1, <2>2, <2>3, CallMatch
<1>6. QED
  BY <1>3, <1>4, <1>5

LEMMA SpawnMatch ==
  ASSUME EngineInv, MatchInv, NEW c, Callers = {c}, Spawn(c)
  PROVE  MatchInv'
<1>1. /\ callers[c] = "spawn" /\ callers' = [callers EXCEPT ![c] = "idle"] /\ state' = state
      /\ handles' = handles \cup Spawned
      /\ tasks' = [s \in Senders |-> IF s \in Spawned THEN "check" ELSE tasks[s]]
  BY DEF Spawn, Step
<1>2. callers'[c] = "idle" /\ HandlesInv /\ CallerInv("spawn")
  BY <1>1 DEF EngineInv, TypeOK, MatchInv
<1>3. state' = "Running" /\ Free # {}
  BY <1>1, <1>2 DEF CallerInv
<1>4. Spawned # {} /\ Spawned \subseteq Workers
  BY <1>3, SpawnsSome DEF Spawned, Free
<1>5. \A w \in Workers : tasks'[w] = IF w \in Spawned THEN "check" ELSE tasks[w]
  BY <1>1, SendersFinite
<1>6. HandlesInv'
  BY <1>1, <1>2, <1>3, <1>4, <1>5 DEF HandlesInv
<1>7. handles' # {}
  BY <1>1, <1>4
<1>8. CallerInv(callers[c])'
  BY <1>2, <1>3, <1>7 DEF CallerInv
<1>9. QED
  BY <1>6, <1>8 DEF MatchInv

(* stop() has awaited every task there is. *)
LEMMA JoinMatch ==
  ASSUME EngineInv, MatchInv, NEW c, Callers = {c}, StopJoin(c)
  PROVE  MatchInv'
<1>1. /\ callers[c] = "join" /\ callers' = [callers EXCEPT ![c] = "idle"] /\ state' = state
      /\ handles' = {}
      /\ tasks' = [s \in Senders |-> IF s \in handles THEN "none" ELSE tasks[s]]
  BY DEF StopJoin, Step
<1>2. callers'[c] = "idle" /\ HandlesInv /\ CallerInv("join")
  BY <1>1 DEF EngineInv, TypeOK, MatchInv
<1>3. state' = "Stopped"
  BY <1>1, <1>2 DEF CallerInv
<1>4. \A w \in Workers : tasks'[w] = "none"
  BY <1>1, <1>2, SendersFinite DEF HandlesInv
<1>5. HandlesInv'
  BY <1>1, <1>3, <1>4 DEF HandlesInv
<1>6. CallerInv(callers[c])'
  BY <1>1, <1>2, <1>3 DEF CallerInv
<1>7. QED
  BY <1>5, <1>6 DEF MatchInv

LEMMA LifecycleMatch ==
  ASSUME EngineInv, MatchInv, NEW c, Callers = {c}, Lifecycle(c)
  PROVE  MatchInv'
<1>1. CASE StopLock(c)
  <2>1. /\ UNCHANGED <<state, handles, tasks>> /\ Step(c, "lock", "join") /\ Free' = Free
        /\ state' # "Stopped" => \A w \in Workers : tasks[w] # "exited"
    BY <1>1 DEF StopLock, Free, MatchInv, HandlesInv
  <2>2. CallerInv("lock") => CallerInv("join")'
    BY <2>1 DEF CallerInv
  <2>3. QED
    BY <2>1, <2>2, CallMatch
<1>2. QED
  BY <1>1, BeginMatch, SendMatch, SpawnMatch, JoinMatch, Zenon DEF Lifecycle, CallStep

LEMMA MatchStep ==
  ASSUME NEW c, Callers = {c}, EngineInv, MatchInv, [Next]_vars
  PROVE  MatchInv'
<1>1. CASE UNCHANGED <<state, callers, handles, tasks>>
  BY <1>1, Zenon DEF MatchInv, HandlesInv, CallerInv, Free
<1>2. ASSUME NEW d \in Callers, Lifecycle(d) \/ ClearBegin(d) \/ ClearDrain(d)
      PROVE  MatchInv'
  BY <1>2, LifecycleMatch, BeginMatch, ClearDrainMatch
<1>3. ASSUME NEW w \in Workers, WorkerLoop(w) PROVE MatchInv'
  <2>1. UNCHANGED <<state, callers, handles>> /\ w \in Senders
    BY <1>3, LoopTypes, SendersFinite
  <2>2. CASE Check(w)
    <3>1. At(w, "check", NextCheck)
      BY <2>2 DEF Check
    <3>2. NextCheck # "none" /\ (NextCheck = "exited" => state = "Stopped")
      BY DEF NextCheck, EngineInv, TypeOK, EngineState
    <3>3. PICK to : to = NextCheck
      OBVIOUS
    <3>4. QED
      BY <2>1, <3>1, <3>2, <3>3, WorkerMatch
  <2>3. CASE Wake(w) \/ PollState(w) \/ PollQueue(w)
    <3>1. \/ At(w, "paused", "check") \/ At(w, "select", "check") \/ At(w, "select", "poll")
          \/ At(w, "poll", "deliver") \/ At(w, "poll", "select")
      BY <2>3, Zenon DEF Wake, PollState, PollQueue
    <3>2. QED
      BY <2>1, <3>1, WorkerMatch
  <2>4. QED
    BY <1>3, <2>2, <2>3 DEF WorkerLoop
<1>4. ASSUME NEW s \in Senders, Deliver(s) PROVE MatchInv'
  <2>1. UNCHANGED <<state, callers, handles>>
    BY <1>4 DEF Deliver, lifecycleVars
  <2>2. \/ At(s, "deliver", IF s \in Workers THEN "check" ELSE "idle")
        \/ At(s, "deliver", "backoff") \/ At(s, "backoff", "deliver")
    BY <1>4, Zenon DEF Deliver, Sent, SinkUnavailable, Retry, Exhausted, BackoffOver, Finish
  <2>3. QED
    BY <2>1, <2>2, WorkerMatch
<1>5. ASSUME NEW p \in Producers, EnqueueCheck(p) \/ Enqueue(p) \/ SendPacket(p)
      PROVE  MatchInv'
  <2>1. UNCHANGED <<state, callers, handles>> /\ p \in Senders /\ p \notin Workers
    BY <1>5, SendersFinite DEF EnqueueCheck, Enqueue, SendPacket, lifecycleVars
  <2>2. \/ At(p, "idle", "try") \/ At(p, "try", "idle") \/ At(p, "idle", "deliver")
    BY <1>5, Zenon DEF EnqueueCheck, Enqueue, SendPacket
  <2>3. QED
    BY <2>1, <2>2, WorkerMatch
<1>6. CASE TransportTake \/ TransportClose \/ UNCHANGED vars
  BY <1>1, <1>6 DEF TransportTake, TransportClose, vars, lifecycleVars
<1>7. QED
  BY <1>2, <1>3, <1>4, <1>5, <1>6, SendersFinite DEF Next, Worker

(* With one caller, outside its calls: once stop() has returned no worker  *)
(* is left, and otherwise some are alive and can be joined (engine.rs:     *)
(* 38-49, 185-208).                                                        *)
THEOREM OneCallerMatches ==
  ASSUME NEW CONSTANT c, Callers = {c}
  PROVE  Spec => []StateMatchesWorkers
<1>1. MatchInv => StateMatchesWorkers
  <2> SUFFICES ASSUME MatchInv, Idle
               PROVE  IF state = "Stopped"
                      THEN handles = {} /\ \A w \in Workers : tasks[w] = "none"
                      ELSE handles \cap Alive # {}
    BY DEF StateMatchesWorkers
  <2>1. callers[c] = "idle"
    BY DEF Idle
  <2>2. QED
    BY <2>1 DEF MatchInv, HandlesInv, CallerInv, Alive
<1>2. EngineInv /\ MatchInv /\ [Next]_vars => MatchInv'
  BY MatchStep
<1>3. QED
  BY <1>1, <1>2, EngineInvariant, MatchInit, PTL DEF Spec
=============================================================================
