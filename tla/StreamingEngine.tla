-------------------------- MODULE StreamingEngine --------------------------
(***************************************************************************)
(* The outbound side of the streaming engine (streaming/src/engine.rs):    *)
(* producers fill the outbound queue, worker tasks forward it to the       *)
(* transport's channel, callers drive the lifecycle.                       *)
(*                                                                         *)
(* Every API call is its check of the state followed by its later steps,   *)
(* and a worker's select! is the poll of its two branches one after the    *)
(* other, so calls, workers and producers interleave between them.         *)
(*                                                                         *)
(* The queue's own steps are PacketQueue's; here an operation on it is one *)
(* step, but the receiver mutex a waiting worker keeps is modelled.  The   *)
(* inbound queue (receive_packet, dequeue) is another PacketQueue and left *)
(* out.  The transport is external: a bounded channel that may fill, be    *)
(* emptied, or be closed.                                                  *)
(***************************************************************************)
EXTENDS Integers, Sequences, FiniteSets

CONSTANTS
  Callers,             \* tasks that use the lifecycle API and clear()
  Producers,           \* tasks calling enqueue and send_packet
  PoolSize,            \* bound: worker tasks alive or not yet joined
  WorkerCount,         \* worker_count, possibly 0
  QueueCapacity,       \* outbound_queue_capacity.max(1)
  TransportCapacity,   \* capacity of the transport's channel
  MaxRetryCount,
  MaxOffered,          \* bound: packets offered
  Nobody               \* no task, no packet

ASSUME EngineAssumption ==
  /\ PoolSize \in Nat /\ WorkerCount \in Nat /\ MaxOffered \in Nat
  /\ QueueCapacity \in Nat \ {0} /\ TransportCapacity \in Nat \ {0}
  /\ MaxRetryCount \in Nat
  /\ Nobody \notin Nat /\ Producers \cap Nat = {} /\ IsFiniteSet(Producers)

VARIABLES
  state,       \* the watch channel's EngineState
  unseen,      \* per worker: a state change it has not observed
  callers,     \* per caller: the call it is in and how far
  handles,     \* worker_handles
  handlesLock, \* caller holding the mutex around worker_handles
  tasks,       \* where each worker task and each producer's call is
  queue,       \* outbound packets, oldest first
  receiver,    \* worker holding the queue's receiver mutex
  carried,     \* packet a worker or a send_packet call is delivering
  attempts,    \* attempts_remaining of that delivery
  metrics,     \* packets_sent, _dropped, _send_failed
  handed,      \* history: what entered the transport channel, and by whom
  taken,       \* how much of it the transport has taken out
  sink,        \* "open" or "closed": the transport's receiving half
  counts       \* history: packets offered, accepted, cleared

lifecycleVars == <<state, unseen, callers, handles, handlesLock>>
transportVars == <<taken, sink>>
vars == <<lifecycleVars, tasks, queue, receiver, carried, attempts,
          metrics, handed, transportVars, counts>>

Workers == 1 .. PoolSize
Senders == Workers \cup Producers
Packets == 1 .. MaxOffered   \* AudioPackets, as they were offered

EngineState == {"Stopped", "Running", "Paused"}

TypeOK ==
  /\ state \in EngineState
  /\ unseen \in [Workers -> BOOLEAN]
  /\ callers \in [Callers -> {"idle", "start", "spawn", "stop", "lock", "join",
                              "pause", "resume", "clear"}]
  /\ handles \subseteq Workers
  /\ handlesLock \in Callers \cup {Nobody}
  /\ tasks \in [Senders -> {"none", "check", "paused", "select", "poll", "exited",
                            "idle", "try", "deliver", "backoff"}]
  /\ queue \in Seq(Packets)
  /\ receiver \in Workers \cup {Nobody}
  /\ carried \in [Senders -> Packets \cup {Nobody}]
  /\ attempts \in [Senders -> 0 .. MaxRetryCount]
  /\ metrics \in [sent : Nat, dropped : Nat, failed : Nat]
  /\ handed \in Seq([packet : Packets, by : Senders])
  /\ taken \in 0 .. Len(handed)
  /\ sink \in {"open", "closed"}
  /\ counts \in [offered : 0 .. MaxOffered, accepted : 0 .. MaxOffered,
                 cleared : 0 .. MaxOffered]

Init ==
  /\ state = "Stopped"
  /\ unseen = [w \in Workers |-> FALSE]
  /\ callers = [c \in Callers |-> "idle"]
  /\ handles = {}
  /\ handlesLock = Nobody
  /\ tasks = [s \in Senders |-> IF s \in Workers THEN "none" ELSE "idle"]
  /\ queue = <<>>
  /\ receiver = Nobody
  /\ carried = [s \in Senders |-> Nobody]
  /\ attempts = [s \in Senders |-> 0]
  /\ metrics = [sent |-> 0, dropped |-> 0, failed |-> 0]
  /\ handed = <<>>
  /\ taken = 0
  /\ sink = "open"
  /\ counts = [offered |-> 0, accepted |-> 0, cleared |-> 0]

-----------------------------------------------------------------------------
(* The lifecycle API.  A call whose check fails returns an error and       *)
(* changes nothing.                                                        *)

Step(c, from, to) == callers[c] = from /\ callers' = [callers EXCEPT ![c] = to]

Alive == {w \in Workers : tasks[w] \notin {"none", "exited"}}
Free == {w \in Workers : tasks[w] = "none"}

(* worker_count.max(1) of the free workers *)
SpawnCount == IF WorkerCount = 0 THEN 1 ELSE WorkerCount
Spawned == {w \in Free : Cardinality({v \in Free : v < w}) < SpawnCount}

(* The bound on worker tasks is a guard here. *)
StartCheck(c) ==
  /\ state # "Running"
  /\ Cardinality(Free) >= Cardinality(Callers) * SpawnCount
  /\ Step(c, "idle", "start")
  /\ UNCHANGED <<state, unseen, handles, handlesLock, tasks>>

StopCheck(c) ==
  /\ state # "Stopped"
  /\ Step(c, "idle", "stop")
  /\ UNCHANGED <<state, unseen, handles, handlesLock, tasks>>

PauseCheck(c) ==
  /\ state = "Running"
  /\ Step(c, "idle", "pause")
  /\ UNCHANGED <<state, unseen, handles, handlesLock, tasks>>

ResumeCheck(c) ==
  /\ state = "Paused"
  /\ Step(c, "idle", "resume")
  /\ UNCHANGED <<state, unseen, handles, handlesLock, tasks>>

(* Mutant: resume() changes the value without notifying the receivers. *)
SendSilently(c, from, to, new) ==
  /\ Step(c, from, to)
  /\ state' = new
  /\ unseen' = [w \in Workers |-> IF from = "resume" THEN unseen[w] ELSE w \in Alive]
  /\ UNCHANGED <<handles, handlesLock, tasks>>

(* state_tx.send: whatever the state has become since the check. *)
Send(c, from, to, new) ==
  /\ Step(c, from, to)
  /\ state' = new
  /\ unseen' = [w \in Workers |-> w \in Alive]
  /\ UNCHANGED <<handles, handlesLock, tasks>>

(* start(), once it has the lock on the handles.  The workers' clone of    *)
(* the engine's own receiver has never seen a change.                      *)
Spawn(c) ==
  /\ handlesLock = Nobody
  /\ Step(c, "spawn", "idle")
  /\ handles' = handles \cup Spawned
  /\ tasks' = [s \in Senders |-> IF s \in Spawned THEN "check" ELSE tasks[s]]
  /\ unseen' = [w \in Workers |-> w \in Spawned \/ unseen[w]]
  /\ UNCHANGED <<state, handlesLock>>

StopLock(c) ==
  /\ handlesLock = Nobody
  /\ Step(c, "lock", "join")
  /\ handlesLock' = c
  /\ UNCHANGED <<state, unseen, handles, tasks>>

(* Mutant: stop() forgets the handles instead of awaiting them. *)
StopWithoutJoin(c) ==
  /\ Step(c, "join", "idle")
  /\ handles' = {}
  /\ handlesLock' = Nobody
  /\ tasks' = [s \in Senders |-> IF tasks[s] = "exited" THEN "none" ELSE tasks[s]]
  /\ UNCHANGED <<state, unseen>>

(* stop(), awaiting every handle with the lock held. *)
StopJoin(c) ==
  /\ \A w \in handles : tasks[w] = "exited"
  /\ Step(c, "join", "idle")
  /\ handles' = {}
  /\ handlesLock' = Nobody
  /\ tasks' = [s \in Senders |-> IF s \in handles THEN "none" ELSE tasks[s]]
  /\ UNCHANGED <<state, unseen>>

(* The steps of a call once it has begun. *)
CallStep(c) ==
  \/ Send(c, "start", "spawn", "Running") \/ Spawn(c)
  \/ Send(c, "stop", "lock", "Stopped") \/ StopLock(c) \/ StopJoin(c)
  \/ Send(c, "pause", "idle", "Paused")
  \/ Send(c, "resume", "idle", "Running")

CallBegin(c) == StartCheck(c) \/ StopCheck(c) \/ PauseCheck(c) \/ ResumeCheck(c)

Lifecycle(c) ==
  /\ CallBegin(c) \/ CallStep(c)
  /\ UNCHANGED <<queue, receiver, carried, attempts, metrics, handed,
                 transportVars, counts>>

ClearBegin(c) ==
  /\ Step(c, "idle", "clear")
  /\ UNCHANGED <<state, unseen, handles, handlesLock, tasks, queue, receiver,
                 carried, attempts, metrics, handed, transportVars, counts>>

(* clear() drains the queue once it gets the receiver mutex. *)
ClearDrain(c) ==
  /\ receiver = Nobody
  /\ Step(c, "clear", "idle")
  /\ queue' = <<>>
  /\ counts' = [counts EXCEPT !.cleared = @ + Len(queue)]
  /\ UNCHANGED <<state, unseen, handles, handlesLock, tasks, receiver,
                 carried, attempts, metrics, handed, transportVars>>

-----------------------------------------------------------------------------
(* The worker tasks. *)

At(s, from, to) == tasks[s] = from /\ tasks' = [tasks EXCEPT ![s] = to]

NextCheck == CASE state = "Running" -> "select"
               [] state = "Stopped" -> "exited"
               [] state = "Paused"  -> "paused"

(* The inner loop looks at the state without marking it seen ... *)
Check(w) ==
  /\ At(w, "check", NextCheck)
  /\ UNCHANGED <<unseen, queue, receiver, carried, attempts, counts>>

(* ... and while Paused awaits the next change. *)
Wake(w) ==
  /\ unseen[w]
  /\ At(w, "paused", "check")
  /\ unseen' = [unseen EXCEPT ![w] = FALSE]
  /\ UNCHANGED <<queue, receiver, carried, attempts, counts>>

Release(w) == receiver' = IF receiver = w THEN Nobody ELSE receiver

(* Mutant: only the queue is awaited. *)
PollStateDeaf(w) ==
  /\ At(w, "select", "poll")
  /\ UNCHANGED <<unseen, queue, receiver, carried, attempts, counts>>

(* select!, biased: a state change wins and drops the dequeue future, with *)
(* the mutex if it was waiting in recv(); else the queue is polled.        *)
PollState(w) ==
  \/ /\ unseen[w]
     /\ At(w, "select", "check")
     /\ unseen' = [unseen EXCEPT ![w] = FALSE]
     /\ Release(w)
     /\ UNCHANGED <<queue, carried, attempts, counts>>
  \/ /\ ~unseen[w]
     /\ At(w, "select", "poll")
     /\ UNCHANGED <<unseen, queue, receiver, carried, attempts, counts>>

(* dequeue() polled: a packet is taken, or the worker waits with the mutex *)
(* in its hands, or it waits for the mutex.                                *)
PollQueue(w) ==
  \/ /\ receiver \in {w, Nobody} /\ queue # <<>>
     /\ At(w, "poll", "deliver")
     /\ receiver' = Nobody
     /\ queue' = Tail(queue)
     /\ carried' = [carried EXCEPT ![w] = Head(queue)]
     /\ attempts' = [attempts EXCEPT ![w] = MaxRetryCount]
     /\ UNCHANGED <<unseen, counts>>
  \/ /\ receiver \in {w, Nobody} /\ queue = <<>>
     /\ At(w, "poll", "select")
     /\ receiver' = w
     /\ UNCHANGED <<unseen, queue, carried, attempts, counts>>
  \/ /\ receiver \notin {w, Nobody}
     /\ At(w, "poll", "select")
     /\ UNCHANGED <<unseen, queue, receiver, carried, attempts, counts>>

WorkerLoop(w) ==
  /\ Check(w) \/ Wake(w) \/ PollState(w) \/ PollQueue(w)
  /\ UNCHANGED <<state, callers, handles, handlesLock, metrics, handed, transportVars>>

-----------------------------------------------------------------------------
(* deliver_to_transport, in a worker or in a call of send_packet. *)

InTransport == Len(handed) - taken

Delivering == {s \in Senders : tasks[s] = "deliver"}

(* The delivery is over; the packet is gone from the sender's hands. *)
Finish(s) ==
  /\ At(s, "deliver", IF s \in Workers THEN "check" ELSE "idle")
  /\ carried' = [carried EXCEPT ![s] = Nobody]
  /\ attempts' = [attempts EXCEPT ![s] = 0]

Sent(s) ==
  /\ sink = "open" /\ InTransport < TransportCapacity
  /\ Finish(s)
  /\ handed' = Append(handed, [packet |-> carried[s], by |-> s])
  /\ metrics' = [metrics EXCEPT !.sent = @ + 1]
  /\ UNCHANGED queue

SinkUnavailable(s) ==
  /\ sink = "closed"
  /\ Finish(s)
  /\ metrics' = [metrics EXCEPT !.failed = @ + 1]
  /\ UNCHANGED <<handed, queue>>

(* A send times out only when it found no free slot: those there may be    *)
(* already promised to the others waiting.                                 *)
TimesOut(s) ==
  /\ sink = "open"
  /\ InTransport + Cardinality(Delivering \ {s}) >= TransportCapacity

(* Mutant: no check of the attempts left. *)
RetryForever(s) ==
  /\ TimesOut(s)
  /\ At(s, "deliver", "backoff")
  /\ UNCHANGED <<carried, attempts, handed, metrics, queue>>

Retry(s) ==
  /\ TimesOut(s) /\ attempts[s] > 0
  /\ At(s, "deliver", "backoff")
  /\ UNCHANGED <<carried, attempts, handed, metrics, queue>>

(* Mutants: an exhausted packet is put back into the queue, or not counted. *)
ExhaustedRequeued(s) ==
  /\ TimesOut(s) /\ attempts[s] = 0
  /\ Finish(s)
  /\ queue' = Append(queue, carried[s])
  /\ UNCHANGED <<handed, metrics>>

ExhaustedUncounted(s) ==
  /\ TimesOut(s) /\ attempts[s] = 0
  /\ Finish(s)
  /\ UNCHANGED <<handed, metrics, queue>>

Exhausted(s) ==
  /\ TimesOut(s) /\ attempts[s] = 0
  /\ Finish(s)
  /\ metrics' = [metrics EXCEPT !.failed = @ + 1]
  /\ UNCHANGED <<handed, queue>>

BackoffOver(s) ==
  /\ At(s, "backoff", "deliver")
  /\ attempts' = [attempts EXCEPT ![s] = @ - 1]
  /\ UNCHANGED <<carried, handed, metrics, queue>>

Deliver(s) ==
  /\ Sent(s) \/ SinkUnavailable(s) \/ Retry(s) \/ Exhausted(s) \/ BackoffOver(s)
  /\ UNCHANGED <<lifecycleVars, receiver, transportVars, counts>>

Worker(w) == WorkerLoop(w) \/ Deliver(w)

-----------------------------------------------------------------------------
(* The producers: enqueue checks the state, then tries the queue.          *)

EnqueueCheck(p) ==
  /\ counts.offered < MaxOffered
  /\ state # "Stopped"
  /\ At(p, "idle", "try")
  /\ counts' = [counts EXCEPT !.offered = @ + 1]
  /\ UNCHANGED <<lifecycleVars, queue, receiver, carried, attempts, metrics, handed,
                 transportVars>>

Enqueue(p) ==
  /\ At(p, "try", "idle")
  /\ \/ /\ Len(queue) < QueueCapacity
        /\ counts' = [counts EXCEPT !.accepted = @ + 1]
        /\ queue' = Append(queue, counts'.accepted)
        /\ UNCHANGED metrics
     \/ /\ Len(queue) >= QueueCapacity
        /\ metrics' = [metrics EXCEPT !.dropped = @ + 1]
        /\ UNCHANGED <<counts, queue>>
  /\ UNCHANGED <<lifecycleVars, receiver, carried, attempts, handed, transportVars>>

(* send_packet delivers in the caller's task, in any lifecycle state. *)
SendPacket(p) ==
  /\ counts.offered < MaxOffered
  /\ At(p, "idle", "deliver")
  /\ counts' = [counts EXCEPT !.offered = @ + 1, !.accepted = @ + 1]
  /\ carried' = [carried EXCEPT ![p] = counts'.accepted]
  /\ attempts' = [attempts EXCEPT ![p] = MaxRetryCount]
  /\ UNCHANGED <<lifecycleVars, queue, receiver, metrics, handed, transportVars>>

(* The transport takes a packet, or goes away. *)
TransportTake ==
  /\ sink = "open" /\ InTransport > 0
  /\ taken' = taken + 1
  /\ UNCHANGED <<lifecycleVars, tasks, queue, receiver, carried, attempts, metrics,
                 handed, sink, counts>>

TransportClose ==
  /\ sink = "open"
  /\ sink' = "closed"
  /\ UNCHANGED <<lifecycleVars, tasks, queue, receiver, carried, attempts, metrics,
                 handed, taken, counts>>

Next ==
  \/ \E c \in Callers : Lifecycle(c) \/ ClearBegin(c) \/ ClearDrain(c)
  \/ \E w \in Workers : Worker(w)
  \/ \E p \in Producers : EnqueueCheck(p) \/ Enqueue(p) \/ SendPacket(p) \/ Deliver(p)
  \/ TransportTake \/ TransportClose

Spec == Init /\ [][Next]_vars

(* Tokio runs every task that is ready and its mutexes are fair queues, so *)
(* calls in progress and workers make progress.  Nobody has to call.       *)
Fairness ==
  /\ \A c \in Callers : WF_vars(CallStep(c) /\ Lifecycle(c)) /\ SF_vars(ClearDrain(c))
  /\ \A w \in Workers : WF_vars(Worker(w))
  /\ \A p \in Producers : WF_vars(Enqueue(p) \/ Deliver(p))

FairSpec == Spec /\ Fairness

-----------------------------------------------------------------------------
Carriers == {s \in Senders : carried[s] # Nobody}
Idle == \A c \in Callers : callers[c] = "idle"

(* No packet is lost by a cancelled dequeue, a pause, a stop or a failed   *)
(* delivery: what was accepted is queued, in delivery, or counted once as  *)
(* sent, failed or cleared (engine.rs:354-469).                            *)
PacketsAccountedFor ==
  counts.accepted = Len(queue) + Cardinality(Carriers) + metrics.sent
                      + metrics.failed + counts.cleared

(* Each worker forwards packets in the order they were enqueued, retries   *)
(* included; so one worker forwards them all in order (queue.rs:3-5,       *)
(* engine.rs:354-469).                                                     *)
WorkerOrder ==
  \A i, j \in 1 .. Len(handed) :
    i < j /\ handed[i].by = handed[j].by => handed[i].packet < handed[j].packet

(* With one caller at a time, outside its calls: however the engine was    *)
(* started and paused before, once stop() has returned no worker is left,  *)
(* and otherwise some are alive and can be joined (engine.rs:38-49,        *)
(* 185-208).                                                               *)
StateMatchesWorkers ==
  Idle => IF state = "Stopped"
            THEN handles = {} /\ \A w \in Workers : tasks[w] = "none"
            ELSE handles \cap Alive # {}

(* stop() returns: every worker notices, whether it waits for a packet, is *)
(* paused, or retries against a transport that takes nothing               *)
(* (engine.rs:188-208, 354-469).  It does not when two callers race: a     *)
(* start() whose check saw Stopped sets Running again before the workers   *)
(* have looked, and stop() awaits workers that go on.                      *)
StopReturns ==
  \A c \in Callers : callers[c] \in {"stop", "lock", "join"} ~> callers[c] = "idle"

(* The queue empties unless the engine stops running, although select! may *)
(* cancel the dequeue any number of times (engine.rs:354-411): no packet   *)
(* stays in it, for the packets offered are finitely many.                 *)
QueueDrains == queue # <<>> ~> (state # "Running" \/ queue = <<>>)

(* engine.rs:326-327 says clear() is "Safe to call in any lifecycle        *)
(* state": the call returns.                                               *)
ClearReturns == \A c \in Callers : callers[c] = "clear" ~> callers[c] = "idle"
=============================================================================
