---------------------------- MODULE AudioStream ----------------------------
(***************************************************************************)
(* Two streaming engines of the echosync workspace                         *)
(* (echosync/streaming/src/engine.rs, queue.rs) with the network engine    *)
(* between them, call by call: the host's engine sends, the guest's        *)
(* receives.  The workers' and callers' steps within a call are            *)
(* StreamingEngine's and PacketQueue's business, which model the same      *)
(* code.                                                                   *)
(***************************************************************************)
EXTENDS PartyTransport, Sequences

CONSTANTS
  OutboundCapacity, InboundCapacity,
  MaxTrouble                             \* bound: packets too large or not handed over, datagrams
                                         \* lost or repeated, calls that interrupt the stream

(* StreamingConfig has no validate(): a queue of capacity 0 has one place. *)
ASSUME StreamAssumption ==
  /\ Packets \subseteq Nat /\ IsFiniteSet(Packets)
  /\ OutboundCapacity \in Nat \ {0} /\ InboundCapacity \in Nat \ {0}
  /\ MaxTrouble \in Nat

VARIABLES
  engines,   \* the host's and the guest's: state, queues and metrics
  streamed   \* history: what no metric tells, and the bounded counts; and the packets
             \* that exceed the guest's limit on their size, which need not be the host's

streamVars == <<engines, netVars, streamed>>

Engines == {"host", "guest"}

(* A packet is its sequence number. *)
AudioPacket == Packets

EngineState == {"Stopped", "Running", "Paused"}

(* The state, the two queues, and the metrics. *)
Engine ==
  [state : EngineState, outbound : Seq(AudioPacket), inbound : Seq(AudioPacket),
   sent : Nat, received : Nat, dropped : Nat, failed : Nat]

StreamTypeOK ==
  /\ engines \in [Engines -> Engine]
  /\ NetTypeOK
  /\ streamed \in [offered : Nat, accepted : Nat, cleared : Nat, unheard : Nat, lost : Nat,
                   copied : Nat, arrived : Nat, refused : Nat, fed : Nat, calls : Nat,
                   oversized : SUBSET Packets]

(* PacketQueue::new, len *)
NewQueue == <<>>
QueueLength(q) == Len(q)

(* The engines are new and have been started. *)
Started == [state |-> "Running", outbound |-> NewQueue, inbound |-> NewQueue,
            sent |-> 0, received |-> 0, dropped |-> 0, failed |-> 0]

StreamInit ==
  /\ engines = [e \in Engines |-> Started]
  /\ NetInit
  /\ streamed = [offered |-> 0, accepted |-> 0, cleared |-> 0, unheard |-> 0, lost |-> 0,
                 copied |-> 0, arrived |-> 0, refused |-> 0, fed |-> 0, calls |-> 0,
                 oversized |-> {}]

-----------------------------------------------------------------------------
(* Lifecycle calls *)

Moves(e, from, to) ==
  /\ engines[e].state \in from
  /\ engines' = [engines EXCEPT ![e].state = to]
  /\ UNCHANGED netVars

Trouble ==
  engines["host"].failed + streamed.lost + streamed.copied + streamed.calls
    + Cardinality(streamed.oversized)

Interrupts ==
  /\ Trouble < MaxTrouble
  /\ streamed' = [streamed EXCEPT !.calls = @ + 1]

StartEngine(e) == Moves(e, {"Stopped", "Paused"}, "Running") /\ UNCHANGED streamed
PauseEngine(e) == Moves(e, {"Running"}, "Paused") /\ Interrupts
ResumeEngine(e) == Moves(e, {"Paused"}, "Running") /\ UNCHANGED streamed
StopEngine(e) == Moves(e, {"Running", "Paused"}, "Stopped") /\ Interrupts

(* PacketQueue::clear *)
Drained(e) == QueueLength(engines[e].outbound) + QueueLength(engines[e].inbound)

(* clear(): both queues, in any state, and no metric. *)
ClearQueues(e) ==
  /\ Drained(e) > 0 /\ Trouble < MaxTrouble
  /\ engines' = [engines EXCEPT ![e].outbound = <<>>, ![e].inbound = <<>>]
  /\ streamed' = [streamed EXCEPT !.calls = @ + 1, !.cleared = @ + Drained(e)]
  /\ UNCHANGED netVars

-----------------------------------------------------------------------------
(* The host *)

(* PacketQueue::enqueue *)
IsFull(q, capacity) == Len(q) >= capacity

(* The packets are captured one after the other. *)
NextCaptured == {p \in Packets : Cardinality({q \in Packets : q < p}) = streamed.offered}

(* enqueue: refused by a stopped engine, dropped by a full queue; of any   *)
(* size.                                                                   *)
EnqueuePacket(p) ==
  LET engine == engines["host"]
      full == IsFull(engine.outbound, OutboundCapacity)
  IN  /\ p \in NextCaptured
      /\ \E oversized \in {streamed.oversized, streamed.oversized \cup {p}} :
           /\ oversized # streamed.oversized => Trouble < MaxTrouble
           /\ streamed' = [streamed EXCEPT !.offered = streamed.offered + 1,
                !.oversized = oversized,
                !.accepted = streamed.accepted + (IF engine.state = "Stopped" \/ full THEN 0 ELSE 1)]
      /\ engines' = [engines EXCEPT !["host"] =
           IF engine.state = "Stopped" THEN engine
           ELSE IF full THEN [engine EXCEPT !.dropped = @ + 1]
           ELSE [engine EXCEPT !.outbound = Append(@, p)]]
      /\ UNCHANGED netVars

(* A worker: it hands the first packet over, or gives up after its last    *)
(* attempt.  The transport sends it on to the guest, if it knows one.      *)
ForwardPacket ==
  LET engine == engines["host"]
      taken == [engine EXCEPT !.outbound = Tail(@)]
  IN  /\ engine.state = "Running" /\ engine.outbound # <<>>
      /\ \/ /\ engines' = [engines EXCEPT !["host"] = [taken EXCEPT !.sent = @ + 1]]
            /\ Broadcast(Head(engine.outbound))
            /\ streamed' = [streamed EXCEPT !.unheard = @ + (IF net.client THEN 0 ELSE 1)]
         \/ /\ Trouble < MaxTrouble
            /\ engines' = [engines EXCEPT !["host"] = [taken EXCEPT !.failed = @ + 1]]
            /\ UNCHANGED <<netVars, streamed>>

-----------------------------------------------------------------------------
(* The network *)

Joining ==
  /\ StartHostMode \/ ScanForHosts \/ HandleRequest
  /\ UNCHANGED <<engines, streamed>>

Lost(d) ==
  /\ Trouble < MaxTrouble /\ LosePacket(d)
  /\ streamed' = [streamed EXCEPT !.lost = @ + 1]
  /\ UNCHANGED engines

Copied(d) ==
  /\ Trouble < MaxTrouble /\ CopyPacket(d)
  /\ streamed' = [streamed EXCEPT !.copied = @ + 1]
  /\ UNCHANGED engines

NotJoining ==
  /\ Interrupts /\ (LoseRequest \/ CopyRequest)
  /\ UNCHANGED engines

-----------------------------------------------------------------------------
(* The guest *)

(* receive_packet returns EngineNotRunning or PacketTooLarge, and counts    *)
(* nothing.  (Only this side looks at the size.)                           *)
Refuses(engine, p) == engine.state = "Stopped" \/ p \in streamed.oversized

(* Mutant: a full inbound queue drops without counting. *)
ReceivedUncounted(engine, p) ==
  IF Refuses(engine, p) \/ IsFull(engine.inbound, InboundCapacity) THEN engine
  ELSE [engine EXCEPT !.inbound = Append(engine.inbound, p), !.received = engine.received + 1]

(* receive_packet *)
Received(engine, p) ==
  IF Refuses(engine, p) THEN engine
  ELSE IF IsFull(engine.inbound, InboundCapacity) THEN [engine EXCEPT !.dropped = @ + 1]
  ELSE [engine EXCEPT !.inbound = Append(engine.inbound, p), !.received = engine.received + 1]

ReceivePacket(d) ==
  /\ Deliver(d)
  /\ engines' = [engines EXCEPT !["guest"] = Received(engines["guest"], d.seq)]
  /\ streamed' = [streamed EXCEPT !.arrived = @ + 1,
                    !.refused = @ + (IF Refuses(engines["guest"], d.seq) THEN 1 ELSE 0)]

(* dequeue, which no state refuses. *)
DequeuePacket(p) ==
  /\ engines["guest"].inbound # <<>> /\ p = Head(engines["guest"].inbound)
  /\ engines' = [engines EXCEPT !["guest"].inbound = Tail(@)]
  /\ streamed' = [streamed EXCEPT !.fed = @ + 1]
  /\ UNCHANGED netVars

(* The guest's engine does not send: pausing it has no effect. *)
Lifecycle ==
  \/ \E e \in Engines : StartEngine(e) \/ StopEngine(e) \/ ClearQueues(e)
  \/ PauseEngine("host") \/ ResumeEngine("host")

-----------------------------------------------------------------------------
(* status(): the lengths of the queues, and the metrics. *)
Status(e) == [engines[e] EXCEPT !.outbound = QueueLength(engines[e].outbound),
                                !.inbound = QueueLength(engines[e].inbound)]

(* Every packet the host accepted, and every copy of it, is in a queue or  *)
(* under way, or one metric or the network took it -- or it was sent while *)
(* the host knew no guest, or the guest's engine refused it.               *)
StreamAccounted ==
  LET host == Status("host")  guest == Status("guest")
  IN  /\ streamed.accepted + streamed.copied =
           host.failed + streamed.unheard + streamed.lost + streamed.refused
             + streamed.cleared + guest.dropped + streamed.fed
             + host.outbound + Cardinality(wire) + guest.inbound
      /\ host.sent + streamed.copied =
           streamed.unheard + streamed.lost + streamed.arrived + Cardinality(wire)
=============================================================================
