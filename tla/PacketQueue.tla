---------------------------- MODULE PacketQueue ----------------------------
(***************************************************************************)
(* The bounded queue of the streaming engine (streaming/src/queue.rs): a   *)
(* tokio mpsc channel whose receiving half sits behind an async mutex, and *)
(* an atomic length kept beside it so that len() needs no lock.            *)
(*                                                                         *)
(* The channel operation and the update of the length are separate steps.  *)
(* A call can be cancelled (the losing branch of a select!) only where it  *)
(* awaits.  Packets are numbered in the order the channel accepts them.    *)
(***************************************************************************)
EXTENDS Integers, Sequences, FiniteSets

CONSTANTS
  Producers, Consumers, Clearers,   \* tasks calling enqueue, dequeue, clear
  Capacity,                         \* configured capacity, possibly 0
  Modulus,                          \* usize::MAX + 1
  MaxPackets,                       \* bound: packets accepted
  Nobody                            \* holder of a free mutex

Receivers == Consumers \cup Clearers
Tasks == Producers \cup Receivers

ASSUME QueueAssumption ==
  /\ Capacity \in Nat /\ Modulus \in Nat \ {0} /\ MaxPackets \in Nat
  /\ Nobody \notin Tasks
  /\ Consumers \cap Clearers = {} /\ Producers \cap Receivers = {}
  /\ IsFiniteSet(Tasks)

VARIABLES
  channel,    \* packets in the mpsc channel
  length,     \* the AtomicUsize
  receiver,   \* holder of the receiver mutex
  pc,         \* where each task is in its call
  inHand,     \* packets the holder has taken off the channel, oldest first
  accepted,   \* history: number of packets accepted
  returned,   \* history: packets returned by dequeue, in order
  cleared     \* history: packets removed by clear

vars == <<channel, length, receiver, pc, inHand, accepted, returned, cleared>>

Packets == 1 .. MaxPackets

ChannelCapacity == IF Capacity = 0 THEN 1 ELSE Capacity

TypeOK ==
  /\ channel \in Seq(Packets)
  /\ length \in 0 .. Modulus - 1
  /\ receiver \in Receivers \cup {Nobody}
  /\ pc \in [Tasks -> {"idle", "sent", "lock", "recv", "got", "drain"}]
  /\ inHand \in [Receivers -> Seq(Packets)]
  /\ accepted \in 0 .. MaxPackets
  /\ returned \in Seq(Packets)
  /\ cleared \in Seq(Packets)

Init ==
  /\ channel = <<>>
  /\ length = 0
  /\ receiver = Nobody
  /\ pc = [t \in Tasks |-> "idle"]
  /\ inHand = [t \in Receivers |-> <<>>]
  /\ accepted = 0
  /\ returned = <<>>
  /\ cleared = <<>>

Move(t, from, to) == pc[t] = from /\ pc' = [pc EXCEPT ![t] = to]

-----------------------------------------------------------------------------
(* Mutant: the channel is unbounded. *)
TrySendUnbounded(p) ==
  /\ Move(p, "idle", "sent")
  /\ accepted < MaxPackets
  /\ accepted' = accepted + 1
  /\ channel' = Append(channel, accepted')
  /\ UNCHANGED <<length, receiver, inHand, returned, cleared>>

(* enqueue: try_send; a full channel refuses and changes nothing. *)
TrySend(p) ==
  /\ Move(p, "idle", "sent")
  /\ accepted < MaxPackets
  /\ Len(channel) < ChannelCapacity
  /\ accepted' = accepted + 1
  /\ channel' = Append(channel, accepted')
  /\ UNCHANGED <<length, receiver, inHand, returned, cleared>>

(* enqueue: length.fetch_add(1), when the packet is already visible. *)
CountSent(p) ==
  /\ Move(p, "sent", "idle")
  /\ length' = (length + 1) % Modulus
  /\ UNCHANGED <<channel, receiver, inHand, accepted, returned, cleared>>

(* dequeue and clear ask for the receiver ... *)
Call(t) ==
  /\ Move(t, "idle", "lock")
  /\ UNCHANGED <<channel, length, receiver, inHand, accepted, returned, cleared>>

(* ... and get it when it is free. *)
Lock(t) ==
  /\ receiver = Nobody
  /\ receiver' = t
  /\ Move(t, "lock", IF t \in Consumers THEN "recv" ELSE "drain")
  /\ UNCHANGED <<channel, length, inHand, accepted, returned, cleared>>

(* Take the first packet off the channel. *)
Take(t) ==
  /\ channel # <<>>
  /\ channel' = Tail(channel)
  /\ inHand' = [inHand EXCEPT ![t] = Append(@, Head(channel))]

(* dequeue: recv() takes a packet; with none it waits, holding the mutex. *)
Recv(c) ==
  /\ Move(c, "recv", "got")
  /\ Take(c)
  /\ UNCHANGED <<length, receiver, accepted, returned, cleared>>

(* Leave the call with k packets: length.fetch_sub(k), unlock. *)
Leave(t, k) ==
  /\ length' = (length - k) % Modulus
  /\ receiver' = Nobody
  /\ inHand' = [inHand EXCEPT ![t] = <<>>]

Return(c) ==
  /\ Move(c, "got", "idle")
  /\ Leave(c, 1)
  /\ returned' = returned \o inHand[c]
  /\ UNCHANGED <<channel, accepted, cleared>>

(* clear: one iteration of the try_recv loop. *)
DrainOne(t) ==
  /\ pc[t] = "drain"
  /\ Take(t)
  /\ UNCHANGED <<length, receiver, pc, accepted, returned, cleared>>

(* Mutant: only the last packet drained is subtracted. *)
DrainEndByOne(t) ==
  /\ Move(t, "drain", "idle")
  /\ channel = <<>>
  /\ Leave(t, IF inHand[t] = <<>> THEN 0 ELSE 1)
  /\ cleared' = cleared \o inHand[t]
  /\ UNCHANGED <<channel, accepted, returned>>

(* clear: nothing left; subtract the number drained and unlock. *)
DrainEnd(t) ==
  /\ Move(t, "drain", "idle")
  /\ channel = <<>>
  /\ Leave(t, Len(inHand[t]))
  /\ cleared' = cleared \o inHand[t]
  /\ UNCHANGED <<channel, accepted, returned>>

Release(t) == receiver' = IF receiver = t THEN Nobody ELSE receiver

(* Mutant: a cancelled dequeue may already hold a packet. *)
CancelAnywhere(t) ==
  /\ pc[t] \in {"lock", "recv", "got"}
  /\ pc' = [pc EXCEPT ![t] = "idle"]
  /\ Release(t)
  /\ inHand' = [inHand EXCEPT ![t] = <<>>]
  /\ UNCHANGED <<channel, length, accepted, returned, cleared>>

(* The future is dropped while it awaits the mutex or recv(). *)
Cancel(t) ==
  /\ pc[t] \in {"lock", "recv"}
  /\ pc' = [pc EXCEPT ![t] = "idle"]
  /\ Release(t)
  /\ UNCHANGED <<channel, length, inHand, accepted, returned, cleared>>

Next ==
  \/ \E p \in Producers : TrySend(p) \/ CountSent(p)
  \/ \E t \in Receivers : Call(t) \/ Lock(t) \/ Cancel(t)
  \/ \E c \in Consumers : Recv(c) \/ Return(c)
  \/ \E t \in Clearers : DrainOne(t) \/ DrainEnd(t)

Spec == Init /\ [][Next]_vars

-----------------------------------------------------------------------------
InHandCount == IF receiver = Nobody THEN 0 ELSE Len(inHand[receiver])

(* The atomic length differs from the channel's by exactly the updates     *)
(* still owed: packets sent but not yet counted, taken but not yet         *)
(* subtracted.  So it is exact when no call is in progress, whatever was   *)
(* cancelled and cleared before (queue.rs:58-105).                         *)
LengthAccounting ==
  length = (Len(channel) + InHandCount
              - Cardinality({p \in Producers : pc[p] = "sent"})) % Modulus

(* No packet is lost or duplicated, cancelled calls included: those        *)
(* accepted are in the channel, in hand, returned or cleared, once each    *)
(* (queue.rs:74-82, dequeue "is cancel-safe").                             *)
ExactlyOnce ==
  LET everywhere == Len(channel) + InHandCount + Len(returned) + Len(cleared)
      left == {returned[i] : i \in 1 .. Len(returned)}
                \cup {cleared[i] : i \in 1 .. Len(cleared)}
  IN  /\ everywhere = accepted
      /\ Cardinality(left) = Len(returned) + Len(cleared)

(* The queue implements a bounded FIFO whose calls take effect at once:    *)
(* what it holds is the channel preceded by what the holder of the mutex   *)
(* has in hand.                                                            *)
Holding == IF receiver = Nobody THEN channel ELSE inHand[receiver] \o channel

Fifo == INSTANCE BoundedFifo
          WITH Room <- ChannelCapacity, Limit <- MaxPackets,
               waiting <- Holding, leaving <- InHandCount,
               taken <- returned, dropped <- cleared,
               count <- accepted

ImplementsBoundedFifo == Fifo!Spec
=============================================================================
