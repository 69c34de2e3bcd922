----------------------------- MODULE QueueProofs -----------------------------
(***************************************************************************)
(* Proofs about PacketQueue for any number of tasks, capacity, modulus of  *)
(* the length and packets: the length is exact but for the calls in        *)
(* progress, and the queue implements BoundedFifo, from which it follows   *)
(* that every packet leaves exactly once.                                  *)
(***************************************************************************)
EXTENDS PacketQueue, FiniteSetTheorems, SequenceTheorems, TLAPS

(* Each task makes its own kind of calls. *)
Roles ==
  /\ \A p \in Producers : pc[p] \in {"idle", "sent"}
  /\ \A c \in Consumers : pc[c] \in {"idle", "lock", "recv", "got"}
  /\ \A t \in Clearers : pc[t] \in {"idle", "lock", "drain"}

(* The mutex is held by the one task that is past it ... *)
Mutex == \A t \in Receivers : receiver = t <=> pc[t] \in {"recv", "got", "drain"}

(* ... and nobody else has packets in hand, so that cancelling a call that *)
(* waits loses none.                                                       *)
Hands ==
  \A t \in Receivers :
    /\ pc[t] \notin {"got", "drain"} => inHand[t] = <<>>
    /\ pc[t] = "got" => Len(inHand[t]) = 1

QueueInv == TypeOK /\ Roles /\ Mutex /\ Hands

-----------------------------------------------------------------------------
(* Division with remainder, and that the remainder is unique. *)
LEMMA Quotient ==
  ASSUME NEW M \in Int, M > 0, NEW a \in Int
  PROVE  a = M * (a \div M) + (a % M)
BY Z3

LEMMA Remainder ==
  ASSUME NEW M \in Int, M > 0, NEW a \in Int
  PROVE  a % M \in 0 .. M - 1 /\ a \div M \in Int
OBVIOUS

LEMMA Multiples ==
  ASSUME NEW M \in Int, M > 0, NEW d \in Int, d # 0
  PROVE  M * d >= M \/ M * d <= -M
<1>1. CASE d >= 1
  BY <1>1
<1>2. CASE d <= -1
  BY <1>2
<1>3. QED
  BY <1>1, <1>2

LEMMA UniqueRemainder ==
  ASSUME NEW M \in Int, M > 0, NEW p \in Int, NEW q \in Int,
         NEW r \in 0 .. M - 1, NEW s \in 0 .. M - 1,
         M * p + r = M * q + s
  PROVE  r = s
<1>1. M * (p - q) = M * p - M * q
  OBVIOUS
<1>2. CASE p = q
  BY <1>2
<1>3. CASE p # q
  <2>1. M * (p - q) >= M \/ M * (p - q) <= -M
    BY <1>3, Multiples
  <2>2. QED
    BY <1>1, <2>1
<1>4. QED
  BY <1>2, <1>3

(* Counting modulo M may take the remainder at every step. *)
LEMMA ModAdd ==
  ASSUME NEW M \in Int, M > 0, NEW a \in Int, NEW k \in Int
  PROVE  ((a % M) + k) % M = (a + k) % M
<1> DEFINE b == (a % M) + k
           c == a + k
<1>1. /\ a % M \in 0 .. M - 1 /\ a \div M \in Int
      /\ a = M * (a \div M) + (a % M)
  BY Quotient, Remainder
<1>2. b \in Int /\ c \in Int
  BY <1>1
<1>3. a = M * (a \div M) + (b - k)
  BY <1>1
<1>0. c = a + k
  OBVIOUS
<1> HIDE DEF b, c
<1>4. /\ b % M \in 0 .. M - 1 /\ b \div M \in Int
      /\ b = M * (b \div M) + (b % M)
  BY <1>2, Quotient, Remainder
<1>5. /\ c % M \in 0 .. M - 1 /\ c \div M \in Int
      /\ c = M * (c \div M) + (c % M)
  BY <1>2, Quotient, Remainder
<1>6. PICK x \in Int, y \in Int, z \in Int :
         /\ x = a \div M /\ y = b \div M /\ z = c \div M
  BY <1>1, <1>4, <1>5
<1>7. M * (x + y) = M * x + M * y
  OBVIOUS
<1>8. M * (x + y) + (b % M) = M * z + (c % M)
  <2> DEFINE u == M * x
             v == M * y
             w == M * z
  <2>1. u \in Int /\ v \in Int /\ w \in Int
    OBVIOUS
  <2>2. a = u + (b - k) /\ b = v + (b % M) /\ c = w + (c % M) /\ M * (x + y) = u + v
    BY <1>3, <1>4, <1>5, <1>6, <1>7
  <2> HIDE DEF u, v, w
  <2>3. u + v + (b % M) = w + (c % M)
    BY <1>0, <1>2, <1>4, <1>5, <2>1, <2>2
  <2>4. QED
    BY <2>2, <2>3, Zenon DEF w
<1>9. c % M = b % M
  <2>1. x + y \in Int
    OBVIOUS
  <2>2. QED
    BY <1>4, <1>5, <1>8, <2>1, UniqueRemainder, Zenon
<1>10. QED
  BY <1>9 DEF b, c

-----------------------------------------------------------------------------
LEMMA QueueInvInit == Init => QueueInv
<1> SUFFICES ASSUME Init PROVE QueueInv
  OBVIOUS
<1>1. /\ pc = [t \in Tasks |-> "idle"] /\ inHand = [t \in Receivers |-> <<>>]
      /\ receiver = Nobody /\ channel = <<>> /\ length = 0 /\ accepted = 0
      /\ returned = <<>> /\ cleared = <<>>
  BY DEF Init
<1>2. <<>> \in Seq(Packets)
  OBVIOUS
<1>3. TypeOK
  BY <1>1, <1>2, QueueAssumption DEF TypeOK
<1>4. Roles /\ Hands
  BY <1>1 DEF Roles, Hands, Tasks, Receivers
<1>5. Mutex
  BY <1>1, QueueAssumption DEF Mutex, Tasks
<1>6. QED
  BY <1>3, <1>4, <1>5 DEF QueueInv

(* What the invariant says of the variables' types. *)
LEMMA Typed ==
  ASSUME QueueInv
  PROVE  /\ channel \in Seq(Packets) /\ returned \in Seq(Packets) /\ cleared \in Seq(Packets)
         /\ \A t \in Receivers : inHand[t] \in Seq(Packets)
         /\ accepted \in 0 .. MaxPackets /\ length \in 0 .. Modulus - 1
         /\ Modulus \in Int /\ Modulus > 0
         /\ Producers \subseteq Tasks /\ Receivers \subseteq Tasks
         /\ Consumers \subseteq Receivers /\ Clearers \subseteq Receivers
BY QueueAssumption DEF QueueInv, TypeOK, Tasks, Receivers

LEMMA TrySendInv ==
  ASSUME QueueInv, NEW p \in Producers, TrySend(p)
  PROVE  QueueInv'
<1>1. /\ pc[p] = "idle" /\ pc' = [pc EXCEPT ![p] = "sent"]
      /\ accepted < MaxPackets /\ accepted' = accepted + 1
      /\ channel' = Append(channel, accepted')
      /\ UNCHANGED <<length, receiver, inHand, returned, cleared>>
  BY DEF TrySend, Move
<1>2. accepted' \in 0 .. MaxPackets /\ accepted' \in Packets
  BY <1>1, Typed, QueueAssumption DEF Packets
<1>3. channel' \in Seq(Packets)
  BY <1>1, <1>2, Typed
<1>4. p \in Tasks /\ p \notin Receivers
  BY Typed, QueueAssumption
<1>5. TypeOK'
  BY <1>1, <1>2, <1>3, <1>4 DEF QueueInv, TypeOK
<1>6. \A t \in Receivers : pc'[t] = pc[t]
  BY <1>1, <1>4, Typed DEF QueueInv, TypeOK
<1>7. Roles'
  BY <1>1, <1>4, <1>6, Typed DEF QueueInv, TypeOK, Roles, Receivers
<1>8. Mutex' /\ Hands'
  BY <1>1, <1>6 DEF QueueInv, Mutex, Hands
<1>9. QED
  BY <1>5, <1>7, <1>8 DEF QueueInv

LEMMA CountSentInv ==
  ASSUME QueueInv, NEW p \in Producers, CountSent(p)
  PROVE  QueueInv'
<1>1. /\ pc[p] = "sent" /\ pc' = [pc EXCEPT ![p] = "idle"]
      /\ length' = (length + 1) % Modulus
      /\ UNCHANGED <<channel, receiver, inHand, accepted, returned, cleared>>
  BY DEF CountSent, Move
<1>2. length' \in 0 .. Modulus - 1
  BY <1>1, Typed, Remainder
<1>3. p \in Tasks /\ p \notin Receivers
  BY Typed, QueueAssumption
<1>4. TypeOK'
  BY <1>1, <1>2, <1>3 DEF QueueInv, TypeOK
<1>5. \A t \in Receivers : pc'[t] = pc[t]
  BY <1>1, <1>3, Typed DEF QueueInv, TypeOK
<1>6. Roles'
  BY <1>1, <1>3, <1>5, Typed DEF QueueInv, TypeOK, Roles, Receivers
<1>7. Mutex' /\ Hands'
  BY <1>1, <1>5 DEF QueueInv, Mutex, Hands
<1>8. QED
  BY <1>4, <1>6, <1>7 DEF QueueInv

(* A receiver that goes on: what its step has to say of itself, the others *)
(* stay as they are.                                                       *)
LEMMA ReceiverStep ==
  ASSUME QueueInv, NEW t \in Receivers, NEW to, NEW hand \in Seq(Packets),
         pc' = [pc EXCEPT ![t] = to], inHand' = [inHand EXCEPT ![t] = hand],
         t \in Consumers => to \in {"idle", "lock", "recv", "got"},
         t \in Clearers => to \in {"idle", "lock", "drain"},
         \/ receiver' = receiver /\ (receiver = t <=> to \in {"recv", "got", "drain"})
         \/ receiver = Nobody /\ receiver' = t /\ to \in {"recv", "got", "drain"}
         \/ receiver = t /\ receiver' = Nobody /\ to \notin {"recv", "got", "drain"},
         to \notin {"got", "drain"} => hand = <<>>,
         to = "got" => Len(hand) = 1,
         channel' \in Seq(Packets), length' \in 0 .. Modulus - 1,
         accepted' = accepted, returned' \in Seq(Packets), cleared' \in Seq(Packets)
  PROVE  QueueInv'
<1>1. t \in Tasks /\ t \notin Producers /\ Nobody \notin Receivers
  BY Typed, QueueAssumption
<1>2. /\ pc'[t] = to /\ inHand'[t] = hand
      /\ \A s \in Tasks : s # t => pc'[s] = pc[s]
      /\ \A s \in Receivers : s # t => inHand'[s] = inHand[s]
  BY <1>1 DEF QueueInv, TypeOK
<1>3. to \in {"idle", "sent", "lock", "recv", "got", "drain"}
  BY DEF Receivers
<1>4. receiver' \in Receivers \cup {Nobody}
  BY DEF QueueInv, TypeOK
<1>5. pc' \in [Tasks -> {"idle", "sent", "lock", "recv", "got", "drain"}]
  BY <1>1, <1>3 DEF QueueInv, TypeOK
<1>6. inHand' \in [Receivers -> Seq(Packets)]
  BY DEF QueueInv, TypeOK
<1>7. TypeOK'
  BY <1>4, <1>5, <1>6, Typed DEF TypeOK
<1>8. Roles'
  BY <1>1, <1>2, Typed DEF QueueInv, Roles
<1>9. Mutex'
  BY <1>1, <1>2, Typed DEF QueueInv, Mutex
<1>10. Hands'
  BY <1>1, <1>2, Typed DEF QueueInv, Hands
<1>11. QED
  BY <1>7, <1>8, <1>9, <1>10 DEF QueueInv

(* Steps that leave a receiver's packets alone. *)
LEMMA SameHand ==
  ASSUME QueueInv, NEW t \in Receivers
  PROVE  inHand = [inHand EXCEPT ![t] = inHand[t]] /\ inHand[t] \in Seq(Packets)
BY DEF QueueInv, TypeOK

LEMMA CallInv ==
  ASSUME QueueInv, NEW t \in Receivers, Call(t) \/ Lock(t) \/ Cancel(t)
  PROVE  QueueInv'
<1>1. /\ UNCHANGED <<channel, length, inHand, accepted, returned, cleared>>
      /\ inHand' = [inHand EXCEPT ![t] = inHand[t]] /\ inHand[t] \in Seq(Packets)
  BY SameHand DEF Call, Lock, Cancel
<1>2. /\ t \in Consumers \/ t \in Clearers
      /\ ~(t \in Consumers /\ t \in Clearers) /\ t # Nobody
  BY Typed, QueueAssumption DEF Receivers
<1>3. /\ receiver = t <=> pc[t] \in {"recv", "got", "drain"}
      /\ pc[t] \notin {"got", "drain"} => inHand[t] = <<>>
  BY DEF QueueInv, Mutex, Hands
<1>4. CASE Call(t)
  <2>1. pc[t] = "idle" /\ pc' = [pc EXCEPT ![t] = "lock"] /\ receiver' = receiver
    BY <1>4 DEF Call, Move
  <2>2. QED
    BY <1>1, <1>2, <1>3, <2>1, ReceiverStep, Typed
<1>5. CASE Lock(t)
  <2>1. /\ pc[t] = "lock" /\ receiver = Nobody /\ receiver' = t
        /\ pc' = [pc EXCEPT ![t] = IF t \in Consumers THEN "recv" ELSE "drain"]
    BY <1>5 DEF Lock, Move
  <2>2. QED
    BY <1>1, <1>2, <1>3, <2>1, ReceiverStep, Typed
<1>6. CASE Cancel(t)
  <2>1. /\ pc[t] \in {"lock", "recv"} /\ pc' = [pc EXCEPT ![t] = "idle"]
        /\ receiver' = IF receiver = t THEN Nobody ELSE receiver
    BY <1>6 DEF Cancel, Release
  <2>2. QED
    BY <1>1, <1>2, <1>3, <2>1, ReceiverStep, Typed
<1>7. QED
  BY <1>4, <1>5, <1>6

(* Taking a packet off the channel moves it into the receiver's hand. *)
LEMMA TakeTyped ==
  ASSUME QueueInv, NEW t \in Receivers, Take(t)
  PROVE  /\ channel # <<>> /\ channel' = Tail(channel) /\ Head(channel) \in Packets
         /\ inHand' = [inHand EXCEPT ![t] = Append(inHand[t], Head(channel))]
         /\ inHand'[t] = Append(inHand[t], Head(channel))
         /\ channel' \in Seq(Packets) /\ inHand'[t] \in Seq(Packets)
         /\ Len(channel') = Len(channel) - 1 /\ Len(inHand'[t]) = Len(inHand[t]) + 1
<1>1. /\ channel # <<>> /\ channel' = Tail(channel)
      /\ inHand' = [inHand EXCEPT ![t] = Append(inHand[t], Head(channel))]
  BY DEF Take
<1>2. channel \in Seq(Packets) /\ inHand[t] \in Seq(Packets)
  BY Typed
<1>3. /\ Head(channel) \in Packets /\ Tail(channel) \in Seq(Packets)
      /\ Len(Tail(channel)) = Len(channel) - 1
  BY <1>1, <1>2, HeadTailProperties
<1>4. inHand'[t] = Append(inHand[t], Head(channel))
  BY <1>1 DEF QueueInv, TypeOK
<1>5. /\ Append(inHand[t], Head(channel)) \in Seq(Packets)
      /\ Len(Append(inHand[t], Head(channel))) = Len(inHand[t]) + 1
  BY <1>2, <1>3, AppendProperties
<1>6. QED
  BY <1>1, <1>3, <1>4, <1>5

LEMMA TakeInv ==
  ASSUME QueueInv, NEW t \in Receivers,
         (t \in Consumers /\ Recv(t)) \/ (t \in Clearers /\ DrainOne(t))
  PROVE  QueueInv'
<1>1. /\ ~(t \in Consumers /\ t \in Clearers) /\ t # Nobody /\ t \in Tasks
      /\ receiver = t <=> pc[t] \in {"recv", "got", "drain"}
      /\ pc[t] \notin {"got", "drain"} => inHand[t] = <<>>
  BY Typed, QueueAssumption DEF QueueInv, Mutex, Hands
<1>2. CASE t \in Consumers /\ Recv(t)
  <2>1. /\ pc[t] = "recv" /\ pc' = [pc EXCEPT ![t] = "got"] /\ Take(t)
        /\ UNCHANGED <<length, receiver, accepted, returned, cleared>>
    BY <1>2 DEF Recv, Move
  <2>2. /\ inHand' = [inHand EXCEPT ![t] = inHand'[t]] /\ inHand'[t] \in Seq(Packets)
        /\ channel' \in Seq(Packets) /\ Len(inHand'[t]) = Len(inHand[t]) + 1
    BY <2>1, TakeTyped
  <2>3. Len(inHand[t]) = 0
    BY <1>1, <2>1
  <2>4. Len(inHand'[t]) = 1
    BY <2>2, <2>3
  <2>5. QED
    BY <1>1, <1>2, <2>1, <2>2, <2>4, ReceiverStep, Typed
<1>3. CASE t \in Clearers /\ DrainOne(t)
  <2>1. /\ pc[t] = "drain" /\ Take(t)
        /\ UNCHANGED <<length, receiver, pc, accepted, returned, cleared>>
    BY <1>3 DEF DrainOne
  <2>2. pc' = [pc EXCEPT ![t] = "drain"]
    BY <1>1, <2>1 DEF QueueInv, TypeOK
  <2>3. QED
    BY <1>1, <1>3, <2>1, <2>2, TakeTyped, ReceiverStep, Typed
<1>4. QED
  BY <1>2, <1>3

LEMMA LeaveInv ==
  ASSUME QueueInv, NEW t \in Receivers,
         (t \in Consumers /\ Return(t)) \/ (t \in Clearers /\ DrainEnd(t))
  PROVE  QueueInv'
<1> DEFINE k == IF pc[t] = "got" THEN 1 ELSE Len(inHand[t])
<1>1. /\ receiver = t <=> pc[t] \in {"recv", "got", "drain"}
      /\ t # Nobody /\ inHand[t] \in Seq(Packets) /\ k \in Int
      /\ returned \o inHand[t] \in Seq(Packets) /\ cleared \o inHand[t] \in Seq(Packets)
  BY Typed, QueueAssumption DEF QueueInv, Mutex
<1>2. /\ pc[t] \in {"got", "drain"} /\ pc' = [pc EXCEPT ![t] = "idle"]
      /\ Leave(t, k) /\ UNCHANGED <<channel, accepted>>
      /\ returned' \in Seq(Packets) /\ cleared' \in Seq(Packets)
  BY <1>1, Typed DEF Return, DrainEnd, Move
<1>3. length' = (length - k) % Modulus
  BY <1>2 DEF Leave
<1>4. length' \in 0 .. Modulus - 1
  <2>1. length - k \in Int
    BY <1>1, Typed
  <2> HIDE DEF k
  <2>2. QED
    BY <1>3, <2>1, Typed, Remainder
<1>5. receiver' = Nobody /\ inHand' = [inHand EXCEPT ![t] = <<>>] /\ <<>> \in Seq(Packets)
  BY <1>2 DEF Leave
<1>6. QED
  BY <1>1, <1>2, <1>4, <1>5, ReceiverStep, Typed

LEMMA QueueStep == QueueInv /\ [Next]_vars => QueueInv'
<1> SUFFICES ASSUME QueueInv, [Next]_vars PROVE QueueInv'
  OBVIOUS
<1>1. CASE \E p \in Producers : TrySend(p) \/ CountSent(p)
  BY <1>1, TrySendInv, CountSentInv
<1>2. CASE \E t \in Receivers : Call(t) \/ Lock(t) \/ Cancel(t)
  BY <1>2, CallInv
<1>3. CASE \E c \in Consumers : Recv(c) \/ Return(c)
  <2>1. PICK t \in Consumers : Recv(t) \/ Return(t)
    BY <1>3
  <2>2. t \in Receivers
    BY Typed
  <2>3. CASE Recv(t)
    BY <2>2, <2>3, TakeInv
  <2>4. CASE Return(t)
    BY <2>2, <2>4, LeaveInv
  <2>5. QED
    BY <2>1, <2>3, <2>4
<1>4. CASE \E t \in Clearers : DrainOne(t) \/ DrainEnd(t)
  <2>1. PICK t \in Clearers : DrainOne(t) \/ DrainEnd(t)
    BY <1>4
  <2>2. t \in Receivers
    BY Typed
  <2>3. CASE DrainOne(t)
    BY <2>2, <2>3, TakeInv
  <2>4. CASE DrainEnd(t)
    BY <2>2, <2>4, LeaveInv
  <2>5. QED
    BY <2>1, <2>3, <2>4
<1>5. CASE UNCHANGED vars
  BY <1>5 DEF vars, QueueInv, TypeOK, Roles, Mutex, Hands
<1>6. QED
  BY <1>1, <1>2, <1>3, <1>4, <1>5 DEF Next

(* Lock, positions in the calls and packets in hand agree in every state:  *)
(* whoever is past the lock holds it, and nobody else holds a packet, so   *)
(* that dropping a waiting future loses none (queue.rs:84-91).             *)
THEOREM QueueInvariant == Spec => []QueueInv
BY QueueInvInit, QueueStep, PTL DEF Spec

(* Every variable keeps its type; the length stays within the width of     *)
(* the AtomicUsize (queue.rs:30-40).                                       *)
THEOREM QueueTypeCorrect == Spec => []TypeOK
BY QueueInvariant, PTL DEF QueueInv

-----------------------------------------------------------------------------
(* The length: what a step adds to it, the step also adds to the packets   *)
(* it stands for.                                                          *)
Sent == {p \in Producers : pc[p] = "sent"}

Owed == Len(channel) + InHandCount - Cardinality(Sent)

LEMMA SentFinite == IsFiniteSet(Sent) /\ Cardinality(Sent) \in Nat
<1>1. Sent \subseteq Tasks
  BY DEF Sent, Tasks
<1>2. IsFiniteSet(Sent)
  BY <1>1, FS_Subset, QueueAssumption
<1>3. QED
  BY <1>2, FS_CardinalityType

LEMMA OwedIsInt == QueueInv => Owed \in Int /\ InHandCount \in Nat /\ Len(channel) \in Nat
<1> SUFFICES ASSUME QueueInv
             PROVE  Owed \in Int /\ InHandCount \in Nat /\ Len(channel) \in Nat
  OBVIOUS
<1>1. Len(channel) \in Nat
  BY Typed, LenProperties
<1>2. receiver # Nobody => receiver \in Receivers /\ inHand[receiver] \in Seq(Packets)
  BY Typed DEF QueueInv, TypeOK
<1>3. InHandCount \in Nat
  BY <1>2, LenProperties DEF InHandCount
<1>4. QED
  BY <1>1, <1>3, SentFinite DEF Owed

(* A step that adds k to the length and k to what it stands for. *)
LEMMA LengthStep ==
  ASSUME QueueInv, QueueInv', length = Owed % Modulus,
         NEW k \in Int, length' = (length + k) % Modulus, Owed' = Owed + k
  PROVE  length' = Owed' % Modulus
BY ModAdd, OwedIsInt, Typed, Zenon

LEMMA LengthSame ==
  ASSUME length = Owed % Modulus, length' = length, Owed' = Owed
  PROVE  length' = Owed' % Modulus
OBVIOUS

(* A receiver's steps leave the producers alone. *)
LEMMA SentSame ==
  ASSUME QueueInv, NEW t \in Receivers, NEW to, pc' = [pc EXCEPT ![t] = to]
  PROVE  Sent' = Sent
<1>1. \A p \in Producers : pc'[p] = pc[p]
  BY QueueAssumption, Typed DEF QueueInv, TypeOK
<1>2. QED
  BY <1>1 DEF Sent

LEMMA TrySendLength ==
  ASSUME QueueInv, QueueInv', NEW p \in Producers, TrySend(p)
  PROVE  Owed' = Owed
<1>1. /\ pc[p] = "idle" /\ pc' = [pc EXCEPT ![p] = "sent"]
      /\ channel' = Append(channel, accepted') /\ receiver' = receiver /\ inHand' = inHand
  BY DEF TrySend, Move
<1>2. pc \in [Tasks -> {"idle", "sent", "lock", "recv", "got", "drain"}] /\ p \in Tasks
  BY Typed DEF QueueInv, TypeOK
<1>3. Sent' = Sent \cup {p} /\ p \notin Sent
  BY <1>1, <1>2, Typed DEF Sent
<1>4. Cardinality(Sent') = Cardinality(Sent) + 1
  BY <1>3, SentFinite, FS_AddElement
<1>5. channel \in Seq(Packets) /\ accepted' \in Packets
  <2>1. accepted' = accepted + 1 /\ accepted < MaxPackets
    BY DEF TrySend
  <2>2. QED
    BY <2>1, Typed, QueueAssumption DEF Packets
<1>6. Len(channel') = Len(channel) + 1
  BY <1>1, <1>5, AppendProperties
<1>7. InHandCount' = InHandCount
  BY <1>1 DEF InHandCount
<1>8. Len(channel) \in Nat /\ InHandCount \in Nat /\ Cardinality(Sent) \in Nat
  BY OwedIsInt, SentFinite
<1>9. QED
  BY <1>4, <1>6, <1>7, <1>8 DEF Owed

LEMMA CountSentLength ==
  ASSUME QueueInv, QueueInv', NEW p \in Producers, CountSent(p)
  PROVE  Owed' = Owed + 1
<1>1. /\ pc[p] = "sent" /\ pc' = [pc EXCEPT ![p] = "idle"]
      /\ channel' = channel /\ receiver' = receiver /\ inHand' = inHand
  BY DEF CountSent, Move
<1>2. pc \in [Tasks -> {"idle", "sent", "lock", "recv", "got", "drain"}] /\ p \in Tasks
  BY Typed DEF QueueInv, TypeOK
<1>3. Sent' = Sent \ {p} /\ p \in Sent
  BY <1>1, <1>2, Typed DEF Sent
<1>4. Cardinality(Sent') = Cardinality(Sent) - 1
  BY <1>3, SentFinite, FS_RemoveElement
<1>5. InHandCount' = InHandCount /\ Len(channel') = Len(channel)
  BY <1>1 DEF InHandCount
<1>6. Len(channel) \in Nat /\ InHandCount \in Nat /\ Cardinality(Sent) \in Nat
  BY OwedIsInt, SentFinite
<1>7. QED
  BY <1>4, <1>5, <1>6 DEF Owed

LEMMA CallLength ==
  ASSUME QueueInv, QueueInv', NEW t \in Receivers, Call(t) \/ Lock(t) \/ Cancel(t)
  PROVE  Owed' = Owed
<1>1. PICK to : pc' = [pc EXCEPT ![t] = to] /\ channel' = channel /\ inHand' = inHand
  BY DEF Call, Lock, Cancel, Move
<1>2. Sent' = Sent
  BY <1>1, SentSame
<1>3. pc[t] \notin {"got", "drain"} => inHand[t] = <<>>
  BY DEF QueueInv, Hands
<1>4. InHandCount' = InHandCount
  BY <1>1, <1>3, QueueAssumption DEF Call, Lock, Cancel, Release, Move, InHandCount, Tasks
<1>5. QED
  BY <1>1, <1>2, <1>4 DEF Owed

LEMMA TakeLength ==
  ASSUME QueueInv, QueueInv', NEW t \in Receivers, Take(t),
         receiver = t, receiver' = t, NEW to, pc' = [pc EXCEPT ![t] = to]
  PROVE  Owed' = Owed /\ Len(channel') + InHandCount' = Len(channel) + InHandCount
<1>1. /\ Len(channel') = Len(channel) - 1 /\ Len(inHand'[t]) = Len(inHand[t]) + 1
  BY TakeTyped
<1>2. InHandCount = Len(inHand[t]) /\ InHandCount' = Len(inHand'[t])
  BY QueueAssumption DEF InHandCount, Tasks
<1>3. Sent' = Sent
  BY SentSame
<1>4. Len(channel) \in Nat /\ InHandCount \in Nat /\ Cardinality(Sent) \in Nat
  BY OwedIsInt, SentFinite
<1>5. QED
  BY <1>1, <1>2, <1>3, <1>4 DEF Owed

LEMMA LeaveLength ==
  ASSUME QueueInv, QueueInv', NEW t \in Receivers, receiver = t, Leave(t, Len(inHand[t])),
         channel' = channel, NEW to, pc' = [pc EXCEPT ![t] = to]
  PROVE  Owed' = Owed - Len(inHand[t]) /\ length' = (length - Len(inHand[t])) % Modulus
<1>1. receiver' = Nobody /\ length' = (length - Len(inHand[t])) % Modulus
  BY DEF Leave
<1>2. InHandCount = Len(inHand[t]) /\ InHandCount' = 0
  BY <1>1, QueueAssumption DEF InHandCount, Tasks
<1>3. Sent' = Sent
  BY SentSame
<1>4. Len(channel) \in Nat /\ InHandCount \in Nat /\ Cardinality(Sent) \in Nat
  BY OwedIsInt, SentFinite
<1>5. QED
  BY <1>1, <1>2, <1>3, <1>4 DEF Owed

(* The steps of one receiver: who holds the mutex and what is in hand. *)
LEMMA HolderFacts ==
  ASSUME QueueInv, NEW t \in Receivers
  PROVE  /\ Recv(t) \/ DrainOne(t) => /\ Take(t) /\ receiver = t /\ receiver' = t
                                       /\ \E to : pc' = [pc EXCEPT ![t] = to]
         /\ Return(t) \/ DrainEnd(t) => /\ Leave(t, Len(inHand[t])) /\ receiver = t
                                         /\ channel' = channel
                                         /\ \E to : pc' = [pc EXCEPT ![t] = to]
<1>1. /\ receiver = t <=> pc[t] \in {"recv", "got", "drain"}
      /\ pc[t] = "got" => Len(inHand[t]) = 1
  BY DEF QueueInv, Mutex, Hands
<1>2. ASSUME Recv(t) \/ DrainOne(t)
      PROVE  /\ Take(t) /\ receiver = t /\ receiver' = t
             /\ \E to : pc' = [pc EXCEPT ![t] = to]
  <2>1. CASE Recv(t)
    BY <1>1, <2>1 DEF Recv, Move
  <2>2. CASE DrainOne(t)
    <3>1. pc[t] = "drain" /\ pc' = pc /\ Take(t) /\ receiver' = receiver
      BY <2>2 DEF DrainOne
    <3>2. pc' = [pc EXCEPT ![t] = "drain"]
      BY <3>1, Typed DEF QueueInv, TypeOK
    <3>3. QED
      BY <1>1, <3>1, <3>2
  <2>3. QED
    BY <1>2, <2>1, <2>2
<1>3. ASSUME Return(t) \/ DrainEnd(t)
      PROVE  /\ Leave(t, Len(inHand[t])) /\ receiver = t /\ channel' = channel
             /\ \E to : pc' = [pc EXCEPT ![t] = to]
  BY <1>1, <1>3 DEF Return, DrainEnd, Move
<1>4. QED
  BY <1>2, <1>3

LEMMA LengthInit == Init => length = Owed % Modulus
<1> SUFFICES ASSUME Init PROVE length = Owed % Modulus
  OBVIOUS
<1>1. /\ pc = [t \in Tasks |-> "idle"] /\ channel = <<>> /\ receiver = Nobody /\ length = 0
  BY DEF Init
<1>2. Sent = {}
  BY <1>1 DEF Sent, Tasks
<1>3. Owed = 0
  BY <1>1, <1>2, FS_EmptySet DEF Owed, InHandCount
<1>4. 0 % Modulus = 0
  BY QueueAssumption
<1>5. QED
  BY <1>1, <1>3, <1>4

LEMMA LengthNext ==
  QueueInv /\ QueueInv' /\ length = Owed % Modulus /\ [Next]_vars => length' = Owed' % Modulus
<1> SUFFICES ASSUME QueueInv, QueueInv', length = Owed % Modulus, [Next]_vars
             PROVE  length' = Owed' % Modulus
  OBVIOUS
<1>1. ASSUME NEW p \in Producers, TrySend(p) PROVE length' = Owed' % Modulus
  <2>1. length' = length
    BY <1>1 DEF TrySend
  <2>2. QED
    BY <1>1, <2>1, TrySendLength, LengthSame
<1>2. ASSUME NEW p \in Producers, CountSent(p) PROVE length' = Owed' % Modulus
  <2>1. length' = (length + 1) % Modulus /\ 1 \in Int
    BY <1>2 DEF CountSent
  <2>2. QED
    BY <1>2, <2>1, CountSentLength, LengthStep
<1>3. ASSUME NEW t \in Receivers, Call(t) \/ Lock(t) \/ Cancel(t) PROVE length' = Owed' % Modulus
  <2>1. length' = length
    BY <1>3 DEF Call, Lock, Cancel
  <2>2. QED
    BY <1>3, <2>1, CallLength, LengthSame
<1>4. ASSUME NEW t \in Receivers, Recv(t) \/ DrainOne(t) PROVE length' = Owed' % Modulus
  <2>1. length' = length
    BY <1>4 DEF Recv, DrainOne
  <2>2. Owed' = Owed
    BY <1>4, HolderFacts, TakeLength
  <2>3. QED
    BY <2>1, <2>2, LengthSame
<1>5. ASSUME NEW t \in Receivers, Return(t) \/ DrainEnd(t) PROVE length' = Owed' % Modulus
  <2>1. Owed' = Owed - Len(inHand[t]) /\ length' = (length - Len(inHand[t])) % Modulus
    BY <1>5, HolderFacts, LeaveLength
  <2>2. Len(inHand[t]) \in Nat
    BY Typed, LenProperties
  <2>3. PICK k \in Int : k = -Len(inHand[t])
    BY <2>2
  <2>4. Owed' = Owed + k
    BY <2>1, <2>2, <2>3, OwedIsInt
  <2>5. length - Len(inHand[t]) = length + k
    BY <2>2, <2>3, Typed
  <2>6. length' = (length + k) % Modulus
    BY <2>1, <2>5
  <2>7. QED
    BY <2>4, <2>6, LengthStep
<1>6. CASE UNCHANGED vars
  <2>1. length' = length /\ Owed' = Owed
    BY <1>6 DEF vars, Owed, Sent, InHandCount
  <2>2. QED
    BY <2>1, LengthSame
<1>7. Consumers \subseteq Receivers /\ Clearers \subseteq Receivers
  BY Typed
<1>8. QED
  BY <1>1, <1>2, <1>3, <1>4, <1>5, <1>6, <1>7 DEF Next

(* The atomic length differs from the channel's only by the updates of     *)
(* calls in progress, modulo the width of the counter (queue.rs:58-105).   *)
THEOREM LengthIsAccurate == Spec => []LengthAccounting
<1> DEFINE Exact == length = Owed % Modulus
<1>1. Init => QueueInv /\ Exact
  BY QueueInvInit, LengthInit
<1>2. QueueInv /\ Exact /\ [Next]_vars => (QueueInv /\ Exact)'
  BY QueueStep, LengthNext
<1>3. QueueInv /\ Exact => LengthAccounting
  BY DEF LengthAccounting, Owed, Sent
<1>4. QED
  BY <1>1, <1>2, <1>3, PTL DEF Spec

-----------------------------------------------------------------------------
(* The refinement: four facts about sequences, one step each. *)
LEMMA ConcatAppend ==
  ASSUME NEW S, NEW h \in Seq(S), NEW c \in Seq(S), NEW x \in S
  PROVE  h \o Append(c, x) = Append(h \o c, x)
<1>1. <<x>> \in Seq(S) /\ h \o c \in Seq(S)
  BY ConcatProperties
<1>2. Append(c, x) = c \o <<x>> /\ Append(h \o c, x) = (h \o c) \o <<x>>
  BY <1>1, AppendIsConcat
<1>3. QED
  BY <1>1, <1>2, ConcatAssociative

LEMMA MoveHead ==
  ASSUME NEW S, NEW h \in Seq(S), NEW c \in Seq(S), c # <<>>
  PROVE  Append(h, Head(c)) \o Tail(c) = h \o c
<1>1. Head(c) \in S /\ Tail(c) \in Seq(S) /\ <<Head(c)>> \in Seq(S)
  BY HeadTailProperties
<1>2. c = <<Head(c)>> \o Tail(c)
  OBVIOUS
<1>3. Append(h, Head(c)) = h \o <<Head(c)>>
  BY <1>1, AppendIsConcat
<1>4. (h \o <<Head(c)>>) \o Tail(c) = h \o (<<Head(c)>> \o Tail(c))
  BY <1>1, ConcatAssociative
<1>5. QED
  BY <1>2, <1>3, <1>4

LEMMA OneInHand ==
  ASSUME NEW S, NEW h \in Seq(S), NEW c \in Seq(S), Len(h) = 1, NEW r \in Seq(S)
  PROVE  /\ Tail(h \o c) = c
         /\ r \o h = Append(r, Head(h \o c))
<1>1. h = <<h[1]>> /\ h[1] \in S
  <2>1. h[1] \in S /\ <<h[1]>> \in Seq(S) /\ Len(<<h[1]>>) = 1 /\ <<h[1]>>[1] = h[1]
    <3>1. 1 \in 1 .. Len(h)
      OBVIOUS
    <3>2. h[1] \in S
      BY <3>1, ElementOfSeq
    <3>3. QED
      BY <3>2
  <2>2. \A i \in 1 .. Len(h) : h[i] = <<h[1]>>[i]
    BY <2>1
  <2>3. QED
    BY <2>1, <2>2, SeqEqual
<1>2. Head(h \o c) = h[1] /\ Tail(h \o c) = c
  <2>1. /\ h \o c \in Seq(S) /\ Len(h \o c) = 1 + Len(c) /\ Len(c) \in Nat
        /\ (h \o c)[1] = h[1]
        /\ \A i \in 1 .. Len(c) : (h \o c)[i + 1] = c[i]
    <3>1. Len(c) \in Nat
      BY LenProperties
    <3>2. /\ h \o c \in Seq(S) /\ Len(h \o c) = Len(h) + Len(c)
          /\ \A i \in 1 .. Len(h) + Len(c) :
                (h \o c)[i] = IF i <= Len(h) THEN h[i] ELSE c[i - Len(h)]
      BY ConcatProperties
    <3>3. ASSUME NEW i \in 1 .. Len(c) PROVE (h \o c)[i + 1] = c[i]
      <4>1. i + 1 \in 1 .. Len(h) + Len(c) /\ ~(i + 1 <= Len(h)) /\ (i + 1) - Len(h) = i
        BY <3>1
      <4>2. QED
        BY <3>2, <4>1
    <3>4. QED
      BY <3>1, <3>2, <3>3
  <2>2. h \o c # <<>> /\ Head(h \o c) = (h \o c)[1]
    BY <2>1
  <2>3. /\ Tail(h \o c) \in Seq(S) /\ Len(Tail(h \o c)) = Len(c)
        /\ \A i \in 1 .. Len(Tail(h \o c)) : Tail(h \o c)[i] = (h \o c)[i + 1]
    BY <2>1, <2>2, HeadTailProperties
  <2>4. Tail(h \o c) = c
    BY <2>1, <2>3, SeqEqual
  <2>5. QED
    BY <2>1, <2>2, <2>4
<1>3. Append(r, h[1]) = r \o <<h[1]>>
  BY <1>1, AppendIsConcat
<1>4. QED
  BY <1>1, <1>2, <1>3

(* What is held is what the holder has in hand and then the channel. *)
LEMMA HoldingTyped ==
  ASSUME QueueInv
  PROVE  /\ Holding \in Seq(Packets) /\ InHandCount \in Nat
         /\ Len(Holding) = InHandCount + Len(channel)
<1>1. CASE receiver = Nobody
  BY <1>1, Typed, LenProperties DEF Holding, InHandCount
<1>2. CASE receiver # Nobody
  <2>1. inHand[receiver] \in Seq(Packets) /\ channel \in Seq(Packets)
    BY <1>2, Typed DEF QueueInv, TypeOK
  <2>2. QED
    BY <1>2, <2>1, ConcatProperties, LenProperties DEF Holding, InHandCount
<1>3. QED
  BY <1>1, <1>2

LEMMA TrySendPuts ==
  ASSUME QueueInv, QueueInv', NEW p \in Producers, TrySend(p)
  PROVE  Fifo!Put
<1>1. /\ accepted < MaxPackets /\ Len(channel) < ChannelCapacity
      /\ accepted' = accepted + 1 /\ channel' = Append(channel, accepted')
      /\ receiver' = receiver /\ inHand' = inHand /\ returned' = returned /\ cleared' = cleared
  BY DEF TrySend
<1>2. accepted' \in Packets /\ channel \in Seq(Packets)
  BY <1>1, Typed, QueueAssumption DEF Packets
<1>3. InHandCount' = InHandCount
  BY <1>1 DEF InHandCount
<1>4. Len(Holding) - InHandCount < ChannelCapacity
  <2>1. Len(Holding) - InHandCount = Len(channel)
    BY HoldingTyped, OwedIsInt
  <2>2. QED
    BY <1>1, <2>1
<1>5. Holding' = Append(Holding, accepted')
  <2>1. CASE receiver = Nobody
    BY <1>1, <2>1 DEF Holding
  <2>2. CASE receiver # Nobody
    <3>1. inHand[receiver] \in Seq(Packets)
      BY <2>2, Typed DEF QueueInv, TypeOK
    <3>2. inHand[receiver] \o Append(channel, accepted') = Append(inHand[receiver] \o channel, accepted')
      <4>1. PICK h \in Seq(Packets), c \in Seq(Packets), x \in Packets :
              h = inHand[receiver] /\ c = channel /\ x = accepted'
        BY <1>2, <3>1
      <4>2. h \o Append(c, x) = Append(h \o c, x)
        BY ConcatAppend
      <4>3. QED
        BY <4>1, <4>2
    <3>3. Holding = inHand[receiver] \o channel
      BY <2>2 DEF Holding
    <3>4. Holding' = inHand'[receiver'] \o channel'
      BY <1>1, <2>2 DEF Holding
    <3>5. inHand'[receiver'] \o channel' = inHand[receiver] \o Append(channel, accepted')
      BY <1>1
    <3>6. QED
      BY <3>2, <3>3, <3>4, <3>5
  <2>3. QED
    BY <2>1, <2>2
<1>6. QED
  BY <1>1, <1>3, <1>4, <1>5 DEF Fifo!Put

LEMMA CallStutters ==
  ASSUME QueueInv, NEW t \in Receivers, Call(t) \/ Lock(t) \/ Cancel(t)
  PROVE  UNCHANGED <<Holding, InHandCount, returned, cleared, accepted>>
<1>1. /\ inHand' = inHand /\ channel' = channel /\ pc[t] \notin {"got", "drain"}
      /\ \/ receiver' = receiver
         \/ receiver = Nobody /\ receiver' = t
         \/ receiver = t /\ receiver' = Nobody
      /\ returned' = returned /\ cleared' = cleared /\ accepted' = accepted
  BY DEF Call, Lock, Cancel, Release, Move
<1>2. inHand[t] = <<>> /\ t # Nobody
  BY <1>1, QueueAssumption DEF QueueInv, Hands, Tasks
<1>3. <<>> \o channel = channel
  BY Typed, ConcatEmptySeq
<1>4. CASE receiver' = receiver
  BY <1>1, <1>4 DEF Holding, InHandCount
<1>5. CASE {receiver, receiver'} = {t, Nobody}
  <2>1. inHand[t] \o channel = channel /\ Len(inHand[t]) = 0
    BY <1>2, <1>3
  <2>2. /\ Holding = channel /\ Holding' = channel
        /\ InHandCount = 0 /\ InHandCount' = 0
    BY <1>1, <1>2, <1>5, <2>1 DEF Holding, InHandCount
  <2>3. QED
    BY <1>1, <2>2
<1>6. QED
  BY <1>1, <1>4, <1>5

LEMMA TakeFrees ==
  ASSUME QueueInv, QueueInv', NEW t \in Receivers, Recv(t) \/ DrainOne(t)
  PROVE  Fifo!Free
<1>1. /\ Take(t) /\ receiver = t /\ receiver' = t /\ t # Nobody
      /\ returned' = returned /\ cleared' = cleared /\ accepted' = accepted
  BY HolderFacts, QueueAssumption DEF Recv, DrainOne, Tasks
<1>2. /\ channel # <<>> /\ channel' = Tail(channel)
      /\ inHand'[t] = Append(inHand[t], Head(channel))
      /\ Len(channel') = Len(channel) - 1 /\ Len(inHand'[t]) = Len(inHand[t]) + 1
  BY <1>1, TakeTyped
<1>3. InHandCount' = InHandCount + 1
  BY <1>1, <1>2 DEF InHandCount
<1>4. Holding' = Holding
  <2>1. inHand[t] \in Seq(Packets) /\ channel \in Seq(Packets)
    BY Typed
  <2>2. inHand'[t] \o channel' = inHand[t] \o channel
    BY <1>2, <2>1, MoveHead
  <2>3. QED
    BY <1>1, <2>2 DEF Holding
<1>5. InHandCount < Len(Holding)
  <2>1. Len(channel') \in Nat
    BY <1>1, TakeTyped, LenProperties
  <2>2. QED
    BY <1>2, <2>1, HoldingTyped, OwedIsInt
<1>6. QED
  BY <1>1, <1>3, <1>4, <1>5 DEF Fifo!Free

LEMMA LeaveRemoves ==
  ASSUME QueueInv, NEW t \in Receivers, Return(t) \/ DrainEnd(t)
  PROVE  Fifo!TakeOne \/ Fifo!Clear
<1>1. /\ receiver = t /\ t # Nobody /\ channel' = channel /\ accepted' = accepted
      /\ receiver' = Nobody
  BY HolderFacts, QueueAssumption DEF Leave, Tasks, Return, DrainEnd
<1>2. /\ inHand[t] \in Seq(Packets) /\ channel \in Seq(Packets)
      /\ returned \in Seq(Packets) /\ cleared \in Seq(Packets)
  BY Typed
<1>3. /\ Holding = inHand[t] \o channel /\ InHandCount = Len(inHand[t])
      /\ Holding' = channel /\ InHandCount' = 0
  BY <1>1 DEF Holding, InHandCount
<1>4. CASE Return(t)
  <2>1. Len(inHand[t]) = 1 /\ returned' = returned \o inHand[t] /\ cleared' = cleared
    BY <1>4 DEF Return, Move, QueueInv, Hands
  <2>2. Tail(Holding) = channel /\ returned' = Append(returned, Head(Holding))
    BY <1>2, <1>3, <2>1, OneInHand
  <2>3. QED
    BY <1>1, <1>3, <2>1, <2>2 DEF Fifo!TakeOne
<1>5. CASE DrainEnd(t)
  <2>1. channel = <<>> /\ cleared' = cleared \o inHand[t] /\ returned' = returned
    BY <1>5 DEF DrainEnd
  <2>2. Holding = inHand[t]
    BY <1>2, <1>3, <2>1, ConcatEmptySeq
  <2>3. QED
    BY <1>1, <1>3, <2>1, <2>2 DEF Fifo!Clear
<1>6. QED
  BY <1>4, <1>5

LEMMA InitIsEmpty == Init => Fifo!Init
BY DEF Init, Fifo!Init, Holding, InHandCount

LEMMA StepsAreFifoSteps ==
  QueueInv /\ QueueInv' /\ [Next]_vars => [Fifo!Next]_(Fifo!vars)
<1> SUFFICES ASSUME QueueInv, QueueInv', [Next]_vars
             PROVE  Fifo!Next \/ UNCHANGED <<Holding, InHandCount, returned, cleared, accepted>>
  BY DEF Fifo!vars
<1>1. ASSUME NEW p \in Producers, TrySend(p) PROVE Fifo!Next
  BY <1>1, TrySendPuts DEF Fifo!Next
<1>2. ASSUME NEW p \in Producers, CountSent(p)
      PROVE  UNCHANGED <<Holding, InHandCount, returned, cleared, accepted>>
  BY <1>2 DEF CountSent, Holding, InHandCount
<1>3. ASSUME NEW t \in Receivers, Call(t) \/ Lock(t) \/ Cancel(t)
      PROVE  UNCHANGED <<Holding, InHandCount, returned, cleared, accepted>>
  BY <1>3, CallStutters
<1>4. ASSUME NEW t \in Receivers, Recv(t) \/ DrainOne(t) PROVE Fifo!Next
  BY <1>4, TakeFrees DEF Fifo!Next
<1>5. ASSUME NEW t \in Receivers, Return(t) \/ DrainEnd(t) PROVE Fifo!Next
  BY <1>5, LeaveRemoves DEF Fifo!Next
<1>6. CASE UNCHANGED vars
  BY <1>6 DEF vars, Holding, InHandCount
<1>7. Consumers \subseteq Receivers /\ Clearers \subseteq Receivers
  BY Typed
<1>8. QED
  BY <1>1, <1>2, <1>3, <1>4, <1>5, <1>6, <1>7 DEF Next

(* Calls that take several steps, wait for a lock and may be cancelled do  *)
(* what the queue of one-step calls does (queue.rs:58-105).                *)
THEOREM QueueImplementsFifo == Spec => ImplementsBoundedFifo
<1>1. Spec => Fifo!Spec
  BY QueueInvariant, InitIsEmpty, StepsAreFifoSteps, PTL DEF Spec, Fifo!Spec
<1>2. QED
  BY <1>1 DEF ImplementsBoundedFifo

-----------------------------------------------------------------------------
(* Exactly once, shown of the one-step queue: the packets held are the     *)
(* last ones accepted, in order, and those before them have all left.      *)
Numbered(w, n) == \A i \in 1 .. Len(w) : w[i] = n - Len(w) + i

Elements(s) == {s[i] : i \in 1 .. Len(s)}

Gone(w, r, d, n) ==
  /\ Len(w) + Len(r) + Len(d) = n
  /\ Numbered(w, n)
  /\ Elements(r) \cup Elements(d) = 1 .. (n - Len(w))

LEMMA ElementsOfConcat ==
  ASSUME NEW S, NEW s \in Seq(S), NEW t \in Seq(S)
  PROVE  Elements(s \o t) = Elements(s) \cup Elements(t)
<1> DEFINE u == s \o t
<1>1. /\ Len(s) \in Nat /\ Len(t) \in Nat /\ Len(u) = Len(s) + Len(t)
      /\ \A i \in 1 .. Len(s) + Len(t) : u[i] = IF i <= Len(s) THEN s[i] ELSE t[i - Len(s)]
  BY ConcatProperties, LenProperties
<1> HIDE DEF u
<1>2. ASSUME NEW i \in 1 .. Len(u) PROVE u[i] \in Elements(s) \cup Elements(t)
  <2>1. CASE i <= Len(s)
    BY <1>1, <2>1 DEF Elements
  <2>2. CASE ~(i <= Len(s))
    <3>1. i - Len(s) \in 1 .. Len(t) /\ u[i] = t[i - Len(s)]
      BY <1>1, <2>2
    <3>2. QED
      BY <3>1 DEF Elements
  <2>3. QED
    BY <2>1, <2>2
<1>3. ASSUME NEW i \in 1 .. Len(s) PROVE s[i] \in Elements(u)
  <2>1. i \in 1 .. Len(u) /\ u[i] = s[i]
    BY <1>1
  <2>2. QED
    BY <2>1 DEF Elements
<1>4. ASSUME NEW i \in 1 .. Len(t) PROVE t[i] \in Elements(u)
  <2>1. PICK j \in 1 .. Len(u) : j = i + Len(s)
    BY <1>1
  <2>2. ~(j <= Len(s)) /\ j - Len(s) = i
    BY <1>1, <2>1
  <2>3. u[j] = t[i]
    BY <1>1, <2>2
  <2>4. QED
    BY <2>3 DEF Elements
<1>5. Elements(u) = Elements(s) \cup Elements(t)
  BY <1>2, <1>3, <1>4 DEF Elements
<1>6. QED
  BY <1>5 DEF u

(* The numbers held, as a set. *)
LEMMA ElementsOfNumbered ==
  ASSUME NEW S, NEW w \in Seq(S), NEW n \in Nat, Numbered(w, n)
  PROVE  Elements(w) = (n - Len(w) + 1) .. n
<1>1. Len(w) \in Nat
  BY LenProperties
<1>2. ASSUME NEW i \in 1 .. Len(w) PROVE w[i] \in (n - Len(w) + 1) .. n
  BY <1>1 DEF Numbered
<1>3. ASSUME NEW k \in (n - Len(w) + 1) .. n PROVE k \in Elements(w)
  <2>1. PICK i \in 1 .. Len(w) : k = n - Len(w) + i
    <3>1. k - (n - Len(w)) \in 1 .. Len(w)
      BY <1>1
    <3>2. k = n - Len(w) + (k - (n - Len(w)))
      BY <1>1
    <3>3. QED
      BY <3>1, <3>2
  <2>2. w[i] = k
    BY <2>1 DEF Numbered
  <2>3. QED
    BY <2>2 DEF Elements
<1>4. QED
  BY <1>2, <1>3 DEF Elements

LEMMA GonePut ==
  ASSUME NEW S, NEW w \in Seq(S), NEW r, NEW d, NEW n \in Nat, n + 1 \in S,
         Len(r) \in Nat, Len(d) \in Nat, Gone(w, r, d, n)
  PROVE  Gone(Append(w, n + 1), r, d, n + 1)
<1> DEFINE v == Append(w, n + 1)
<1>1. /\ Len(w) \in Nat /\ Len(v) = Len(w) + 1
      /\ \A i \in 1 .. Len(w) : v[i] = w[i]
      /\ v[Len(w) + 1] = n + 1
  BY LenProperties, AppendProperties
<1> HIDE DEF v
<1>2. Numbered(v, n + 1)
  <2>1. \A i \in 1 .. Len(w) : w[i] = n - Len(w) + i
    BY DEF Gone, Numbered
  <2>2. ASSUME NEW i \in 1 .. Len(v) PROVE v[i] = (n + 1) - Len(v) + i
    <3>1. CASE i = Len(w) + 1
      BY <1>1, <3>1
    <3>2. CASE i # Len(w) + 1
      <4>1. i \in 1 .. Len(w)
        BY <1>1, <3>2
      <4>2. v[i] = n - Len(w) + i
        BY <1>1, <2>1, <4>1
      <4>3. QED
        BY <1>1, <4>2
    <3>3. QED
      BY <3>1, <3>2
  <2>3. QED
    BY <2>2 DEF Numbered
<1>3. Len(v) + Len(r) + Len(d) = n + 1 /\ (n + 1) - Len(v) = n - Len(w)
  BY <1>1 DEF Gone
<1>4. Elements(r) \cup Elements(d) = 1 .. ((n + 1) - Len(v))
  BY <1>3 DEF Gone
<1>5. QED
  BY <1>2, <1>3, <1>4 DEF Gone, v

LEMMA GoneTake ==
  ASSUME NEW S, NEW w \in Seq(S), NEW r \in Seq(S), NEW d \in Seq(S), NEW n \in Nat,
         w # <<>>, Gone(w, r, d, n)
  PROVE  Gone(Tail(w), Append(r, Head(w)), d, n)
<1> DEFINE v == Tail(w)
           q == Append(r, Head(w))
<1>1. /\ Len(w) \in Nat /\ Len(r) \in Nat /\ Len(d) \in Nat /\ Len(w) > 0
      /\ Len(v) = Len(w) - 1 /\ Head(w) \in S /\ Head(w) = w[1]
      /\ \A i \in 1 .. Len(v) : v[i] = w[i + 1]
  BY LenProperties, HeadTailProperties
<1>2. Len(q) = Len(r) + 1 /\ q = r \o <<Head(w)>> /\ <<Head(w)>> \in Seq(S)
  BY <1>1, AppendProperties, AppendIsConcat
<1>3. Head(w) = n - Len(w) + 1
  BY <1>1 DEF Gone, Numbered
<1>4. Elements(q) = Elements(r) \cup {n - Len(w) + 1}
  <2>1. Elements(<<Head(w)>>) = {Head(w)}
    BY DEF Elements
  <2>2. Elements(r \o <<Head(w)>>) = Elements(r) \cup Elements(<<Head(w)>>)
    BY <1>2, ElementsOfConcat, ZenonT(40)
  <2>3. Elements(q) = Elements(r \o <<Head(w)>>)
    BY <1>2, Zenon
  <2> HIDE DEF q
  <2>4. QED
    BY <1>3, <2>1, <2>2, <2>3, Zenon
<1> HIDE DEF v, q
<1>5. Numbered(v, n)
  <2>1. ASSUME NEW i \in 1 .. Len(v) PROVE v[i] = n - Len(v) + i
    <3>1. i + 1 \in 1 .. Len(w)
      BY <1>1
    <3>2. w[i + 1] = n - Len(w) + (i + 1)
      BY <3>1 DEF Gone, Numbered
    <3>3. QED
      BY <1>1, <3>2
  <2>2. QED
    BY <2>1 DEF Numbered
<1>6. Len(v) + Len(q) + Len(d) = n /\ n - Len(w) \in Nat
  <2>1. Len(w) + Len(r) + Len(d) = n
    BY DEF Gone
  <2>2. Len(v) = Len(w) - 1 /\ Len(q) = Len(r) + 1
    BY <1>1, <1>2
  <2>3. PICK a \in Nat, b \in Nat, c \in Nat : a = Len(w) /\ b = Len(r) /\ c = Len(d)
    BY <1>1
  <2>4. a + b + c = n /\ Len(v) = a - 1 /\ Len(q) = b + 1
    BY <2>1, <2>2, <2>3
  <2>5. (a - 1) + (b + 1) + c = n /\ n - a \in Nat
    BY <2>4
  <2>6. QED
    BY <2>3, <2>4, <2>5
<1>7. Elements(q) \cup Elements(d) = 1 .. (n - Len(v))
  <2>1. PICK m \in Nat : m = n - Len(w)
    BY <1>6
  <2>2. 1 .. (m + 1) = (1 .. m) \cup {m + 1}
    OBVIOUS
  <2>3. Elements(r) \cup Elements(d) = 1 .. m /\ n - Len(v) = m + 1
    BY <1>1, <2>1 DEF Gone
  <2>4. QED
    BY <1>4, <2>1, <2>2, <2>3
<1>8. QED
  BY <1>5, <1>6, <1>7 DEF Gone, v, q

LEMMA GoneClear ==
  ASSUME NEW S, NEW w \in Seq(S), NEW r \in Seq(S), NEW d \in Seq(S), NEW n \in Nat,
         Gone(w, r, d, n)
  PROVE  Gone(<<>>, r, d \o w, n)
<1>1. /\ Len(w) \in Nat /\ Len(r) \in Nat /\ Len(d) \in Nat /\ Len(<<>>) = 0
      /\ Len(d \o w) = Len(d) + Len(w)
  BY LenProperties, ConcatProperties
<1>2. Numbered(<<>>, n)
  BY DEF Numbered
<1>3. Elements(r) \cup Elements(d \o w) = 1 .. n
  <2>1. PICK m \in Nat : m = n - Len(w)
    BY <1>1 DEF Gone
  <2>2. Elements(w) = (m + 1) .. n /\ m <= n
    BY <1>1, <2>1, ElementsOfNumbered DEF Gone
  <2>3. 1 .. n = (1 .. m) \cup ((m + 1) .. n)
    BY <2>2
  <2>4. Elements(d \o w) = Elements(d) \cup Elements(w)
    BY ElementsOfConcat
  <2>5. Elements(r) \cup Elements(d) = 1 .. m
    BY <2>1 DEF Gone
  <2>6. QED
    BY <2>2, <2>3, <2>4, <2>5
<1>4. Len(<<>>) + Len(r) + Len(d \o w) = n /\ n - Len(<<>>) = n
  BY <1>1 DEF Gone
<1>5. QED
  BY <1>2, <1>3, <1>4 DEF Gone

AllGone == Gone(Holding, returned, cleared, accepted)

LEMMA FifoStepGone ==
  ASSUME QueueInv, QueueInv', AllGone, Fifo!Next
  PROVE  AllGone'
<1>1. /\ Holding \in Seq(Packets) /\ returned \in Seq(Packets) /\ cleared \in Seq(Packets)
      /\ accepted \in Nat /\ Len(Holding) = InHandCount + Len(channel)
      /\ Len(channel) \in Nat /\ Len(returned) \in Nat /\ Len(cleared) \in Nat
  BY HoldingTyped, Typed, LenProperties, QueueAssumption
<1>2. CASE Fifo!Put
  <2>1. /\ accepted' = accepted + 1 /\ Holding' = Append(Holding, accepted + 1)
        /\ accepted < MaxPackets /\ returned' = returned /\ cleared' = cleared
    BY <1>2 DEF Fifo!Put
  <2>2. accepted + 1 \in Packets
    BY <1>1, <2>1, QueueAssumption DEF Packets
  <2>3. Gone(Append(Holding, accepted + 1), returned, cleared, accepted + 1)
    BY <1>1, <2>2, GonePut DEF AllGone
  <2>4. QED
    BY <2>1, <2>3 DEF AllGone
<1>3. CASE Fifo!Free
  BY <1>3 DEF Fifo!Free, AllGone
<1>4. CASE Fifo!TakeOne
  <2>1. Holding # <<>>
    <3>1. Len(Holding) # 0
      BY <1>1, <1>4 DEF Fifo!TakeOne
    <3>2. QED
      BY <3>1
  <2>2. Gone(Tail(Holding), Append(returned, Head(Holding)), cleared, accepted)
    BY <1>1, <2>1, GoneTake DEF AllGone
  <2>3. QED
    BY <1>4, <2>2 DEF Fifo!TakeOne, AllGone
<1>5. CASE Fifo!Clear
  <2>1. Gone(<<>>, returned, cleared \o Holding, accepted)
    BY <1>1, GoneClear DEF AllGone
  <2>2. QED
    BY <1>5, <2>1 DEF Fifo!Clear, AllGone
<1>6. QED
  BY <1>2, <1>3, <1>4, <1>5 DEF Fifo!Next

(* No packet is lost or handed out twice, cancelled calls included         *)
(* (queue.rs:74-82, dequeue "is cancel-safe").                              *)
THEOREM NothingLostOrTwice == Spec => []ExactlyOnce
<1>1. Init => AllGone
  <2> SUFFICES ASSUME Init PROVE AllGone
    OBVIOUS
  <2>1. Holding = <<>> /\ returned = <<>> /\ cleared = <<>> /\ accepted = 0
    BY DEF Init, Holding
  <2>2. Gone(<<>>, <<>>, <<>>, 0)
    BY DEF Gone, Numbered, Elements
  <2>3. QED
    BY <2>1, <2>2 DEF AllGone
<1>2. QueueInv /\ QueueInv' /\ AllGone /\ [Next]_vars => AllGone'
  <2> SUFFICES ASSUME QueueInv, QueueInv', AllGone, [Next]_vars PROVE AllGone'
    OBVIOUS
  <2>1. Fifo!Next \/ UNCHANGED <<Holding, InHandCount, returned, cleared, accepted>>
    BY StepsAreFifoSteps DEF Fifo!vars
  <2>2. CASE UNCHANGED <<Holding, InHandCount, returned, cleared, accepted>>
    BY <2>2 DEF AllGone
  <2>3. QED
    BY <2>1, <2>2, FifoStepGone
<1>3. QueueInv /\ AllGone => ExactlyOnce
  <2> SUFFICES ASSUME QueueInv, AllGone PROVE ExactlyOnce
    OBVIOUS
  <2>1. /\ Len(Holding) = InHandCount + Len(channel) /\ InHandCount \in Nat
        /\ Len(channel) \in Nat /\ Len(returned) \in Nat /\ Len(cleared) \in Nat
        /\ Len(Holding) + Len(returned) + Len(cleared) = accepted
    BY HoldingTyped, Typed, LenProperties DEF AllGone, Gone
  <2>2. PICK m \in Nat : m = accepted - Len(Holding)
    BY <2>1
  <2>3. Cardinality(1 .. m) = m
    BY FS_Interval
  <2>4. Elements(returned) \cup Elements(cleared) = 1 .. m
    BY <2>2 DEF AllGone, Gone
  <2>5. m = Len(returned) + Len(cleared)
    BY <2>1, <2>2
  <2>6. Cardinality(Elements(returned) \cup Elements(cleared)) = Len(returned) + Len(cleared)
    BY <2>3, <2>4, <2>5
  <2>7. Len(channel) + InHandCount + Len(returned) + Len(cleared) = accepted
    BY <2>1
  <2>8. QED
    BY <2>6, <2>7, Zenon DEF ExactlyOnce, Elements
<1>4. QED
  BY <1>1, <1>2, <1>3, QueueInvariant, PTL DEF Spec
=============================================================================
