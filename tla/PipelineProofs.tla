--------------------------- MODULE PipelineProofs ---------------------------
(***************************************************************************)
(* Proofs about AudioPipeline for every configuration, any packets, any    *)
(* number of interruptions and any losses, repetitions and reorderings:    *)
(* nothing vanishes between the host's enqueue and the guest's audio       *)
(* output, and what is played is played in the order it was captured.      *)
(***************************************************************************)
EXTENDS AudioPipeline, FiniteSetTheorems, SequenceTheorems, WellFoundedInduction, TLAPS

(* BufferTypeOK, but for the duplicate cache, which is the result of a     *)
(* fold (see CacheInv), and with what makes the size what it is.           *)
BufferTyped ==
  /\ buffered \subseteq BufferedEntries
  /\ expected \in Nat \cup {None}
  /\ targetDelay \in MinTargetDelay .. MaxTargetDelay
  /\ bstats \in JitterBufferStatistics
  /\ unseen \in [repeated : Nat, flushed : Nat, discarded : Nat, resets : Nat]
  /\ IsFiniteSet(buffered)
  /\ \A x, y \in buffered : x.seq = y.seq => x = y
  /\ Cardinality(buffered) <= MaxBufferSize

StreamTyped == StreamTypeOK /\ IsFiniteSet(wire)

PipelineInv == StreamTyped /\ BufferTyped /\ PlaybackTypeOK

(* Nothing lies behind the window's mark: it is ahead of what was released *)
(* and behind what is buffered.                                            *)
BehindMark(seq) == expected # None /\ seq < expected

(* The latest a packet can be played, whatever the offset its timestamp    *)
(* was adjusted by -- unless that is so long ago that it no longer counts. *)
LatestLeft(seq, o) ==
  NotNegative(NotNegative(seq * Spacing + o) - anchor.stamp) - anchor.since + Latency

InTime(x) == x.left <= LeftLimit \/ \E o \in ClockOffsets : x.left <= LatestLeft(x.seq, o)

(* What is played, queued and buffered is, in this order, increasing.      *)
BufferAhead == \A x \in buffered : ~BehindMark(x.seq)
QueueBehind == \A i \in 1 .. Len(queue) : BehindMark(queue[i].seq) /\ InTime(queue[i])
PlayedBehind == \A i \in 1 .. Len(played) : BehindMark(played[i])
QueueIncreases == \A i, j \in 1 .. Len(queue) : i < j => queue[i].seq < queue[j].seq
PlayedFirst == \A i \in 1 .. Len(played), j \in 1 .. Len(queue) : played[i] < queue[j].seq
PlayedIncreases == \A i, j \in 1 .. Len(played) : i < j => played[i] < played[j]
Anchored == queue # <<>> => anchor # NoAnchor

Ordered ==
  /\ BufferAhead /\ QueueBehind /\ PlayedBehind
  /\ QueueIncreases /\ PlayedFirst /\ PlayedIncreases /\ Anchored

OffsetsClose == \A d \in Spread : d <= Spacing

OrderInv == unseen.resets = 0 /\ OffsetsClose => Ordered

-----------------------------------------------------------------------------
(* The stream. *)

Streamed == [offered : Nat, accepted : Nat, cleared : Nat, unheard : Nat, lost : Nat,
             copied : Nat, arrived : Nat, refused : Nat, fed : Nat, calls : Nat,
             oversized : SUBSET Packets]

(* The host's engine receives nothing, and the guest's sends nothing. *)
OneWay == engines["host"].inbound = <<>> /\ engines["guest"].outbound = <<>>

StreamInv == StreamTyped /\ OneWay /\ StreamAccounted

(* The balance, told of the engines and not of their status: what went at  *)
(* the host, on the wire and at the guest, and what is still there.        *)
HostGone(host, s) == host.failed + s.unheard + s.cleared
WireGone(s) == s.lost + s.refused
GuestGone(guest, s) == guest.dropped + s.fed
There(host, guest, w) == QueueLength(host.outbound) + w + QueueLength(guest.inbound)

Balance(host, guest, s, w) ==
  /\ s.accepted + s.copied =
       HostGone(host, s) + WireGone(s) + GuestGone(guest, s) + There(host, guest, w)
  /\ host.sent + s.copied = s.unheard + s.lost + s.arrived + w

(* Every account is a number. *)
LEMMA StreamedNumbers ==
  ASSUME NEW s \in Streamed
  PROVE  /\ s.offered \in Nat /\ s.accepted \in Nat /\ s.cleared \in Nat
         /\ s.unheard \in Nat /\ s.lost \in Nat /\ s.copied \in Nat
         /\ s.arrived \in Nat /\ s.refused \in Nat /\ s.fed \in Nat
         /\ s.calls \in Nat
BY DEF Streamed

LEMMA EngineNumbers ==
  ASSUME NEW e \in Engine
  PROVE  /\ e.state \in EngineState /\ e.outbound \in Seq(Packets) /\ e.inbound \in Seq(Packets)
         /\ e.sent \in Nat /\ e.received \in Nat /\ e.dropped \in Nat /\ e.failed \in Nat
         /\ QueueLength(e.outbound) \in Nat /\ QueueLength(e.inbound) \in Nat
BY DEF Engine, AudioPacket, QueueLength

LEMMA BalanceNumbers ==
  ASSUME NEW host \in Engine, NEW guest \in Engine, NEW s \in Streamed, NEW w \in Nat
  PROVE  /\ HostGone(host, s) \in Nat /\ WireGone(s) \in Nat /\ GuestGone(guest, s) \in Nat
         /\ There(host, guest, w) \in Nat
<1>1. HostGone(host, s) \in Nat
  BY StreamedNumbers, EngineNumbers DEF HostGone
<1>2. WireGone(s) \in Nat
  BY StreamedNumbers DEF WireGone
<1>3. GuestGone(guest, s) \in Nat
  BY StreamedNumbers, EngineNumbers DEF GuestGone
<1>4. There(host, guest, w) \in Nat
  <2>1. QueueLength(host.outbound) \in Nat /\ QueueLength(guest.inbound) \in Nat
    BY EngineNumbers
  <2>2. QED
    BY <2>1 DEF There
<1>5. QED
  BY <1>1, <1>2, <1>3, <1>4

LEMMA Regrouped ==
  \A x, a, b, c, d, e, f, g, h, i, j \in Int :
    x = a + b + c + d + e + f + g + h + i + j <=>
    x = (a + b + e) + (c + d) + (f + g) + (h + i + j)
OBVIOUS

(* The sum as the property states it, and as it is grouped here. *)
LEMMA BalanceSum ==
  ASSUME NEW host \in Engine, NEW guest \in Engine, NEW s \in Streamed, NEW w \in Nat
  PROVE  s.accepted + s.copied =
           host.failed + s.unheard + s.lost + s.refused + s.cleared + guest.dropped + s.fed
             + QueueLength(host.outbound) + w + QueueLength(guest.inbound)
         <=> s.accepted + s.copied =
           HostGone(host, s) + WireGone(s) + GuestGone(guest, s) + There(host, guest, w)
<1>1. /\ s.accepted + s.copied \in Int /\ s.unheard \in Int /\ s.lost \in Int
      /\ s.refused \in Int /\ s.cleared \in Int /\ s.fed \in Int
  BY StreamedNumbers
<1>2. /\ host.failed \in Int /\ QueueLength(host.outbound) \in Int
      /\ guest.dropped \in Int /\ QueueLength(guest.inbound) \in Int /\ w \in Int
  BY EngineNumbers
<1>3. s.accepted + s.copied =
        host.failed + s.unheard + s.lost + s.refused + s.cleared + guest.dropped + s.fed
          + QueueLength(host.outbound) + w + QueueLength(guest.inbound)
      <=> s.accepted + s.copied =
        (host.failed + s.unheard + s.cleared) + (s.lost + s.refused)
          + (guest.dropped + s.fed) + (QueueLength(host.outbound) + w + QueueLength(guest.inbound))
  BY <1>1, <1>2, Regrouped
<1>4. QED
  BY <1>3, Zenon DEF HostGone, WireGone, GuestGone, There

LEMMA StreamTypes ==
  ASSUME StreamTyped
  PROVE  /\ engines \in [Engines -> Engine] /\ NetTypeOK
         /\ engines["host"] \in Engine /\ engines["guest"] \in Engine
         /\ streamed \in Streamed
         /\ IsFiniteSet(wire) /\ Cardinality(wire) \in Nat
         /\ StreamAccounted <=>
              Balance(engines["host"], engines["guest"], streamed, Cardinality(wire))
<1>1. /\ engines \in [Engines -> Engine] /\ NetTypeOK
      /\ engines["host"] \in Engine /\ engines["guest"] \in Engine
      /\ streamed \in Streamed /\ IsFiniteSet(wire)
  BY DEF StreamTyped, StreamTypeOK, Engines, Streamed
<1>2. Cardinality(wire) \in Nat
  BY <1>1, FS_CardinalityType
<1>3. /\ Status("host").outbound = QueueLength(engines["host"].outbound)
      /\ Status("host").failed = engines["host"].failed
      /\ Status("host").sent = engines["host"].sent
      /\ Status("guest").inbound = QueueLength(engines["guest"].inbound)
      /\ Status("guest").dropped = engines["guest"].dropped
  BY <1>1, Zenon DEF Status, Engine
<1>4. QED
  BY <1>1, <1>2, <1>3, BalanceSum, SMT DEF StreamAccounted, Balance

(* The same for the states a step leads to. *)
LEMMA StreamKept ==
  ASSUME engines' \in [Engines -> Engine], NetTypeOK', streamed' \in Streamed,
         IsFiniteSet(wire'), OneWay',
         Balance(engines'["host"], engines'["guest"], streamed', Cardinality(wire'))
  PROVE  StreamInv'
<1>1. StreamTyped'
  BY DEF StreamTyped, StreamTypeOK, Streamed
<1>2. /\ engines'["host"] \in Engine /\ engines'["guest"] \in Engine
  BY DEF Engines
<1>3. /\ Status("host")'.outbound = QueueLength(engines'["host"].outbound)
      /\ Status("host")'.failed = engines'["host"].failed
      /\ Status("host")'.sent = engines'["host"].sent
      /\ Status("guest")'.inbound = QueueLength(engines'["guest"].inbound)
      /\ Status("guest")'.dropped = engines'["guest"].dropped
  BY <1>2, Zenon DEF Status, Engine
<1>4. Cardinality(wire') \in Nat
  BY FS_CardinalityType
<1>5. StreamAccounted'
  BY <1>2, <1>3, <1>4, BalanceSum, SMT DEF StreamAccounted, Balance
<1>6. QED
  BY <1>1, <1>5 DEF StreamInv

(* What every step starts from. *)
LEMMA StreamFacts ==
  ASSUME StreamInv, NEW e, NEW g, NEW w,
         e = engines["host"], g = engines["guest"], w = Cardinality(wire)
  PROVE  /\ engines \in [Engines -> Engine] /\ e \in Engine /\ g \in Engine /\ OneWay
         /\ NetTypeOK /\ IsFiniteSet(wire) /\ streamed \in Streamed /\ w \in Nat
         /\ HostGone(e, streamed) \in Nat /\ WireGone(streamed) \in Nat
         /\ GuestGone(g, streamed) \in Nat /\ There(e, g, w) \in Nat
         /\ streamed.accepted + streamed.copied =
              HostGone(e, streamed) + WireGone(streamed) + GuestGone(g, streamed)
                + There(e, g, w)
         /\ e.sent + streamed.copied = streamed.unheard + streamed.lost + streamed.arrived + w
<1>1. /\ engines \in [Engines -> Engine] /\ e \in Engine /\ g \in Engine /\ OneWay
      /\ NetTypeOK /\ IsFiniteSet(wire) /\ streamed \in Streamed /\ w \in Nat
      /\ Balance(e, g, streamed, w)
  BY StreamTypes, Zenon DEF StreamInv
<1>2. QED
  BY <1>1, BalanceNumbers, Zenon DEF Balance

LEMMA BalanceSums ==
  \A a, c, h, w, g, t, d \in Int :
       a + c = h + w + g + t =>
         /\ (a + d) + c = h + w + g + (t + d)
         /\ a + (c + d) = h + w + g + (t + d)
         /\ a + c = (h + d) + w + g + (t - d)
         /\ a + c = h + (w + d) + g + (t - d)
         /\ a + c = h + w + (g + d) + (t - d)
OBVIOUS

LEMMA SentSums ==
  \A x, c, u, l, a, n, d \in Int :
       x + c = u + l + a + n =>
         /\ (x + 1) + c = (u + d) + l + a + (n + (1 - d))
         /\ x + (c + d) = u + l + a + (n + d)
         /\ x + c = u + (l + d) + a + (n - d)
         /\ x + c = u + l + (a + d) + (n - d)
OBVIOUS

(* One engine changes. *)
LEMMA EngineChanges ==
  ASSUME engines \in [Engines -> Engine], NEW e \in Engines, NEW r \in Engine,
         engines' = [engines EXCEPT ![e] = r]
  PROVE  /\ engines' \in [Engines -> Engine]
         /\ engines'[e] = r /\ \A f \in Engines \ {e} : engines'[f] = engines[f]
OBVIOUS

(* One more datagram, or one less. *)
LEMMA SentAdds ==
  ASSUME StreamTyped, NEW p \in Packets, Sent(p)
  PROVE  /\ NetTypeOK' /\ IsFiniteSet(wire') /\ Cardinality(wire') = Cardinality(wire) + 1
         /\ net' = net
<1>1. PICK n \in 0 .. Cardinality(wire) :
        Datagram(p, n) \notin wire /\ wire' = wire \cup {Datagram(p, n)}
  BY DEF Sent
<1>2. Datagram(p, n) \in Datagrams
  BY FS_CardinalityType DEF Datagram, Datagrams, StreamTyped
<1>3. net' = net
  BY DEF Sent
<1>4. IsFiniteSet(wire') /\ Cardinality(wire') = Cardinality(wire) + 1
  BY <1>1, FS_AddElement DEF StreamTyped
<1>5. QED
  BY <1>1, <1>2, <1>3, <1>4 DEF StreamTyped, StreamTypeOK, NetTypeOK

LEMMA TakenRemoves ==
  ASSUME StreamTyped, NEW d \in wire, wire' = wire \ {d}, net' = net
  PROVE  NetTypeOK' /\ IsFiniteSet(wire') /\ Cardinality(wire') = Cardinality(wire) - 1
<1>1. IsFiniteSet(wire') /\ Cardinality(wire') = Cardinality(wire) - 1
  BY FS_RemoveElement DEF StreamTyped
<1>2. QED
  BY <1>1 DEF StreamTyped, StreamTypeOK, NetTypeOK

(* Steps that move nothing: lifecycle calls, joining, calls elsewhere.     *)
LEMMA QuietStream ==
  ASSUME StreamInv, wire' = wire, NetTypeOK', streamed' \in Streamed,
         engines' \in [Engines -> Engine],
         \A f \in Engines :
           /\ engines'[f].outbound = engines[f].outbound
           /\ engines'[f].inbound = engines[f].inbound
           /\ engines'[f].sent = engines[f].sent /\ engines'[f].failed = engines[f].failed
           /\ engines'[f].dropped = engines[f].dropped,
         streamed'.accepted = streamed.accepted, streamed'.cleared = streamed.cleared,
         streamed'.unheard = streamed.unheard, streamed'.lost = streamed.lost,
         streamed'.copied = streamed.copied, streamed'.arrived = streamed.arrived,
         streamed'.refused = streamed.refused, streamed'.fed = streamed.fed
  PROVE  StreamInv'
<1> DEFINE e == engines["host"]
           g == engines["guest"]
           w == Cardinality(wire)
<1>1. /\ streamed.accepted + streamed.copied =
           HostGone(e, streamed) + WireGone(streamed) + GuestGone(g, streamed) + There(e, g, w)
      /\ e.sent + streamed.copied = streamed.unheard + streamed.lost + streamed.arrived + w
  BY StreamFacts, ZenonT(40)
<1>2. IsFiniteSet(wire) /\ OneWay
  BY StreamFacts, Zenon
<1>3. "host" \in Engines /\ "guest" \in Engines
  BY DEF Engines
<1>4. Balance(engines'["host"], engines'["guest"], streamed', w)
  BY <1>1, <1>3, Zenon DEF Balance, HostGone, WireGone, GuestGone, There
<1>5. OneWay'
  BY <1>2, <1>3, Zenon DEF OneWay
<1>6. QED
  BY <1>2, <1>4, <1>5, StreamKept

LEMMA EnqueueStream ==
  ASSUME StreamInv, NEW p \in Packets, EnqueuePacket(p)
  PROVE  StreamInv' /\ streamed'.fed = streamed.fed
<1> DEFINE e == engines["host"]
           g == engines["guest"]
           w == Cardinality(wire)
           full == IsFull(e.outbound, OutboundCapacity)
           n == IF e.state = "Stopped" \/ full THEN 0 ELSE 1
           r == IF e.state = "Stopped" THEN e
                ELSE IF full THEN [e EXCEPT !.dropped = e.dropped + 1]
                ELSE [e EXCEPT !.outbound = Append(e.outbound, p)]
<1>1. /\ engines \in [Engines -> Engine] /\ e \in Engine /\ g \in Engine /\ OneWay
      /\ NetTypeOK /\ IsFiniteSet(wire) /\ streamed \in Streamed /\ w \in Nat
  BY StreamFacts, Zenon
<1>2. PICK o \in {streamed.oversized, streamed.oversized \cup {p}} :
        /\ engines' = [engines EXCEPT !["host"] = r]
        /\ streamed' = [streamed EXCEPT !.offered = streamed.offered + 1,
                                        !.oversized = o,
                                        !.accepted = streamed.accepted + n]
        /\ UNCHANGED netVars
  BY Zenon DEF EnqueuePacket
<1>3. /\ r \in Engine /\ r.failed = e.failed /\ r.sent = e.sent /\ r.inbound = e.inbound
      /\ QueueLength(r.outbound) = QueueLength(e.outbound) + n
  <2>1. e.dropped + 1 \in Nat /\ Append(e.outbound, p) \in Seq(Packets)
        /\ QueueLength(Append(e.outbound, p)) = QueueLength(e.outbound) + 1
        /\ QueueLength(e.outbound) + 0 = QueueLength(e.outbound)
    BY <1>1, EngineNumbers DEF QueueLength
  <2>2. QED
    BY <1>1, <2>1, Zenon DEF Engine, AudioPacket
<1>4. n \in Nat
  OBVIOUS
<1> HIDE DEF n, r, full
<1>5. /\ engines' \in [Engines -> Engine]
      /\ engines'["host"] = r /\ engines'["guest"] = g /\ OneWay'
  BY <1>1, <1>2, <1>3, EngineChanges DEF Engines, OneWay
<1>6. NetTypeOK' /\ IsFiniteSet(wire') /\ Cardinality(wire') = w
  BY <1>1, <1>2 DEF NetTypeOK, netVars
<1>7. /\ streamed' \in Streamed /\ streamed'.accepted = streamed.accepted + n
      /\ streamed'.cleared = streamed.cleared /\ streamed'.unheard = streamed.unheard
      /\ streamed'.lost = streamed.lost /\ streamed'.copied = streamed.copied
      /\ streamed'.arrived = streamed.arrived /\ streamed'.refused = streamed.refused
      /\ streamed'.fed = streamed.fed
  <2>1. streamed.offered + 1 \in Nat /\ streamed.accepted + n \in Nat
    BY <1>1, <1>4, StreamedNumbers
  <2>2. o \in SUBSET Packets
    <3>1. streamed.oversized \in SUBSET Packets
      BY <1>1, Zenon DEF Streamed
    <3>2. QED
      BY <3>1
  <2>3. QED
    BY <1>1, <1>2, <2>1, <2>2, Zenon DEF Streamed
<1>8. /\ HostGone(r, streamed') = HostGone(e, streamed)
      /\ WireGone(streamed') = WireGone(streamed)
      /\ GuestGone(g, streamed') = GuestGone(g, streamed)
  BY <1>3, <1>7 DEF HostGone, WireGone, GuestGone
<1>9. There(r, g, w) = There(e, g, w) + n
  <2>1. QueueLength(e.outbound) \in Nat /\ QueueLength(g.inbound) \in Nat /\ w \in Nat
    BY <1>1, EngineNumbers
  <2>2. QED
    BY <1>3, <1>4, <2>1 DEF There
<1>10. (streamed.accepted + n) + streamed.copied =
         HostGone(e, streamed) + WireGone(streamed) + GuestGone(g, streamed)
           + (There(e, g, w) + n)
  <2>1. /\ streamed.accepted \in Int /\ streamed.copied \in Int /\ n \in Int
        /\ HostGone(e, streamed) \in Int /\ WireGone(streamed) \in Int
        /\ GuestGone(g, streamed) \in Int /\ There(e, g, w) \in Int
    <3>1. /\ HostGone(e, streamed) \in Nat /\ WireGone(streamed) \in Nat
          /\ GuestGone(g, streamed) \in Nat /\ There(e, g, w) \in Nat
      BY <1>1, BalanceNumbers, Zenon
    <3>2. streamed.accepted \in Nat /\ streamed.copied \in Nat
      BY <1>1, StreamedNumbers, Zenon
    <3>3. QED
      BY <1>4, <3>1, <3>2
  <2>2. streamed.accepted + streamed.copied =
          HostGone(e, streamed) + WireGone(streamed) + GuestGone(g, streamed) + There(e, g, w)
    BY StreamFacts, Zenon
  <2> HIDE DEF e, g, w
  <2>3. PICK x \in Int, y \in Int, z \in Int, m \in Int :
          /\ x = HostGone(e, streamed) /\ y = WireGone(streamed)
          /\ z = GuestGone(g, streamed) /\ m = There(e, g, w)
    BY <2>1, Zenon
  <2>4. PICK a \in Int, c \in Int : a = streamed.accepted /\ c = streamed.copied
    BY <2>1, Zenon
  <2>5. a + c = x + y + z + m
    BY <2>2, <2>3, <2>4, Zenon
  <2>6. (a + n) + c = x + y + z + (m + n)
    BY <2>1, <2>5
  <2>7. QED
    BY <2>3, <2>4, <2>6, Zenon
<1>11. Balance(r, g, streamed', w)
  BY <1>3, <1>7, <1>8, <1>9, <1>10, StreamFacts, ZenonT(40) DEF Balance
<1>12. QED
  BY <1>5, <1>6, <1>7, <1>11, StreamKept

(* What the accounts of a queue come to when its first packet leaves.      *)
LEMMA TailLength ==
  ASSUME NEW q \in Seq(Packets), q # <<>>
  PROVE  /\ Tail(q) \in Seq(Packets) /\ Head(q) \in Packets
         /\ QueueLength(Tail(q)) = QueueLength(q) - 1
BY DEF QueueLength

LEMMA ForwardStream ==
  ASSUME StreamInv, ForwardPacket
  PROVE  StreamInv' /\ streamed'.fed = streamed.fed
<1> DEFINE e == engines["host"]
           g == engines["guest"]
           w == Cardinality(wire)
           sent == [[e EXCEPT !.outbound = Tail(e.outbound)] EXCEPT !.sent = e.sent + 1]
           failed == [[e EXCEPT !.outbound = Tail(e.outbound)] EXCEPT !.failed = e.failed + 1]
           b == IF net.client THEN 0 ELSE 1
<1>1. /\ engines \in [Engines -> Engine] /\ e \in Engine /\ g \in Engine /\ OneWay
      /\ NetTypeOK /\ IsFiniteSet(wire) /\ streamed \in Streamed /\ w \in Nat
  BY StreamFacts, Zenon
<1>2. e.outbound # <<>>
  BY DEF ForwardPacket
<1>3. /\ Tail(e.outbound) \in Seq(Packets) /\ Head(e.outbound) \in Packets
      /\ QueueLength(Tail(e.outbound)) = QueueLength(e.outbound) - 1
      /\ e.sent + 1 \in Nat /\ e.failed + 1 \in Nat
  BY <1>1, <1>2, EngineNumbers, TailLength, SMTT(20)
<1>4. /\ sent \in Engine /\ sent.outbound = Tail(e.outbound)
      /\ sent.inbound = e.inbound /\ failed.inbound = e.inbound
      /\ sent.failed = e.failed /\ sent.sent = e.sent + 1
      /\ failed \in Engine /\ failed.outbound = Tail(e.outbound)
      /\ failed.failed = e.failed + 1 /\ failed.sent = e.sent
  BY <1>1, <1>3, Zenon DEF Engine, AudioPacket
<1>5. /\ HostGone(e, streamed) \in Nat /\ WireGone(streamed) \in Nat
      /\ GuestGone(g, streamed) \in Nat /\ There(e, g, w) \in Nat
      /\ streamed.accepted \in Nat /\ streamed.copied \in Nat /\ streamed.unheard \in Nat
      /\ streamed.lost \in Nat /\ streamed.arrived \in Nat /\ streamed.cleared \in Nat
      /\ e.sent \in Nat /\ e.failed \in Nat /\ QueueLength(e.outbound) \in Nat
      /\ QueueLength(g.inbound) \in Nat
  BY <1>1, BalanceNumbers, StreamedNumbers, EngineNumbers
<1>6. /\ streamed.accepted + streamed.copied =
           HostGone(e, streamed) + WireGone(streamed) + GuestGone(g, streamed) + There(e, g, w)
      /\ e.sent + streamed.copied = streamed.unheard + streamed.lost + streamed.arrived + w
  BY StreamFacts, Zenon
<1>7. CASE /\ engines' = [engines EXCEPT !["host"] = sent]
           /\ Broadcast(Head(e.outbound))
           /\ streamed' = [streamed EXCEPT !.unheard = streamed.unheard + b]
  <2> HIDE DEF sent, failed
  <2>1. /\ engines' \in [Engines -> Engine]
        /\ engines'["host"] = sent /\ engines'["guest"] = g /\ OneWay'
    BY <1>1, <1>4, <1>7, EngineChanges DEF Engines, OneWay
  <2>2. /\ NetTypeOK' /\ IsFiniteSet(wire')
        /\ Cardinality(wire') = w + (1 - b)
    <3>1. CASE net.client
      <4>1. Sent(Head(e.outbound))
        BY <1>7, <3>1, Zenon DEF Broadcast
      <4>2. QED
        BY <1>3, <3>1, <4>1, SentAdds DEF StreamInv
    <3>2. CASE ~net.client
      <4>1. UNCHANGED netVars
        BY <1>7, <3>2, Zenon DEF Broadcast
      <4>2. wire' = wire /\ NetTypeOK'
        BY <1>1, <4>1 DEF NetTypeOK, netVars
      <4>3. w + (1 - b) = w
        BY <1>1, <3>2
      <4>4. QED
        BY <1>1, <4>2, <4>3
    <3>3. QED
      BY <3>1, <3>2
  <2>3. streamed.unheard + b \in Nat /\ b \in {0, 1}
    BY <1>5
  <2> HIDE DEF b
  <2>4. /\ streamed' \in Streamed /\ streamed'.unheard = streamed.unheard + b
        /\ streamed'.accepted = streamed.accepted /\ streamed'.cleared = streamed.cleared
        /\ streamed'.lost = streamed.lost /\ streamed'.copied = streamed.copied
        /\ streamed'.arrived = streamed.arrived /\ streamed'.refused = streamed.refused
        /\ streamed'.fed = streamed.fed
    BY <1>1, <1>7, <2>3, Zenon DEF Streamed
  <2> DEFINE v == Cardinality(wire')
  <2>5. v = w + (1 - b)
    BY <2>2
  <2> HIDE DEF v, w
  <2>6. WireGone(streamed') = WireGone(streamed) /\ GuestGone(g, streamed') = GuestGone(g, streamed)
    BY <2>4 DEF WireGone, GuestGone
  <2>7. HostGone(sent, streamed') = HostGone(e, streamed) + b
    BY <1>4, <1>5, <2>3, <2>4 DEF HostGone
  <2>8. There(sent, g, v) = There(e, g, w) - b
    BY <1>1, <1>3, <1>4, <1>5, <2>3, <2>5 DEF There
  <2>9. streamed.accepted + streamed.copied =
          (HostGone(e, streamed) + b) + WireGone(streamed) + GuestGone(g, streamed)
            + (There(e, g, w) - b)
    BY <1>5, <1>6, <2>3
  <2>10. (e.sent + 1) + streamed.copied =
           (streamed.unheard + b) + streamed.lost + streamed.arrived + (w + (1 - b))
    <3>1. /\ e.sent \in Nat /\ streamed.copied \in Nat /\ streamed.unheard \in Nat
          /\ streamed.lost \in Nat /\ streamed.arrived \in Nat /\ w \in Nat /\ b \in Nat
      BY <1>1, <1>5, <2>3
    <3>2. e.sent + streamed.copied = streamed.unheard + streamed.lost + streamed.arrived + w
      BY <1>6
    <3>3. QED
      BY <3>1, <3>2
  <2>11. Balance(sent, g, streamed', v)
    BY <1>4, <2>4, <2>5, <2>6, <2>7, <2>8, <2>9, <2>10, Zenon DEF Balance
  <2>12. QED
    BY <2>1, <2>2, <2>4, <2>11, StreamKept DEF v
<1>8. CASE /\ engines' = [engines EXCEPT !["host"] = failed]
           /\ UNCHANGED <<netVars, streamed>>
  <2> HIDE DEF sent, failed, b
  <2>1. /\ engines' \in [Engines -> Engine]
        /\ engines'["host"] = failed /\ engines'["guest"] = g /\ OneWay'
    BY <1>1, <1>4, <1>8, EngineChanges DEF Engines, OneWay
  <2>2. NetTypeOK' /\ wire' = wire /\ streamed' = streamed
    BY <1>1, <1>8 DEF NetTypeOK, netVars
  <2> HIDE DEF w
  <2>3. HostGone(failed, streamed) = HostGone(e, streamed) + 1
    BY <1>4, <1>5 DEF HostGone
  <2>4. There(failed, g, w) = There(e, g, w) - 1
    BY <1>1, <1>3, <1>4, <1>5 DEF There
  <2>5. streamed.accepted + streamed.copied =
          (HostGone(e, streamed) + 1) + WireGone(streamed) + GuestGone(g, streamed)
            + (There(e, g, w) - 1)
    BY <1>5, <1>6
  <2>6. Balance(failed, g, streamed, w)
    BY <1>4, <1>6, <2>3, <2>4, <2>5, Zenon DEF Balance
  <2>7. QED
    BY <1>1, <2>1, <2>2, <2>6, StreamKept DEF w
<1>9. QED
  BY <1>7, <1>8, ZenonT(40) DEF ForwardPacket

LEMMA LostStream ==
  ASSUME StreamInv, NEW d \in wire, Lost(d)
  PROVE  StreamInv' /\ streamed'.fed = streamed.fed
<1> DEFINE e == engines["host"]
           g == engines["guest"]
           w == Cardinality(wire)
           v == Cardinality(wire')
<1>1. /\ engines \in [Engines -> Engine] /\ e \in Engine /\ g \in Engine /\ OneWay
      /\ NetTypeOK /\ streamed \in Streamed /\ w \in Nat
  BY StreamFacts, Zenon
<1>2. /\ wire' = wire \ {d} /\ net' = net /\ engines' = engines
      /\ streamed' = [streamed EXCEPT !.lost = streamed.lost + 1]
  BY DEF Lost, LosePacket
<1>3. NetTypeOK' /\ IsFiniteSet(wire') /\ v = w - 1
  BY <1>2, TakenRemoves DEF StreamInv
<1>4. /\ streamed' \in Streamed /\ streamed'.lost = streamed.lost + 1
      /\ streamed'.accepted = streamed.accepted /\ streamed'.cleared = streamed.cleared
      /\ streamed'.unheard = streamed.unheard /\ streamed'.copied = streamed.copied
      /\ streamed'.arrived = streamed.arrived /\ streamed'.refused = streamed.refused
      /\ streamed'.fed = streamed.fed
  <2>1. streamed.lost + 1 \in Nat
    BY <1>1, StreamedNumbers
  <2>2. QED
    BY <1>1, <1>2, <2>1, Zenon DEF Streamed
<1> HIDE DEF v, w
<1>5. /\ HostGone(e, streamed') = HostGone(e, streamed)
      /\ GuestGone(g, streamed') = GuestGone(g, streamed)
  BY <1>4 DEF HostGone, GuestGone
<1>6. WireGone(streamed') = WireGone(streamed) + 1
  <2>1. streamed.lost \in Nat /\ streamed.refused \in Nat
    BY <1>1, StreamedNumbers
  <2>2. QED
    BY <1>4, <2>1 DEF WireGone
<1>7. There(e, g, v) = There(e, g, w) - 1
  <2>1. QueueLength(e.outbound) \in Nat /\ QueueLength(g.inbound) \in Nat /\ w \in Nat
    BY <1>1, EngineNumbers
  <2>2. QED
    BY <1>3, <2>1 DEF There
<1>8. /\ streamed.accepted + streamed.copied =
           HostGone(e, streamed) + (WireGone(streamed) + 1) + GuestGone(g, streamed)
             + (There(e, g, w) - 1)
      /\ e.sent + streamed.copied =
           streamed.unheard + (streamed.lost + 1) + streamed.arrived + (w - 1)
  <2>1. /\ streamed.accepted \in Int /\ streamed.copied \in Int /\ streamed.unheard \in Int
        /\ streamed.lost \in Int /\ streamed.arrived \in Int /\ e.sent \in Int /\ w \in Int
    BY <1>1, StreamedNumbers, EngineNumbers
  <2>2. /\ HostGone(e, streamed) \in Int /\ WireGone(streamed) \in Int
        /\ GuestGone(g, streamed) \in Int /\ There(e, g, w) \in Int
    BY <1>1, BalanceNumbers
  <2>3. /\ streamed.accepted + streamed.copied =
             HostGone(e, streamed) + WireGone(streamed) + GuestGone(g, streamed)
               + There(e, g, w)
        /\ e.sent + streamed.copied = streamed.unheard + streamed.lost + streamed.arrived + w
    BY StreamFacts, Zenon DEF w
  <2>4. streamed.accepted + streamed.copied =
          HostGone(e, streamed) + (WireGone(streamed) + 1) + GuestGone(g, streamed)
            + (There(e, g, w) - 1)
    BY <2>1, <2>2, <2>3, BalanceSums
  <2>5. e.sent + streamed.copied =
          streamed.unheard + (streamed.lost + 1) + streamed.arrived + (w - 1)
    BY <2>1, <2>3, SentSums
  <2>6. QED
    BY <2>4, <2>5
<1>9. Balance(e, g, streamed', v)
  BY <1>3, <1>4, <1>5, <1>6, <1>7, <1>8, Zenon DEF Balance
<1>10. QED
  BY <1>1, <1>2, <1>3, <1>4, <1>9, StreamKept DEF v, OneWay

LEMMA CopiedStream ==
  ASSUME StreamInv, NEW d \in wire, Copied(d)
  PROVE  StreamInv' /\ streamed'.fed = streamed.fed
<1> DEFINE e == engines["host"]
           g == engines["guest"]
           w == Cardinality(wire)
           v == Cardinality(wire')
<1>1. /\ engines \in [Engines -> Engine] /\ e \in Engine /\ g \in Engine /\ OneWay
      /\ NetTypeOK /\ streamed \in Streamed /\ w \in Nat
  BY StreamFacts, Zenon
<1>2. /\ d.seq \in Packets /\ Sent(d.seq) /\ engines' = engines
      /\ streamed' = [streamed EXCEPT !.copied = streamed.copied + 1]
  <2>1. d \in Datagrams
    BY <1>1 DEF NetTypeOK
  <2>2. QED
    BY <2>1 DEF Copied, CopyPacket, Datagrams
<1>3. NetTypeOK' /\ IsFiniteSet(wire') /\ v = w + 1
  BY <1>2, SentAdds DEF StreamInv
<1>4. /\ streamed' \in Streamed /\ streamed'.copied = streamed.copied + 1
      /\ streamed'.accepted = streamed.accepted /\ streamed'.cleared = streamed.cleared
      /\ streamed'.unheard = streamed.unheard /\ streamed'.lost = streamed.lost
      /\ streamed'.arrived = streamed.arrived /\ streamed'.refused = streamed.refused
      /\ streamed'.fed = streamed.fed
  <2>1. streamed.copied + 1 \in Nat
    BY <1>1, StreamedNumbers
  <2>2. QED
    BY <1>1, <1>2, <2>1, Zenon DEF Streamed
<1> HIDE DEF v, w
<1>5. /\ HostGone(e, streamed') = HostGone(e, streamed)
      /\ WireGone(streamed') = WireGone(streamed)
      /\ GuestGone(g, streamed') = GuestGone(g, streamed)
  BY <1>4 DEF HostGone, WireGone, GuestGone
<1>6. There(e, g, v) = There(e, g, w) + 1
  <2>1. QueueLength(e.outbound) \in Nat /\ QueueLength(g.inbound) \in Nat /\ w \in Nat
    BY <1>1, EngineNumbers
  <2>2. QED
    BY <1>3, <2>1 DEF There
<1>7. /\ streamed.accepted + (streamed.copied + 1) =
           HostGone(e, streamed) + WireGone(streamed) + GuestGone(g, streamed)
             + (There(e, g, w) + 1)
      /\ e.sent + (streamed.copied + 1) =
           streamed.unheard + streamed.lost + streamed.arrived + (w + 1)
  <2>1. /\ streamed.accepted \in Int /\ streamed.copied \in Int /\ streamed.unheard \in Int
        /\ streamed.lost \in Int /\ streamed.arrived \in Int /\ e.sent \in Int /\ w \in Int
    BY <1>1, StreamedNumbers, EngineNumbers
  <2>2. /\ HostGone(e, streamed) \in Int /\ WireGone(streamed) \in Int
        /\ GuestGone(g, streamed) \in Int /\ There(e, g, w) \in Int
    BY <1>1, BalanceNumbers
  <2>3. streamed.accepted + streamed.copied =
          HostGone(e, streamed) + WireGone(streamed) + GuestGone(g, streamed) + There(e, g, w)
    BY StreamFacts, Zenon DEF w
  <2>4. e.sent + streamed.copied = streamed.unheard + streamed.lost + streamed.arrived + w
    BY StreamFacts, Zenon DEF w
  <2>5. streamed.accepted + (streamed.copied + 1) =
          HostGone(e, streamed) + WireGone(streamed) + GuestGone(g, streamed)
            + (There(e, g, w) + 1)
    BY <2>1, <2>2, <2>3, BalanceSums
  <2>6. e.sent + (streamed.copied + 1) =
          streamed.unheard + streamed.lost + streamed.arrived + (w + 1)
    BY <2>1, <2>4
  <2>7. QED
    BY <2>5, <2>6
<1>8. Balance(e, g, streamed', v)
  BY <1>3, <1>4, <1>5, <1>6, <1>7, Zenon DEF Balance
<1>9. QED
  BY <1>1, <1>2, <1>3, <1>4, <1>8, StreamKept DEF v, OneWay

LEMMA ReceiveStream ==
  ASSUME StreamInv, NEW d \in wire, ReceivePacket(d)
  PROVE  StreamInv' /\ streamed'.fed = streamed.fed
<1> DEFINE e == engines["host"]
           g == engines["guest"]
           w == Cardinality(wire)
           v == Cardinality(wire')
           b == IF Refuses(g, d.seq) THEN 1 ELSE 0
           c == IF ~Refuses(g, d.seq) /\ IsFull(g.inbound, InboundCapacity) THEN 1 ELSE 0
           n == IF Refuses(g, d.seq) \/ IsFull(g.inbound, InboundCapacity) THEN 0 ELSE 1
           r == Received(g, d.seq)
<1>1. /\ engines \in [Engines -> Engine] /\ e \in Engine /\ g \in Engine /\ OneWay
      /\ NetTypeOK /\ streamed \in Streamed /\ w \in Nat
  BY StreamFacts, Zenon
<1>2. /\ wire' = wire \ {d} /\ net' = net
      /\ engines' = [engines EXCEPT !["guest"] = r]
      /\ streamed' = [streamed EXCEPT !.arrived = streamed.arrived + 1,
                                      !.refused = streamed.refused + b]
  BY Zenon DEF ReceivePacket, Deliver
<1>3. NetTypeOK' /\ IsFiniteSet(wire') /\ v = w - 1
  BY <1>2, TakenRemoves DEF StreamInv
<1>4. /\ r \in Engine /\ r.dropped = g.dropped + c /\ r.outbound = g.outbound
      /\ QueueLength(r.inbound) = QueueLength(g.inbound) + n
  <2>1. d.seq \in Packets
    BY <1>1 DEF NetTypeOK, Datagrams
  <2>2. /\ g.dropped + 1 \in Nat /\ g.received + 1 \in Nat /\ g.dropped + 0 = g.dropped
        /\ Append(g.inbound, d.seq) \in Seq(Packets)
        /\ QueueLength(Append(g.inbound, d.seq)) = QueueLength(g.inbound) + 1
        /\ QueueLength(g.inbound) + 0 = QueueLength(g.inbound)
    BY <1>1, <2>1, EngineNumbers DEF QueueLength
  <2>3. QED
    BY <1>1, <2>2, Zenon DEF Received, Engine, AudioPacket
<1>5. b \in Nat /\ c \in Nat /\ n \in Nat /\ b + c = 1 - n
  OBVIOUS
<1> HIDE DEF b, c, n, r
<1>6. /\ engines' \in [Engines -> Engine]
      /\ engines'["host"] = e /\ engines'["guest"] = r /\ OneWay'
  BY <1>1, <1>2, <1>4, EngineChanges DEF Engines, OneWay
<1>7. /\ streamed' \in Streamed
      /\ streamed'.arrived = streamed.arrived + 1 /\ streamed'.refused = streamed.refused + b
      /\ streamed'.accepted = streamed.accepted /\ streamed'.cleared = streamed.cleared
      /\ streamed'.unheard = streamed.unheard /\ streamed'.lost = streamed.lost
      /\ streamed'.copied = streamed.copied /\ streamed'.fed = streamed.fed
  <2>1. streamed.arrived + 1 \in Nat /\ streamed.refused + b \in Nat
    BY <1>1, <1>5, StreamedNumbers
  <2>2. QED
    BY <1>1, <1>2, <2>1, Zenon DEF Streamed
<1> HIDE DEF v, w
<1>8. HostGone(e, streamed') = HostGone(e, streamed)
  BY <1>7 DEF HostGone
<1>9. WireGone(streamed') = WireGone(streamed) + b
  <2>1. streamed.lost \in Nat /\ streamed.refused \in Nat
    BY <1>1, StreamedNumbers
  <2>2. QED
    BY <1>5, <1>7, <2>1 DEF WireGone
<1>10. GuestGone(r, streamed') = GuestGone(g, streamed) + c
  <2>1. streamed.fed \in Nat /\ g.dropped \in Nat
    BY <1>1, StreamedNumbers, EngineNumbers
  <2>2. QED
    BY <1>4, <1>5, <1>7, <2>1 DEF GuestGone
<1>11. There(e, r, v) = There(e, g, w) + (n - 1)
  <2>1. QueueLength(e.outbound) \in Nat /\ QueueLength(g.inbound) \in Nat /\ w \in Nat
    BY <1>1, EngineNumbers
  <2>2. QED
    BY <1>3, <1>4, <1>5, <2>1 DEF There
<1>12. streamed.accepted + streamed.copied =
         HostGone(e, streamed) + (WireGone(streamed) + b) + (GuestGone(g, streamed) + c)
           + (There(e, g, w) + (n - 1))
  <2>1. /\ HostGone(e, streamed) \in Int /\ WireGone(streamed) \in Int
        /\ GuestGone(g, streamed) \in Int /\ There(e, g, w) \in Int
    BY <1>1, BalanceNumbers
  <2>2. streamed.accepted + streamed.copied =
          HostGone(e, streamed) + WireGone(streamed) + GuestGone(g, streamed) + There(e, g, w)
    BY StreamFacts, Zenon DEF w
  <2>3. QED
    BY <1>5, <2>1, <2>2
<1>13. e.sent + streamed.copied =
         streamed.unheard + streamed.lost + (streamed.arrived + 1) + (w - 1)
  <2>1. /\ streamed.copied \in Int /\ streamed.unheard \in Int
        /\ streamed.lost \in Int /\ streamed.arrived \in Int /\ e.sent \in Int /\ w \in Int
    BY <1>1, StreamedNumbers, EngineNumbers
  <2>2. e.sent + streamed.copied = streamed.unheard + streamed.lost + streamed.arrived + w
    BY StreamFacts, Zenon DEF w
  <2>3. QED
    BY <2>1, <2>2
<1>14. Balance(e, r, streamed', v)
  BY <1>3, <1>7, <1>8, <1>9, <1>10, <1>11, <1>12, <1>13, Zenon DEF Balance
<1>15. QED
  BY <1>3, <1>6, <1>7, <1>14, StreamKept DEF v

LEMMA DequeueStream ==
  ASSUME StreamInv, NEW p \in Packets, DequeuePacket(p)
  PROVE  StreamInv' /\ streamed'.fed = streamed.fed + 1
<1> DEFINE e == engines["host"]
           g == engines["guest"]
           w == Cardinality(wire)
           r == [g EXCEPT !.inbound = Tail(g.inbound)]
<1>1. /\ engines \in [Engines -> Engine] /\ e \in Engine /\ g \in Engine /\ OneWay
      /\ NetTypeOK /\ IsFiniteSet(wire) /\ streamed \in Streamed /\ w \in Nat
  BY StreamFacts, Zenon
<1>2. /\ g.inbound # <<>> /\ UNCHANGED netVars
      /\ engines' = [engines EXCEPT !["guest"] = r]
      /\ streamed' = [streamed EXCEPT !.fed = streamed.fed + 1]
  BY Zenon DEF DequeuePacket
<1>3. /\ r \in Engine /\ r.dropped = g.dropped /\ r.outbound = g.outbound
      /\ QueueLength(r.inbound) = QueueLength(g.inbound) - 1
  <2>1. /\ Tail(g.inbound) \in Seq(Packets)
        /\ QueueLength(Tail(g.inbound)) = QueueLength(g.inbound) - 1
    BY <1>1, <1>2, EngineNumbers, TailLength
  <2>2. QED
    BY <1>1, <2>1, Zenon DEF Engine, AudioPacket
<1> HIDE DEF r
<1>4. /\ engines' \in [Engines -> Engine]
      /\ engines'["host"] = e /\ engines'["guest"] = r /\ OneWay'
  BY <1>1, <1>2, <1>3, EngineChanges DEF Engines, OneWay
<1>5. NetTypeOK' /\ IsFiniteSet(wire') /\ Cardinality(wire') = w
  BY <1>1, <1>2 DEF NetTypeOK, netVars
<1>6. /\ streamed' \in Streamed /\ streamed'.fed = streamed.fed + 1
      /\ streamed'.accepted = streamed.accepted /\ streamed'.cleared = streamed.cleared
      /\ streamed'.unheard = streamed.unheard /\ streamed'.lost = streamed.lost
      /\ streamed'.copied = streamed.copied /\ streamed'.arrived = streamed.arrived
      /\ streamed'.refused = streamed.refused
  <2>1. streamed.fed + 1 \in Nat
    BY <1>1, StreamedNumbers
  <2>2. QED
    BY <1>1, <1>2, <2>1, Zenon DEF Streamed
<1>7. HostGone(e, streamed') = HostGone(e, streamed) /\ WireGone(streamed') = WireGone(streamed)
  BY <1>6 DEF HostGone, WireGone
<1>8. GuestGone(r, streamed') = GuestGone(g, streamed) + 1
  <2>1. streamed.fed \in Nat /\ g.dropped \in Nat
    BY <1>1, StreamedNumbers, EngineNumbers
  <2>2. QED
    BY <1>3, <1>6, <2>1 DEF GuestGone
<1>9. There(e, r, w) = There(e, g, w) - 1
  <2>1. QueueLength(e.outbound) \in Nat /\ QueueLength(g.inbound) \in Nat /\ w \in Nat
    BY <1>1, EngineNumbers
  <2>2. QED
    BY <1>3, <2>1 DEF There
<1>10. streamed.accepted + streamed.copied =
         HostGone(e, streamed) + WireGone(streamed) + (GuestGone(g, streamed) + 1)
           + (There(e, g, w) - 1)
  <2>1. /\ HostGone(e, streamed) \in Int /\ WireGone(streamed) \in Int
        /\ GuestGone(g, streamed) \in Int /\ There(e, g, w) \in Int
    BY <1>1, BalanceNumbers
  <2>2. streamed.accepted + streamed.copied =
          HostGone(e, streamed) + WireGone(streamed) + GuestGone(g, streamed) + There(e, g, w)
    BY StreamFacts, Zenon
  <2>3. QED
    BY <2>1, <2>2
<1>11. Balance(e, r, streamed', w)
  BY <1>6, <1>7, <1>8, <1>9, <1>10, StreamFacts, ZenonT(40) DEF Balance
<1>12. QED
  BY <1>4, <1>5, <1>6, <1>11, StreamKept

LEMMA ClearStream ==
  ASSUME StreamInv, NEW f \in Engines, ClearQueues(f)
  PROVE  StreamInv' /\ streamed'.fed = streamed.fed
<1> DEFINE e == engines["host"]
           g == engines["guest"]
           w == Cardinality(wire)
           r == [[engines[f] EXCEPT !.outbound = <<>>] EXCEPT !.inbound = <<>>]
           n == Drained(f)
<1>1. /\ engines \in [Engines -> Engine] /\ e \in Engine /\ g \in Engine /\ OneWay
      /\ NetTypeOK /\ IsFiniteSet(wire) /\ streamed \in Streamed /\ w \in Nat
  BY StreamFacts, Zenon
<1>2. /\ UNCHANGED netVars
      /\ engines' = [[engines EXCEPT ![f].outbound = <<>>] EXCEPT ![f].inbound = <<>>]
      /\ streamed' = [streamed EXCEPT !.calls = streamed.calls + 1,
                                      !.cleared = streamed.cleared + n]
  BY Zenon DEF ClearQueues
<1>3. engines' = [engines EXCEPT ![f] = r]
  BY <1>1, <1>2, Zenon
<1>4. QueueLength(<<>>) = 0
  BY DEF QueueLength
<1>5. n = IF f = "host" THEN QueueLength(e.outbound) ELSE QueueLength(g.inbound)
  <2>1. QueueLength(e.outbound) \in Nat /\ QueueLength(g.inbound) \in Nat
    BY <1>1, EngineNumbers
  <2>2. n = QueueLength(engines[f].outbound) + QueueLength(engines[f].inbound)
    BY DEF Drained
  <2>3. e.inbound = <<>> /\ g.outbound = <<>>
    BY <1>1 DEF OneWay
  <2>4. f \in {"host", "guest"}
    BY DEF Engines
  <2>5. QED
    BY <1>4, <2>1, <2>2, <2>3, <2>4
<1>6. n \in Nat
  BY <1>1, <1>5, EngineNumbers
<1>7. /\ r \in Engine /\ r.outbound = <<>> /\ r.inbound = <<>>
      /\ r.failed = engines[f].failed /\ r.sent = engines[f].sent
      /\ r.dropped = engines[f].dropped
  <2>1. <<>> \in Seq(Packets)
    OBVIOUS
  <2>2. QED
    BY <1>1, <2>1, Zenon DEF Engine, AudioPacket
<1> HIDE DEF r, n
<1> DEFINE h == engines'["host"]
           i == engines'["guest"]
<1>8. /\ engines' \in [Engines -> Engine] /\ OneWay'
      /\ h \in Engine /\ i \in Engine
      /\ h.failed = e.failed /\ h.sent = e.sent /\ i.dropped = g.dropped
      /\ h.outbound = IF f = "host" THEN <<>> ELSE e.outbound
      /\ i.inbound = IF f = "guest" THEN <<>> ELSE g.inbound
  BY <1>1, <1>3, <1>7, EngineChanges DEF Engines, OneWay
<1>9. /\ streamed' \in Streamed /\ streamed'.cleared = streamed.cleared + n
      /\ streamed'.accepted = streamed.accepted /\ streamed'.fed = streamed.fed
      /\ streamed'.unheard = streamed.unheard /\ streamed'.lost = streamed.lost
      /\ streamed'.copied = streamed.copied /\ streamed'.arrived = streamed.arrived
      /\ streamed'.refused = streamed.refused
  <2>1. streamed.cleared + n \in Nat /\ streamed.calls + 1 \in Nat
    BY <1>1, <1>6, StreamedNumbers
  <2>2. QED
    BY <1>1, <1>2, <2>1, Zenon DEF Streamed
<1>10. NetTypeOK' /\ IsFiniteSet(wire') /\ Cardinality(wire') = w
  BY <1>1, <1>2 DEF NetTypeOK, netVars
<1> HIDE DEF h, i
<1>11. WireGone(streamed') = WireGone(streamed) /\ GuestGone(i, streamed') = GuestGone(g, streamed)
  BY <1>8, <1>9 DEF WireGone, GuestGone
<1>12. HostGone(h, streamed') = HostGone(e, streamed) + n
  <2>1. streamed.unheard \in Nat /\ streamed.cleared \in Nat /\ e.failed \in Nat
    BY <1>1, StreamedNumbers, EngineNumbers
  <2>2. QED
    BY <1>6, <1>8, <1>9, <2>1 DEF HostGone
<1>13. There(h, i, w) = There(e, g, w) - n
  <2>1. QueueLength(e.outbound) \in Nat /\ QueueLength(g.inbound) \in Nat /\ w \in Nat
    BY <1>1, EngineNumbers
  <2>2. f \in {"host", "guest"}
    BY DEF Engines
  <2>3. /\ QueueLength(h.outbound) = IF f = "host" THEN 0 ELSE QueueLength(e.outbound)
        /\ QueueLength(i.inbound) = IF f = "guest" THEN 0 ELSE QueueLength(g.inbound)
    BY <1>4, <1>8, Zenon
  <2>4. QED
    BY <1>5, <2>1, <2>2, <2>3 DEF There
<1>14. streamed.accepted + streamed.copied =
         (HostGone(e, streamed) + n) + WireGone(streamed) + GuestGone(g, streamed)
           + (There(e, g, w) - n)
  <2>1. /\ HostGone(e, streamed) \in Int /\ WireGone(streamed) \in Int
        /\ GuestGone(g, streamed) \in Int /\ There(e, g, w) \in Int
    BY <1>1, BalanceNumbers, SMTT(20)
  <2>2. streamed.accepted + streamed.copied =
          HostGone(e, streamed) + WireGone(streamed) + GuestGone(g, streamed) + There(e, g, w)
    BY StreamFacts, Zenon
  <2>3. QED
    BY <1>6, <2>1, <2>2
<1>15. Balance(h, i, streamed', w)
  BY <1>8, <1>9, <1>11, <1>12, <1>13, <1>14, StreamFacts, ZenonT(40) DEF Balance
<1>16. QED
  BY <1>8, <1>9, <1>10, <1>15, StreamKept DEF h, i

LEMMA LifecycleStream ==
  ASSUME StreamInv, Lifecycle
  PROVE  StreamInv' /\ streamed'.fed = streamed.fed
<1>1. /\ engines \in [Engines -> Engine] /\ NetTypeOK /\ streamed \in Streamed
  BY StreamFacts, Zenon
<1>2. ASSUME NEW f \in Engines, NEW from, NEW to \in EngineState, Moves(f, from, to),
             streamed' = streamed \/ streamed' = [streamed EXCEPT !.calls = streamed.calls + 1]
      PROVE  StreamInv' /\ streamed'.fed = streamed.fed
  <2>1. /\ engines' = [engines EXCEPT ![f].state = to] /\ wire' = wire /\ NetTypeOK'
    BY <1>1, <1>2 DEF Moves, netVars, NetTypeOK
  <2>2. /\ engines' \in [Engines -> Engine]
        /\ \A i \in Engines :
             /\ engines'[i].outbound = engines[i].outbound
             /\ engines'[i].inbound = engines[i].inbound
             /\ engines'[i].sent = engines[i].sent /\ engines'[i].failed = engines[i].failed
             /\ engines'[i].dropped = engines[i].dropped
    BY <1>1, <2>1, Zenon DEF Engine
  <2>3. /\ streamed' \in Streamed /\ streamed'.cleared = streamed.cleared
        /\ streamed'.accepted = streamed.accepted /\ streamed'.fed = streamed.fed
        /\ streamed'.unheard = streamed.unheard /\ streamed'.lost = streamed.lost
        /\ streamed'.copied = streamed.copied /\ streamed'.arrived = streamed.arrived
        /\ streamed'.refused = streamed.refused
    <3>1. streamed.calls + 1 \in Nat
      BY <1>1, StreamedNumbers
    <3>2. QED
      BY <1>1, <1>2, <3>1, Zenon DEF Streamed
  <2>4. QED
    BY <2>1, <2>2, <2>3, QuietStream
<1>3. "Running" \in EngineState /\ "Paused" \in EngineState /\ "Stopped" \in EngineState
  BY DEF EngineState
<1>4. "host" \in Engines
  BY DEF Engines
<1>5. ASSUME NEW f \in Engines, StartEngine(f) \/ StopEngine(f)
      PROVE  StreamInv' /\ streamed'.fed = streamed.fed
  BY <1>2, <1>3, <1>5, Zenon DEF StartEngine, StopEngine, Interrupts
<1>6. CASE PauseEngine("host") \/ ResumeEngine("host")
  BY <1>2, <1>3, <1>4, <1>6, Zenon DEF PauseEngine, ResumeEngine, Interrupts
<1>7. QED
  BY <1>5, <1>6, ClearStream DEF Lifecycle

(* Joining, and requests to join that are lost or repeated. *)
LEMMA JoiningStream ==
  ASSUME StreamInv, Joining \/ NotJoining
  PROVE  StreamInv' /\ streamed'.fed = streamed.fed
<1>1. /\ engines \in [Engines -> Engine] /\ NetTypeOK /\ streamed \in Streamed
  BY StreamFacts, Zenon
<1>2. wire' = wire /\ engines' = engines
  BY DEF Joining, NotJoining, StartHostMode, ScanForHosts, HandleRequest, LoseRequest, CopyRequest
<1>3. NetTypeOK'
  <2> DEFINE Net == [advertised : BOOLEAN, found : BOOLEAN, requests : Nat, client : BOOLEAN,
                     device : BOOLEAN]
  <2>1. net \in Net /\ wire' \subseteq Datagrams
    BY <1>1, <1>2 DEF NetTypeOK
  <2>2. \A n \in Net : n.requests \in Nat /\ n.requests + 1 \in Nat
    OBVIOUS
  <2>3. \A n \in Net : n.requests > 0 => n.requests - 1 \in Nat
    OBVIOUS
  <2>4. \A n \in Net : Advertised(n) \in Net /\ Requested(n) \in Net /\ AddDevice(n) \in Net
    BY <2>2, Zenon DEF Advertised, Requested, AddDevice
  <2>5. \A n \in Net : [n EXCEPT !.found = TRUE] \in Net
    BY Zenon
  <2>6. ASSUME net.requests > 0
        PROVE  /\ \A c \in BOOLEAN : [net EXCEPT !.requests = net.requests - 1, !.client = c] \in Net
               /\ [net EXCEPT !.requests = net.requests - 1] \in Net
    <3>1. net \in Net /\ net.requests - 1 \in Nat
      BY <2>1, <2>3, <2>6
    <3>2. QED
      BY <3>1, Zenon
  <2>7. [net EXCEPT !.requests = net.requests + 1] \in Net
    <3>1. net \in Net /\ net.requests + 1 \in Nat
      BY <2>1, <2>2
    <3>2. QED
      BY <3>1, Zenon
  <2> HIDE DEF Net
  <2>8. StartHostMode \/ ScanForHosts => net' \in Net
    BY <2>1, <2>4, <2>5, Zenon DEF StartHostMode, ScanForHosts
  <2>9. HandleRequest => net' \in Net
    BY <2>4, <2>6, Zenon DEF HandleRequest
  <2>10. LoseRequest \/ CopyRequest => net' \in Net
    BY <2>6, <2>7, Zenon DEF LoseRequest, CopyRequest
  <2>11. net' \in Net
    BY <2>8, <2>9, <2>10, Zenon DEF Joining, NotJoining
  <2>12. QED
    BY <2>1, <2>11 DEF NetTypeOK, Net
<1>4. /\ streamed' \in Streamed /\ streamed'.cleared = streamed.cleared
      /\ streamed'.accepted = streamed.accepted /\ streamed'.fed = streamed.fed
      /\ streamed'.unheard = streamed.unheard /\ streamed'.lost = streamed.lost
      /\ streamed'.copied = streamed.copied /\ streamed'.arrived = streamed.arrived
      /\ streamed'.refused = streamed.refused
  <2>1. streamed.calls + 1 \in Nat
    BY <1>1, StreamedNumbers
  <2>2. streamed' = streamed \/ streamed' = [streamed EXCEPT !.calls = streamed.calls + 1]
    BY DEF Joining, NotJoining, Interrupts
  <2>3. QED
    BY <1>1, <2>1, <2>2, Zenon DEF Streamed
<1>5. QED
  BY <1>1, <1>2, <1>3, <1>4, QuietStream

(* A call that interrupts something else, and steps of something else. *)
LEMMA ElsewhereStream ==
  ASSUME StreamInv, UNCHANGED <<engines, netVars>>,
         streamed' = streamed \/ streamed' = [streamed EXCEPT !.calls = streamed.calls + 1]
  PROVE  StreamInv' /\ streamed'.fed = streamed.fed
<1>1. /\ engines \in [Engines -> Engine] /\ NetTypeOK /\ streamed \in Streamed
  BY StreamFacts, Zenon
<1>2. wire' = wire /\ engines' = engines /\ NetTypeOK'
  BY <1>1 DEF netVars, NetTypeOK
<1>3. /\ streamed' \in Streamed /\ streamed'.cleared = streamed.cleared
      /\ streamed'.accepted = streamed.accepted /\ streamed'.fed = streamed.fed
      /\ streamed'.unheard = streamed.unheard /\ streamed'.lost = streamed.lost
      /\ streamed'.copied = streamed.copied /\ streamed'.arrived = streamed.arrived
      /\ streamed'.refused = streamed.refused
  <2>1. streamed.calls + 1 \in Nat
    BY <1>1, StreamedNumbers
  <2>2. QED
    BY <1>1, <2>1, Zenon DEF Streamed
<1>4. QED
  BY <1>1, <1>2, <1>3, QuietStream

-----------------------------------------------------------------------------
(* The buffer. *)

Unseen == [repeated : Nat, flushed : Nat, discarded : Nat, resets : Nat]

(* What has been handed out and not thrown away. *)
HandedOut == bstats.delivered - unseen.flushed

(* The balance without the statistics' names. *)
BufferBalance(n, s, u, size) ==
  /\ n = s.buffered + s.duplicates + u.repeated
  /\ s.buffered = s.delivered + s.dropped + size + u.discarded

LEMMA BufferFacts ==
  ASSUME BufferTyped
  PROVE  /\ bstats \in JitterBufferStatistics /\ unseen \in Unseen
         /\ IsFiniteSet(buffered) /\ Cardinality(buffered) \in Nat
         /\ bstats.buffered \in Nat /\ bstats.delivered \in Nat /\ bstats.dropped \in Nat
         /\ bstats.duplicates \in Nat
         /\ unseen.repeated \in Nat /\ unseen.flushed \in Nat /\ unseen.discarded \in Nat
         /\ unseen.resets \in Nat
<1>1. /\ bstats \in JitterBufferStatistics /\ unseen \in Unseen /\ IsFiniteSet(buffered)
  BY DEF BufferTyped, Unseen
<1>2. QED
  BY <1>1, FS_CardinalityType DEF JitterBufferStatistics, Unseen

LEMMA BufferBalanced ==
  ASSUME NEW n
  PROVE  /\ BufferAccounted(n) <=> BufferBalance(n, bstats, unseen, Cardinality(buffered))
         /\ BufferAccounted(n)' <=>
              BufferBalance(n', bstats', unseen', Cardinality(buffered'))
BY Zenon DEF BufferAccounted, BufferBalance, Statistics

(* A non-empty set of packets has a first one. *)
LEMMA FirstExists ==
  ASSUME NEW S \in SUBSET BufferedEntries, S # {}
  PROVE  Firsts(S) # {}
<1> DEFINE N == {x.seq : x \in S}
<1>1. N \subseteq Nat /\ N # {}
  BY DEF BufferedEntries
<1>2. PICK m \in N : \A k \in N : ~(<<k, m>> \in OpToRel(<, Nat))
  BY <1>1, WFMin, NatLessThanWellFounded
<1>3. \A k \in N : m <= k
  <2> SUFFICES ASSUME NEW k \in N PROVE m <= k
    OBVIOUS
  <2>1. <<k, m>> \in Nat \X Nat /\ m \in Nat /\ k \in Nat
    BY <1>1
  <2>2. ~(<<k, m>>[1] < <<k, m>>[2])
    BY <1>2, <2>1, Zenon DEF OpToRel
  <2>3. QED
    BY <2>1, <2>2
<1>4. PICK x \in S : x.seq = m
  OBVIOUS
<1>5. x \in Firsts(S)
  BY <1>3, <1>4 DEF Firsts
<1>6. QED
  BY <1>5

(* Part of the buffer leaves it. *)
LEMMA BufferShrinks ==
  ASSUME BufferTyped, NEW S \in SUBSET buffered
  PROVE  /\ IsFiniteSet(S) /\ Cardinality(S) \in Nat /\ IsFiniteSet(buffered \ S)
         /\ Cardinality(buffered \ S) \in Nat
         /\ Cardinality(buffered \ S) = Cardinality(buffered) - Cardinality(S)
<1>1. IsFiniteSet(buffered) /\ buffered \cap S = S
  BY BufferFacts
<1>2. IsFiniteSet(S)
  BY <1>1, FS_Subset
<1>3. /\ IsFiniteSet(buffered \ S)
      /\ Cardinality(buffered \ S) = Cardinality(buffered) - Cardinality(S)
  BY <1>1, FS_Difference
<1>4. QED
  BY <1>2, <1>3, FS_CardinalityType

LEMMA PushTyped ==
  ASSUME BufferTyped, NEW p \in Packets, PushPacket(p), NEW n \in Nat, BufferAccounted(n)
  PROVE  BufferTyped' /\ BufferBalance(n + 1, bstats', unseen', Cardinality(buffered'))
         /\ HandedOut' = HandedOut /\ unseen'.resets = unseen.resets
<1>1. BufferBalance(n, bstats, unseen, Cardinality(buffered))
  BY BufferBalanced, Zenon
<1>2. CASE Held(p)
  <2>1. /\ unseen' = [unseen EXCEPT !.repeated = unseen.repeated + 1]
        /\ UNCHANGED <<buffered, windowVars, targetDelay, bstats>>
    BY <1>2 DEF PushPacket
  <2>2. unseen.repeated + 1 \in Nat
    BY BufferFacts
  <2>3. /\ unseen' \in Unseen /\ unseen'.repeated = unseen.repeated + 1
        /\ unseen'.flushed = unseen.flushed /\ unseen'.discarded = unseen.discarded
        /\ unseen'.resets = unseen.resets
    BY <2>1, <2>2, BufferFacts, Zenon DEF Unseen
  <2>4. BufferTyped'
    BY <2>1, <2>3 DEF BufferTyped, windowVars, Unseen
  <2>5. n + 1 = bstats.buffered + bstats.duplicates + (unseen.repeated + 1)
    BY <1>1, BufferFacts DEF BufferBalance
  <2>6. QED
    BY <1>1, <2>1, <2>3, <2>4, <2>5, Zenon DEF BufferBalance, HandedOut
<1>3. CASE ~Held(p) /\ NotAdmitted(p)
  <2>1. /\ bstats' = [bstats EXCEPT !.duplicates = bstats.duplicates + 1]
        /\ UNCHANGED <<buffered, windowVars, targetDelay, unseen>>
    BY <1>3 DEF PushPacket
  <2>2. bstats.duplicates + 1 \in Nat
    BY BufferFacts
  <2>3. /\ bstats' \in JitterBufferStatistics /\ bstats'.duplicates = bstats.duplicates + 1
        /\ bstats'.buffered = bstats.buffered /\ bstats'.delivered = bstats.delivered
        /\ bstats'.dropped = bstats.dropped
    BY <2>1, <2>2, BufferFacts, Zenon DEF JitterBufferStatistics
  <2>4. BufferTyped'
    BY <2>1, <2>3 DEF BufferTyped, windowVars
  <2>5. n + 1 = bstats.buffered + (bstats.duplicates + 1) + unseen.repeated
    BY <1>1, BufferFacts DEF BufferBalance
  <2>6. QED
    BY <1>1, <2>1, <2>3, <2>4, <2>5, Zenon DEF BufferBalance, HandedOut
<1>4. CASE ~Held(p) /\ ~NotAdmitted(p)
  <2> DEFINE x == [seq |-> p, age |-> 0]
             S == Overflowing
             c == Cardinality(buffered)
             k == Cardinality(S)
  <2>1. /\ buffered' = (buffered \ S) \cup {x}
        /\ bstats' = [bstats EXCEPT !.buffered = bstats.buffered + 1,
                                    !.dropped = bstats.dropped + k]
        /\ targetDelay' \in Adapted /\ UNCHANGED <<windowVars, unseen>>
    BY <1>4, Zenon DEF PushPacket
  <2>2. S \subseteq buffered /\ (c >= MaxBufferSize => S # {})
    <3>1. MaxBufferSize \in Nat /\ MaxBufferSize > 0
      BY AudioBufferAssumption DEF ValidBufferConfig
    <3>2. c >= MaxBufferSize => buffered # {}
      BY <3>1, FS_EmptySet
    <3>3. buffered \in SUBSET BufferedEntries
      BY DEF BufferTyped
    <3>4. QED
      BY <3>2, <3>3, FirstExists DEF Overflowing, Firsts
  <2>3. /\ IsFiniteSet(buffered \ S) /\ Cardinality(buffered \ S) = c - k
        /\ IsFiniteSet(S) /\ k \in Nat /\ c \in Nat /\ c - k \in Nat
    BY <2>2, BufferShrinks, BufferFacts
  <2>4. k = 0 => S = {}
    BY <2>3, FS_EmptySet
  <2>5. x.seq = p /\ x \in BufferedEntries /\ \A y \in buffered : y.seq # p
    BY <1>4, StreamAssumption DEF BufferedEntries, Held
  <2>6. IsFiniteSet(buffered') /\ Cardinality(buffered') = (c - k) + 1
    <3>1. x \notin buffered \ S
      BY <2>5
    <3>2. /\ IsFiniteSet((buffered \ S) \cup {x})
          /\ Cardinality((buffered \ S) \cup {x}) = Cardinality(buffered \ S) + 1
      BY <2>3, <3>1, FS_AddElement
    <3>3. QED
      BY <2>1, <2>3, <3>2
  <2>7. Cardinality(buffered') <= MaxBufferSize
    <3>1. MaxBufferSize \in Nat /\ c <= MaxBufferSize
      BY AudioBufferAssumption DEF BufferTyped
    <3>2. QED
      BY <2>2, <2>3, <2>4, <2>6, <3>1
  <2>8. bstats.buffered + 1 \in Nat /\ bstats.dropped + k \in Nat
    BY <2>3, BufferFacts
  <2>9. /\ bstats' \in JitterBufferStatistics /\ bstats'.buffered = bstats.buffered + 1
        /\ bstats'.dropped = bstats.dropped + k
        /\ bstats'.delivered = bstats.delivered /\ bstats'.duplicates = bstats.duplicates
    BY <2>1, <2>8, BufferFacts, Zenon DEF JitterBufferStatistics
  <2>10. targetDelay' \in MinTargetDelay .. MaxTargetDelay
    BY <2>1, AudioBufferAssumption DEF Adapted, ValidBufferConfig
  <2> HIDE DEF x, S, c, k
  <2>11. /\ buffered' \subseteq BufferedEntries
         /\ \A y, z \in buffered' : y.seq = z.seq => y = z
    BY <2>1, <2>5 DEF BufferTyped
  <2>12. BufferTyped'
    BY <2>1, <2>6, <2>7, <2>9, <2>10, <2>11 DEF BufferTyped, windowVars
  <2>13. n + 1 = (bstats.buffered + 1) + bstats.duplicates + unseen.repeated
    BY <1>1, BufferFacts DEF BufferBalance
  <2>14. bstats.buffered + 1 =
           bstats.delivered + (bstats.dropped + k) + ((c - k) + 1) + unseen.discarded
    <3>1. bstats.buffered = bstats.delivered + bstats.dropped + c + unseen.discarded
      BY <1>1 DEF BufferBalance, c
    <3>2. QED
      BY <2>3, <3>1, BufferFacts
  <2>15. QED
    BY <2>1, <2>6, <2>9, <2>12, <2>13, <2>14, Zenon DEF BufferBalance, HandedOut
<1>5. QED
  BY <1>2, <1>3, <1>4

(* pop_packet: whatever is too old goes, and the first packet or none. *)
LEMMA PopTyped ==
  ASSUME BufferTyped, NEW p \in Packets, PopReady(p), NEW n \in Nat, BufferAccounted(n)
  PROVE  BufferTyped' /\ BufferBalance(n, bstats', unseen', Cardinality(buffered'))
         /\ HandedOut' = HandedOut + 1 /\ unseen'.resets = unseen.resets
<1> DEFINE S == TooOld
           c == Cardinality(buffered)
           k == Cardinality(S)
<1>1. PICK x \in buffered \ S : x.seq = p /\ buffered' = buffered \ (S \cup {x})
  BY DEF PopReady, ReadyToPlay, Firsts
<1>2. /\ bstats' = [bstats EXCEPT !.delivered = bstats.delivered + 1,
                                  !.dropped = bstats.dropped + k]
      /\ Advance(<<p>>) /\ UNCHANGED <<targetDelay, unseen>>
  BY Zenon DEF PopReady
<1>3. S \subseteq buffered
  BY DEF TooOld
<1>4. /\ IsFiniteSet(buffered \ S) /\ Cardinality(buffered \ S) = c - k
      /\ k \in Nat /\ c \in Nat
  BY <1>3, BufferShrinks, BufferFacts
<1>5. IsFiniteSet(buffered') /\ Cardinality(buffered') = (c - k) - 1
  <2>1. buffered' = (buffered \ S) \ {x}
    BY <1>1
  <2>2. /\ IsFiniteSet((buffered \ S) \ {x})
        /\ Cardinality((buffered \ S) \ {x}) = Cardinality(buffered \ S) - 1
    BY <1>1, <1>4, FS_RemoveElement
  <2>3. QED
    BY <1>4, <2>1, <2>2
<1>6. bstats.delivered + 1 \in Nat /\ bstats.dropped + k \in Nat
  BY <1>4, BufferFacts
<1>7. /\ bstats' \in JitterBufferStatistics /\ bstats'.delivered = bstats.delivered + 1
      /\ bstats'.dropped = bstats.dropped + k
      /\ bstats'.buffered = bstats.buffered /\ bstats'.duplicates = bstats.duplicates
  BY <1>2, <1>6, BufferFacts, Zenon DEF JitterBufferStatistics
<1>8. p \in Nat /\ expected' = IF expected # None /\ expected > p + 1 THEN expected ELSE p + 1
  BY <1>2, StreamAssumption DEF Advance, Last
<1>9. Cardinality(buffered') <= MaxBufferSize
  BY <1>4, <1>5, AudioBufferAssumption DEF BufferTyped
<1> HIDE DEF S, c, k
<1>10. BufferTyped'
  BY <1>1, <1>2, <1>5, <1>7, <1>8, <1>9 DEF BufferTyped
<1>11. BufferBalance(n, bstats, unseen, c)
  BY BufferBalanced, Zenon DEF c
<1>12. bstats.buffered =
         (bstats.delivered + 1) + (bstats.dropped + k) + ((c - k) - 1) + unseen.discarded
  <2>1. bstats.buffered = bstats.delivered + bstats.dropped + c + unseen.discarded
    BY <1>11 DEF BufferBalance
  <2>2. QED
    BY <1>4, <2>1, BufferFacts
<1>13. HandedOut' = HandedOut + 1
  BY <1>2, <1>7, BufferFacts DEF HandedOut
<1>14. QED
  BY <1>2, <1>5, <1>7, <1>10, <1>11, <1>12, <1>13, Zenon DEF BufferBalance

LEMMA PopNothingTyped ==
  ASSUME BufferTyped, PopNothing, NEW n \in Nat, BufferAccounted(n)
  PROVE  BufferTyped' /\ BufferBalance(n, bstats', unseen', Cardinality(buffered'))
         /\ HandedOut' = HandedOut /\ unseen'.resets = unseen.resets
<1> DEFINE S == TooOld
           c == Cardinality(buffered)
           k == Cardinality(S)
<1>1. /\ buffered' = buffered \ S /\ bstats' = [bstats EXCEPT !.dropped = bstats.dropped + k]
      /\ UNCHANGED <<windowVars, targetDelay, unseen>>
  BY Zenon DEF PopNothing
<1>2. S \subseteq buffered
  BY DEF TooOld
<1>3. /\ IsFiniteSet(buffered \ S) /\ Cardinality(buffered \ S) = c - k
      /\ k \in Nat /\ c \in Nat
  BY <1>2, BufferShrinks, BufferFacts
<1>4. bstats.dropped + k \in Nat
  BY <1>3, BufferFacts
<1>5. /\ bstats' \in JitterBufferStatistics /\ bstats'.delivered = bstats.delivered
      /\ bstats'.dropped = bstats.dropped + k
      /\ bstats'.buffered = bstats.buffered /\ bstats'.duplicates = bstats.duplicates
  BY <1>1, <1>4, BufferFacts, Zenon DEF JitterBufferStatistics
<1>6. Cardinality(buffered') <= MaxBufferSize
  BY <1>1, <1>3, AudioBufferAssumption DEF BufferTyped
<1> HIDE DEF S, c, k
<1>7. BufferTyped'
  BY <1>1, <1>3, <1>5, <1>6 DEF BufferTyped, windowVars
<1>8. BufferBalance(n, bstats, unseen, c)
  BY BufferBalanced, Zenon DEF c
<1>9. bstats.buffered = bstats.delivered + (bstats.dropped + k) + (c - k) + unseen.discarded
  <2>1. bstats.buffered = bstats.delivered + bstats.dropped + c + unseen.discarded
    BY <1>8 DEF BufferBalance
  <2>2. QED
    BY <1>3, <2>1, BufferFacts
<1>10. QED
  BY <1>1, <1>3, <1>5, <1>7, <1>8, <1>9, Zenon DEF BufferBalance, HandedOut

(* clear() advances past the last packet it flushes.                       *)
LEMMA ClearAdvances ==
  ASSUME BufferTyped, ClearBuffer
  PROVE  \E m \in Nat : expected' = IF expected # None /\ expected > m THEN expected ELSE m
<1> DEFINE S == {x.seq : x \in buffered}
<1>1. PICK released \in InOrder(S) : Advance(released)
  BY DEF ClearBuffer
<1>2. S \subseteq Nat /\ IsFiniteSet(S) /\ S # {}
  <2>1. S \subseteq Nat /\ S # {}
    BY DEF BufferTyped, BufferedEntries, ClearBuffer
  <2>2. [x \in buffered |-> x.seq] \in Surjection(buffered, S)
    BY DEF Surjection
  <2>3. QED
    BY <2>1, <2>2, BufferFacts, FS_Surjection
<1>3. Cardinality(S) \in Nat \ {0}
  BY <1>2, FS_CardinalityType, FS_EmptySet
<1> HIDE DEF S
<1>4. released \in [1 .. Cardinality(S) -> S]
  BY <1>1 DEF InOrder
<1>5. Len(released) = Cardinality(S)
  BY <1>3, <1>4
<1>6. Last(released) \in Nat
  <2>1. Cardinality(S) \in 1 .. Cardinality(S)
    BY <1>3
  <2>2. released[Cardinality(S)] \in Nat
    BY <1>2, <1>4, <2>1
  <2>3. QED
    BY <1>5, <2>2, Zenon DEF Last
<1>7. QED
  BY <1>1, <1>6 DEF Advance

LEMMA ClearTyped ==
  ASSUME BufferTyped, ClearBuffer, NEW n \in Nat, BufferAccounted(n)
  PROVE  BufferTyped' /\ BufferBalance(n, bstats', unseen', Cardinality(buffered'))
         /\ HandedOut' = HandedOut /\ unseen'.resets = unseen.resets
<1> DEFINE c == Cardinality(buffered)
<1>1. /\ buffered' = {} /\ UNCHANGED targetDelay
      /\ bstats' = [bstats EXCEPT !.delivered = bstats.delivered + c]
      /\ unseen' = [unseen EXCEPT !.flushed = unseen.flushed + c]
  BY Zenon DEF ClearBuffer
<1>2. c \in Nat /\ bstats.delivered + c \in Nat /\ unseen.flushed + c \in Nat
  BY BufferFacts
<1>3. /\ bstats' \in JitterBufferStatistics /\ bstats'.delivered = bstats.delivered + c
      /\ bstats'.dropped = bstats.dropped
      /\ bstats'.buffered = bstats.buffered /\ bstats'.duplicates = bstats.duplicates
  BY <1>1, <1>2, BufferFacts, Zenon DEF JitterBufferStatistics
<1>4. /\ unseen' \in Unseen /\ unseen'.repeated = unseen.repeated
      /\ unseen'.flushed = unseen.flushed + c /\ unseen'.discarded = unseen.discarded
      /\ unseen'.resets = unseen.resets
  BY <1>1, <1>2, BufferFacts, Zenon DEF Unseen
<1>5. IsFiniteSet(buffered') /\ Cardinality(buffered') = 0
  BY <1>1, FS_EmptySet
<1>6. expected' \in Nat \cup {None}
  BY ClearAdvances DEF BufferTyped
<1> HIDE DEF c
<1>7. BufferTyped'
  BY <1>1, <1>3, <1>4, <1>5, <1>6, AudioBufferAssumption DEF BufferTyped, Unseen
<1>8. BufferBalance(n, bstats, unseen, c)
  BY BufferBalanced, Zenon DEF c
<1>9. bstats.buffered = (bstats.delivered + c) + bstats.dropped + 0 + unseen.discarded
  <2>1. bstats.buffered = bstats.delivered + bstats.dropped + c + unseen.discarded
    BY <1>8 DEF BufferBalance
  <2>2. QED
    BY <1>2, <2>1, BufferFacts
<1>10. HandedOut' = HandedOut
  BY <1>2, <1>3, <1>4, BufferFacts DEF HandedOut
<1>11. QED
  BY <1>3, <1>4, <1>5, <1>7, <1>8, <1>9, <1>10, Zenon DEF BufferBalance

LEMMA ResetTyped ==
  ASSUME BufferTyped, ResetBuffer, NEW n \in Nat, BufferAccounted(n)
  PROVE  BufferTyped' /\ BufferBalance(n, bstats', unseen', Cardinality(buffered'))
         /\ HandedOut' = HandedOut /\ unseen'.resets = unseen.resets + 1
<1> DEFINE c == Cardinality(buffered)
<1>1. /\ buffered' = {} /\ expected' = None /\ targetDelay' = TargetDelay
      /\ bstats' = [bstats EXCEPT !.duplicates = 0]
      /\ unseen' = [unseen EXCEPT !.repeated = unseen.repeated + bstats.duplicates,
                                  !.resets = unseen.resets + 1,
                                  !.discarded = unseen.discarded + c]
  BY Zenon DEF ResetBuffer, WindowReset
<1>2. /\ c \in Nat /\ unseen.repeated + bstats.duplicates \in Nat
      /\ unseen.resets + 1 \in Nat /\ unseen.discarded + c \in Nat /\ 0 \in Nat
  BY BufferFacts
<1>3. /\ bstats' \in JitterBufferStatistics /\ bstats'.delivered = bstats.delivered
      /\ bstats'.dropped = bstats.dropped
      /\ bstats'.buffered = bstats.buffered /\ bstats'.duplicates = 0
  BY <1>1, <1>2, BufferFacts, Zenon DEF JitterBufferStatistics
<1>4. /\ unseen' \in Unseen /\ unseen'.repeated = unseen.repeated + bstats.duplicates
      /\ unseen'.flushed = unseen.flushed /\ unseen'.discarded = unseen.discarded + c
      /\ unseen'.resets = unseen.resets + 1
  BY <1>1, <1>2, BufferFacts, Zenon DEF Unseen
<1>5. IsFiniteSet(buffered') /\ Cardinality(buffered') = 0
  BY <1>1, FS_EmptySet
<1> HIDE DEF c
<1>6. BufferTyped'
  BY <1>1, <1>3, <1>4, <1>5, AudioBufferAssumption DEF BufferTyped, Unseen, ValidBufferConfig
<1>7. BufferBalance(n, bstats, unseen, c)
  BY BufferBalanced, Zenon DEF c
<1>8. /\ n = bstats.buffered + 0 + (unseen.repeated + bstats.duplicates)
      /\ bstats.buffered = bstats.delivered + bstats.dropped + 0 + (unseen.discarded + c)
  <2>1. /\ n = bstats.buffered + bstats.duplicates + unseen.repeated
        /\ bstats.buffered = bstats.delivered + bstats.dropped + c + unseen.discarded
    BY <1>7 DEF BufferBalance
  <2>2. QED
    BY <1>2, <2>1, BufferFacts
<1>9. QED
  BY <1>3, <1>4, <1>5, <1>6, <1>8, Zenon DEF BufferBalance, HandedOut

(* What leaves the packets alone: a new delay, and time. *)
LEMMA TimeTyped ==
  ASSUME BufferTyped, buffered' = Older, UNCHANGED <<windowVars, targetDelay, bstats, unseen>>
  PROVE  BufferTyped' /\ Cardinality(buffered') = Cardinality(buffered)
<1> DEFINE Aged(x) == [x EXCEPT !.age = IF x.age < AgeLimit THEN x.age + 1 ELSE x.age]
           f == [x \in buffered |-> Aged(x)]
<1>1. \A x \in buffered : Aged(x).seq = x.seq /\ Aged(x) \in BufferedEntries
  BY DEF BufferTyped, BufferedEntries
<1>2. buffered' = {Aged(x) : x \in buffered}
  BY Zenon DEF Older
<1> HIDE DEF Aged
<1>3. f \in Bijection(buffered, buffered')
  <2>1. \A x \in buffered : f[x] \in buffered' /\ f[x] = Aged(x)
    BY <1>2
  <2>2. \A x, y \in buffered : f[x] = f[y] => x = y
    BY <1>1, <2>1 DEF BufferTyped
  <2>3. \A y \in buffered' : \E x \in buffered : f[x] = y
    BY <1>2
  <2>4. f \in [buffered -> buffered']
    BY <1>2
  <2> HIDE DEF f
  <2>5. QED
    BY <2>2, <2>3, <2>4 DEF Bijection, Injection, Surjection, IsInjective
<1>4. IsFiniteSet(buffered') /\ Cardinality(buffered') = Cardinality(buffered)
  BY <1>3, FS_Bijection, BufferFacts DEF ExistsBijection
<1>5. /\ buffered' \subseteq BufferedEntries
      /\ \A x, y \in buffered' : x.seq = y.seq => x = y
  BY <1>1, <1>2 DEF BufferTyped
<1>6. QED
  BY <1>4, <1>5 DEF BufferTyped, windowVars

-----------------------------------------------------------------------------
(* The playback. *)

(* The balance without the statistics' names. *)
PlaybackBalance(n, s, waiting, done) ==
  /\ n = s.scheduled + s.dropped + s.refused
  /\ s.scheduled = waiting + done + s.removed

LEMMA PlaybackBalanced ==
  ASSUME NEW n
  PROVE  /\ PlaybackAccounted(n) <=>
              PlaybackBalance(n, pstats, QueueLength(queue), QueueLength(played))
         /\ PlaybackAccounted(n)' <=>
              PlaybackBalance(n', pstats', QueueLength(queue'), QueueLength(played'))
BY Zenon DEF PlaybackAccounted, PlaybackBalance, SchedulerStatistics, Snapshot, QueueLength

LEMMA PlaybackFacts ==
  ASSUME PlaybackTypeOK
  PROVE  /\ clock \in ClockManager /\ clock.offset \in ClockOffsets
         /\ anchor \in Anchors \cup {NoAnchor}
         /\ queue \in Seq(ScheduledPackets) /\ played \in Seq(Nat)
         /\ QueueLength(queue) \in Nat /\ QueueLength(played) \in Nat
         /\ pstats \in PlaybackCounters
         /\ pstats.scheduled \in Nat /\ pstats.dropped \in Nat
         /\ pstats.refused \in Nat /\ pstats.removed \in Nat
<1>1. /\ clock \in ClockManager /\ anchor \in Anchors \cup {NoAnchor}
      /\ queue \in Seq(ScheduledPackets) /\ played \in Seq(Nat)
      /\ pstats \in PlaybackCounters
  BY DEF PlaybackTypeOK
<1>2. clock.offset \in ClockOffsets
  BY <1>1 DEF ClockManager
<1>3. QED
  BY <1>1, <1>2 DEF PlaybackCounters, QueueLength

LEMMA PlaybackConstants ==
  /\ 0 \in ClockOffsets /\ ClockOffsets \subseteq Int
  /\ Spacing \in Nat /\ Latency \in Nat /\ MaxLate \in Nat /\ Span \in Nat
<1>1. /\ Spacing \in Nat /\ Latency \in Nat /\ MaxLate \in Nat /\ Span \in Nat
      /\ MaxAllowedOffset \in Nat /\ MeasuredOffsets \subseteq Int /\ 0 \in MeasuredOffsets
  BY PlaybackConfigAssumption
<1>2. 0 \in -MaxAllowedOffset .. MaxAllowedOffset
  BY <1>1
<1>3. QED
  BY <1>1, <1>2, Zenon DEF ClockOffsets

(* A sequence without one of its elements, and with one more. *)
LEMMA Without ==
  ASSUME NEW S, NEW s \in Seq(S), NEW i \in 1 .. Len(s)
  PROVE  /\ RemoveAt(s, i) \in Seq(S) /\ Len(RemoveAt(s, i)) = Len(s) - 1
         /\ \A j \in 1 .. Len(s) - 1 :
              RemoveAt(s, i)[j] = s[IF j < i THEN j ELSE j + 1]
<1> DEFINE t == RemoveAt(s, i)
           a == SubSeq(s, 1, i - 1)
           b == SubSeq(s, i + 1, Len(s))
<1>1. Len(s) \in Nat /\ i \in Nat /\ i >= 1 /\ i <= Len(s)
  OBVIOUS
<1>2. \A j \in 1 .. Len(s) : s[j] \in S
  BY ElementOfSeq
<1>3. /\ a \in Seq(S) /\ Len(a) = i - 1
      /\ \A j \in 1 .. i - 1 : a[j] = s[j]
  <2>1. \A j \in 1 .. i - 1 : s[j] \in S
    BY <1>1, <1>2
  <2>2. /\ a \in Seq(S) /\ Len(a) = IF 1 <= i - 1 THEN (i - 1) - 1 + 1 ELSE 0
        /\ \A j \in 1 .. (i - 1) - 1 + 1 : a[j] = s[1 + j - 1]
    <3>1. 1 \in Int /\ i - 1 \in Int
      BY <1>1
    <3>2. QED
      BY <2>1, <3>1, SubSeqProperties
  <2> HIDE DEF a
  <2>3. QED
    BY <1>1, <2>2
<1>4. /\ b \in Seq(S) /\ Len(b) = Len(s) - i
      /\ \A j \in 1 .. Len(s) - i : b[j] = s[i + j]
  <2>1. \A j \in i + 1 .. Len(s) : s[j] \in S
    BY <1>1, <1>2
  <2>2. /\ b \in Seq(S) /\ Len(b) = IF i + 1 <= Len(s) THEN Len(s) - (i + 1) + 1 ELSE 0
        /\ \A j \in 1 .. Len(s) - (i + 1) + 1 : b[j] = s[i + 1 + j - 1]
    <3>1. i + 1 \in Int /\ Len(s) \in Int
      BY <1>1
    <3>2. QED
      BY <2>1, <3>1, SubSeqProperties
  <2> HIDE DEF b
  <2>3. QED
    BY <1>1, <2>2
<1> HIDE DEF a, b, t
<1>5. /\ t \in Seq(S) /\ Len(t) = Len(a) + Len(b)
      /\ \A j \in 1 .. Len(a) + Len(b) : t[j] = IF j <= Len(a) THEN a[j] ELSE b[j - Len(a)]
  <2>1. a \in Seq(S) /\ b \in Seq(S)
    BY <1>3, <1>4
  <2>2. /\ a \o b \in Seq(S) /\ Len(a \o b) = Len(a) + Len(b)
        /\ \A j \in 1 .. Len(a) + Len(b) :
             (a \o b)[j] = IF j <= Len(a) THEN a[j] ELSE b[j - Len(a)]
    BY <2>1, ConcatProperties
  <2>3. t = a \o b
    BY Zenon DEF a, b, t, RemoveAt
  <2>4. QED
    BY <2>2, <2>3, Zenon
<1>6. Len(t) = Len(s) - 1 /\ Len(a) + Len(b) = Len(t) /\ Len(a) = i - 1
  <2>1. Len(t) = Len(a) + Len(b) /\ Len(a) = i - 1 /\ Len(b) = Len(s) - i
    BY <1>3, <1>4, <1>5, Zenon
  <2>2. QED
    BY <1>1, <2>1
<1>7. ASSUME NEW j \in 1 .. Len(s) - 1
      PROVE  t[j] = s[IF j < i THEN j ELSE j + 1]
  <2>1. t[j] = IF j <= i - 1 THEN a[j] ELSE b[j - (i - 1)]
    BY <1>5, <1>6, Zenon
  <2>2. j \in Nat /\ j >= 1 /\ j <= Len(s) - 1
    BY <1>1, <1>6
  <2>3. CASE j < i
    <3>1. j \in 1 .. i - 1
      BY <1>1, <2>2, <2>3
    <3>2. QED
      BY <1>1, <1>3, <2>1, <2>2, <2>3, <3>1
  <2>4. CASE ~(j < i)
    <3>1. ~(j <= i - 1) /\ j - (i - 1) \in 1 .. Len(s) - i /\ i + (j - (i - 1)) = j + 1
      BY <1>1, <2>2, <2>4
    <3>2. b[j - (i - 1)] = s[i + (j - (i - 1))]
      BY <1>4, <3>1, Zenon
    <3>3. QED
      BY <2>1, <2>4, <3>1, <3>2, Zenon
  <2>5. QED
    BY <2>3, <2>4
<1>8. QED
  BY <1>5, <1>6, <1>7, Zenon DEF t

PutAfter(s, n, x) == SubSeq(s, 1, n) \o <<x>> \o SubSeq(s, n + 1, Len(s))

LEMMA With ==
  ASSUME NEW S, NEW s \in Seq(S), NEW x \in S, NEW n \in 0 .. Len(s)
  PROVE  /\ PutAfter(s, n, x) \in Seq(S) /\ Len(PutAfter(s, n, x)) = Len(s) + 1
         /\ n = Len(s) => PutAfter(s, n, x) = Append(s, x)
<1> DEFINE t == PutAfter(s, n, x)
           a == SubSeq(s, 1, n)
           b == SubSeq(s, n + 1, Len(s))
<1>1. Len(s) \in Nat /\ n \in Nat /\ n <= Len(s)
  OBVIOUS
<1>2. \A j \in 1 .. Len(s) : s[j] \in S
  BY ElementOfSeq
<1>3. a \in Seq(S) /\ Len(a) = n
  <2>1. \A j \in 1 .. n : s[j] \in S
    BY <1>1, <1>2
  <2>2. a \in Seq(S) /\ Len(a) = IF 1 <= n THEN n - 1 + 1 ELSE 0
    <3>1. 1 \in Int /\ n \in Int
      BY <1>1
    <3>2. QED
      BY <2>1, <3>1, SubSeqProperties
  <2> HIDE DEF a
  <2>3. QED
    BY <1>1, <2>2
<1>4. b \in Seq(S) /\ Len(b) = Len(s) - n
  <2>1. \A j \in n + 1 .. Len(s) : s[j] \in S
    BY <1>1, <1>2
  <2>2. b \in Seq(S) /\ Len(b) = IF n + 1 <= Len(s) THEN Len(s) - (n + 1) + 1 ELSE 0
    <3>1. n + 1 \in Int /\ Len(s) \in Int
      BY <1>1
    <3>2. QED
      BY <2>1, <3>1, SubSeqProperties
  <2> HIDE DEF b
  <2>3. QED
    BY <1>1, <2>2
<1>5. n = Len(s) => a = s /\ b = <<>>
  <2>1. a = SubSeq(s, 1, n) /\ SubSeq(s, 1, Len(s)) = s
    BY SubSeqFull
  <2> HIDE DEF a, b
  <2>2. n = Len(s) => b = <<>>
    BY <1>1, <1>4, EmptySeq
  <2>3. QED
    BY <2>1, <2>2
<1> HIDE DEF a, b, t
<1>6. <<x>> \in Seq(S) /\ Len(<<x>>) = 1
  OBVIOUS
<1> DEFINE c == a \o <<x>>
<1>7. c \in Seq(S) /\ Len(c) = Len(a) + 1
  BY <1>3, <1>6, ConcatProperties
<1>8. t = c \o b
  BY Zenon DEF a, b, t, PutAfter
<1> HIDE DEF c
<1>9. t \in Seq(S) /\ Len(t) = Len(c) + Len(b)
  BY <1>4, <1>7, <1>8, ConcatProperties
<1>10. Len(t) = Len(s) + 1
  BY <1>1, <1>3, <1>4, <1>7, <1>9
<1>11. n = Len(s) => t = Append(s, x)
  <2>1. Append(s, x) = s \o <<x>>
    BY AppendIsConcat
  <2>2. c \o <<>> = c
    BY <1>7, ConcatEmptySeq
  <2>3. QED
    BY <1>5, <1>8, <2>1, <2>2 DEF c
<1>12. QED
  BY <1>9, <1>10, <1>11, Zenon DEF t

(* Inserted puts its packet somewhere: at the end, if all others are played before it.          *)
LEMMA InsertedFacts ==
  ASSUME queue \in Seq(ScheduledPackets), NEW x \in ScheduledPackets
  PROVE  /\ Inserted(x) \in Seq(ScheduledPackets) /\ Len(Inserted(x)) = Len(queue) + 1
         /\ (\A i \in 1 .. Len(queue) : PlaysBefore(queue[i], x)) => Inserted(x) = Append(queue, x)
<1> DEFINE P == {i \in 1 .. Len(queue) : PlaysBefore(queue[i], x)}
           n == Cardinality(P)
<1>1. Len(queue) \in Nat
  OBVIOUS
<1>2. IsFiniteSet(1 .. Len(queue)) /\ Cardinality(1 .. Len(queue)) = Len(queue)
  <2>1. /\ IsFiniteSet(1 .. Len(queue))
        /\ Cardinality(1 .. Len(queue)) = IF 1 > Len(queue) THEN 0 ELSE Len(queue) - 1 + 1
    BY <1>1, FS_Interval
  <2>2. QED
    BY <1>1, <2>1
<1>3. P \in SUBSET (1 .. Len(queue))
  OBVIOUS
<1>4. n \in 0 .. Len(queue)
  <2>1. IsFiniteSet(P) /\ n <= Cardinality(1 .. Len(queue))
    BY <1>2, <1>3, FS_Subset
  <2>2. n \in Nat
    BY <2>1, FS_CardinalityType
  <2>3. QED
    BY <1>1, <1>2, <2>1, <2>2
<1>5. (\A i \in 1 .. Len(queue) : PlaysBefore(queue[i], x)) => n = Len(queue)
  <2>1. (\A i \in 1 .. Len(queue) : PlaysBefore(queue[i], x)) => P = 1 .. Len(queue)
    OBVIOUS
  <2> HIDE DEF P
  <2>2. QED
    BY <1>2, <2>1
<1>6. Inserted(x) = PutAfter(queue, n, x)
  BY Zenon DEF Inserted, PutAfter
<1>7. n = Len(queue) => Inserted(x) = Append(queue, x)
  BY <1>4, <1>6, With
<1> HIDE DEF n
<1>8. Inserted(x) \in Seq(ScheduledPackets) /\ Len(Inserted(x)) = Len(queue) + 1
  BY <1>4, <1>6, With
<1>9. QED
  BY <1>5, <1>7, <1>8

(* A timestamp is a number, whatever the offset, and so is what is left.   *)
LEMMA StampTyped ==
  ASSUME PlaybackTypeOK, NEW p \in Nat
  PROVE  /\ AdjustedStamp(p) \in Nat
         /\ AnchoredAt(AdjustedStamp(p)) \in Anchors
         /\ TimeLeft(AdjustedStamp(p)) \in Int
         /\ [seq |-> p, left |-> TimeLeft(AdjustedStamp(p))] \in ScheduledPackets
<1> DEFINE s == AdjustedStamp(p)
<1>1. \A k \in Int : NotNegative(k) \in Nat
  BY DEF NotNegative
<1>2. s \in Nat
  <2>1. clock.offset \in Int /\ Spacing \in Int
    <3>1. clock.offset \in ClockOffsets
      BY PlaybackFacts
    <3>2. ClockOffsets \subseteq Int /\ Spacing \in Int
      BY PlaybackConstants
    <3>3. QED
      BY <3>1, <3>2
  <2>2. p * Spacing + clock.offset \in Int
    BY <2>1
  <2>3. QED
    BY <1>1, <2>2 DEF AdjustedStamp, CurrentOffset
<1> HIDE DEF s
<1>3. AnchoredAt(s) \in Anchors
  BY <1>2, PlaybackFacts DEF AnchoredAt, Anchors
<1>4. TimeLeft(s) \in Int
  <2>1. AnchoredAt(s).stamp \in Nat /\ AnchoredAt(s).since \in Nat /\ Latency \in Nat
    BY <1>3, PlaybackConstants DEF Anchors
  <2>2. NotNegative(s - AnchoredAt(s).stamp) \in Nat
    BY <1>1, <1>2, <2>1
  <2>3. QED
    BY <2>1, <2>2 DEF TimeLeft
<1>5. QED
  BY <1>2, <1>3, <1>4 DEF s, ScheduledPackets

(* schedule_packet takes its packet, and counts it once. *)
LEMMA ScheduleTyped ==
  ASSUME PlaybackTypeOK, NEW p \in Nat, SchedulePacket(p), NEW n \in Int, PlaybackAccounted(n)
  PROVE  /\ PlaybackTypeOK'
         /\ PlaybackBalance(n + 1, pstats', QueueLength(queue'), QueueLength(played'))
<1> DEFINE s == AdjustedStamp(p)
           left == TimeLeft(s)
           x == [seq |-> p, left |-> left]
           lost == left < -MaxLate
<1>1. s \in Nat /\ AnchoredAt(s) \in Anchors /\ left \in Int /\ x \in ScheduledPackets
  BY StampTyped
<1>2. /\ anchor' = AnchoredAt(s) /\ clock' = clock /\ played' = played
      /\ queue' = IF lost \/ QueueRefuses(p) THEN queue ELSE Inserted(x)
      /\ pstats' = IF lost THEN Recorded("dropped")
                   ELSE IF QueueRefuses(p) THEN Recorded("refused") ELSE Recorded("scheduled")
  BY Zenon DEF SchedulePacket
<1>3. pstats \in PlaybackCounters /\ queue \in Seq(ScheduledPackets)
  BY PlaybackFacts
<1>4. /\ pstats.scheduled \in Nat /\ pstats.dropped \in Nat
      /\ pstats.refused \in Nat /\ pstats.removed \in Nat
      /\ QueueLength(queue) \in Nat /\ QueueLength(played) \in Nat
  BY PlaybackFacts
<1>5. /\ n = pstats.scheduled + pstats.dropped + pstats.refused
      /\ pstats.scheduled = QueueLength(queue) + QueueLength(played) + pstats.removed
  BY PlaybackBalanced, Zenon DEF PlaybackBalance
<1>6. /\ pstats.scheduled + 1 \in Nat /\ pstats.dropped + 1 \in Nat /\ pstats.refused + 1 \in Nat
  BY <1>4
<1>7. /\ Recorded("dropped") = [pstats EXCEPT !.dropped = pstats.dropped + 1]
      /\ Recorded("refused") = [pstats EXCEPT !.refused = pstats.refused + 1]
      /\ Recorded("scheduled") = [pstats EXCEPT !.scheduled = pstats.scheduled + 1]
  BY Zenon DEF Recorded
<1> HIDE DEF s, left, x, lost
<1>8. CASE lost \/ QueueRefuses(p)
  <2> DEFINE d == IF lost THEN 1 ELSE 0
             r == IF lost THEN 0 ELSE 1
  <2>1. /\ pstats' \in PlaybackCounters /\ pstats'.scheduled = pstats.scheduled
        /\ pstats'.removed = pstats.removed
        /\ pstats'.dropped = pstats.dropped + d /\ pstats'.refused = pstats.refused + r
    <3>1. pstats.dropped + 0 = pstats.dropped /\ pstats.refused + 0 = pstats.refused
      BY <1>4
    <3>2. QED
      BY <1>2, <1>3, <1>6, <1>7, <1>8, <3>1, Zenon DEF PlaybackCounters
  <2>2. d \in Nat /\ r \in Nat /\ d + r = 1
    OBVIOUS
  <2> HIDE DEF d, r
  <2>3. n + 1 = pstats.scheduled + (pstats.dropped + d) + (pstats.refused + r)
    BY <1>4, <1>5, <2>2
  <2>4. queue' = queue
    BY <1>2, <1>8
  <2>5. PlaybackTypeOK'
    BY <1>1, <1>2, <2>1, <2>4 DEF PlaybackTypeOK
  <2>6. QED
    BY <1>2, <1>5, <2>1, <2>3, <2>4, <2>5, Zenon DEF PlaybackBalance
<1>9. CASE ~(lost \/ QueueRefuses(p))
  <2>1. /\ pstats' \in PlaybackCounters /\ pstats'.scheduled = pstats.scheduled + 1
        /\ pstats'.removed = pstats.removed
        /\ pstats'.dropped = pstats.dropped /\ pstats'.refused = pstats.refused
    BY <1>2, <1>3, <1>6, <1>7, <1>9, Zenon DEF PlaybackCounters
  <2>2. queue' = Inserted(x)
    BY <1>2, <1>9
  <2>3. queue' \in Seq(ScheduledPackets) /\ QueueLength(queue') = QueueLength(queue) + 1
    BY <1>1, <1>3, <2>2, InsertedFacts DEF QueueLength
  <2>4. /\ n + 1 = (pstats.scheduled + 1) + pstats.dropped + pstats.refused
        /\ pstats.scheduled + 1 =
             (QueueLength(queue) + 1) + QueueLength(played) + pstats.removed
    BY <1>4, <1>5
  <2>5. PlaybackTypeOK'
    BY <1>1, <1>2, <2>1, <2>3 DEF PlaybackTypeOK
  <2>6. QED
    BY <1>2, <2>1, <2>3, <2>4, <2>5, Zenon DEF PlaybackBalance
<1>10. QED
  BY <1>8, <1>9

(* next_packet *)
LEMMA NextTyped ==
  ASSUME PlaybackTypeOK, NextPacket, NEW n \in Int, PlaybackAccounted(n)
  PROVE  /\ PlaybackTypeOK'
         /\ PlaybackBalance(n, pstats', QueueLength(queue'), QueueLength(played'))
<1>1. /\ queue # <<>> /\ queue' = Tail(queue) /\ played' = Append(played, Head(queue).seq)
      /\ UNCHANGED <<clock, anchor, pstats>>
  BY DEF NextPacket, Due, Dequeue
<1>2. queue \in Seq(ScheduledPackets) /\ played \in Seq(Nat)
  BY PlaybackFacts
<1>3. /\ Head(queue) \in ScheduledPackets /\ queue' \in Seq(ScheduledPackets)
      /\ QueueLength(queue') = QueueLength(queue) - 1
  BY <1>1, <1>2, HeadTailProperties DEF QueueLength
<1>4. played' \in Seq(Nat) /\ QueueLength(played') = QueueLength(played) + 1
  <2>1. Head(queue).seq \in Nat
    BY <1>3 DEF ScheduledPackets
  <2>2. QED
    BY <1>1, <1>2, <2>1, AppendProperties DEF QueueLength
<1>5. /\ n = pstats.scheduled + pstats.dropped + pstats.refused
      /\ pstats.scheduled = QueueLength(queue) + QueueLength(played) + pstats.removed
  BY PlaybackBalanced, Zenon DEF PlaybackBalance
<1>6. pstats.scheduled = (QueueLength(queue) - 1) + (QueueLength(played) + 1) + pstats.removed
  <2>1. /\ QueueLength(queue) \in Nat /\ QueueLength(played) \in Nat
        /\ pstats.scheduled \in Nat /\ pstats.removed \in Nat
    BY PlaybackFacts
  <2>2. QED
    BY <1>5, <2>1
<1>7. PlaybackTypeOK'
  BY <1>1, <1>3, <1>4 DEF PlaybackTypeOK
<1>8. QED
  BY <1>1, <1>3, <1>4, <1>5, <1>6, <1>7, Zenon DEF PlaybackBalance

(* cancel_packet and clear: what leaves the queue is counted as removed.   *)
LEMMA RemovedTyped ==
  ASSUME PlaybackTypeOK, NEW keep \in Seq(ScheduledPackets), Removed(keep),
         QueueLength(keep) <= QueueLength(queue), NEW n \in Int, PlaybackAccounted(n)
  PROVE  /\ PlaybackTypeOK'
         /\ PlaybackBalance(n, pstats', QueueLength(queue'), QueueLength(played'))
<1> DEFINE q == QueueLength(queue)
           k == QueueLength(keep)
<1>1. /\ queue' = keep /\ UNCHANGED <<clock, anchor, played>>
      /\ pstats' = [pstats EXCEPT !.removed = pstats.removed + q - k]
  BY Zenon DEF Removed, QueueLength
<1>2. /\ q \in Nat /\ k \in Nat /\ QueueLength(played) \in Nat /\ k <= q
      /\ pstats.scheduled \in Nat /\ pstats.removed \in Nat
      /\ pstats \in PlaybackCounters
  BY PlaybackFacts DEF QueueLength
<1> HIDE DEF q, k
<1>3. pstats.removed + q - k \in Nat
  BY <1>2
<1>4. /\ pstats' \in PlaybackCounters /\ pstats'.removed = pstats.removed + q - k
      /\ pstats'.scheduled = pstats.scheduled
      /\ pstats'.dropped = pstats.dropped /\ pstats'.refused = pstats.refused
  BY <1>1, <1>2, <1>3, Zenon DEF PlaybackCounters
<1>5. /\ n = pstats.scheduled + pstats.dropped + pstats.refused
      /\ pstats.scheduled = q + QueueLength(played) + pstats.removed
  BY PlaybackBalanced, Zenon DEF PlaybackBalance, q
<1>6. pstats.scheduled = k + QueueLength(played) + (pstats.removed + q - k)
  BY <1>2, <1>5
<1>7. PlaybackTypeOK'
  BY <1>1, <1>4 DEF PlaybackTypeOK
<1>8. QED
  BY <1>1, <1>4, <1>5, <1>6, <1>7, Zenon DEF PlaybackBalance, k

LEMMA InterruptedTyped ==
  ASSUME PlaybackTypeOK, ClearSchedule \/ \E p \in Packets : CancelPacket(p),
         NEW n \in Int, PlaybackAccounted(n)
  PROVE  /\ PlaybackTypeOK'
         /\ PlaybackBalance(n, pstats', QueueLength(queue'), QueueLength(played'))
<1>1. queue \in Seq(ScheduledPackets) /\ QueueLength(queue) \in Nat
  BY PlaybackFacts
<1>2. CASE ClearSchedule
  <2>1. Removed(<<>>) /\ <<>> \in Seq(ScheduledPackets) /\ QueueLength(<<>>) = 0
    BY <1>2 DEF ClearSchedule, QueueLength
  <2>2. QueueLength(<<>>) <= QueueLength(queue)
    BY <1>1, <2>1
  <2>3. QED
    BY <2>1, <2>2, RemovedTyped
<1>3. ASSUME NEW p \in Packets, CancelPacket(p)
      PROVE  /\ PlaybackTypeOK'
             /\ PlaybackBalance(n, pstats', QueueLength(queue'), QueueLength(played'))
  <2>1. PICK i \in 1 .. Len(queue) : Removed(RemoveAt(queue, i))
    BY <1>3, Zenon DEF CancelPacket
  <2> DEFINE keep == RemoveAt(queue, i)
  <2>2. keep \in Seq(ScheduledPackets) /\ QueueLength(keep) = QueueLength(queue) - 1
    BY <1>1, Without DEF QueueLength
  <2> HIDE DEF keep
  <2>3. QueueLength(keep) <= QueueLength(queue)
    BY <1>1, <2>2
  <2>4. Removed(keep)
    BY <2>1 DEF keep
  <2>5. QED
    BY <2>2, <2>3, <2>4, RemovedTyped
<1>4. QED
  BY <1>2, <1>3

(* The clock's calls move its offset within what may be measured. *)
LEMMA ClockTyped ==
  ASSUME PlaybackTypeOK,
         (\E o \in ClockOffsets : Synchronize(o)) \/ Update \/ RestartClock
  PROVE  PlaybackTypeOK' /\ UNCHANGED <<timelineVars, pstats, played>>
<1>1. \A a, b : Corrected(a, b) \subseteq ClockOffsets
  BY DEF Corrected
<1>2. clock \in ClockManager
  BY PlaybackFacts
<1>3. \A c \in ClockManager, k \in ClockOffsets : [c EXCEPT !.offset = k] \in ClockManager
  BY Zenon DEF ClockManager
<1>4. ASSUME NEW o \in ClockOffsets, Synchronize(o)
      PROVE  clock' \in ClockManager
  <2>1. Applied(o) \in ClockManager
    BY <1>2, Zenon DEF Applied, ClockManager
  <2>2. \/ clock' = Applied(o)
        \/ \E k \in Corrected(Applied(o).offset, o) : clock' = [Applied(o) EXCEPT !.offset = k]
    BY <1>4 DEF Synchronize, DriftRefused
  <2>3. QED
    BY <1>1, <1>3, <2>1, <2>2
<1>5. Update => clock' \in ClockManager
  BY <1>1, <1>2, <1>3 DEF Update
<1>6. RestartClock => clock' \in ClockManager
  BY PlaybackConstants DEF RestartClock, ClockReset, FreshClock, ClockManager
<1>7. UNCHANGED <<timelineVars, pstats, played>>
  BY DEF Synchronize, Update, RestartClock
<1>8. QED
  BY <1>4, <1>5, <1>6, <1>7 DEF PlaybackTypeOK, timelineVars

(* Time *)
LEMMA TickTyped ==
  ASSUME PlaybackTypeOK, queue' = Nearer, anchor' = Longer, UNCHANGED <<clock, pstats, played>>
  PROVE  PlaybackTypeOK' /\ QueueLength(queue') = QueueLength(queue)
<1>1. queue \in Seq(ScheduledPackets) /\ Len(queue) \in Nat
  BY PlaybackFacts
<1>2. \A x \in ScheduledPackets :
        [x EXCEPT !.left = IF x.left > LeftLimit THEN x.left - 1 ELSE x.left] \in ScheduledPackets
  BY DEF ScheduledPackets
<1>3. \A i \in 1 .. Len(queue) : Nearer[i] \in ScheduledPackets
  BY <1>1, <1>2, ElementOfSeq DEF Nearer
<1>4. queue' \in Seq(ScheduledPackets) /\ Len(queue') = Len(queue)
  <2>1. Nearer \in [1 .. Len(queue) -> ScheduledPackets]
    BY <1>3 DEF Nearer
  <2> HIDE DEF Nearer
  <2>2. QED
    BY <1>1, <2>1
<1>5. anchor' \in Anchors \cup {NoAnchor}
  BY PlaybackFacts DEF Longer, Anchors
<1>6. QED
  BY <1>4, <1>5 DEF PlaybackTypeOK, QueueLength

-----------------------------------------------------------------------------
(* Nothing vanishes. *)

AccountInv == StreamInv /\ BufferTyped /\ PlaybackTypeOK /\ NothingVanishes

(* What a step has to show for the buffer, and for the playback. *)
BufferKept ==
  /\ BufferTyped'
  /\ BufferBalance(streamed'.fed, bstats', unseen', Cardinality(buffered'))

PlaybackKept ==
  /\ PlaybackTypeOK'
  /\ PlaybackBalance(bstats'.delivered - unseen'.flushed, pstats', QueueLength(queue'),
                     QueueLength(played'))

LEMMA AccountKept ==
  ASSUME StreamInv', BufferKept, PlaybackKept
  PROVE  AccountInv'
<1>1. StreamAccounted'
  BY DEF StreamInv
<1>2. BufferAccounted(streamed.fed)'
  BY Zenon DEF BufferKept, BufferBalance, BufferAccounted, Statistics
<1>3. PlaybackAccounted(bstats.delivered - unseen.flushed)'
  BY Zenon DEF PlaybackKept, PlaybackBalance, PlaybackAccounted, SchedulerStatistics, Snapshot,
               QueueLength
<1>4. QED
  BY <1>1, <1>2, <1>3, Zenon DEF AccountInv, NothingVanishes, BufferKept, PlaybackKept

LEMMA AccountFacts ==
  ASSUME AccountInv
  PROVE  /\ StreamInv /\ BufferTyped /\ PlaybackTypeOK
         /\ streamed.fed \in Nat /\ BufferAccounted(streamed.fed)
         /\ HandedOut \in Int /\ PlaybackAccounted(HandedOut)
<1>1. StreamInv /\ BufferTyped /\ PlaybackTypeOK
  BY DEF AccountInv
<1>2. streamed.fed \in Nat
  <2>1. streamed \in Streamed
    BY <1>1, StreamFacts, Zenon
  <2>2. QED
    BY <2>1, StreamedNumbers
<1>3. HandedOut \in Int
  <2>1. bstats.delivered \in Nat /\ unseen.flushed \in Nat
    BY <1>1, BufferFacts
  <2>2. QED
    BY <2>1 DEF HandedOut
<1>4. BufferAccounted(streamed.fed) /\ PlaybackAccounted(HandedOut)
  BY Zenon DEF AccountInv, NothingVanishes, HandedOut
<1>5. QED
  BY <1>1, <1>2, <1>3, <1>4

(* Steps elsewhere. *)
LEMMA BufferSame ==
  ASSUME AccountInv, UNCHANGED <<windowVars, targetDelay, bstats, unseen>>,
         buffered' = buffered, streamed'.fed = streamed.fed
  PROVE  BufferKept /\ HandedOut' = HandedOut
<1>1. BufferTyped /\ BufferAccounted(streamed.fed)
  BY AccountFacts
<1>2. BufferTyped'
  BY <1>1 DEF BufferTyped, windowVars
<1>3. BufferBalance(streamed.fed, bstats, unseen, Cardinality(buffered))
  BY <1>1, BufferBalanced, Zenon
<1>4. bstats' = bstats /\ unseen' = unseen
  OBVIOUS
<1>5. QED
  BY <1>2, <1>3, <1>4, Zenon DEF BufferKept, HandedOut

LEMMA PlaybackSame ==
  ASSUME AccountInv, PlaybackTypeOK', pstats' = pstats, HandedOut' = HandedOut,
         QueueLength(queue') = QueueLength(queue), QueueLength(played') = QueueLength(played)
  PROVE  PlaybackKept
<1>1. PlaybackAccounted(HandedOut)
  BY AccountFacts
<1>2. PlaybackBalance(HandedOut, pstats, QueueLength(queue), QueueLength(played))
  BY <1>1, PlaybackBalanced, Zenon
<1>3. bstats'.delivered - unseen'.flushed = HandedOut
  BY Zenon DEF HandedOut
<1>4. QED
  BY <1>2, <1>3, Zenon DEF PlaybackKept

LEMMA PlaybackIdle ==
  ASSUME AccountInv, UNCHANGED playbackVars, HandedOut' = HandedOut
  PROVE  PlaybackKept
<1>1. PlaybackTypeOK /\ UNCHANGED <<clock, anchor, queue, pstats, played>>
  BY AccountFacts DEF playbackVars, timelineVars
<1>2. PlaybackTypeOK'
  BY <1>1 DEF PlaybackTypeOK
<1>3. QED
  BY <1>1, <1>2, PlaybackSame

LEMMA StreamAccounts ==
  ASSUME AccountInv, StreamInv', streamed'.fed = streamed.fed,
         UNCHANGED <<bufferVars, playbackVars>>
  PROVE  AccountInv'
<1>1. UNCHANGED <<windowVars, targetDelay, bstats, unseen>> /\ buffered' = buffered
  BY DEF bufferVars
<1>2. BufferKept /\ HandedOut' = HandedOut
  BY <1>1, BufferSame
<1>3. PlaybackKept
  BY <1>2, PlaybackIdle
<1>4. QED
  BY <1>2, <1>3, AccountKept

LEMMA FeedBufferAccounts ==
  ASSUME AccountInv, FeedBuffer
  PROVE  AccountInv'
<1>1. PICK p \in Packets : DequeuePacket(p) /\ PushPacket(p)
  BY DEF FeedBuffer
<1>2. StreamInv' /\ streamed'.fed = streamed.fed + 1
  BY <1>1, AccountFacts, DequeueStream
<1>3. /\ BufferTyped' /\ HandedOut' = HandedOut
      /\ BufferBalance(streamed.fed + 1, bstats', unseen', Cardinality(buffered'))
  BY <1>1, AccountFacts, PushTyped
<1>4. BufferKept
  BY <1>2, <1>3, Zenon DEF BufferKept
<1>5. UNCHANGED playbackVars
  BY DEF FeedBuffer
<1>6. QED
  BY <1>2, <1>3, <1>4, <1>5, PlaybackIdle, AccountKept

LEMMA StreamIdle ==
  ASSUME AccountInv, UNCHANGED streamVars
  PROVE  StreamInv' /\ streamed'.fed = streamed.fed
<1>1. UNCHANGED <<engines, netVars>> /\ streamed' = streamed
  BY DEF streamVars
<1>2. QED
  BY <1>1, AccountFacts, ElsewhereStream

LEMMA FeedSchedulerAccounts ==
  ASSUME AccountInv, FeedScheduler
  PROVE  AccountInv'
<1>1. UNCHANGED streamVars
  BY DEF FeedScheduler
<1>2. StreamInv' /\ streamed'.fed = streamed.fed
  BY <1>1, StreamIdle
<1>3. ASSUME NEW p \in Packets, PopReady(p), SchedulePacket(p)
      PROVE  AccountInv'
  <2>1. /\ BufferTyped' /\ HandedOut' = HandedOut + 1
        /\ BufferBalance(streamed.fed, bstats', unseen', Cardinality(buffered'))
    BY <1>3, AccountFacts, PopTyped
  <2>2. BufferKept
    BY <1>2, <2>1, Zenon DEF BufferKept
  <2>3. p \in Nat
    BY StreamAssumption
  <2>4. /\ PlaybackTypeOK'
        /\ PlaybackBalance(HandedOut + 1, pstats', QueueLength(queue'), QueueLength(played'))
    BY <1>3, <2>3, AccountFacts, ScheduleTyped
  <2>5. PlaybackKept
    BY <2>1, <2>4, Zenon DEF PlaybackKept, HandedOut
  <2>6. QED
    BY <1>2, <2>2, <2>5, AccountKept
<1>4. CASE PopNothing /\ UNCHANGED playbackVars
  <2>1. /\ BufferTyped' /\ HandedOut' = HandedOut
        /\ BufferBalance(streamed.fed, bstats', unseen', Cardinality(buffered'))
    BY <1>4, AccountFacts, PopNothingTyped
  <2>2. BufferKept
    BY <1>2, <2>1, Zenon DEF BufferKept
  <2>3. QED
    BY <1>2, <1>4, <2>1, <2>2, PlaybackIdle, AccountKept
<1>5. QED
  BY <1>3, <1>4 DEF FeedScheduler

(* The clock's calls, and the interruptions of the playback. *)
LEMMA PlaybackAccounts ==
  ASSUME AccountInv, StreamInv', streamed'.fed = streamed.fed, UNCHANGED bufferVars,
         \/ (\E o \in ClockOffsets : Synchronize(o)) \/ Update \/ RestartClock
         \/ NextPacket
         \/ ClearSchedule \/ \E p \in Packets : CancelPacket(p)
  PROVE  AccountInv'
<1>1. UNCHANGED <<windowVars, targetDelay, bstats, unseen>> /\ buffered' = buffered
  BY DEF bufferVars
<1>2. BufferKept /\ HandedOut' = HandedOut
  BY <1>1, BufferSame
<1>3. CASE (\E o \in ClockOffsets : Synchronize(o)) \/ Update \/ RestartClock
  <2>1. PlaybackTypeOK' /\ UNCHANGED <<timelineVars, pstats, played>>
    BY <1>3, AccountFacts, ClockTyped
  <2>2. pstats' = pstats /\ queue' = queue /\ played' = played
    BY <2>1 DEF timelineVars
  <2>3. PlaybackKept
    BY <1>2, <2>1, <2>2, PlaybackSame
  <2>4. QED
    BY <1>2, <2>3, AccountKept
<1>4. CASE NextPacket \/ ClearSchedule \/ \E p \in Packets : CancelPacket(p)
  <2>1. /\ PlaybackTypeOK'
        /\ PlaybackBalance(HandedOut, pstats', QueueLength(queue'), QueueLength(played'))
    BY <1>4, AccountFacts, NextTyped, InterruptedTyped
  <2>2. PlaybackKept
    BY <1>2, <2>1, Zenon DEF PlaybackKept, HandedOut
  <2>3. QED
    BY <1>2, <2>2, AccountKept
<1>5. QED
  BY <1>3, <1>4

LEMMA DelayTyped ==
  ASSUME AccountInv, NEW d \in MinTargetDelay .. MaxTargetDelay, SetTargetDelay(d),
         streamed'.fed = streamed.fed
  PROVE  BufferKept /\ HandedOut' = HandedOut
<1>1. BufferTyped /\ BufferAccounted(streamed.fed)
  BY AccountFacts
<1>2. UNCHANGED <<buffered, windowVars, bstats, unseen>> /\ targetDelay' = d
  BY DEF SetTargetDelay
<1>3. BufferTyped'
  BY <1>1, <1>2 DEF BufferTyped, windowVars
<1>4. BufferBalance(streamed.fed, bstats, unseen, Cardinality(buffered))
  BY <1>1, BufferBalanced, Zenon
<1>5. bstats' = bstats /\ unseen' = unseen /\ buffered' = buffered
  BY <1>2
<1>6. QED
  BY <1>3, <1>4, <1>5, Zenon DEF BufferKept, HandedOut

LEMMA InterruptionAccounts ==
  ASSUME AccountInv, Interruption
  PROVE  AccountInv'
<1>1. /\ UNCHANGED <<engines, netVars>>
      /\ streamed' = [streamed EXCEPT !.calls = streamed.calls + 1]
  BY DEF Interruption, Interrupts, ClearCall, ResetCall, SetTargetDelayCall, Buffer
<1>2. StreamInv' /\ streamed'.fed = streamed.fed
  BY <1>1, AccountFacts, ElsewhereStream
<1>3. CASE ClearCall \/ ResetCall
  <2>1. (ClearBuffer \/ ResetBuffer) /\ UNCHANGED playbackVars
    BY <1>3, Zenon DEF ClearCall, ResetCall, Buffer
  <2>2. /\ BufferTyped' /\ HandedOut' = HandedOut
        /\ BufferBalance(streamed.fed, bstats', unseen', Cardinality(buffered'))
    BY <2>1, AccountFacts, ClearTyped, ResetTyped
  <2>3. BufferKept
    BY <1>2, <2>2, Zenon DEF BufferKept
  <2>4. QED
    BY <1>2, <2>1, <2>2, <2>3, PlaybackIdle, AccountKept
<1>4. CASE SetTargetDelayCall
  <2>1. PICK d \in MinTargetDelay .. MaxTargetDelay : Buffer(SetTargetDelay(d))
    BY <1>4, Zenon DEF SetTargetDelayCall
  <2>2. SetTargetDelay(d) /\ UNCHANGED playbackVars
    BY <2>1, Zenon DEF Buffer
  <2>3. BufferKept /\ HandedOut' = HandedOut
    BY <1>2, <2>2, DelayTyped
  <2>4. QED
    BY <1>2, <2>2, <2>3, PlaybackIdle, AccountKept
<1>5. CASE /\ RestartClock \/ ClearSchedule \/ \E p \in Packets : CancelPacket(p)
           /\ UNCHANGED <<engines, netVars, bufferVars>>
  BY <1>2, <1>5, PlaybackAccounts
<1>6. QED
  BY <1>3, <1>4, <1>5, Zenon DEF Interruption

LEMMA TickAccounts ==
  ASSUME AccountInv, Tick
  PROVE  AccountInv'
<1>1. /\ buffered' = Older /\ queue' = Nearer /\ anchor' = Longer
      /\ UNCHANGED <<windowVars, targetDelay, bstats, unseen>>
      /\ UNCHANGED <<clock, pstats, played>> /\ UNCHANGED streamVars
  BY DEF Tick
<1>2. StreamInv' /\ streamed'.fed = streamed.fed
  BY <1>1, StreamIdle
<1>3. BufferTyped' /\ Cardinality(buffered') = Cardinality(buffered)
  BY <1>1, AccountFacts, TimeTyped
<1>4. BufferBalance(streamed.fed, bstats, unseen, Cardinality(buffered))
  BY AccountFacts, BufferBalanced, Zenon
<1>5. BufferKept /\ HandedOut' = HandedOut
  BY <1>1, <1>2, <1>3, <1>4, Zenon DEF BufferKept, HandedOut
<1>6. PlaybackTypeOK' /\ QueueLength(queue') = QueueLength(queue)
  BY <1>1, AccountFacts, TickTyped
<1>7. PlaybackKept
  BY <1>1, <1>5, <1>6, PlaybackSame
<1>8. QED
  BY <1>2, <1>5, <1>7, AccountKept

LEMMA AccountsStay ==
  ASSUME AccountInv, [Next]_vars
  PROVE  AccountInv'
<1>1. StreamInv
  BY AccountFacts
<1>2. ASSUME NEW p \in Packets, Stream(EnqueuePacket(p)) PROVE AccountInv'
  BY <1>1, <1>2, EnqueueStream, StreamAccounts DEF Stream
<1>3. ASSUME NEW d \in wire, Stream(Lost(d)) \/ Stream(Copied(d)) PROVE AccountInv'
  BY <1>1, <1>3, LostStream, CopiedStream, StreamAccounts DEF Stream
<1>4. ASSUME Stream(Joining) \/ Stream(NotJoining) PROVE AccountInv'
  BY <1>1, <1>4, JoiningStream, StreamAccounts DEF Stream
<1>5. ASSUME Stream(ForwardPacket) \/ Stream(Lifecycle) PROVE AccountInv'
  BY <1>1, <1>5, ForwardStream, LifecycleStream, StreamAccounts DEF Stream
<1>6. ASSUME Stream(Arrive) PROVE AccountInv'
  BY <1>1, <1>6, ReceiveStream, StreamAccounts DEF Stream, Arrive
<1>7. ASSUME (\E o \in ClockOffsets : Playback(Synchronize(o))) \/ Playback(Update)
               \/ Playback(NextPacket)
      PROVE  AccountInv'
  BY <1>7, StreamIdle, PlaybackAccounts DEF Playback
<1>8. CASE UNCHANGED vars
  <2>1. UNCHANGED streamVars /\ UNCHANGED <<bufferVars, playbackVars>>
    BY <1>8 DEF vars
  <2>2. QED
    BY <2>1, StreamIdle, StreamAccounts
<1>9. QED
  BY <1>2, <1>3, <1>4, <1>5, <1>6, <1>7, <1>8, FeedBufferAccounts, FeedSchedulerAccounts,
     InterruptionAccounts, TickAccounts, Zenon DEF Next

LEMMA AccountsStart ==
  ASSUME Init
  PROVE  AccountInv
<1>1. StreamInv
  <2>1. Started \in Engine /\ QueueLength(Started.outbound) = 0
        /\ QueueLength(Started.inbound) = 0 /\ Started.sent = 0 /\ Started.dropped = 0
        /\ Started.failed = 0 /\ Started.outbound = <<>> /\ Started.inbound = <<>>
    <3>1. <<>> \in Seq(Packets) /\ "Running" \in EngineState /\ 0 \in Nat
      BY DEF EngineState
    <3>2. QueueLength(<<>>) = 0
      BY DEF QueueLength
    <3>3. QED
      BY <3>1, <3>2, Zenon DEF Started, Engine, AudioPacket, NewQueue
  <2> DEFINE e == engines["host"]
             g == engines["guest"]
  <2>2. engines \in [Engines -> Engine] /\ e = Started /\ g = Started
    BY <2>1 DEF Init, StreamInit, Engines
  <2>3. /\ streamed \in Streamed
        /\ streamed.accepted = 0 /\ streamed.copied = 0 /\ streamed.unheard = 0
        /\ streamed.cleared = 0 /\ streamed.lost = 0 /\ streamed.refused = 0
        /\ streamed.fed = 0 /\ streamed.arrived = 0
    <3>1. 0 \in Nat
      OBVIOUS
    <3>2. QED
      BY <3>1, Zenon DEF Init, StreamInit, Streamed
  <2>4. NetTypeOK /\ IsFiniteSet(wire) /\ Cardinality(wire) = 0
    <3>1. wire = {} /\ NetInit
      BY DEF Init, StreamInit, NetInit
    <3>2. NetTypeOK
      BY <3>1 DEF NetTypeOK, NetInit
    <3>3. QED
      BY <3>1, <3>2, FS_EmptySet
  <2>5. StreamTyped
    BY <2>2, <2>3, <2>4 DEF StreamTyped, StreamTypeOK, Streamed
  <2>6. OneWay
    BY <2>1, <2>2 DEF OneWay
  <2>7. HostGone(e, streamed) = 0 /\ WireGone(streamed) = 0 /\ GuestGone(g, streamed) = 0
        /\ There(e, g, 0) = 0
    BY <2>1, <2>2, <2>3 DEF HostGone, WireGone, GuestGone, There
  <2>8. Balance(e, g, streamed, Cardinality(wire))
    <3>1. e.sent = 0
      BY <2>1, <2>2
    <3>2. Balance(e, g, streamed, 0)
      BY <2>3, <2>7, <3>1 DEF Balance
    <3>3. QED
      BY <2>4, <3>2
  <2>9. QED
    BY <2>5, <2>6, <2>8, StreamTypes DEF StreamInv
<1>2. bstats = [buffered |-> 0, delivered |-> 0, dropped |-> 0, duplicates |-> 0]
  BY DEF Init, BufferInit
<1>3. unseen = [repeated |-> 0, flushed |-> 0, discarded |-> 0, resets |-> 0]
  BY DEF Init, BufferInit
<1>4. IsFiniteSet(buffered) /\ Cardinality(buffered) = 0 /\ buffered = {}
  BY FS_EmptySet DEF Init, BufferInit
<1>5. BufferTyped
  BY <1>2, <1>3, <1>4, AudioBufferAssumption
     DEF Init, BufferInit, WindowInit, BufferTyped, JitterBufferStatistics, ValidBufferConfig
<1>6. BufferBalance(0, bstats, unseen, 0)
  BY <1>2, <1>3 DEF BufferBalance
<1>7. pstats = [scheduled |-> 0, dropped |-> 0, refused |-> 0, removed |-> 0]
  BY DEF Init, PlaybackInit
<1>8. queue = <<>> /\ played = <<>>
  BY DEF Init, PlaybackInit, NewSchedule
<1>9. PlaybackTypeOK
  BY <1>7, <1>8, PlaybackConstants
     DEF Init, PlaybackInit, NewTimeline, FreshClock, ClockManager, PlaybackCounters, PlaybackTypeOK
<1>10. PlaybackBalance(0, pstats, QueueLength(queue), QueueLength(played))
  BY <1>7, <1>8 DEF PlaybackBalance, QueueLength
<1>11. streamed.fed = 0 /\ bstats.delivered - unseen.flushed = 0
  BY <1>2, <1>3 DEF Init, StreamInit
<1>12. StreamAccounted
  BY <1>1 DEF StreamInv
<1>13. BufferAccounted(0)
  BY <1>4, <1>6, BufferBalanced, Zenon
<1>14. PlaybackAccounted(0)
  BY <1>10, PlaybackBalanced, Zenon
<1>15. QED
  BY <1>1, <1>5, <1>9, <1>11, <1>12, <1>13, <1>14, Zenon DEF AccountInv, NothingVanishes

(* For every configuration and any losses, repetitions, overflows, clears, *)
(* resets and restarts: what the host accepted is in a queue, or one       *)
(* counter took it, all along the path from enqueue to next_packet.        *)
THEOREM NothingEverVanishes == Spec => []NothingVanishes
<1>1. Init => AccountInv
  BY AccountsStart
<1>2. AccountInv /\ [Next]_vars => AccountInv'
  BY AccountsStay
<1>3. AccountInv => NothingVanishes
  BY DEF AccountInv
<1>4. QED
  BY <1>1, <1>2, <1>3, PTL DEF Spec

(* The state of every part has its type throughout. *)
THEOREM PipelineTypes == Spec => []PipelineInv
<1>1. Init => AccountInv
  BY AccountsStart
<1>2. AccountInv /\ [Next]_vars => AccountInv'
  BY AccountsStay
<1>3. AccountInv => PipelineInv
  BY DEF AccountInv, StreamInv, PipelineInv
<1>4. QED
  BY <1>1, <1>2, <1>3, PTL DEF Spec

-----------------------------------------------------------------------------
(* The duplicate cache: a fold over what a call releases. *)

Cache == {cache \in Seq(Nat) : Len(cache) <= CacheSize}

LEMMA Induction ==
  ASSUME NEW S, 0 \in S, \A n \in Nat : n \in S => n + 1 \in S
  PROVE  Nat \subseteq S
<1> DEFINE T == Nat \ S
<1>1. SUFFICES ASSUME T # {} PROVE FALSE
  OBVIOUS
<1>2. PICK w \in T : \A v \in T : ~(<<v, w>> \in OpToRel(<, Nat))
  BY <1>1, NatLessThanWellFounded, WFMin, Zenon
<1>3. w # 0 /\ w - 1 \in Nat
  OBVIOUS
<1>4. <<w - 1, w>> \in OpToRel(<, Nat)
  BY <1>3 DEF OpToRel
<1>5. w - 1 \notin T
  BY <1>2, <1>4, Zenon
<1>6. (w - 1) + 1 \in S
  BY <1>3, <1>5
<1>7. QED
  BY <1>6

LEMMA RememberedType ==
  ASSUME NEW cache \in Cache, NEW p \in Nat
  PROVE  Remembered(cache, p) \in Cache
<1>1. CacheSize \in Nat /\ CacheSize > 0
  BY AudioBufferAssumption DEF ValidBufferConfig
<1>2. cache \in Seq(Nat) /\ Len(cache) \in Nat /\ Len(cache) <= CacheSize
  BY DEF Cache
<1>3. CASE \E i \in 1 .. Len(cache) : cache[i] = p
  BY <1>3, Zenon DEF Remembered
<1>4. CASE ~(\E i \in 1 .. Len(cache) : cache[i] = p) /\ Len(cache) < CacheSize
  <2>1. Remembered(cache, p) = Append(cache, p)
    BY <1>4, Zenon DEF Remembered
  <2>2. Append(cache, p) \in Seq(Nat) /\ Len(Append(cache, p)) = Len(cache) + 1
    BY <1>2
  <2>3. QED
    BY <1>1, <1>2, <1>4, <2>1, <2>2 DEF Cache
<1>5. CASE ~(\E i \in 1 .. Len(cache) : cache[i] = p) /\ ~(Len(cache) < CacheSize)
  <2>1. PICK rest : rest = Tail(cache)
    OBVIOUS
  <2>2. Remembered(cache, p) = Append(rest, p)
    BY <1>5, <2>1, Zenon DEF Remembered
  <2>3. rest \in Seq(Nat) /\ Len(rest) = Len(cache) - 1
    <3>1. cache # <<>>
      BY <1>1, <1>2, <1>5
    <3>2. QED
      BY <1>2, <2>1, <3>1
  <2>4. Append(rest, p) \in Seq(Nat) /\ Len(Append(rest, p)) = Len(rest) + 1
    BY <2>3
  <2>5. QED
    BY <1>1, <1>2, <2>2, <2>3, <2>4 DEF Cache
<1>6. QED
  BY <1>3, <1>4, <1>5

LEMMA LastIsMax ==
  ASSUME NEW k \in Nat, NEW s \in SUBSET (1 .. k), k \in s
  PROVE  Max(s) = k
<1>1. k \in s /\ \A y \in s : k >= y
  OBVIOUS
<1>2. \A x \in s : (\A y \in s : x >= y) => x = k
  BY <1>1
<1>3. QED
  BY <1>1, <1>2 DEF Max

(* FoldLeft(Remembered, base, released), over the sets of its indices. *)
Remembering(f, base, released, indices) ==
  f = [s \in SUBSET indices |->
         IF s = {} THEN base ELSE Remembered(f[s \ {Max(s)}], released[Max(s)])]

LEMMA RememberingExists ==
  ASSUME NEW n \in Nat, NEW base, NEW released
  PROVE  \E f : Remembering(f, base, released, 1 .. n)
<1> DEFINE Of(f, k) == f = [s \in SUBSET (1 .. k) |->
                              IF s = {} THEN base ELSE Remembered(f[s \ {Max(s)}], released[Max(s)])]
           S == {k \in Nat : \E f : Of(f, k)}
<1>1. 0 \in S
  <2> DEFINE f == [s \in SUBSET (1 .. 0) |-> base]
  <2>1. SUBSET (1 .. 0) = {{}}
    OBVIOUS
  <2>2. Of(f, 0)
    BY <2>1
  <2>3. QED
    BY <2>2
<1>2. ASSUME NEW k \in Nat, k \in S
      PROVE  k + 1 \in S
  <2>1. PICK f : Of(f, k)
    BY <1>2
  <2> DEFINE g == [s \in SUBSET (1 .. k + 1) |->
                     IF k + 1 \in s THEN Remembered(f[s \ {k + 1}], released[k + 1]) ELSE f[s]]
  <2>2. ASSUME NEW s \in SUBSET (1 .. k + 1)
        PROVE  g[s] = IF s = {} THEN base ELSE Remembered(g[s \ {Max(s)}], released[Max(s)])
    <3>1. CASE k + 1 \in s
      <4>1. Max(s) = k + 1
        BY <3>1, LastIsMax
      <4>2. s \ {k + 1} \in SUBSET (1 .. k + 1) /\ k + 1 \notin s \ {k + 1} /\ s # {}
        BY <3>1
      <4>3. QED
        BY <3>1, <4>1, <4>2
    <3>2. CASE k + 1 \notin s
      <4>1. s \in SUBSET (1 .. k)
        BY <3>2
      <4>2. f[s] = IF s = {} THEN base ELSE Remembered(f[s \ {Max(s)}], released[Max(s)])
        BY <2>1, <4>1
      <4>3. s \ {Max(s)} \in SUBSET (1 .. k + 1) /\ k + 1 \notin s \ {Max(s)}
        BY <3>2
      <4>4. QED
        BY <3>2, <4>2, <4>3
    <3>3. QED
      BY <3>1, <3>2
  <2>3. Of(g, k + 1)
    BY <2>2
  <2> HIDE DEF Of, g
  <2>4. QED
    BY <2>3
<1> HIDE DEF S
<1>3. n \in S
  BY <1>1, <1>2, Induction
<1>4. QED
  BY <1>3 DEF S, Remembering

LEMMA CacheFolded ==
  ASSUME NEW base \in Cache, NEW released \in Seq(Nat)
  PROVE  FoldLeft(Remembered, base, released) \in Cache
<1> DEFINE n == Len(released)
<1>1. n \in Nat /\ DOMAIN released = 1 .. n
  OBVIOUS
<1> HIDE DEF n
<1>2. PICK f : f = CHOOSE g : Remembering(g, base, released, DOMAIN released)
  OBVIOUS
<1>3. FoldLeft(Remembered, base, released) = f[DOMAIN released]
  BY <1>2, Zenon DEF FoldLeft, MapThenFoldSet, Remembering
<1>4. Remembering(f, base, released, 1 .. n)
  BY <1>1, <1>2, RememberingExists, Zenon
<1> DEFINE S == {k \in Nat : k <= n => f[1 .. k] \in Cache}
<1>5. 0 \in S
  <2>1. 1 .. 0 = {}
    OBVIOUS
  <2>2. f[{}] = base
    BY <1>4 DEF Remembering
  <2>3. QED
    BY <2>1, <2>2
<1>6. ASSUME NEW k \in Nat, k \in S
      PROVE  k + 1 \in S
  <2>1. SUFFICES ASSUME k + 1 <= n PROVE f[1 .. k + 1] \in Cache
    BY <1>1
  <2>2. 1 .. k + 1 \in SUBSET (1 .. n) /\ 1 .. k + 1 # {} /\ (1 .. k + 1) \ {k + 1} = 1 .. k
    <3>1. 1 .. k + 1 \in SUBSET (1 .. n)
      BY <1>1, <2>1
    <3>2. 1 .. k + 1 # {} /\ (1 .. k + 1) \ {k + 1} = 1 .. k
      OBVIOUS
    <3>3. QED
      BY <3>1, <3>2
  <2>3. Max(1 .. k + 1) = k + 1
    BY LastIsMax
  <2>4. f[1 .. k + 1] = Remembered(f[1 .. k], released[k + 1])
    BY <1>4, <2>2, <2>3 DEF Remembering
  <2>5. f[1 .. k] \in Cache /\ released[k + 1] \in Nat
    BY <1>1, <1>6, <2>1 DEF n
  <2>6. QED
    BY <2>4, <2>5, RememberedType
<1> HIDE DEF S
<1>7. n \in S
  BY <1>1, <1>5, <1>6, Induction
<1>8. QED
  BY <1>1, <1>3, <1>7 DEF S

(* What a step does to the window. *)
WindowMoves ==
  \/ UNCHANGED windowVars
  \/ \E released \in Seq(Nat) : Advance(released)
  \/ WindowReset

LEMMA ClearReleases ==
  ASSUME BufferTyped, ClearBuffer
  PROVE  \E released \in Seq(Nat) : Advance(released)
<1> DEFINE S == {x.seq : x \in buffered}
<1>1. PICK released \in InOrder(S) : Advance(released)
  BY DEF ClearBuffer
<1>2. S \subseteq Nat /\ IsFiniteSet(S)
  <2>1. S \subseteq Nat
    BY DEF BufferTyped, BufferedEntries
  <2>2. [x \in buffered |-> x.seq] \in Surjection(buffered, S)
    BY DEF Surjection
  <2>3. QED
    BY <2>1, <2>2, BufferFacts, FS_Surjection
<1> HIDE DEF S
<1>3. Cardinality(S) \in Nat
  BY <1>2, FS_CardinalityType
<1>4. released \in [1 .. Cardinality(S) -> S]
  BY <1>1 DEF InOrder
<1>5. released \in Seq(Nat)
  <2>1. released \in [1 .. Cardinality(S) -> Nat]
    BY <1>2, <1>4
  <2>2. QED
    BY <1>3, <2>1, SeqDef
<1>6. QED
  BY <1>1, <1>5

LEMMA PopReleases ==
  ASSUME NEW p \in Packets, PopReady(p)
  PROVE  \E released \in Seq(Nat) : Advance(released)
<1>1. p \in Nat
  BY StreamAssumption
<1>2. <<p>> \in Seq(Nat)
  BY <1>1
<1>3. QED
  BY <1>2, Zenon DEF PopReady

LEMMA WindowSteps ==
  ASSUME BufferTyped, [Next]_vars
  PROVE  WindowMoves
<1>1. ASSUME UNCHANGED bufferVars PROVE WindowMoves
  BY <1>1 DEF bufferVars, WindowMoves
<1>2. CASE FeedBuffer
  <2>1. PICK p \in Packets : PushPacket(p)
    BY <1>2, Zenon DEF FeedBuffer
  <2>2. UNCHANGED windowVars
    BY <2>1 DEF PushPacket
  <2>3. QED
    BY <2>2 DEF WindowMoves
<1>3. CASE FeedScheduler
  <2>1. CASE \E p \in Packets : PopReady(p)
    BY <2>1, PopReleases, Zenon DEF WindowMoves
  <2>2. CASE PopNothing
    BY <2>2 DEF PopNothing, WindowMoves
  <2>3. QED
    BY <1>3, <2>1, <2>2, Zenon DEF FeedScheduler
<1>4. CASE Interruption
  <2>1. CASE ClearCall
    BY <2>1, ClearReleases, Zenon DEF ClearCall, Buffer, WindowMoves
  <2>2. CASE ResetCall
    BY <2>2, Zenon DEF ResetCall, Buffer, ResetBuffer, WindowMoves
  <2>3. CASE SetTargetDelayCall
    <3>1. UNCHANGED windowVars
      BY <2>3 DEF SetTargetDelayCall, Buffer, SetTargetDelay
    <3>2. QED
      BY <3>1 DEF WindowMoves
  <2>4. CASE UNCHANGED <<engines, netVars, bufferVars>>
    BY <1>1, <2>4
  <2>5. QED
    BY <1>4, <2>1, <2>2, <2>3, <2>4, Zenon DEF Interruption
<1>5. CASE Tick
  BY <1>5 DEF Tick, WindowMoves
<1>6. ASSUME NEW p \in Packets, Stream(EnqueuePacket(p)) PROVE WindowMoves
  BY <1>1, <1>6 DEF Stream
<1>7. ASSUME NEW d \in wire, Stream(Lost(d)) \/ Stream(Copied(d)) PROVE WindowMoves
  BY <1>1, <1>7 DEF Stream
<1>8. CASE \/ Stream(Joining) \/ Stream(NotJoining) \/ Stream(ForwardPacket) \/ Stream(Arrive)
           \/ Stream(Lifecycle)
  BY <1>1, <1>8 DEF Stream
<1>9. CASE \/ \E o \in ClockOffsets : Playback(Synchronize(o))
           \/ Playback(Update) \/ Playback(NextPacket)
  BY <1>1, <1>9 DEF Playback
<1>10. CASE UNCHANGED vars
  BY <1>1, <1>10 DEF vars
<1>11. QED
  BY <1>2, <1>3, <1>4, <1>5, <1>6, <1>7, <1>8, <1>9, <1>10, Zenon DEF Next

LEMMA CacheStays ==
  ASSUME seen \in Cache, WindowMoves
  PROVE  seen' \in Cache
<1>1. CASE UNCHANGED windowVars
  BY <1>1 DEF windowVars
<1>2. ASSUME NEW released \in Seq(Nat), Advance(released) PROVE seen' \in Cache
  <2>1. seen' = FoldLeft(Remembered, seen, released)
    BY <1>2, Zenon DEF Advance
  <2>2. QED
    BY <2>1, CacheFolded, Zenon
<1>3. CASE WindowReset
  BY <1>3, AudioBufferAssumption DEF WindowReset, Cache
<1>4. QED
  BY <1>1, <1>2, <1>3 DEF WindowMoves

CacheInv == AccountInv /\ seen \in Cache

LEMMA CacheInvariant == Spec => []CacheInv
<1>1. ASSUME Init PROVE CacheInv
  <2>1. AccountInv
    BY <1>1, AccountsStart
  <2>2. seen = <<>>
    BY <1>1 DEF Init, BufferInit, WindowInit
  <2>3. QED
    BY <2>1, <2>2, AudioBufferAssumption DEF CacheInv, Cache
<1>2. ASSUME CacheInv, [Next]_vars PROVE CacheInv'
  <2>1. AccountInv' /\ BufferTyped
    BY <1>2, AccountsStay, AccountFacts DEF CacheInv
  <2>2. seen' \in Cache
    BY <1>2, <2>1, WindowSteps, CacheStays DEF CacheInv
  <2>3. QED
    BY <2>1, <2>2 DEF CacheInv, Cache
<1>3. QED
  BY <1>1, <1>2, PTL DEF Spec

(* The state of every part has its type throughout, the statistics the     *)
(* buffer reports are within its configuration and the duplicate cache     *)
(* never outgrows it (packet_window.rs).                                   *)
THEOREM PipelineTypeCorrect == Spec => [](TypeOK /\ Len(seen) <= CacheSize)
<1>1. ASSUME CacheInv PROVE TypeOK /\ Len(seen) <= CacheSize
  <2>1. BufferTyped /\ StreamTypeOK /\ PlaybackTypeOK /\ seen \in Cache
    BY <1>1 DEF CacheInv, AccountInv, StreamInv, StreamTyped
  <2>2. Cardinality(buffered) \in 0 .. MaxBufferSize
    BY <2>1, BufferFacts, AudioBufferAssumption DEF BufferTyped
  <2>3. Statistics \in BufferStatistics
    <3>1. /\ bstats.buffered \in Nat /\ bstats.delivered \in Nat /\ bstats.dropped \in Nat
          /\ bstats.duplicates \in Nat /\ targetDelay \in MinTargetDelay .. MaxTargetDelay
      BY <2>1, BufferFacts DEF BufferTyped
    <3>2. QED
      BY <2>2, <3>1, Zenon DEF Statistics, BufferStatistics
  <2>4. BufferTypeOK
    BY <2>1, <2>3, Zenon DEF BufferTyped, BufferTypeOK, Cache
  <2>5. QED
    BY <2>1, <2>4 DEF TypeOK, Cache
<1>2. QED
  BY <1>1, CacheInvariant, PTL

-----------------------------------------------------------------------------
(* What is played is played in order. *)

(* A later packet has no earlier timestamp while the offset stays within   *)
(* the time between two packets.                                           *)
LEMMA LaterStamp ==
  ASSUME OffsetsClose, NEW p \in Nat, NEW q \in Nat, q < p,
         NEW o \in ClockOffsets, NEW u \in ClockOffsets
  PROVE  q * Spacing + o <= p * Spacing + u
<1>1. o \in Int /\ u \in Int /\ Spacing \in Nat
  BY PlaybackConstants
<1>2. o - u <= Spacing
  BY DEF OffsetsClose, Spread
<1>3. \A s, d \in Nat : d * s \in Nat
  OBVIOUS
<1>4. \A a, d \in Int, s \in Nat : (a + 1 + d) * s = a * s + s + d * s
  OBVIOUS
<1>5. PICK d \in Nat : p = q + 1 + d
  <2>1. p - q - 1 \in Nat /\ p = q + 1 + (p - q - 1)
    OBVIOUS
  <2>2. QED
    BY <2>1
<1>6. p * Spacing = q * Spacing + Spacing + d * Spacing
  BY <1>1, <1>4, <1>5
<1>7. q * Spacing \in Nat /\ d * Spacing \in Nat
  BY <1>1, <1>3
<1>8. QED
  BY <1>1, <1>2, <1>6, <1>7

LEMMA LaterLeft ==
  ASSUME PlaybackTypeOK, anchor # NoAnchor, OffsetsClose,
         NEW p \in Nat, NEW q \in Nat, q < p,
         NEW o \in ClockOffsets, NEW u \in ClockOffsets
  PROVE  LatestLeft(q, o) <= LatestLeft(p, u)
<1>1. q * Spacing + o <= p * Spacing + u
  BY LaterStamp
<1>2. o \in Int /\ u \in Int /\ Spacing \in Int /\ Latency \in Int
  BY PlaybackConstants
<1>3. anchor.stamp \in Int /\ anchor.since \in Int
  BY PlaybackFacts DEF Anchors
<1>4. \A a, b \in Int : a <= b =>
        NotNegative(a) \in Int /\ NotNegative(b) \in Int /\ NotNegative(a) <= NotNegative(b)
  BY DEF NotNegative
<1> DEFINE a == q * Spacing + o
           b == p * Spacing + u
<1>5. a \in Int /\ b \in Int /\ a <= b
  BY <1>1, <1>2
<1> HIDE DEF a, b
<1>6. /\ NotNegative(a) - anchor.stamp \in Int /\ NotNegative(b) - anchor.stamp \in Int
      /\ NotNegative(a) - anchor.stamp <= NotNegative(b) - anchor.stamp
  BY <1>3, <1>4, <1>5
<1> DEFINE c == NotNegative(NotNegative(a) - anchor.stamp)
           d == NotNegative(NotNegative(b) - anchor.stamp)
<1>7. c \in Int /\ d \in Int /\ c <= d
  BY <1>4, <1>6
<1> HIDE DEF c, d
<1>8. c - anchor.since + Latency <= d - anchor.since + Latency
  BY <1>2, <1>3, <1>7
<1>9. QED
  BY <1>8, Zenon DEF LatestLeft, a, b, c, d

LEMMA LatestTyped ==
  ASSUME PlaybackTypeOK, anchor # NoAnchor, NEW p \in Nat, NEW o \in ClockOffsets
  PROVE  LatestLeft(p, o) \in Int
<1>1. o \in Int /\ Spacing \in Int /\ Latency \in Int
  BY PlaybackConstants
<1>2. anchor.stamp \in Int /\ anchor.since \in Int
  BY PlaybackFacts DEF Anchors
<1>3. \A k \in Int : NotNegative(k) \in Int
  BY DEF NotNegative
<1>4. p * Spacing + o \in Int
  BY <1>1
<1>5. NotNegative(p * Spacing + o) - anchor.stamp \in Int
  BY <1>2, <1>3, <1>4
<1>6. QED
  BY <1>1, <1>2, <1>3, <1>5 DEF LatestLeft

(* The mark never moves back. *)
LEMMA MarkStays ==
  ASSUME expected \in Nat \cup {None}, NEW m \in Nat,
         expected' = IF expected # None /\ expected > m THEN expected ELSE m
  PROVE  \A seq \in Nat : BehindMark(seq) \/ seq < m => BehindMark(seq)'
BY AudioBufferAssumption DEF BehindMark

LEMMA OrderTypes ==
  ASSUME PipelineInv
  PROVE  /\ expected \in Nat \cup {None} /\ None \notin Nat
         /\ \A x \in buffered : x.seq \in Nat
         /\ Len(queue) \in Nat /\ Len(played) \in Nat
         /\ \A i \in 1 .. Len(queue) :
              queue[i] \in ScheduledPackets /\ queue[i].seq \in Nat /\ queue[i].left \in Int
         /\ \A i \in 1 .. Len(played) : played[i] \in Nat
<1>1. /\ expected \in Nat \cup {None} /\ None \notin Nat
      /\ \A x \in buffered : x.seq \in Nat
  BY AudioBufferAssumption DEF PipelineInv, BufferTyped, BufferedEntries
<1>2. queue \in Seq(ScheduledPackets) /\ played \in Seq(Nat)
  BY PlaybackFacts DEF PipelineInv
<1>3. /\ \A i \in 1 .. Len(queue) : queue[i] \in ScheduledPackets
      /\ \A i \in 1 .. Len(played) : played[i] \in Nat
  BY <1>2, ElementOfSeq
<1>4. \A x \in ScheduledPackets : x.seq \in Nat /\ x.left \in Int
  BY DEF ScheduledPackets
<1>5. Len(queue) \in Nat /\ Len(played) \in Nat
  BY <1>2
<1>6. QED
  BY <1>1, <1>3, <1>4, <1>5

(* Steps that leave the scheduler's queue and what was played alone. *)
LEMMA BufferOrder ==
  ASSUME PipelineInv, Ordered, UNCHANGED <<anchor, queue, played>>,
         \A seq \in Nat : BehindMark(seq) => BehindMark(seq)',
         BufferAhead'
  PROVE  Ordered'
<1>1. QueueBehind' /\ PlayedBehind'
  BY OrderTypes DEF Ordered, QueueBehind, PlayedBehind, InTime, LatestLeft
<1>2. QueueIncreases' /\ PlayedFirst' /\ PlayedIncreases' /\ Anchored'
  BY DEF Ordered, QueueIncreases, PlayedFirst, PlayedIncreases, Anchored
<1>3. QED
  BY <1>1, <1>2 DEF Ordered

(* Steps of which the queue keeps some packets, in their order. *)
LEMMA QueueThins ==
  ASSUME PipelineInv, Ordered, expected' = expected, Len(queue') \in Nat,
         NEW f \in [1 .. Len(queue') -> 1 .. Len(queue)],
         \A i, j \in 1 .. Len(queue') : i < j => f[i] < f[j],
         \A i \in 1 .. Len(queue') :
           queue'[i].seq = queue[f[i]].seq /\ (InTime(queue[f[i]]) => InTime(queue[i])'),
         anchor # NoAnchor => anchor' # NoAnchor,
         queue' # <<>> => queue # <<>>
  PROVE  QueueBehind' /\ QueueIncreases' /\ Anchored'
         /\ \A i \in 1 .. Len(queue') : f[i] \in 1 .. Len(queue) /\ queue'[i].seq = queue[f[i]].seq
<1>1. \A i \in 1 .. Len(queue') : f[i] \in 1 .. Len(queue)
  OBVIOUS
<1>2. QueueBehind'
  BY <1>1, Zenon DEF Ordered, QueueBehind, BehindMark
<1>3. QueueIncreases'
  BY <1>1 DEF Ordered, QueueIncreases
<1>4. Anchored'
  BY DEF Ordered, Anchored
<1>5. QED
  BY <1>1, <1>2, <1>3, <1>4

LEMMA PushOrder ==
  ASSUME PipelineInv, Ordered, NEW p \in Packets, PushPacket(p), UNCHANGED playbackVars
  PROVE  Ordered'
<1>1. UNCHANGED <<anchor, queue, played>>
  BY DEF playbackVars, timelineVars
<1>2. expected' = expected
  BY DEF PushPacket, windowVars
<1>3. \/ buffered' = buffered
      \/ ~BehindMark(p) /\ buffered' \subseteq buffered \cup {[seq |-> p, age |-> 0]}
  BY DEF PushPacket, NotAdmitted, BehindMark
<1>4. BufferAhead'
  BY <1>2, <1>3 DEF Ordered, BufferAhead, BehindMark
<1>5. QED
  BY <1>1, <1>2, <1>4, BufferOrder DEF BehindMark

(* Packets leave the buffer, its delay changes, or time passes. *)
LEMMA LeavingOrder ==
  ASSUME PipelineInv, Ordered, expected' = expected, UNCHANGED <<anchor, queue, played>>,
         buffered' \subseteq buffered
  PROVE  Ordered'
<1>1. BufferAhead'
  BY DEF Ordered, BufferAhead, BehindMark
<1>2. QED
  BY <1>1, BufferOrder DEF BehindMark

LEMMA ClearOrder ==
  ASSUME PipelineInv, Ordered, ClearBuffer, UNCHANGED playbackVars
  PROVE  Ordered'
<1>1. UNCHANGED <<anchor, queue, played>>
  BY DEF playbackVars, timelineVars
<1>2. PICK m \in Nat : expected' = IF expected # None /\ expected > m THEN expected ELSE m
  BY ClearAdvances DEF PipelineInv
<1>3. \A seq \in Nat : BehindMark(seq) => BehindMark(seq)'
  BY <1>2, MarkStays DEF PipelineInv, BufferTyped
<1>4. BufferAhead'
  BY DEF ClearBuffer, BufferAhead
<1>5. QED
  BY <1>1, <1>3, <1>4, BufferOrder

(* A packet is popped and, if the scheduler takes it, scheduled: it comes  *)
(* after everything that was popped before, and its deadline too.          *)
LEMMA FeedSchedulerOrder ==
  ASSUME PipelineInv, Ordered, OffsetsClose, NEW p \in Packets, PopReady(p), SchedulePacket(p)
  PROVE  Ordered'
<1> DEFINE s == AdjustedStamp(p)
           packet == [seq |-> p, left |-> TimeLeft(s)]
<1>1. p \in Nat
  BY StreamAssumption
<1>2. PICK y \in Firsts(buffered \ TooOld) : y.seq = p /\ buffered' = buffered \ (TooOld \cup {y})
  BY DEF PopReady, ReadyToPlay
<1>3. y \in buffered /\ \A z \in buffered' : p < z.seq
  <2>1. y \in buffered /\ \A z \in buffered \ TooOld : p <= z.seq
    BY <1>2 DEF Firsts
  <2>2. \A z \in buffered : z.seq = p => z = y
    BY <1>2, <2>1 DEF PipelineInv, BufferTyped
  <2>3. \A z \in buffered' : z \in buffered \ TooOld /\ z # y
    BY <1>2
  <2>4. \A z \in buffered : z.seq \in Nat
    BY OrderTypes
  <2>5. QED
    BY <1>1, <2>1, <2>2, <2>3, <2>4
<1>4. ~BehindMark(p)
  BY <1>2, <1>3 DEF Ordered, BufferAhead
<1>5. expected' = p + 1
  <2>1. expected' = IF expected # None /\ expected > p + 1 THEN expected ELSE p + 1
    BY <1>1 DEF PopReady, Advance, Last
  <2>2. QED
    BY <1>1, <1>4, <2>1, OrderTypes DEF BehindMark
<1>6. \A seq \in Nat : BehindMark(seq) => seq < p
  BY <1>1, <1>4, OrderTypes DEF BehindMark
<1>7. \A seq \in Nat : seq <= p => BehindMark(seq)'
  BY <1>1, <1>5, OrderTypes DEF BehindMark
<1>8. BufferAhead'
  <2>1. \A z \in buffered' : z.seq \in Nat
    BY <1>2, OrderTypes
  <2>2. QED
    BY <1>1, <1>3, <1>5, <2>1 DEF BufferAhead, BehindMark
<1>9. played' = played /\ anchor' = AnchoredAt(s)
  BY DEF SchedulePacket
<1>10. /\ s \in Nat /\ anchor' \in Anchors /\ TimeLeft(s) \in Int /\ packet \in ScheduledPackets
  BY <1>1, <1>9, StampTyped DEF PipelineInv
<1>11. anchor' # NoAnchor /\ (anchor # NoAnchor => anchor' = anchor)
  BY <1>9, <1>10, PlaybackConfigAssumption DEF AnchoredAt, Anchors
<1>12. PlayedBehind' /\ PlayedIncreases' /\ Anchored'
  <2>1. PlayedBehind'
    <3>1. \A i \in 1 .. Len(played) : played[i] \in Nat /\ BehindMark(played[i])
      BY OrderTypes DEF Ordered, PlayedBehind
    <3>2. \A i \in 1 .. Len(played) : played[i] \in Nat /\ played[i] <= p
      BY <1>1, <1>6, <3>1
    <3>3. QED
      BY <1>7, <1>9, <3>2, Zenon DEF PlayedBehind
  <2>2. PlayedIncreases' /\ Anchored'
    BY <1>9, <1>11 DEF Ordered, PlayedIncreases, Anchored
  <2>3. QED
    BY <2>1, <2>2
<1>13. \A i \in 1 .. Len(queue) :
         anchor' = anchor /\ InTime(queue[i]) /\ queue[i].seq \in Nat /\ queue[i].seq < p
  <2> SUFFICES ASSUME NEW i \in 1 .. Len(queue)
               PROVE  anchor' = anchor /\ InTime(queue[i]) /\ queue[i].seq \in Nat
                      /\ queue[i].seq < p
    OBVIOUS
  <2>1. queue # <<>>
    BY PlaybackFacts DEF PipelineInv
  <2>2. anchor' = anchor
    BY <1>11, <2>1 DEF Ordered, Anchored
  <2>3. BehindMark(queue[i].seq) /\ InTime(queue[i])
    BY DEF Ordered, QueueBehind
  <2>4. queue[i].seq \in Nat
    BY OrderTypes
  <2>5. QED
    BY <1>6, <2>2, <2>3, <2>4, Zenon
<1>14. \A z : InTime(z) /\ anchor' = anchor => InTime(z)'
  BY Zenon DEF InTime, LatestLeft
<1>15. CASE queue' = queue
  <2>1. QueueBehind'
    <3>1. \A i \in 1 .. Len(queue) : queue[i].seq <= p
      BY <1>1, <1>13
    <3>2. QED
      BY <1>7, <1>13, <1>14, <1>15, <3>1, Zenon DEF QueueBehind
  <2>2. QueueIncreases' /\ PlayedFirst'
    BY <1>9, <1>15 DEF Ordered, QueueIncreases, PlayedFirst
  <2>3. QED
    BY <1>8, <1>12, <2>1, <2>2 DEF Ordered
<1>16. PICK x \in ScheduledPackets : x = packet
  BY <1>10
<1>17. CASE queue' = Inserted(x) /\ ~(x.left < -MaxLate)
  <2>1. x.seq = p /\ x.left = LatestLeft(p, clock.offset)'
    <3>1. x.seq = p /\ x.left = NotNegative(s - anchor'.stamp) - anchor'.since + Latency
      BY <1>9, <1>16 DEF TimeLeft
    <3>2. s = NotNegative(p * Spacing + clock.offset)
      BY DEF AdjustedStamp, CurrentOffset
    <3>3. clock' = clock
      BY DEF SchedulePacket
    <3>4. QED
      BY <3>1, <3>2, <3>3, Zenon DEF LatestLeft
  <2>2. clock.offset \in ClockOffsets /\ clock'.offset = clock.offset
    <3>1. clock.offset \in ClockOffsets
      BY PlaybackFacts DEF PipelineInv
    <3>2. clock' = clock
      BY DEF SchedulePacket
    <3>3. QED
      BY <3>1, <3>2
  <2>3. InTime(x)'
    <3>1. PICK o \in ClockOffsets : o = clock'.offset
      BY <2>2
    <3>2. x.left = LatestLeft(x.seq, o)'
      BY <2>1, <3>1, Zenon DEF LatestLeft
    <3>3. x.left <= x.left
      BY DEF ScheduledPackets
    <3>4. QED
      BY <3>2, <3>3, Zenon DEF InTime
  <2>4. \A i \in 1 .. Len(queue) : PlaysBefore(queue[i], x)
    <3> SUFFICES ASSUME NEW i \in 1 .. Len(queue)
                 PROVE  PlaysBefore(queue[i], x)
      OBVIOUS
    <3> DEFINE q == queue[i]
    <3>1. anchor' = anchor /\ InTime(q) /\ q.seq \in Nat /\ q.seq < p /\ q.left \in Int
      BY <1>13, OrderTypes
    <3> HIDE DEF q
    <3>2. x.left \in Int /\ MaxLate \in Nat /\ x.left >= -MaxLate
      BY <1>17, PlaybackConstants DEF ScheduledPackets
    <3>3. CASE q.left <= LeftLimit
      <4>1. q.left < x.left
        BY <3>1, <3>2, <3>3 DEF LeftLimit
      <4>2. QED
        BY <4>1 DEF PlaysBefore, q
    <3>4. ASSUME NEW o \in ClockOffsets, q.left <= LatestLeft(q.seq, o)
          PROVE  PlaysBefore(q, x)
      <4>1. anchor # NoAnchor
        BY <1>11, <3>1
      <4>2. LatestLeft(q.seq, o) <= LatestLeft(p, clock.offset)
        BY <1>1, <2>2, <3>1, <4>1, LaterLeft DEF PipelineInv
      <4>3. x.left = LatestLeft(p, clock.offset)
        BY <2>1, <2>2, <3>1, Zenon DEF LatestLeft
      <4>4. LatestLeft(q.seq, o) \in Int
        BY <3>1, <4>1, LatestTyped DEF PipelineInv
      <4>5. q.left <= x.left
        BY <3>1, <3>2, <3>4, <4>2, <4>3, <4>4
      <4>6. q.left < x.left \/ q.left = x.left
        BY <3>1, <3>2, <4>5
      <4>7. QED
        BY <2>1, <3>1, <4>6, Zenon DEF PlaysBefore
    <3>5. QED
      BY <3>1, <3>3, <3>4 DEF InTime, q
  <2>5. queue' = Append(queue, x)
    BY <1>17, <2>4, InsertedFacts, PlaybackFacts DEF PipelineInv
  <2> DEFINE n == Len(queue)
  <2>6. /\ Len(queue') = n + 1 /\ n \in Nat
        /\ \A i \in 1 .. n : queue'[i] = queue[i]
        /\ queue'[n + 1] = x
    <3>1. queue \in Seq(ScheduledPackets)
      BY PlaybackFacts DEF PipelineInv
    <3>2. QED
      BY <2>5, <3>1, AppendProperties
  <2> HIDE DEF n
  <2>7. \A i \in 1 .. n : queue'[i].seq < p /\ InTime(queue[i])'
    <3>1. \A i \in 1 .. n : queue'[i] = queue[i] /\ queue[i].seq < p
            /\ InTime(queue[i]) /\ anchor' = anchor
      BY <1>13, <2>6 DEF n
    <3>2. QED
      BY <1>14, <3>1, Zenon
  <2>8. QueueBehind'
    <3> SUFFICES ASSUME NEW i \in 1 .. Len(queue')
                 PROVE  BehindMark(queue[i].seq)' /\ InTime(queue[i])'
      BY DEF QueueBehind
    <3>1. CASE i \in 1 .. n
      <4>1. queue'[i].seq \in Nat /\ queue'[i].seq <= p
        BY <1>1, <1>13, <2>6, <2>7, <3>1 DEF n
      <4>2. QED
        BY <1>7, <2>7, <3>1, <4>1, Zenon
    <3>2. CASE i = n + 1
      <4>1. queue'[i] = x /\ queue'[i].seq = p /\ p <= p
        BY <1>1, <2>1, <2>6, <3>2
      <4>2. QED
        BY <1>1, <1>7, <2>3, <4>1, Zenon
    <3>3. QED
      BY <2>6, <3>1, <3>2
  <2>9. QueueIncreases'
    <3>1. \A i, j \in 1 .. n : i < j => queue'[i].seq < queue'[j].seq
      BY <2>6 DEF Ordered, QueueIncreases, n
    <3>2. \A i \in 1 .. n : queue'[i].seq < queue'[n + 1].seq
      BY <2>1, <2>6, <2>7, Zenon
    <3>3. QED
      BY <2>6, <3>1, <3>2 DEF QueueIncreases
  <2>10. PlayedFirst'
    <3>1. \A i \in 1 .. Len(played), j \in 1 .. n : played[i] < queue'[j].seq
      BY <2>6 DEF Ordered, PlayedFirst, n
    <3>2. \A i \in 1 .. Len(played) : played[i] < queue'[n + 1].seq
      BY <1>6, <2>1, <2>6, OrderTypes DEF Ordered, PlayedBehind
    <3>3. \A j \in 1 .. Len(queue') : j \in 1 .. n \/ j = n + 1
      BY <2>6
    <3>4. QED
      BY <1>9, <3>1, <3>2, <3>3, Zenon DEF PlayedFirst
  <2>11. QED
    BY <1>8, <1>12, <2>8, <2>9, <2>10 DEF Ordered
<1>18. QED
  BY <1>15, <1>16, <1>17, Zenon DEF SchedulePacket

(* next_packet hands the first of the queue out, which is after all that   *)
(* was handed out before and before all that waits.                        *)
LEMMA NextOrder ==
  ASSUME PipelineInv, Ordered, NextPacket, UNCHANGED bufferVars
  PROVE  Ordered'
<1> DEFINE n == Len(queue) - 1
           m == Len(played)
           p == Head(queue).seq
<1>1. /\ queue # <<>> /\ queue' = Tail(queue) /\ played' = Append(played, p)
      /\ anchor' = anchor
  BY DEF NextPacket, Due, Dequeue
<1>2. queue \in Seq(ScheduledPackets) /\ played \in Seq(Nat)
  BY PlaybackFacts DEF PipelineInv
<1>3. /\ Len(queue) \in Nat \ {0} /\ n \in Nat /\ Len(queue') = n
      /\ \A i \in 1 .. n : queue'[i] = queue[i + 1]
  BY <1>1, <1>2, HeadTailProperties
<1>4. p = queue[1].seq /\ p \in Nat
  BY <1>1, <1>2, <1>3, OrderTypes
<1>5. /\ m \in Nat /\ Len(played') = m + 1 /\ \A i \in 1 .. m : played'[i] = played[i]
      /\ played'[m + 1] = p
  BY <1>1, <1>2, <1>4, AppendProperties
<1>6. expected' = expected /\ buffered' = buffered
  BY DEF bufferVars, windowVars
<1> HIDE DEF p, m
<1> DEFINE f == [i \in 1 .. n |-> i + 1]
<1>7. f \in [1 .. Len(queue') -> 1 .. Len(queue)]
  BY <1>3
<1>8. \A z : InTime(z) => InTime(z)'
  BY <1>1, Zenon DEF InTime, LatestLeft
<1>9. \A i \in 1 .. Len(queue') :
        queue'[i].seq = queue[f[i]].seq /\ (InTime(queue[f[i]]) => InTime(queue[i])')
  BY <1>3, <1>8
<1>10. \A i, j \in 1 .. Len(queue') : i < j => f[i] < f[j]
  BY <1>3
<1>11. /\ QueueBehind' /\ QueueIncreases' /\ Anchored'
       /\ \A i \in 1 .. Len(queue') : f[i] \in 1 .. Len(queue) /\ queue'[i].seq = queue[f[i]].seq
  BY <1>1, <1>3, <1>6, <1>7, <1>9, <1>10, QueueThins
<1>12. BufferAhead'
  BY <1>6 DEF Ordered, BufferAhead, BehindMark
<1>13. BehindMark(p) /\ 1 \in 1 .. Len(queue)
  BY <1>3, <1>4 DEF Ordered, QueueBehind
<1>14. \A i \in 1 .. Len(played') : i \in 1 .. m \/ i = m + 1
  BY <1>5
<1>15. PlayedBehind'
  <2>1. \A i \in 1 .. m : BehindMark(played[i])
    BY DEF Ordered, PlayedBehind, m
  <2>2. \A i \in 1 .. Len(played') : BehindMark(played'[i])
    BY <1>5, <1>13, <1>14, <2>1, Zenon
  <2>3. QED
    BY <1>6, <2>2, Zenon DEF PlayedBehind, BehindMark
<1>16. PlayedFirst'
  <2>1. \A j \in 1 .. n : p < queue'[j].seq
    BY <1>3, <1>4, <1>13 DEF Ordered, QueueIncreases
  <2>2. \A i \in 1 .. m, j \in 1 .. n : played[i] < queue'[j].seq
    BY <1>3 DEF Ordered, PlayedFirst, m
  <2>3. QED
    BY <1>3, <1>5, <1>14, <2>1, <2>2, Zenon DEF PlayedFirst
<1>17. PlayedIncreases'
  <2>1. \A i \in 1 .. m : played[i] < p
    BY <1>4, <1>13 DEF Ordered, PlayedFirst, m
  <2>2. \A i, j \in 1 .. m : i < j => played[i] < played[j]
    BY DEF Ordered, PlayedIncreases, m
  <2>3. \A i, j \in 1 .. m + 1 : i < j => (i \in 1 .. m /\ (j \in 1 .. m \/ j = m + 1))
    BY <1>5
  <2>4. SUFFICES ASSUME NEW i \in 1 .. m + 1, NEW j \in 1 .. m + 1, i < j
                 PROVE  played'[i] < played'[j]
    BY <1>5 DEF PlayedIncreases
  <2>5. CASE i \in 1 .. m /\ j \in 1 .. m
    BY <1>5, <2>2, <2>4, <2>5, Zenon
  <2>6. CASE i \in 1 .. m /\ j = m + 1
    BY <1>5, <2>1, <2>6, Zenon
  <2>7. QED
    BY <2>3, <2>4, <2>5, <2>6
<1>18. QED
  BY <1>11, <1>12, <1>15, <1>16, <1>17 DEF Ordered

(* The queue loses packets that are not played, or time passes. *)
LEMMA ThinnedOrder ==
  ASSUME PipelineInv, Ordered, expected' = expected, played' = played, BufferAhead',
         Len(queue') \in Nat,
         NEW f \in [1 .. Len(queue') -> 1 .. Len(queue)],
         \A i, j \in 1 .. Len(queue') : i < j => f[i] < f[j],
         \A i \in 1 .. Len(queue') :
           queue'[i].seq = queue[f[i]].seq /\ (InTime(queue[f[i]]) => InTime(queue[i])'),
         anchor # NoAnchor => anchor' # NoAnchor,
         queue' # <<>> => queue # <<>>
  PROVE  Ordered'
<1>1. /\ QueueBehind' /\ QueueIncreases' /\ Anchored'
      /\ \A i \in 1 .. Len(queue') : f[i] \in 1 .. Len(queue) /\ queue'[i].seq = queue[f[i]].seq
  BY QueueThins
<1>2. PlayedFirst'
  BY <1>1 DEF Ordered, PlayedFirst
<1>3. PlayedBehind' /\ PlayedIncreases'
  BY DEF Ordered, PlayedBehind, PlayedIncreases, BehindMark
<1>4. QED
  BY <1>1, <1>2, <1>3 DEF Ordered

LEMMA RemovedOrder ==
  ASSUME PipelineInv, Ordered, ClearSchedule \/ \E p \in Packets : CancelPacket(p),
         UNCHANGED bufferVars
  PROVE  Ordered'
<1>1. expected' = expected /\ buffered' = buffered
  BY DEF bufferVars, windowVars
<1>2. BufferAhead'
  BY <1>1 DEF Ordered, BufferAhead, BehindMark
<1>3. played' = played /\ anchor' = anchor
  BY DEF ClearSchedule, CancelPacket, Removed
<1>4. \A z : InTime(z) => InTime(z)'
  BY <1>3, Zenon DEF InTime, LatestLeft
<1>5. CASE ClearSchedule
  <2>1. queue' = <<>>
    BY <1>5 DEF ClearSchedule, Removed
  <2>2. QueueBehind' /\ QueueIncreases' /\ PlayedFirst' /\ Anchored'
    BY <2>1 DEF QueueBehind, QueueIncreases, PlayedFirst, Anchored
  <2>3. PlayedBehind' /\ PlayedIncreases'
    BY <1>1, <1>3 DEF Ordered, PlayedBehind, PlayedIncreases, BehindMark
  <2>4. QED
    BY <1>2, <2>2, <2>3 DEF Ordered
<1>6. CASE \E p \in Packets : CancelPacket(p)
  <2>1. PICK k \in 1 .. Len(queue) : queue' = RemoveAt(queue, k)
    BY <1>6, Zenon DEF CancelPacket, Removed
  <2>2. queue \in Seq(ScheduledPackets) /\ Len(queue) \in Nat
    BY PlaybackFacts DEF PipelineInv
  <2>3. /\ Len(queue') = Len(queue) - 1
        /\ \A j \in 1 .. Len(queue) - 1 : queue'[j] = queue[IF j < k THEN j ELSE j + 1]
    BY <2>1, <2>2, Without
  <2> DEFINE f == [j \in 1 .. Len(queue') |-> IF j < k THEN j ELSE j + 1]
  <2>4. f \in [1 .. Len(queue') -> 1 .. Len(queue)] /\ Len(queue') \in Nat
    BY <2>2, <2>3
  <2>5. \A i, j \in 1 .. Len(queue') : i < j => f[i] < f[j]
    BY <2>2, <2>3
  <2>6. \A i \in 1 .. Len(queue') : queue'[i] = queue[f[i]]
    BY <2>3
  <2> HIDE DEF f
  <2>7. \A i \in 1 .. Len(queue') :
          queue'[i].seq = queue[f[i]].seq /\ (InTime(queue[f[i]]) => InTime(queue[i])')
    BY <1>4, <2>6, Zenon
  <2>8. queue # <<>>
    BY <2>2
  <2>9. QED
    BY <1>1, <1>2, <1>3, <2>4, <2>5, <2>7, <2>8, ThinnedOrder
<1>7. QED
  BY <1>5, <1>6

(* Time brings every deadline, and the latest it could have been, nearer.  *)
LEMMA TickOrder ==
  ASSUME PipelineInv, Ordered, Tick
  PROVE  Ordered'
<1>1. /\ buffered' = Older /\ queue' = Nearer /\ anchor' = Longer
      /\ UNCHANGED <<windowVars, played>>
  BY DEF Tick
<1>2. expected' = expected /\ played' = played
  BY <1>1 DEF windowVars
<1>3. BufferAhead'
  <2>1. \A z \in buffered' : \E x \in buffered : z.seq = x.seq
    BY <1>1 DEF Older, PipelineInv, BufferTyped, BufferedEntries
  <2>2. QED
    BY <1>2, <2>1 DEF Ordered, BufferAhead, BehindMark
<1>4. queue \in Seq(ScheduledPackets) /\ Len(queue) \in Nat
  BY PlaybackFacts DEF PipelineInv
<1>5. /\ Len(queue') = Len(queue)
      /\ \A i \in 1 .. Len(queue) :
           queue'[i] = [queue[i] EXCEPT !.left = IF queue[i].left > LeftLimit
                                                 THEN queue[i].left - 1 ELSE queue[i].left]
  BY <1>1, <1>4 DEF Nearer
<1> DEFINE f == [i \in 1 .. Len(queue') |-> i]
<1>6. f \in [1 .. Len(queue') -> 1 .. Len(queue)] /\ Len(queue') \in Nat
  BY <1>4, <1>5
<1>7. \A i, j \in 1 .. Len(queue') : i < j => f[i] < f[j]
  OBVIOUS
<1>8. ASSUME NEW i \in 1 .. Len(queue)
      PROVE  queue'[i].seq = queue[i].seq /\ (InTime(queue[i]) => InTime(queue[i])')
  <2>1. PICK x \in ScheduledPackets : x = queue[i]
    BY OrderTypes
  <2>2. PICK y : y = queue'[i]
    OBVIOUS
  <2>3. /\ x.seq \in Nat /\ x.left \in Int /\ y.seq = x.seq
        /\ y.left = IF x.left > LeftLimit THEN x.left - 1 ELSE x.left
    BY <1>5, <2>1, <2>2 DEF ScheduledPackets
  <2>4. anchor # NoAnchor /\ anchor \in Anchors
    <3>1. queue # <<>>
      BY <1>4
    <3>2. QED
      BY <3>1, PlaybackFacts DEF PipelineInv, Ordered, Anchored
  <2>5. LeftLimit \in Int
    BY PlaybackConstants DEF LeftLimit
  <2>6. ASSUME NEW o \in ClockOffsets, x.left <= LatestLeft(x.seq, o), ~(x.left <= LeftLimit)
        PROVE  y.left <= LatestLeft(y.seq, o)'
    <3>1. LatestLeft(x.seq, o) \in Int
      BY <2>3, <2>4, LatestTyped DEF PipelineInv
    <3>2. y.left = x.left - 1
      BY <2>3, <2>5, <2>6
    <3>3. LatestLeft(y.seq, o)' = LatestLeft(x.seq, o)
            \/ LatestLeft(y.seq, o)' = LatestLeft(x.seq, o) - 1
      <4> DEFINE k == NotNegative(NotNegative(x.seq * Spacing + o) - anchor.stamp)
      <4>1. LatestLeft(x.seq, o) = k - anchor.since + Latency
        BY Zenon DEF LatestLeft
      <4>2. anchor'.stamp = anchor.stamp
              /\ (anchor'.since = anchor.since \/ anchor'.since = anchor.since + 1)
        BY <1>1, <2>4 DEF Longer, Anchors
      <4>3. LatestLeft(y.seq, o)' = k - anchor'.since + Latency
        BY <2>3, <4>2, Zenon DEF LatestLeft
      <4>4. k \in Int /\ anchor.since \in Int /\ Latency \in Int
        <5>1. o \in Int /\ Spacing \in Int /\ Latency \in Int
          BY PlaybackConstants
        <5>2. anchor.stamp \in Int /\ anchor.since \in Int
          BY <2>4 DEF Anchors
        <5>3. \A n \in Int : NotNegative(n) \in Int
          BY DEF NotNegative
        <5>4. x.seq * Spacing + o \in Int
          <6>1. \A a, b, c \in Int : a * b + c \in Int
            OBVIOUS
          <6>2. x.seq \in Int
            BY <2>3
          <6>3. QED
            BY <5>1, <6>1, <6>2
        <5>5. NotNegative(x.seq * Spacing + o) \in Int
          BY <5>3, <5>4, Zenon
        <5>6. NotNegative(x.seq * Spacing + o) - anchor.stamp \in Int
          BY <5>2, <5>5
        <5>7. k \in Int
          BY <5>3, <5>6, Zenon
        <5>8. QED
          BY <5>1, <5>2, <5>7
      <4> HIDE DEF k
      <4>5. QED
        BY <4>1, <4>2, <4>3, <4>4
    <3>4. QED
      BY <2>3, <2>6, <3>1, <3>2, <3>3
  <2>7. InTime(x) => InTime(queue[i])'
    <3>1. \A o \in ClockOffsets : x.left <= LatestLeft(x.seq, o) /\ ~(x.left <= LeftLimit)
             => y.left <= LatestLeft(y.seq, o)'
      BY <2>6
    <3>2. x.left <= LeftLimit => y.left <= LeftLimit
      BY <2>3, <2>5
    <3>3. QED
      BY <2>2, <3>1, <3>2, Zenon DEF InTime
  <2>8. QED
    BY <2>1, <2>2, <2>3, <2>7, Zenon
<1>9. anchor # NoAnchor => anchor' # NoAnchor
  <2>1. anchor \in Anchors => anchor' \in Anchors
    BY <1>1 DEF Longer, Anchors
  <2>2. NoAnchor \notin Anchors /\ anchor \in Anchors \cup {NoAnchor}
    BY PlaybackFacts, PlaybackConfigAssumption DEF PipelineInv, Anchors
  <2>3. QED
    BY <2>1, <2>2
<1>10. queue' # <<>> => queue # <<>>
  BY <1>4, <1>5
<1>11. QED
  BY <1>2, <1>3, <1>5, <1>6, <1>7, <1>8, <1>9, <1>10, ThinnedOrder

(* One step at a time. *)
LEMMA OrderStays ==
  ASSUME AccountInv, OrderInv, [Next]_vars
  PROVE  OrderInv'
<1>1. PipelineInv
  BY AccountFacts DEF PipelineInv, StreamInv
<1>2. unseen.resets \in Nat /\ BufferTyped
  BY AccountFacts, BufferFacts
<1>3. SUFFICES ASSUME unseen'.resets = 0, OffsetsClose PROVE Ordered'
  BY DEF OrderInv, OffsetsClose, Spread, ClockOffsets
<1>4. unseen'.resets = unseen.resets => Ordered
  BY <1>3 DEF OrderInv
<1>5. ASSUME UNCHANGED bufferVars
      PROVE  /\ expected' = expected /\ buffered' \subseteq buffered /\ Ordered
  <2>1. expected' = expected /\ buffered' = buffered /\ unseen' = unseen
    BY <1>5 DEF bufferVars, windowVars
  <2>2. QED
    BY <1>4, <2>1
<1>6. UNCHANGED playbackVars => UNCHANGED <<anchor, queue, played>>
  BY DEF playbackVars, timelineVars
<1>7. CASE UNCHANGED <<bufferVars, playbackVars>>
  BY <1>1, <1>5, <1>6, <1>7, LeavingOrder
<1>8. CASE FeedBuffer
  <2>1. PICK p \in Packets : PushPacket(p)
    BY <1>8 DEF FeedBuffer
  <2>2. unseen'.resets = unseen.resets
    BY <2>1, AccountFacts, PushTyped
  <2>3. UNCHANGED playbackVars
    BY <1>8 DEF FeedBuffer
  <2>4. QED
    BY <1>1, <1>4, <2>1, <2>2, <2>3, PushOrder
<1>9. CASE FeedScheduler
  <2>1. ASSUME NEW p \in Packets, PopReady(p), SchedulePacket(p)
        PROVE  Ordered'
    <3>1. unseen' = unseen
      BY <2>1 DEF PopReady
    <3>2. QED
      BY <1>1, <1>3, <1>4, <2>1, <3>1, FeedSchedulerOrder
  <2>2. ASSUME PopNothing, UNCHANGED playbackVars
        PROVE  Ordered'
    <3>1. unseen' = unseen /\ expected' = expected /\ buffered' \subseteq buffered
      BY <2>2 DEF PopNothing, windowVars
    <3>2. QED
      BY <1>1, <1>4, <1>6, <2>2, <3>1, LeavingOrder
  <2>3. QED
    BY <1>9, <2>1, <2>2 DEF FeedScheduler
<1>10. ASSUME (\E o \in ClockOffsets : Synchronize(o)) \/ Update \/ RestartClock,
              UNCHANGED bufferVars
       PROVE  Ordered'
  <2>1. UNCHANGED <<anchor, queue, played>>
    BY <1>10, AccountFacts, ClockTyped DEF timelineVars
  <2>2. QED
    BY <1>1, <1>5, <1>10, <2>1, LeavingOrder
<1>11. CASE Playback(NextPacket)
  <2>1. NextPacket /\ UNCHANGED bufferVars
    BY <1>11 DEF Playback
  <2>2. QED
    BY <1>1, <1>5, <2>1, NextOrder
<1>12. CASE Interruption
  <2>1. CASE ClearCall
    <3>1. ClearBuffer /\ UNCHANGED playbackVars
      BY <2>1 DEF ClearCall, Buffer
    <3>2. unseen'.resets = unseen.resets
      BY <3>1, AccountFacts, ClearTyped
    <3>3. QED
      BY <1>1, <1>4, <3>1, <3>2, ClearOrder
  <2>2. CASE ResetCall
    <3>1. ResetBuffer
      BY <2>2 DEF ResetCall, Buffer
    <3>2. unseen'.resets = unseen.resets + 1
      BY <3>1, AccountFacts, ResetTyped
    <3>3. QED
      BY <1>2, <1>3, <3>2
  <2>3. CASE SetTargetDelayCall
    <3>1. PICK d \in MinTargetDelay .. MaxTargetDelay : SetTargetDelay(d) /\ UNCHANGED playbackVars
      BY <2>3, Zenon DEF SetTargetDelayCall, Buffer
    <3>2. unseen' = unseen /\ expected' = expected /\ buffered' \subseteq buffered
      BY <3>1 DEF SetTargetDelay, windowVars
    <3>3. QED
      BY <1>1, <1>4, <1>6, <3>1, <3>2, LeavingOrder
  <2>4. CASE (ClearSchedule \/ \E p \in Packets : CancelPacket(p)) /\ UNCHANGED bufferVars
    BY <1>1, <1>5, <2>4, RemovedOrder
  <2>5. CASE RestartClock /\ UNCHANGED bufferVars
    BY <1>10, <2>5
  <2>6. QED
    BY <1>12, <2>1, <2>2, <2>3, <2>4, <2>5, Zenon DEF Interruption
<1>13. CASE Tick
  <2>1. unseen' = unseen
    BY <1>13 DEF Tick
  <2>2. QED
    BY <1>1, <1>4, <1>13, <2>1, TickOrder
<1>14. ASSUME Playback(Update) \/ \E o \in ClockOffsets : Playback(Synchronize(o))
       PROVE  Ordered'
  BY <1>10, <1>14 DEF Playback
<1>15. CASE UNCHANGED vars
  BY <1>7, <1>15 DEF vars
<1>16. QED
  BY <1>7, <1>8, <1>9, <1>11, <1>12, <1>13, <1>14, <1>15, Zenon DEF Next, Stream

(* For every configuration: as long as the buffer was not reset and the    *)
(* clock's offset stays within the time between two packets, the audio     *)
(* output gets the packets in the order they were captured, none twice,    *)
(* whatever was lost, repeated, reordered, cleared or cancelled before.    *)
THEOREM AlwaysPlayedInOrder == Spec => []PlayedInOrder
<1>1. Init => AccountInv /\ OrderInv
  <2>1. ASSUME Init PROVE OrderInv
    <3>1. buffered = {} /\ queue = <<>> /\ played = <<>>
      BY <2>1 DEF Init, BufferInit, PlaybackInit, NewSchedule
    <3>2. QED
      BY <3>1 DEF OrderInv, Ordered, BufferAhead, QueueBehind, PlayedBehind, QueueIncreases,
                  PlayedFirst, PlayedIncreases, Anchored
  <2>2. QED
    BY <2>1, AccountsStart
<1>2. AccountInv /\ OrderInv /\ [Next]_vars => (AccountInv /\ OrderInv)'
  BY AccountsStay, OrderStays
<1>3. OrderInv => PlayedInOrder
  BY DEF OrderInv, Ordered, PlayedIncreases, OffsetsClose, PlayedInOrder
<1>4. QED
  BY <1>1, <1>2, <1>3, PTL DEF Spec
=============================================================================
