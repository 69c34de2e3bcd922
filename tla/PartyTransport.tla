--------------------------- MODULE PartyTransport ---------------------------
(***************************************************************************)
(* The network engine (network_engine/index.js, discovery.js,              *)
(* transport.js, connectionManager.js) between a host and one guest: the   *)
(* host advertises its party, the guest finds it and asks to join with one *)
(* datagram, and the host sends to every address it ever had a datagram    *)
(* from.                                                                   *)
(*                                                                         *)
(* What gives packets to the host's engine and takes them from the guest's *)
(* is external, and so is the guest's listening (client mode only sends).  *)
(* UDP is external too: it loses, repeats and reorders datagrams.  The     *)
(* engine's two maps of addresses are filled by one handler and emptied by *)
(* none; here they are whether the guest is known.                         *)
(***************************************************************************)
EXTENDS Integers, FiniteSets

CONSTANT Packets       \* sequence numbers

VARIABLES
  net,     \* discovery, requests under way, and whether the guest is in the host's maps
  wire     \* the datagrams under way to the guest

netVars == <<net, wire>>

(* A number tells the copies of a datagram from each other. *)
Datagrams == [seq : Packets, number : Nat]

NetTypeOK ==
  /\ net \in [advertised : BOOLEAN, found : BOOLEAN, requests : Nat, client : BOOLEAN,
             device : BOOLEAN]
  /\ wire \subseteq Datagrams

NetInit ==
  /\ net = [advertised |-> FALSE, found |-> FALSE, requests |-> 0, client |-> FALSE,
            device |-> FALSE]
  /\ wire = {}

(* startAdvertising *)
Advertised(n) == [n EXCEPT !.advertised = TRUE]

(* The UDP server first, then the announcement. *)
StartHostMode ==
  /\ ~net.advertised
  /\ net' = Advertised(net)
  /\ UNCHANGED wire

(* sendToAddress: one datagram, which nobody waits for. *)
Requested(n) == [n EXCEPT !.requests = @ + 1]

(* startClientMode: the callback sends the request when the service comes  *)
(* up, which happens once.                                                 *)
ScanForHosts ==
  /\ net.advertised /\ ~net.found
  /\ net' = Requested([net EXCEPT !.found = TRUE])
  /\ UNCHANGED wire

(* connectionManager.addDevice *)
AddDevice(n) == [n EXCEPT !.device = TRUE]

(* The server's message handler: nothing is answered. *)
HandleRequest ==
  /\ net.requests > 0
  /\ net' = AddDevice([net EXCEPT !.requests = @ - 1, !.client = TRUE])
  /\ UNCHANGED wire

LoseRequest ==
  /\ net.requests > 0
  /\ net' = [net EXCEPT !.requests = @ - 1]
  /\ UNCHANGED wire

CopyRequest ==
  /\ net.requests > 0
  /\ net' = [net EXCEPT !.requests = @ + 1]
  /\ UNCHANGED wire

Datagram(p, n) == [seq |-> p, number |-> n]

(* One more datagram is under way. *)
Sent(p) ==
  /\ \E n \in 0 .. Cardinality(wire) :
       /\ Datagram(p, n) \notin wire /\ \A k \in 0 .. n - 1 : Datagram(p, k) \in wire
       /\ wire' = wire \cup {Datagram(p, n)}
  /\ UNCHANGED net

(* broadcastToClients *)
Broadcast(p) == IF net.client THEN Sent(p) ELSE UNCHANGED netVars

CopyPacket(d) == d \in wire /\ Sent(d.seq)

LosePacket(d) ==
  /\ d \in wire
  /\ wire' = wire \ {d}
  /\ UNCHANGED net

(* Any datagram under way arrives next. *)
Deliver(d) ==
  /\ d \in wire
  /\ wire' = wire \ {d}
  /\ UNCHANGED net
=============================================================================
