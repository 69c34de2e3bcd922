----------------------------- MODULE PartyProofs -----------------------------
(***************************************************************************)
(* Proofs about a party.  RoomSync, for any guests, connections, requests  *)
(* and broken connections: the lists the devices show are the Node         *)
(* server's, and the Node server lists nobody the Rust server does not     *)
(* know.  PartyPlayback, for any uploads, lists of songs and devices: the  *)
(* file served is one whole upload, and none from before the one announced.*)
(***************************************************************************)
EXTENDS RoomSync, PartyPlayback, SequenceTheorems, TLAPS

PostsOnWay == BagToSet(posts)

RoomTypes ==
  /\ api \in {None} \cup SUBSET Users
  /\ PostsOnWay \subseteq SUBSET Users
  /\ node \in Rooms \cup {None}
  /\ clients \in [Users -> Clients]
  /\ socks \in [Sockets -> SocketStates]

(* The socket's device asks to be let in, or has asked and is not heard yet. *)
Asks(sk, s) == \E i \in 1 .. Len(sk[s].up) : sk[s].up[i] = "join"

(* Until the host creates the room nobody is in it or on the way there. *)
NothingYet ==
  clients[Host].screen = "home" =>
    /\ api = None /\ node = None /\ PostsOnWay = {}
    /\ \A s \in Sockets : ~Asks(socks, s)

(* While the Rust server has the room, all who are listed, posted or about *)
(* to join by their socket are among its members.                          *)
MembersKnown ==
  api # None =>
    /\ node # None => node.members \subseteq api
    /\ \A members \in PostsOnWay : members \subseteq api
    /\ \A s \in Sockets : Asks(socks, s) => s[1] \in api

RoomInv == RoomTypes /\ ListsCurrent /\ NothingYet /\ MembersKnown

-----------------------------------------------------------------------------
(* The data.                                                               *)

LEMMA NoneIsNoRoom == None \notin Rooms
BY RoomAssumption

LEMMA SocketUser == \A s \in Sockets : s[1] \in Users
BY DEF Sockets

LEMMA PostAdded ==
  ASSUME NEW members, SyncWithNode(members)
  PROVE  PostsOnWay' = PostsOnWay \cup {members}
BY DEF SyncWithNode, PostsOnWay, BagToSet, SetToBag, (+)

LEMMA PostTaken ==
  ASSUME NEW members, posts' = posts (-) SetToBag({members})
  PROVE  PostsOnWay' \subseteq PostsOnWay
BY DEF PostsOnWay, BagToSet, SetToBag, (-)

Events == {"join", "leave", "disconnect"}

LEMMA EventQueues ==
  ASSUME NEW u \in Seq(Events)
  PROVE  /\ u # <<>> => /\ Tail(u) \in Seq(Events)
                        /\ \A i \in 1 .. Len(Tail(u)) : \E j \in 1 .. Len(u) : Tail(u)[i] = u[j]
                        /\ 1 \in 1 .. Len(u) /\ Head(u) = u[1]
         /\ u \o <<"leave", "disconnect">> \in Seq(Events)
         /\ \A i \in 1 .. Len(u \o <<"leave", "disconnect">>) :
              \/ (u \o <<"leave", "disconnect">>)[i] # "join"
              \/ i \in 1 .. Len(u) /\ (u \o <<"leave", "disconnect">>)[i] = u[i]
<1>1. ASSUME u # <<>>
      PROVE  /\ Tail(u) \in Seq(Events)
             /\ \A i \in 1 .. Len(Tail(u)) : \E j \in 1 .. Len(u) : Tail(u)[i] = u[j]
             /\ 1 \in 1 .. Len(u) /\ Head(u) = u[1]
  <2>1. Len(Tail(u)) = Len(u) - 1 /\ \A i \in 1 .. Len(u) - 1 : Tail(u)[i] = u[i + 1]
    BY <1>1
  <2>2. \A i \in 1 .. Len(u) - 1 : i + 1 \in 1 .. Len(u)
    OBVIOUS
  <2>3. QED
    BY <1>1, <2>1, <2>2
<1>2. u \o <<"leave", "disconnect">> \in Seq(Events)
  BY DEF Events
<1>3. ASSUME NEW i \in 1 .. Len(u \o <<"leave", "disconnect">>)
      PROVE  \/ (u \o <<"leave", "disconnect">>)[i] # "join"
             \/ i \in 1 .. Len(u) /\ (u \o <<"leave", "disconnect">>)[i] = u[i]
  BY <1>3
<1>4. QED
  BY <1>1, <1>2, <1>3

LEMMA SocketFields ==
  ASSUME RoomTypes, NEW s \in Sockets
  PROVE  /\ socks[s] \in SocketStates /\ socks[s].up \in Seq(Events)
         /\ socks[s].news \in Rooms \cup {None}
         /\ socks[s] = [up |-> socks[s].up, named |-> socks[s].named,
                        joined |-> socks[s].joined, cancelled |-> socks[s].cancelled,
                        news |-> socks[s].news]
BY DEF RoomTypes, SocketStates, Events

LEMMA FreeType == Free \in SocketStates /\ Free.up = <<>> /\ Free.joined = FALSE
<1>1. <<>> \in Seq(Events)
  OBVIOUS
<1>2. QED
  BY <1>1 DEF Free, SocketStates, Events

(* Replacing the events of one socket. *)
LEMMA EventsReplaced ==
  ASSUME NEW sk \in [Sockets -> SocketStates], NEW s \in Sockets, NEW u \in Seq(Events)
  PROVE  /\ [sk EXCEPT ![s].up = u] \in [Sockets -> SocketStates]
         /\ \A t \in Sockets \ {s} : [sk EXCEPT ![s].up = u][t] = sk[t]
         /\ [sk EXCEPT ![s].up = u][s].up = u
         /\ [sk EXCEPT ![s].up = u][s].joined = sk[s].joined
         /\ [sk EXCEPT ![s].up = u][s].cancelled = sk[s].cancelled
         /\ [sk EXCEPT ![s].up = u][s].news = sk[s].news
<1>1. sk[s] \in SocketStates
  OBVIOUS
<1>2. [sk[s] EXCEPT !.up = u] \in SocketStates
  BY <1>1 DEF SocketStates, Events
<1>3. QED
  BY <1>1, <1>2 DEF SocketStates

(* What a broadcast does to the sockets. *)
LEMMA BroadcastReaches ==
  ASSUME NEW sk \in [Sockets -> SocketStates], NEW room \in Rooms
  PROVE  /\ Broadcast(sk, room) \in [Sockets -> SocketStates]
         /\ \A s \in Sockets : /\ Broadcast(sk, room)[s].up = sk[s].up
                               /\ Broadcast(sk, room)[s].joined => Broadcast(sk, room)[s].news = room
<1>1. \A s \in Sockets : [sk[s] EXCEPT !.news = room] \in SocketStates
  BY DEF SocketStates
<1>2. \A s \in Sockets : /\ Broadcast(sk, room)[s].up = sk[s].up
                         /\ Broadcast(sk, room)[s].joined => Broadcast(sk, room)[s].news = room
  BY DEF Broadcast, SocketStates
<1>3. QED
  BY <1>1, <1>2 DEF Broadcast

LEMMA CancelReaches ==
  ASSUME NEW sk \in [Sockets -> SocketStates]
  PROVE  /\ Cancel(sk) \in [Sockets -> SocketStates]
         /\ \A s \in Sockets : /\ Cancel(sk)[s].up = sk[s].up
                               /\ Cancel(sk)[s].joined => Cancel(sk)[s].cancelled = TRUE
<1>1. \A s \in Sockets : [sk[s] EXCEPT !.cancelled = TRUE] \in SocketStates
  BY DEF SocketStates
<1>2. \A s \in Sockets : /\ Cancel(sk)[s].up = sk[s].up
                         /\ Cancel(sk)[s].joined => Cancel(sk)[s].cancelled = TRUE
  BY DEF Cancel, SocketStates
<1>3. QED
  BY <1>1, <1>2 DEF Cancel

(* Handling an event makes nobody ask.                                     *)
LEMMA EventHandled ==
  ASSUME NEW sk, NEW s \in Sockets, socks[s].up \in Seq(Events), socks[s].up # <<>>,
         sk[s].up = Tail(socks[s].up), \A t \in Sockets \ {s} : sk[t] = socks[t]
  PROVE  \A t \in Sockets : Asks(sk, t) => Asks(socks, t)
<1> SUFFICES ASSUME NEW t \in Sockets, Asks(sk, t) PROVE Asks(socks, t)
  OBVIOUS
<1> DEFINE u == socks[s].up
           v == Tail(u)
<1>1. CASE t # s
  BY <1>1 DEF Asks
<1>2. CASE t = s
  <2>1. \A i \in 1 .. Len(v) : \E j \in 1 .. Len(u) : v[i] = u[j]
    BY EventQueues
  <2>2. PICK i \in 1 .. Len(v) : v[i] = "join"
    BY <1>2 DEF Asks
  <2> HIDE DEF v
  <2>3. PICK j \in 1 .. Len(u) : v[i] = u[j]
    BY <2>1
  <2>4. QED
    BY <1>2, <2>2, <2>3 DEF Asks
<1>3. QED
  BY <1>1, <1>2

-----------------------------------------------------------------------------
(* Steps of the devices: what the servers and the joined sockets hold is   *)
(* as before.                                                              *)
LEMMA ListsKept ==
  ASSUME ListsCurrent, node' = node,
         \A s \in Sockets : /\ socks'[s].joined = socks[s].joined
                            /\ socks'[s].cancelled = socks[s].cancelled
                            /\ socks'[s].news = socks[s].news
  PROVE  ListsCurrent'
BY DEF ListsCurrent

(* The answer to a request: the waiting screen's socket asks to join.      *)
LEMMA ScreenOpened ==
  ASSUME RoomTypes, NEW c \in Users, OpenWaitingRoom(c)
  PROVE  /\ clients' \in [Users -> Clients] /\ clients'[c].screen = "waiting"
         /\ \A d \in Users \ {c} : clients'[d] = clients[d]
         /\ socks' \in [Sockets -> SocketStates]
         /\ \A s \in Sockets : /\ socks'[s].joined = socks[s].joined
                               /\ socks'[s].cancelled = socks[s].cancelled
                               /\ socks'[s].news = socks[s].news
                               /\ Asks(socks', s) => Asks(socks, s) \/ s[1] = c
<1>1. PICK k \in 1 .. Connections :
        /\ clients' = [clients EXCEPT
             ![c] = [AtHome EXCEPT !.screen = "waiting", !.socket = <<c, k>>]]
        /\ socks' = [socks EXCEPT ![<<c, k>>].up = <<"join">>]
  BY DEF OpenWaitingRoom
<1> DEFINE s0 == <<c, k>>
           r == [AtHome EXCEPT !.screen = "waiting", !.socket = <<c, k>>]
<1>2. s0 \in Sockets /\ s0[1] = c
  BY DEF Sockets
<1>3. r \in Clients /\ r.screen = "waiting"
  BY <1>2 DEF AtHome, Clients
<1> DEFINE u == <<"join">>
<1>4. u \in Seq(Events) /\ socks \in [Sockets -> SocketStates]
  BY DEF Events, RoomTypes
<1>5. socks' = [socks EXCEPT ![s0].up = u]
  BY <1>1
<1> HIDE DEF s0, u
<1>6. /\ socks' \in [Sockets -> SocketStates]
      /\ \A t \in Sockets \ {s0} : socks'[t] = socks[t]
      /\ socks'[s0].joined = socks[s0].joined
      /\ socks'[s0].cancelled = socks[s0].cancelled
      /\ socks'[s0].news = socks[s0].news
  BY <1>2, <1>4, <1>5, EventsReplaced
<1>7. \A s \in Sockets : Asks(socks', s) => Asks(socks, s) \/ s[1] = c
  BY <1>2, <1>6 DEF Asks
<1>8. /\ clients' \in [Users -> Clients] /\ clients'[c].screen = "waiting"
      /\ \A d \in Users \ {c} : clients'[d] = clients[d]
  BY <1>1, <1>3 DEF RoomTypes
<1>9. QED
  BY <1>6, <1>7, <1>8

LEMMA CreateRoomInv == RoomInv /\ CreateRoom => RoomInv'
<1> SUFFICES ASSUME RoomInv, CreateRoom PROVE RoomInv'
  OBVIOUS
<1>1. /\ clients[Host].screen = "home" /\ api' = {Host} /\ node' = node
      /\ SyncWithNode({Host}) /\ OpenWaitingRoom(Host) /\ Host \in Users
  BY DEF CreateRoom, Users
<1>2. RoomTypes
  BY DEF RoomInv
<1>3. /\ clients' \in [Users -> Clients] /\ clients'[Host].screen = "waiting"
      /\ socks' \in [Sockets -> SocketStates]
      /\ \A s \in Sockets : /\ socks'[s].joined = socks[s].joined
                            /\ socks'[s].cancelled = socks[s].cancelled
                            /\ socks'[s].news = socks[s].news
                            /\ Asks(socks', s) => Asks(socks, s) \/ s[1] = Host
  BY <1>1, <1>2, ScreenOpened
<1>4. PostsOnWay' = PostsOnWay \cup {{Host}}
  BY <1>1, PostAdded
<1>5. /\ node = None /\ PostsOnWay = {} /\ \A s \in Sockets : ~Asks(socks, s)
  BY <1>1 DEF RoomInv, NothingYet
<1>6. RoomTypes'
  BY <1>1, <1>3, <1>4, <1>5 DEF RoomInv, RoomTypes
<1>7. ListsCurrent'
  BY <1>1, <1>3, ListsKept DEF RoomInv
<1>8. MembersKnown'
  BY <1>1, <1>3, <1>4, <1>5 DEF MembersKnown
<1>9. NothingYet'
  BY <1>3 DEF NothingYet
<1>10. QED
  BY <1>6, <1>7, <1>8, <1>9 DEF RoomInv

LEMMA JoinRoomInv == ASSUME RoomInv, NEW g \in Guests, JoinRoom(g) PROVE RoomInv'
<1>1. /\ api # None /\ api' = api \cup {g} /\ node' = node /\ g \in Users /\ g # Host
      /\ SyncWithNode(api \cup {g}) /\ OpenWaitingRoom(g)
  BY RoomAssumption DEF JoinRoom, Users
<1>2. RoomTypes /\ api \in SUBSET Users
  BY <1>1 DEF RoomInv, RoomTypes
<1>3. /\ clients' \in [Users -> Clients]
      /\ \A d \in Users \ {g} : clients'[d] = clients[d]
      /\ socks' \in [Sockets -> SocketStates]
      /\ \A s \in Sockets : /\ socks'[s].joined = socks[s].joined
                            /\ socks'[s].cancelled = socks[s].cancelled
                            /\ socks'[s].news = socks[s].news
                            /\ Asks(socks', s) => Asks(socks, s) \/ s[1] = g
  BY <1>1, <1>2, ScreenOpened
<1>4. PostsOnWay' = PostsOnWay \cup {api \cup {g}}
  BY <1>1, PostAdded
<1>5. RoomTypes'
  BY <1>1, <1>2, <1>3, <1>4 DEF RoomTypes
<1>6. ListsCurrent'
  BY <1>1, <1>3, ListsKept DEF RoomInv
<1>7. MembersKnown'
  BY <1>1, <1>3, <1>4 DEF RoomInv, MembersKnown
<1>8. NothingYet'
  BY <1>1, <1>3 DEF RoomInv, NothingYet, Users
<1>9. QED
  BY <1>5, <1>6, <1>7, <1>8 DEF RoomInv

LEMMA DeleteRoomInv == ASSUME RoomInv, NEW c \in Users, DeleteRoom(c) PROVE RoomInv'
<1>1. api' = None /\ UNCHANGED <<posts, node, clients, socks>>
  BY DEF DeleteRoom
<1>2. QED
  BY <1>1 DEF RoomInv, RoomTypes, ListsCurrent, NothingYet, MembersKnown, PostsOnWay, Asks

(* A device's step that changes one client, and events of sockets without  *)
(* asking to join.                                                         *)
LEMMA DeviceStep ==
  ASSUME RoomInv, UNCHANGED <<api, posts, node>>,
         clients' \in [Users -> Clients], socks' \in [Sockets -> SocketStates],
         clients'[Host].screen = "home" => clients[Host].screen = "home",
         \A s \in Sockets : /\ socks'[s].joined = socks[s].joined
                            /\ socks'[s].cancelled = socks[s].cancelled
                            /\ socks'[s].news = socks[s].news
                            /\ Asks(socks', s) => Asks(socks, s)
  PROVE  RoomInv'
<1>1. RoomTypes' /\ PostsOnWay' = PostsOnWay
  BY DEF RoomInv, RoomTypes, PostsOnWay
<1>2. ListsCurrent'
  BY ListsKept DEF RoomInv
<1>3. NothingYet' /\ MembersKnown'
  BY <1>1 DEF RoomInv, NothingYet, MembersKnown
<1>4. QED
  BY <1>1, <1>2, <1>3 DEF RoomInv

LEMMA LeaveInv == ASSUME RoomInv, NEW c \in Users, Leave(c) PROVE RoomInv'
<1> DEFINE s0 == clients[c].socket
           r == [AtHome EXCEPT !.screen = IF c = Host THEN "gone" ELSE "home"]
           last == <<"leave", "disconnect">>
<1>1. /\ UNCHANGED <<api, posts, node>> /\ clients' = [clients EXCEPT ![c] = r]
      /\ socks' = IF s0 = None THEN socks
                  ELSE [socks EXCEPT ![s0].up = socks[s0].up \o last]
  BY DEF Leave
<1>2. r \in Clients /\ (c = Host => r.screen # "home")
  BY DEF AtHome, Clients
<1>3. s0 \in Sockets \cup {None} /\ RoomTypes
  BY DEF RoomInv, RoomTypes, Clients
<1> HIDE DEF s0, r
<1>4. /\ clients' \in [Users -> Clients]
      /\ clients'[Host].screen = "home" => clients[Host].screen = "home"
  BY <1>1, <1>2 DEF RoomInv, RoomTypes, Users
<1>5. CASE s0 = None
  BY <1>1, <1>3, <1>4, <1>5, DeviceStep DEF RoomTypes, Asks
<1>6. CASE s0 # None
  <2>1. s0 \in Sockets
    BY <1>3, <1>6
  <2>2. socks[s0].up \in Seq(Events)
    BY <1>3, <2>1, SocketFields
  <2> DEFINE u == socks[s0].up
             v == u \o last
  <2>3. /\ v \in Seq(Events)
        /\ \A i \in 1 .. Len(v) : v[i] # "join" \/ (i \in 1 .. Len(u) /\ v[i] = u[i])
    BY <2>2, EventQueues
  <2>4. socks' = [socks EXCEPT ![s0].up = v]
    BY <1>1, <1>6
  <2> HIDE DEF v
  <2>5. /\ socks' \in [Sockets -> SocketStates]
        /\ \A t \in Sockets \ {s0} : socks'[t] = socks[t]
        /\ socks'[s0].up = v
        /\ socks'[s0].joined = socks[s0].joined
        /\ socks'[s0].cancelled = socks[s0].cancelled
        /\ socks'[s0].news = socks[s0].news
    BY <1>3, <2>1, <2>3, <2>4, EventsReplaced DEF RoomTypes
  <2>6. \A s \in Sockets : Asks(socks', s) => Asks(socks, s)
    BY <2>3, <2>5 DEF Asks
  <2>7. QED
    BY <1>1, <1>4, <2>5, <2>6, DeviceStep
<1>7. QED
  BY <1>5, <1>6

LEMMA DropInv == ASSUME RoomInv, NEW c \in Users, Drop(c) PROVE RoomInv'
<1> DEFINE s0 == clients[c].socket
           w == c # Host /\ TakesItselfForHost(c)
<1>1. /\ UNCHANGED <<api, posts, node>> /\ s0 # None
      /\ clients' = [clients EXCEPT ![c].socket = None, ![c].wasHost = w]
      /\ socks' = [socks EXCEPT ![s0].up = <<"disconnect">>]
  BY Zenon DEF Drop
<1>2. s0 \in Sockets /\ RoomTypes
  BY <1>1 DEF RoomInv, RoomTypes, Clients
<1>3. w \in BOOLEAN
  BY Zenon
<1> DEFINE u == <<"disconnect">>
<1>5. u \in Seq(Events) /\ u # <<>> /\ \A i \in 1 .. Len(u) : u[i] # "join"
  BY DEF Events
<1>6. socks' = [socks EXCEPT ![s0].up = u] /\ socks \in [Sockets -> SocketStates]
  BY <1>1, <1>2 DEF RoomTypes
<1> HIDE DEF s0, w, u
<1>4. clients' \in [Users -> Clients] /\ \A d \in Users : clients'[d].screen = clients[d].screen
  BY <1>1, <1>3, ZenonT(40) DEF RoomInv, RoomTypes, Clients
<1>7. /\ socks' \in [Sockets -> SocketStates]
      /\ \A t \in Sockets \ {s0} : socks'[t] = socks[t]
      /\ socks'[s0].up = u
      /\ socks'[s0].joined = socks[s0].joined
      /\ socks'[s0].cancelled = socks[s0].cancelled
      /\ socks'[s0].news = socks[s0].news
  BY <1>2, <1>5, <1>6, EventsReplaced
<1>8. \A s \in Sockets : Asks(socks', s) => Asks(socks, s)
  BY <1>5, <1>7 DEF Asks
<1>9. Host \in Users
  BY DEF Users
<1>10. QED
  BY <1>1, <1>4, <1>7, <1>8, <1>9, DeviceStep

-----------------------------------------------------------------------------
(* Steps of the Node server.                                               *)

(* A list of known members, told to everybody in the room. *)
LEMMA ListTold ==
  ASSUME RoomInv, NEW sk \in [Sockets -> SocketStates], NEW room \in Rooms,
         node' = room, socks' = Broadcast(sk, room), UNCHANGED <<api, clients>>,
         clients[Host].screen # "home",
         PostsOnWay' \subseteq PostsOnWay,
         api # None => room.members \subseteq api,
         \A s \in Sockets : Asks(sk, s) => Asks(socks, s)
  PROVE  RoomInv'
<1>1. /\ socks' \in [Sockets -> SocketStates]
      /\ \A s \in Sockets : /\ socks'[s].up = sk[s].up
                            /\ socks'[s].joined => socks'[s].news = room
  BY BroadcastReaches
<1>2. RoomTypes'
  BY <1>1 DEF RoomInv, RoomTypes
<1>3. ListsCurrent'
  BY <1>1, NoneIsNoRoom DEF ListsCurrent
<1>4. NothingYet'
  BY DEF NothingYet
<1>5. \A s \in Sockets : Asks(socks', s) => Asks(socks, s)
  BY <1>1 DEF Asks
<1>6. MembersKnown'
  BY <1>5 DEF RoomInv, MembersKnown
<1>7. QED
  BY <1>2, <1>3, <1>4, <1>6 DEF RoomInv

LEMMA SyncRoomInv ==
  ASSUME RoomInv, NEW members \in PostsOnWay, SyncRoom(members)
  PROVE  RoomInv'
<1> DEFINE room == [host |-> Host, members |-> members]
<1>1. /\ posts' = posts (-) SetToBag({members})
      /\ node' = room /\ socks' = Broadcast(socks, room) /\ UNCHANGED <<api, clients>>
  BY DEF SyncRoom
<1>2. room \in Rooms /\ room.members = members
  BY DEF Rooms, RoomInv, RoomTypes, Users
<1>3. clients[Host].screen # "home"
  BY DEF RoomInv, NothingYet
<1>4. api # None => members \subseteq api
  BY DEF RoomInv, MembersKnown
<1>5. PostsOnWay' \subseteq PostsOnWay
  BY <1>1, PostTaken
<1>6. socks \in [Sockets -> SocketStates]
  BY DEF RoomInv, RoomTypes
<1> HIDE DEF room
<1>7. QED
  BY <1>1, <1>2, <1>3, <1>4, <1>5, <1>6, ListTold

LEMMA HandleJoinInv == ASSUME RoomInv, NEW s \in Sockets, HandleJoin(s) PROVE RoomInv'
<1> DEFINE found == IF node = None THEN [host |-> s[1], members |-> {}] ELSE node
           room == [found EXCEPT !.members = found.members \cup {s[1]}]
           r == [socks[s] EXCEPT !.up = Tail(socks[s].up), !.named = TRUE, !.joined = TRUE]
           sk == [socks EXCEPT ![s] = r]
<1>1. /\ socks[s].up # <<>> /\ Head(socks[s].up) = "join" /\ node' = room
      /\ UNCHANGED <<api, posts, clients>>
  BY DEF HandleJoin
<1>2. socks' = Broadcast(sk, room)
  BY DEF HandleJoin
<1>3. RoomTypes /\ s[1] \in Users
  BY SocketUser DEF RoomInv
<1>4. found \in Rooms
  BY <1>3 DEF RoomTypes, Rooms
<1>5. room \in Rooms /\ room.members = found.members \cup {s[1]}
  <2> HIDE DEF found
  <2>1. QED
    BY <1>3, <1>4 DEF Rooms
<1>6. socks[s] \in SocketStates /\ socks[s].up \in Seq(Events)
  BY <1>3, SocketFields
<1>7. /\ Tail(socks[s].up) \in Seq(Events)
      /\ \A i \in 1 .. Len(Tail(socks[s].up)) :
           \E j \in 1 .. Len(socks[s].up) : Tail(socks[s].up)[i] = socks[s].up[j]
      /\ 1 \in 1 .. Len(socks[s].up) /\ Head(socks[s].up) = socks[s].up[1]
  BY <1>1, <1>6, EventQueues
<1>8. Asks(socks, s)
  BY <1>1, <1>7 DEF Asks
<1>9. r \in SocketStates /\ r.up = Tail(socks[s].up)
  BY <1>6, <1>7 DEF SocketStates, Events
<1> HIDE DEF r
<1>10. sk \in [Sockets -> SocketStates] /\ sk[s] = r /\ \A t \in Sockets \ {s} : sk[t] = socks[t]
  BY <1>3, <1>9 DEF RoomTypes
<1> HIDE DEF sk
<1>11. \A t \in Sockets : Asks(sk, t) => Asks(socks, t)
  BY <1>1, <1>6, <1>9, <1>10, EventHandled
<1>12. clients[Host].screen # "home"
  BY <1>8 DEF RoomInv, NothingYet
<1>13. api # None => room.members \subseteq api
  <2>1. api # None => s[1] \in api /\ found.members \subseteq api
    BY <1>8 DEF RoomInv, MembersKnown
  <2>2. QED
    BY <1>5, <2>1
<1>14. PostsOnWay' \subseteq PostsOnWay
  BY <1>1 DEF PostsOnWay
<1> HIDE DEF room
<1>15. QED
  BY <1>1, <1>2, <1>5, <1>10, <1>11, <1>12, <1>13, <1>14, ListTold

(* Somebody leaves who is not in the room any more at the sockets.         *)
LEMMA LeavingInv ==
  ASSUME RoomInv, NEW s \in Sockets, NEW sk \in [Sockets -> SocketStates],
         UserLeaving(s, sk), UNCHANGED <<api, posts, clients>>,
         ~sk[s].joined, \A t \in Sockets \ {s} : sk[t] = socks[t],
         \A t \in Sockets : Asks(sk, t) => Asks(socks, t)
  PROVE  RoomInv'
<1>1. PostsOnWay' = PostsOnWay
  BY DEF PostsOnWay
<1>2. CASE node' = node /\ socks' = sk
  <2>1. RoomTypes'
    BY <1>1, <1>2 DEF RoomInv, RoomTypes
  <2>2. ListsCurrent'
    BY <1>2 DEF RoomInv, ListsCurrent
  <2>3. NothingYet' /\ MembersKnown'
    BY <1>1, <1>2 DEF RoomInv, NothingYet, MembersKnown, Asks
  <2>4. QED
    BY <2>1, <2>2, <2>3 DEF RoomInv
<1>3. CASE node' = None /\ socks' = Cancel(sk)
  <2>1. /\ socks' \in [Sockets -> SocketStates]
        /\ \A t \in Sockets : /\ socks'[t].up = sk[t].up
                              /\ socks'[t].joined => socks'[t].cancelled = TRUE
    BY <1>3, CancelReaches
  <2>2. RoomTypes'
    BY <1>1, <1>3, <2>1 DEF RoomInv, RoomTypes
  <2>3. ListsCurrent'
    BY <2>1 DEF ListsCurrent
  <2>4. \A t \in Sockets : Asks(socks', t) => Asks(socks, t)
    BY <2>1 DEF Asks
  <2>5. NothingYet' /\ MembersKnown'
    BY <1>1, <1>3, <2>4 DEF RoomInv, NothingYet, MembersKnown
  <2>6. QED
    BY <2>2, <2>3, <2>5 DEF RoomInv
<1>4. CASE /\ node # None
           /\ node' = [node EXCEPT !.members = node.members \ {s[1]}]
           /\ socks' = Broadcast(sk, node')
  <2> DEFINE room == [node EXCEPT !.members = node.members \ {s[1]}]
  <2>1. room \in Rooms /\ room.members \subseteq node.members
    BY <1>4 DEF RoomInv, RoomTypes, Rooms
  <2>2. node' = room /\ socks' = Broadcast(sk, room)
    BY <1>4
  <2> HIDE DEF room
  <2>3. clients[Host].screen # "home"
    BY <1>4 DEF RoomInv, NothingYet
  <2>4. api # None => room.members \subseteq api
    BY <1>4, <2>1 DEF RoomInv, MembersKnown
  <2>5. QED
    BY <1>1, <2>1, <2>2, <2>3, <2>4, ListTold
<1>5. QED
  BY <1>2, <1>3, <1>4, Zenon DEF UserLeaving

LEMMA HandleLeaveInv == ASSUME RoomInv, NEW s \in Sockets, HandleLeave(s) PROVE RoomInv'
<1> DEFINE r == [socks[s] EXCEPT !.up = Tail(socks[s].up), !.joined = FALSE, !.news = None]
           sk == [socks EXCEPT ![s] = r]
<1>1. socks[s].up # <<>> /\ UserLeaving(s, sk) /\ UNCHANGED <<api, posts, clients>>
  BY DEF HandleLeave
<1>2. RoomTypes
  BY DEF RoomInv
<1>3. socks[s] \in SocketStates /\ socks[s].up \in Seq(Events)
  BY <1>2, SocketFields
<1>4. /\ Tail(socks[s].up) \in Seq(Events)
      /\ \A i \in 1 .. Len(Tail(socks[s].up)) :
           \E j \in 1 .. Len(socks[s].up) : Tail(socks[s].up)[i] = socks[s].up[j]
  BY <1>1, <1>3, EventQueues
<1>5. r \in SocketStates /\ r.up = Tail(socks[s].up) /\ r.joined = FALSE
  BY <1>3, <1>4 DEF SocketStates, Events
<1> HIDE DEF r
<1>6. sk \in [Sockets -> SocketStates] /\ sk[s] = r /\ \A t \in Sockets \ {s} : sk[t] = socks[t]
  BY <1>2, <1>5 DEF RoomTypes
<1> HIDE DEF sk
<1>7. \A t \in Sockets : Asks(sk, t) => Asks(socks, t)
  BY <1>1, <1>3, <1>5, <1>6, EventHandled
<1>8. ~sk[s].joined
  BY <1>5, <1>6
<1>9. QED
  BY <1>1, <1>6, <1>7, <1>8, LeavingInv

LEMMA HandleDisconnectInv ==
  ASSUME RoomInv, NEW s \in Sockets, HandleDisconnect(s) PROVE RoomInv'
<1> DEFINE sk == [socks EXCEPT ![s] = Free]
<1>1. UserLeaving(s, sk) /\ UNCHANGED <<api, posts, clients>>
  BY DEF HandleDisconnect
<1>2. sk \in [Sockets -> SocketStates] /\ sk[s] = Free /\ \A t \in Sockets \ {s} : sk[t] = socks[t]
  BY FreeType DEF RoomInv, RoomTypes
<1> HIDE DEF sk
<1>3. ~sk[s].joined /\ \A t \in Sockets : Asks(sk, t) => Asks(socks, t)
  BY <1>2, FreeType DEF Asks
<1>4. QED
  BY <1>1, <1>2, <1>3, LeavingInv

-----------------------------------------------------------------------------
LEMMA RoomInit == Init => RoomInv
<1> SUFFICES ASSUME Init PROVE RoomInv
  OBVIOUS
<1>1. AtHome \in Clients
  BY DEF AtHome, Clients
<1>2. PostsOnWay = {}
  BY DEF Init, PostsOnWay, BagToSet, EmptyBag, SetToBag
<1>3. RoomTypes
  BY <1>1, <1>2, FreeType DEF Init, RoomTypes
<1>4. \A s \in Sockets : socks[s] = Free
  BY DEF Init
<1>5. ListsCurrent
  BY <1>4, FreeType DEF ListsCurrent
<1>6. \A s \in Sockets : ~Asks(socks, s)
  BY <1>4, FreeType DEF Asks
<1>7. NothingYet /\ MembersKnown
  BY <1>2, <1>6 DEF Init, NothingYet, MembersKnown
<1>8. QED
  BY <1>3, <1>5, <1>7 DEF RoomInv

LEMMA RoomStep == RoomInv /\ [Next]_vars => RoomInv'
<1> SUFFICES ASSUME RoomInv, [Next]_vars PROVE RoomInv'
  OBVIOUS
<1>1. CASE UNCHANGED vars
  BY <1>1 DEF vars, RoomInv, RoomTypes, ListsCurrent, NothingYet, MembersKnown, PostsOnWay, Asks
<1>2. CASE CreateRoom
  BY <1>2, CreateRoomInv
<1>3. CASE \E g \in Guests : JoinRoom(g)
  BY <1>3, JoinRoomInv
<1>4. CASE \E c \in Users : DeleteRoom(c) \/ Leave(c) \/ Drop(c)
  BY <1>4, DeleteRoomInv, LeaveInv, DropInv
<1>5. CASE \E members \in BagToSet(posts) : SyncRoom(members)
  BY <1>5, SyncRoomInv DEF PostsOnWay
<1>6. CASE \E s \in Sockets : Node(s)
  BY <1>6, HandleJoinInv, HandleLeaveInv, HandleDisconnectInv DEF Node
<1>7. QED
  BY <1>1, <1>2, <1>3, <1>4, <1>5, <1>6 DEF Next

(* The inductive invariant holds of every behaviour of the room. *)
THEOREM RoomInvariant == Spec => []RoomInv
BY RoomInit, RoomStep, PTL DEF Spec

(* For any number of guests: every device in the room shows the Node       *)
(* server's list or was told that the room is closed.                      *)
THEOREM ListsStayCurrent == Spec => []ListsCurrent
<1>1. RoomInv => ListsCurrent
  BY DEF RoomInv
<1>2. QED
  BY <1>1, RoomInvariant, PTL

(* For any number of guests and however posts and sockets interleave: the  *)
(* Node server lists nobody the Rust server does not know.                 *)
THEOREM OnlyMembersListed == Spec => []NodeListsMembers
<1>1. RoomInv => NodeListsMembers
  BY DEF RoomInv, MembersKnown, NodeListsMembers
<1>2. QED
  BY <1>1, RoomInvariant, PTL

-----------------------------------------------------------------------------
(* The song.                                                               *)
Handlers ==
  [at : {"none", "write", "rename", "stored", "failed"}, name : Names \cup {0},
   file : Uploads \cup {0}]

UploadTypes ==
  /\ uploads \in [Uploads -> Handlers]
  /\ named \in [Names -> Uploads \cup {0}]
  /\ song \in Uploads \cup {0}
  /\ writers \in [Uploads -> SUBSET Uploads]
  /\ \A u \in Uploads :
       /\ uploads[u].at = "none" => uploads[u].file = 0
       /\ uploads[u].at \in {"write", "rename"} => uploads[u].name \in Names

(* With a name of its own an upload writes a file of its own, which it     *)
(* alone makes, renames and stores.                                        *)
OwnFile(u) ==
  /\ uploads[u].file \in {0, u}
  /\ uploads[u].at \in {"write", "rename", "stored"} => uploads[u].file = u
  /\ uploads[u].at \in {"write", "rename"} => named[uploads[u].name] = u
  /\ uploads[u].file = u => writers[u] = {u}

OwnFiles ==
  /\ \A u \in Uploads : OwnFile(u)
  /\ \A n \in Names : named[n] # 0 =>
       uploads[named[n]].file = named[n] /\ uploads[named[n]].name = n
  /\ song # 0 => uploads[song].at = "stored"

(* A pick is over when its answer has come and the server is done with it. *)
Over(n) == n \notin awaited /\ uploads[n].at \in {"stored", "failed"}

(* The host's picks in their order.  One that was not picked together with *)
(* a later one was over by then, and is never announced or stored again;   *)
(* so what song.mp3 holds after a pick has been stored is that pick, a     *)
(* later one, one picked together with it, or another party's.             *)
PicksInOrder ==
  /\ \A i \in DOMAIN PickList : i > counts.picks => uploads[i].at = "none"
  /\ \A j \in 1 .. counts.picks : \A i \in 1 .. j - 1 : ~Together(i, j) => Over(i)
  /\ announced # 0 =>
       \A j \in announced + 1 .. counts.picks : ~Together(j, announced) => j \in awaited
  /\ \A i \in 1 .. counts.picks : uploads[i].at = "stored" =>
       song # 0 /\ (song \in DOMAIN PickList => song >= i \/ Together(song, i))

CountTypes ==
  /\ counts \in [picks : 0 .. Len(PickList), others : Nat, toggles : Nat, joins : Nat]
  /\ awaited \subseteq 1 .. counts.picks /\ announced \in 0 .. counts.picks

UploadInv ==
  UploadTypes /\ CountTypes /\ (SharedName \/ (OwnFiles /\ PicksInOrder))

-----------------------------------------------------------------------------
LEMMA UploadsNumbered ==
  /\ Uploads \subseteq Nat /\ 0 \notin Uploads
  /\ 0 \notin Names
  /\ Len(PickList) \in Nat /\ DOMAIN PickList = 1 .. Len(PickList)
  /\ DOMAIN PickList \subseteq Uploads
BY UploadAssumption, PlaybackAssumption DEF Names

(* A handler goes on to its next place. *)
LEMMA HandlerMoves ==
  ASSUME UploadTypes, NEW u \in Uploads, NEW p \in {"write", "rename", "stored", "failed"},
         uploads' = [uploads EXCEPT ![u].at = p]
  PROVE  /\ uploads' \in [Uploads -> Handlers]
         /\ uploads'[u].at = p
         /\ uploads'[u].name = uploads[u].name /\ uploads'[u].file = uploads[u].file
         /\ \A v \in Uploads \ {u} : uploads'[v] = uploads[v]
<1>1. uploads \in [Uploads -> Handlers]
  BY DEF UploadTypes
<1>2. uploads[u] \in Handlers
  BY <1>1
<1>3. [uploads[u] EXCEPT !.at = p] \in Handlers
  BY <1>2 DEF Handlers
<1>4. uploads' = [uploads EXCEPT ![u] = [uploads[u] EXCEPT !.at = p]]
  BY <1>1
<1>5. /\ uploads' \in [Uploads -> Handlers]
      /\ uploads'[u] = [uploads[u] EXCEPT !.at = p]
      /\ \A v \in Uploads \ {u} : uploads'[v] = uploads[v]
  BY <1>1, <1>3, <1>4
<1>6. QED
  BY <1>2, <1>5 DEF Handlers

(* Once two uploads share a name they do for good: names and files change  *)
(* only when an upload begins, and then it had none.                       *)
LEMMA SharedForGood ==
  ASSUME UploadTypes, SharedName,
         \A u \in Uploads : uploads[u].file # 0 =>
           uploads'[u].file = uploads[u].file /\ uploads'[u].name = uploads[u].name
  PROVE  SharedName'
BY DEF SharedName

(* The bookkeeping of the picks. *)
PicksAsBefore ==
  counts'.picks = counts.picks /\ UNCHANGED <<awaited, announced, overlaps>>

(* One more press, join or upload of another party. *)
LEMMA CountsOn ==
  ASSUME CountTypes, NEW what \in {"others", "toggles", "joins"}, Count(what), UNCHANGED pickVars
  PROVE  CountTypes' /\ PicksAsBefore
<1>1. counts' = [counts EXCEPT ![what] = @ + 1] /\ UNCHANGED <<awaited, announced, overlaps>>
  BY DEF Count, pickVars
<1>2. /\ counts' \in [picks : 0 .. Len(PickList), others : Nat, toggles : Nat, joins : Nat]
      /\ counts'.picks = counts.picks
  BY <1>1 DEF CountTypes
<1>3. QED
  BY <1>1, <1>2 DEF CountTypes, PicksAsBefore

(* What remains of the invariant when no upload is touched. *)
LEMMA UploadsUntouched ==
  ASSUME UploadInv, UNCHANGED <<uploads, named, song, writers, clock>>,
         PicksAsBefore, CountTypes'
  PROVE  UploadInv'
<1>1. UploadTypes'
  BY DEF UploadInv, UploadTypes, Names
<1>2. CASE SharedName
  <2>1. SharedName'
    BY <1>2 DEF SharedName
  <2>2. QED
    BY <1>1, <2>1 DEF UploadInv
<1>3. CASE OwnFiles /\ PicksInOrder
  <2>1. OwnFiles'
    BY <1>3 DEF OwnFiles, OwnFile, Names
  <2>2. PicksInOrder'
    BY <1>3 DEF PicksInOrder, PicksAsBefore, Over, Together
  <2>3. QED
    BY <1>1, <2>1, <2>2 DEF UploadInv
<1>4. QED
  BY <1>2, <1>3 DEF UploadInv

(* One upload takes a step. *)
OnlyMoved(u) == \A v \in Uploads \ {u} : uploads'[v] = uploads[v]

LEMMA RefuseFiles ==
  ASSUME UploadTypes, SharedName \/ OwnFiles,
         NEW u \in Uploads, Refuse(u)
  PROVE  /\ UploadTypes' /\ OnlyMoved(u) /\ song' = song
         /\ uploads'[u].at = "failed"
         /\ SharedName' \/ OwnFiles'
<1>1. uploads' = [uploads EXCEPT ![u].at = "failed"] /\ UNCHANGED <<named, song, writers, clock>>
  BY DEF Refuse
<1>2. /\ uploads' \in [Uploads -> Handlers]
      /\ uploads'[u].at = "failed"
      /\ uploads'[u].name = uploads[u].name /\ uploads'[u].file = uploads[u].file
      /\ OnlyMoved(u)
  BY <1>1, HandlerMoves DEF OnlyMoved
<1>3. UploadTypes'
  BY <1>1, <1>2 DEF UploadTypes, OnlyMoved, Names
<1>4. CASE SharedName
  BY <1>1, <1>2, <1>3, <1>4, SharedForGood DEF OnlyMoved
<1>5. CASE OwnFiles
  <2>1. uploads[u].at = "none" /\ uploads[u].file = 0 /\ 0 \notin Uploads
    BY UploadsNumbered DEF UploadTypes, Refuse
  <2>2. \A v \in Uploads : OwnFile(v)'
    BY <1>1, <1>2, <1>5, <2>1 DEF OwnFiles, OwnFile, OnlyMoved, Names
  <2>3. \A n \in Names : named[n] # 0 =>
          uploads'[named[n]].file = named[n] /\ uploads'[named[n]].name = n
    BY <1>2, <1>5, <2>1 DEF OwnFiles, OnlyMoved, UploadTypes
  <2>4. song # 0 => uploads'[song].at = "stored"
    BY <1>2, <1>5, <2>1 DEF OwnFiles, OnlyMoved, UploadTypes
  <2>5. OwnFiles'
    BY <1>1, <2>2, <2>3, <2>4 DEF OwnFiles, Names
  <2>6. QED
    BY <1>1, <1>2, <1>3, <2>5
<1>6. QED
  BY <1>4, <1>5

LEMMA BeginFiles ==
  ASSUME UploadTypes, SharedName \/ OwnFiles,
         NEW u \in Uploads, Begin(u)
  PROVE  /\ UploadTypes' /\ OnlyMoved(u) /\ song' = song
         /\ uploads'[u].at = "write"
         /\ SharedName' \/ OwnFiles'
<1>1. PICK now \in Names :
        LET f == IF named[now] = 0 THEN u ELSE named[now]
        IN  /\ named' = [named EXCEPT ![now] = f]
            /\ uploads' = [uploads EXCEPT ![u] = [at |-> "write", name |-> now, file |-> f]]
            /\ writers' = [writers EXCEPT ![f] = Writing(f) \cup {u}]
  BY DEF Begin
<1>2. uploads[u].at = "none" /\ uploads[u].file = 0 /\ song' = song
  BY DEF Begin, UploadTypes
<1> DEFINE f == IF named[now] = 0 THEN u ELSE named[now]
<1>3. f \in Uploads
  BY DEF UploadTypes
<1> HIDE DEF f
<1>4. [at |-> "write", name |-> now, file |-> f] \in Handlers
  BY <1>3 DEF Handlers
<1>5. /\ uploads' \in [Uploads -> Handlers]
      /\ uploads'[u] = [at |-> "write", name |-> now, file |-> f]
      /\ OnlyMoved(u)
  BY <1>1, <1>4 DEF UploadTypes, OnlyMoved, f
<1>6. /\ named' \in [Names -> Uploads \cup {0}]
      /\ named'[now] = f /\ \A n \in Names \ {now} : named'[n] = named[n]
  BY <1>1, <1>3 DEF UploadTypes, f
<1>7. /\ writers' \in [Uploads -> SUBSET Uploads]
      /\ writers'[f] = Writing(f) \cup {u}
      /\ \A g \in Uploads \ {f} : writers'[g] = writers[g]
  <2>1. Writing(f) \cup {u} \in SUBSET Uploads
    BY DEF Writing
  <2>2. writers \in [Uploads -> SUBSET Uploads]
    BY DEF UploadTypes
  <2>3. writers' = [writers EXCEPT ![f] = Writing(f) \cup {u}]
    BY <1>1 DEF f
  <2>4. QED
    BY <1>3, <2>1, <2>2, <2>3
<1>8. UploadTypes'
  BY <1>2, <1>5, <1>6, <1>7 DEF UploadTypes, OnlyMoved, Names
<1>9. CASE SharedName
  BY <1>2, <1>5, <1>8, <1>9, SharedForGood DEF OnlyMoved
<1>10. CASE OwnFiles /\ named[now] # 0
  <2> DEFINE v == named[now]
  <2>1. v \in Uploads /\ uploads[v].file = v /\ uploads[v].name = now /\ v # 0
    BY <1>10 DEF OwnFiles, UploadTypes
  <2>2. v # u
    BY <1>2, <2>1
  <2>3. uploads'[v] = uploads[v] /\ uploads'[u].name = now /\ uploads'[u].file # 0
    BY <1>3, <1>5, <2>1, <2>2, UploadsNumbered, SMTT(20) DEF OnlyMoved
  <2>4. SharedName'
    BY <2>1, <2>2, <2>3 DEF SharedName
  <2>5. QED
    BY <1>2, <1>5, <1>8, <2>4
<1>11. CASE OwnFiles /\ named[now] = 0
  <2>1. f = u
    BY <1>11 DEF f
  <2>2. Writing(u) = {}
    <3>1. ASSUME NEW v \in Uploads, uploads[v].at = "write" PROVE uploads[v].file # u
      <4>1. uploads[v].file = v
        BY <1>11, <3>1, Zenon DEF OwnFiles, OwnFile
      <4>2. u # 0
        BY UploadsNumbered
      <4>3. QED
        BY <1>2, <4>1, <4>2
    <3>2. QED
      BY <3>1, Zenon DEF Writing
  <2>3. OwnFile(u)'
    BY <1>5, <1>6, <1>7, <2>1, <2>2 DEF OwnFile, Names
  <2>4. ASSUME NEW v \in Uploads \ {u} PROVE OwnFile(v)'
    <3>1. uploads'[v] = uploads[v] /\ writers'[v] = writers[v]
      BY <1>5, <1>7, <2>1 DEF OnlyMoved
    <3>2. uploads[v].at \in {"write", "rename"} => uploads[v].name # now
      BY <1>11, UploadsNumbered DEF OwnFiles, OwnFile
    <3>3. QED
      BY <1>6, <1>11, <3>1, <3>2 DEF UploadTypes, OwnFiles, OwnFile, Names
  <2>5. ASSUME NEW n \in Names, named'[n] # 0
        PROVE  uploads'[named'[n]].file = named'[n] /\ uploads'[named'[n]].name = n
    <3>1. CASE n = now
      BY <1>5, <1>6, <2>1, <3>1
    <3>2. CASE n # now
      <4>1. named'[n] = named[n] /\ named[n] \in Uploads /\ uploads[named[n]].file = named[n]
        BY <1>6, <1>11, <2>5, <3>2 DEF OwnFiles, UploadTypes
      <4>2. named[n] # u
        BY <1>2, <2>5, <4>1
      <4>3. QED
        BY <1>5, <1>11, <2>5, <4>1, <4>2 DEF OwnFiles, OnlyMoved
    <3>3. QED
      BY <3>1, <3>2
  <2>6. song # 0 => uploads'[song].at = "stored"
    BY <1>2, <1>5, <1>11 DEF OwnFiles, OnlyMoved, UploadTypes
  <2>7. OwnFiles'
    BY <1>2, <2>3, <2>4, <2>5, <2>6 DEF OwnFiles, Names
  <2>8. QED
    BY <1>2, <1>5, <1>8, <2>7
<1>12. QED
  BY <1>9, <1>10, <1>11

LEMMA WrittenFiles ==
  ASSUME UploadTypes, SharedName \/ OwnFiles,
         NEW u \in Uploads, Written(u)
  PROVE  /\ UploadTypes' /\ OnlyMoved(u) /\ song' = song
         /\ uploads[u].at = "write" /\ uploads'[u].at \in {"rename", "failed"}
         /\ SharedName' \/ OwnFiles'
<1>1. PICK p \in {"rename", "failed"} : uploads' = [uploads EXCEPT ![u].at = p]
  BY DEF Written
<1>2. UNCHANGED <<named, song, writers, clock>> /\ uploads[u].at = "write"
  BY DEF Written
<1>3. /\ uploads' \in [Uploads -> Handlers]
      /\ uploads'[u].at = p
      /\ uploads'[u].name = uploads[u].name /\ uploads'[u].file = uploads[u].file
      /\ OnlyMoved(u)
  BY <1>1, HandlerMoves DEF OnlyMoved
<1>4. UploadTypes'
  BY <1>2, <1>3 DEF UploadTypes, OnlyMoved, Names
<1>5. CASE SharedName
  BY <1>2, <1>3, <1>4, <1>5, SharedForGood DEF OnlyMoved
<1>6. CASE OwnFiles
  <2>1. \A v \in Uploads : OwnFile(v)'
    BY <1>2, <1>3, <1>6 DEF OwnFiles, OwnFile, OnlyMoved, Names
  <2>2. \A n \in Names : named[n] # 0 =>
          uploads'[named[n]].file = named[n] /\ uploads'[named[n]].name = n
    BY <1>3, <1>6 DEF OwnFiles, OnlyMoved, UploadTypes
  <2>3. song # 0 => uploads'[song].at = "stored"
    BY <1>2, <1>3, <1>6 DEF OwnFiles, OnlyMoved, UploadTypes
  <2>4. OwnFiles'
    BY <1>2, <2>1, <2>2, <2>3 DEF OwnFiles, Names
  <2>5. QED
    BY <1>2, <1>3, <1>4, <2>4
<1>7. QED
  BY <1>5, <1>6

LEMMA RenameFiles ==
  ASSUME UploadTypes, SharedName \/ OwnFiles,
         NEW u \in Uploads, Rename(u)
  PROVE  /\ UploadTypes' /\ OnlyMoved(u)
         /\ uploads[u].at = "rename" /\ uploads'[u].at \in {"stored", "failed"}
         /\ \/ SharedName'
            \/ OwnFiles' /\ song' = IF uploads'[u].at = "stored" THEN u ELSE song
<1> DEFINE n == uploads[u].name
<1>1. /\ uploads[u].at = "rename"
      /\ named' = [named EXCEPT ![n] = 0] /\ UNCHANGED <<writers, clock>>
  BY DEF Rename
<1>2. PICK p \in {"stored", "failed"} :
        /\ uploads' = [uploads EXCEPT ![u].at = p]
        /\ p = "stored" => named[n] # 0 /\ song' = named[n]
        /\ p = "failed" => song' = song
  BY DEF Rename
<1>3. /\ uploads' \in [Uploads -> Handlers]
      /\ uploads'[u].at = p
      /\ uploads'[u].name = n /\ uploads'[u].file = uploads[u].file
      /\ OnlyMoved(u)
  BY <1>2, HandlerMoves DEF OnlyMoved
<1>4. n \in Names
  BY <1>1 DEF UploadTypes
<1>5. /\ named' \in [Names -> Uploads \cup {0}]
      /\ \A k \in Names : named'[k] = IF k = n THEN 0 ELSE named[k]
  BY <1>1 DEF UploadTypes
<1>6. song' \in Uploads \cup {0}
  <2>1. CASE p = "failed"
    BY <1>2, <2>1 DEF UploadTypes
  <2>2. CASE p = "stored"
    BY <1>2, <1>4, <2>2 DEF UploadTypes
  <2>3. QED
    BY <2>1, <2>2
<1>7. UploadTypes'
  BY <1>1, <1>3, <1>5, <1>6 DEF UploadTypes, OnlyMoved, Names
<1>8. CASE SharedName
  BY <1>1, <1>3, <1>7, <1>8, SharedForGood DEF OnlyMoved
<1>9. CASE OwnFiles /\ ~SharedName
  <2>1. named[n] = u /\ uploads[u].file = u
    BY <1>1, <1>9 DEF OwnFiles, OwnFile
  <2>2. song' = IF p = "stored" THEN u ELSE song
    BY <1>2, <2>1
  <2>3. ASSUME NEW v \in Uploads \ {u} PROVE OwnFile(v)'
    <3>1. uploads[v].at \in {"write", "rename"} => uploads[v].name # n
      BY <1>9, <2>1, UploadsNumbered DEF OwnFiles, OwnFile, SharedName
    <3>2. QED
      BY <1>1, <1>3, <1>5, <1>9, <3>1 DEF OwnFiles, OwnFile, OnlyMoved, Names
  <2>4. OwnFile(u)'
    BY <1>1, <1>3, <1>9 DEF OwnFiles, OwnFile
  <2>5. \A k \in Names : named'[k] # 0 =>
          uploads'[named'[k]].file = named'[k] /\ uploads'[named'[k]].name = k
    BY <1>3, <1>5, <1>9 DEF OwnFiles, OnlyMoved, UploadTypes
  <2>6. song' # 0 => uploads'[song'].at = "stored"
    <3>1. CASE p = "stored"
      BY <1>3, <2>2, <3>1
    <3>2. CASE p = "failed"
      <4>1. song' = song /\ (song # 0 => song # u)
        BY <1>1, <1>9, <2>2, <3>2 DEF OwnFiles
      <4>2. QED
        BY <1>3, <1>9, <4>1 DEF OwnFiles, OnlyMoved, UploadTypes
    <3>3. QED
      BY <3>1, <3>2
  <2>7. OwnFiles'
    BY <2>3, <2>4, <2>5, <2>6 DEF OwnFiles, Names
  <2>8. QED
    BY <1>1, <1>3, <1>7, <2>2, <2>7
<1>10. QED
  BY <1>8, <1>9

-----------------------------------------------------------------------------
(* A handler of an upload that was sent takes a step.  If it renames its   *)
(* file over a later pick's, the two were picked together.                 *)
LEMMA OrderKept ==
  ASSUME UploadTypes, CountTypes, PicksInOrder,
         NEW u \in Uploads, OnlyMoved(u), PicksAsBefore,
         u \in DOMAIN PickList => u <= counts.picks,
         uploads[u].at \in {"none", "write", "rename"}, uploads'[u].at # "none",
         song' = IF uploads'[u].at = "stored" THEN u ELSE song
  PROVE  PicksInOrder'
<1>1. counts.picks \in 0 .. Len(PickList) /\ Len(PickList) \in Nat
  BY UploadsNumbered DEF CountTypes
<1>2. \A i \in 1 .. counts.picks : i \in DOMAIN PickList /\ i \in Uploads /\ i \in Nat
  BY <1>1, UploadsNumbered
<1>3. \A i, j : Together(i, j)' <=> Together(i, j)
  BY DEF Together, PicksAsBefore
<1>4. ASSUME NEW i \in DOMAIN PickList, i > counts.picks
      PROVE  uploads'[i].at = "none"
  <2>1. i # u /\ i \in Uploads
    BY <1>1, <1>4, UploadsNumbered
  <2>2. QED
    BY <1>4, <2>1 DEF PicksInOrder, OnlyMoved
<1>5. ASSUME NEW j \in 1 .. counts.picks, NEW i \in 1 .. j - 1, ~Together(i, j)
      PROVE  Over(i)'
  <2>1. i \in 1 .. counts.picks
    BY <1>1
  <2>2. Over(i)
    BY <1>5 DEF PicksInOrder
  <2>3. i # u
    BY <2>2 DEF Over
  <2>4. uploads'[i] = uploads[i]
    BY <1>2, <2>1, <2>3 DEF OnlyMoved
  <2>5. QED
    BY <2>2, <2>4 DEF Over, PicksAsBefore
<1>6. ASSUME announced # 0, NEW j \in announced + 1 .. counts.picks, ~Together(j, announced)
      PROVE  j \in awaited
  BY <1>6 DEF PicksInOrder
<1>7. ASSUME NEW i \in 1 .. counts.picks, uploads'[i].at = "stored"
      PROVE  song' # 0 /\ (song' \in DOMAIN PickList => song' >= i \/ Together(song', i))
  <2>1. CASE uploads'[u].at # "stored"
    <3>1. i # u /\ uploads'[i] = uploads[i] /\ song' = song
      BY <1>2, <1>7, <2>1 DEF OnlyMoved
    <3>2. QED
      BY <1>7, <3>1 DEF PicksInOrder
  <2>2. CASE uploads'[u].at = "stored"
    <3>1. song' = u /\ u # 0
      BY <2>2, UploadsNumbered
    <3>2. ASSUME u \in DOMAIN PickList, u < i PROVE Together(u, i)
      <4>1. u \in 1 .. i - 1
        BY <1>2, <3>2, UploadsNumbered
      <4>2. ~Over(u)
        BY DEF Over
      <4>3. QED
        BY <4>1, <4>2 DEF PicksInOrder
    <3>3. u \in DOMAIN PickList => u \in Nat
      BY UploadsNumbered
    <3>4. QED
      BY <1>2, <3>1, <3>2, <3>3
  <2>3. QED
    BY <2>1, <2>2
<1>8. counts'.picks = counts.picks /\ announced' = announced /\ awaited' = awaited
  BY DEF PicksAsBefore
<1>9. QED
  BY <1>3, <1>4, <1>5, <1>6, <1>7, <1>8 DEF PicksInOrder

(* An upload begins, is refused, goes on or ends. *)
LEMMA HandlerInv ==
  ASSUME UploadInv, NEW u \in Uploads,
         Begin(u) \/ Refuse(u) \/ Written(u) \/ Rename(u),
         ~SharedName /\ u \in DOMAIN PickList => u <= counts.picks,
         PicksAsBefore, CountTypes'
  PROVE  UploadInv'
<1>1. /\ UploadTypes' /\ OnlyMoved(u)
      /\ uploads[u].at \in {"none", "write", "rename"} /\ uploads'[u].at # "none"
      /\ \/ SharedName'
         \/ OwnFiles' /\ song' = IF uploads'[u].at = "stored" THEN u ELSE song
  <2>1. CASE Begin(u)
    BY <2>1, BeginFiles DEF UploadInv, Begin
  <2>2. CASE Refuse(u)
    BY <2>2, RefuseFiles DEF UploadInv, Refuse
  <2>3. CASE Written(u)
    BY <2>3, WrittenFiles DEF UploadInv
  <2>4. CASE Rename(u)
    BY <2>4, RenameFiles DEF UploadInv
  <2>5. QED
    BY <2>1, <2>2, <2>3, <2>4
<1>2. ASSUME NEW v \in Uploads, uploads[v].file # 0
      PROVE  uploads'[v].file = uploads[v].file /\ uploads'[v].name = uploads[v].name
  <2>1. CASE v # u
    BY <1>1, <2>1 DEF OnlyMoved
  <2>2. CASE v = u /\ (Written(u) \/ Rename(u))
    <3>1. PICK p \in {"rename", "stored", "failed"} : uploads' = [uploads EXCEPT ![u].at = p]
      BY <2>2 DEF Written, Rename
    <3>2. QED
      BY <2>2, <3>1, HandlerMoves DEF UploadInv
  <2>3. CASE v = u /\ (Begin(u) \/ Refuse(u))
    <3>1. uploads[u].at = "none"
      BY <2>3 DEF Begin, Refuse
    <3>2. QED
      BY <1>2, <2>3, <3>1 DEF UploadInv, UploadTypes
  <2>4. QED
    BY <2>1, <2>2, <2>3
<1>3. SharedName => SharedName'
  BY <1>2, SharedForGood DEF UploadInv
<1>4. CASE ~SharedName'
  <2>1. OwnFiles' /\ song' = IF uploads'[u].at = "stored" THEN u ELSE song
    BY <1>1, <1>4
  <2>2. /\ PicksInOrder /\ UploadTypes /\ CountTypes
        /\ u \in DOMAIN PickList => u <= counts.picks
    BY <1>3, <1>4 DEF UploadInv
  <2>3. PicksInOrder'
    BY <1>1, <2>1, <2>2, OrderKept
  <2>4. QED
    BY <1>1, <2>1, <2>3 DEF UploadInv
<1>5. QED
  BY <1>1, <1>4 DEF UploadInv

(* The server gets a song of the host or goes on with an upload, whose     *)
(* request was sent before.                                                *)
LEMMA UploadsInv ==
  ASSUME UploadInv, NEW u \in Uploads, HostUpload(u) \/ UploadGoesOn(u)
  PROVE  UploadInv'
<1>1. UNCHANGED <<counts, awaited, announced, overlaps>>
  BY DEF HostUpload, UploadGoesOn, playVars
<1>2. PicksAsBefore /\ CountTypes'
  BY <1>1 DEF UploadInv, CountTypes, PicksAsBefore
<1>3. CASE HostUpload(u)
  <2>1. u <= counts.picks
    BY <1>3, UploadsNumbered DEF HostUpload, UploadInv, CountTypes
  <2>2. QED
    BY <1>2, <1>3, <2>1, HandlerInv DEF HostUpload
<1>4. CASE UploadGoesOn(u)
  <2>1. ASSUME ~SharedName, u \in DOMAIN PickList PROVE u <= counts.picks
    <3>1. uploads[u].at # "none"
      BY <1>4 DEF UploadGoesOn, Written, Rename
    <3>2. PicksInOrder
      BY <2>1 DEF UploadInv
    <3>3. QED
      BY <2>1, <3>1, <3>2, UploadsNumbered DEF PicksInOrder, UploadInv, CountTypes
  <2>2. QED
    BY <1>2, <1>4, <2>1, HandlerInv DEF UploadGoesOn
<1>5. QED
  BY <1>3, <1>4

(* Another party's upload begins. *)
LEMMA OtherPartyInv ==
  ASSUME UploadInv, NEW u \in Uploads, OtherParty(u)
  PROVE  UploadInv'
<1>1. u \notin DOMAIN PickList /\ (Begin(u) \/ Refuse(u)) /\ Count("others") /\ UNCHANGED pickVars
  BY DEF OtherParty
<1>2. PicksAsBefore /\ CountTypes'
  BY <1>1, CountsOn DEF UploadInv
<1>3. QED
  BY <1>1, <1>2, HandlerInv

(* The host picks the next song of his list; the picks that are going on   *)
(* now were picked together with it, the others are over.                  *)
LEMMA PickSongInv ==
  ASSUME UploadInv, PickSong
  PROVE  UploadInv'
<1> DEFINE u == counts.picks + 1
<1>1. /\ counts.picks < Len(PickList)
      /\ counts' = [counts EXCEPT !["picks"] = @ + 1]
      /\ awaited' = awaited \cup {counts'.picks}
      /\ overlaps' = overlaps \cup ({counts'.picks} \X GoingOn)
      /\ UNCHANGED <<announced, uploads, named, song, writers, clock>>
  BY DEF PickSong, Count, uploadVars
<1>2. counts \in [picks : 0 .. Len(PickList), others : Nat, toggles : Nat, joins : Nat]
  BY DEF UploadInv, CountTypes
<1>3. counts.picks \in 0 .. Len(PickList) /\ counts'.picks = u /\ Len(PickList) \in Nat
  BY <1>1, <1>2, UploadsNumbered
<1>4. u \in 1 .. Len(PickList)
  BY <1>1, <1>3
<1>5. counts' \in [picks : 0 .. Len(PickList), others : Nat, toggles : Nat, joins : Nat]
  <2>1. counts' = [counts EXCEPT !["picks"] = u]
    BY <1>1
  <2>2. u \in 0 .. Len(PickList)
    BY <1>4
  <2>3. QED
    BY <1>2, <2>1, <2>2
<1>6. CountTypes'
  <2>1. awaited' \subseteq 1 .. u /\ announced' \in 0 .. u
    <3>1. awaited \subseteq 1 .. counts.picks /\ announced \in 0 .. counts.picks
      BY DEF UploadInv, CountTypes
    <3>2. PICK k \in Nat : k = counts.picks
      BY <1>3
    <3>3. 1 .. k \subseteq 1 .. (k + 1) /\ 0 .. k \subseteq 0 .. (k + 1) /\ k + 1 \in 1 .. (k + 1)
      BY <3>2
    <3>4. u = k + 1
      BY <3>2
    <3>5. QED
      BY <1>1, <1>3, <3>1, <3>2, <3>3, <3>4
  <2>2. QED
    BY <1>3, <1>5, <2>1 DEF CountTypes
<1>7. UploadTypes'
  BY <1>1 DEF UploadInv, UploadTypes, Names
<1>8. CASE SharedName
  BY <1>1, <1>6, <1>7, <1>8 DEF UploadInv, SharedName
<1>9. CASE OwnFiles /\ PicksInOrder
  <2>1. OwnFiles'
    BY <1>1, <1>9 DEF OwnFiles, OwnFile, Names
  <2>2. \A i, j : ~Together(i, j)' => ~Together(i, j)
    BY <1>1 DEF Together
  <2>3. ASSUME NEW i \in DOMAIN PickList, i > u PROVE uploads[i].at = "none"
    BY <1>3, <1>9, <2>3, UploadsNumbered DEF PicksInOrder
  <2>4. ASSUME NEW j \in 1 .. u, NEW i \in 1 .. j - 1, ~Together(i, j)'
        PROVE  Over(i)'
    <3>1. Over(i)
      <4>1. CASE j # u
        <5>1. j \in 1 .. counts.picks
          BY <1>3, <4>1
        <5>2. QED
          BY <1>9, <2>2, <2>4, <5>1 DEF PicksInOrder
      <4>2. CASE j = u
        <5>1. <<u, i>> \notin {u} \X GoingOn
          BY <1>1, <1>3, <2>4, <4>2 DEF Together
        <5>2. i \notin GoingOn
          BY <5>1
        <5>3. i \in 1 .. counts.picks /\ i \in Uploads
          BY <1>3, <1>4, <4>2, UploadsNumbered
        <5>4. i \notin awaited /\ uploads[i].at \notin {"none", "write", "rename"}
          BY <5>2, <5>3 DEF GoingOn
        <5>5. uploads[i].at \in {"none", "write", "rename", "stored", "failed"}
          BY <5>3 DEF UploadInv, UploadTypes, Handlers
        <5>6. QED
          BY <5>4, <5>5 DEF Over
      <4>3. QED
        BY <4>1, <4>2
    <3>2. i # u
      BY <1>3, <1>4
    <3>3. QED
      BY <1>1, <1>3, <3>1, <3>2 DEF Over
  <2>5. ASSUME announced # 0, NEW j \in announced + 1 .. u, ~Together(j, announced)'
        PROVE  j \in awaited'
    <3>1. CASE j = u
      BY <1>1, <1>3, <3>1
    <3>2. CASE j # u
      <4>1. j \in announced + 1 .. counts.picks
        BY <1>3, <3>2 DEF UploadInv, CountTypes
      <4>2. j \in awaited
        BY <1>1, <1>9, <2>2, <2>5, <4>1 DEF PicksInOrder, Together
      <4>3. QED
        BY <1>1, <4>2
    <3>3. QED
      BY <3>1, <3>2
  <2>6. ASSUME NEW i \in 1 .. u, uploads[i].at = "stored"
        PROVE  song # 0 /\ (song \in DOMAIN PickList => song >= i \/ Together(song, i)')
    <3>1. i # u
      <4>1. u > counts.picks /\ u \in DOMAIN PickList
        BY <1>3, <1>4, UploadsNumbered
      <4>2. uploads[u].at = "none"
        BY <1>9, <4>1 DEF PicksInOrder
      <4>3. QED
        BY <2>6, <4>2
    <3>2. i \in 1 .. counts.picks
      BY <1>3, <3>1
    <3>3. song # 0 /\ (song \in DOMAIN PickList => song >= i \/ Together(song, i))
      BY <1>9, <2>6, <3>2 DEF PicksInOrder
    <3>4. Together(song, i) => Together(song, i)'
      BY <1>1 DEF Together
    <3>5. QED
      BY <3>3, <3>4
  <2>7. PicksInOrder'
    BY <1>1, <1>3, <2>3, <2>4, <2>5, <2>6 DEF PicksInOrder, Together
  <2>8. QED
    BY <1>6, <1>7, <2>1, <2>7 DEF UploadInv
<1>10. QED
  BY <1>8, <1>9 DEF UploadInv

(* ... and announces it once its request is answered or has failed.  No    *)
(* later pick was over before, since this one was awaited.                 *)
LEMMA AnnounceInv ==
  ASSUME UploadInv, NEW n, Announce(n)
  PROVE  UploadInv'
<1>1. /\ n \in awaited /\ awaited' = awaited \ {n} /\ announced' = n
      /\ UNCHANGED <<counts, overlaps, uploads, named, song, writers, clock>>
  BY DEF Announce, uploadVars
<1>2. counts.picks \in Nat /\ n \in 1 .. counts.picks
  BY <1>1, UploadsNumbered DEF UploadInv, CountTypes
<1>3. UploadTypes' /\ CountTypes'
  <2>1. UploadTypes'
    BY <1>1 DEF UploadInv, UploadTypes, Names
  <2>2. n \in 0 .. counts.picks
    BY <1>2
  <2>3. CountTypes'
    BY <1>1, <2>2 DEF UploadInv, CountTypes
  <2>4. QED
    BY <2>1, <2>3
<1>4. CASE SharedName
  BY <1>1, <1>3, <1>4 DEF UploadInv, SharedName
<1>5. CASE OwnFiles /\ PicksInOrder
  <2>1. OwnFiles'
    BY <1>1, <1>5 DEF OwnFiles, OwnFile, Names
  <2>2. \A i, j : Together(i, j)' <=> Together(i, j)
    BY <1>1 DEF Together
  <2>3. \A i : Over(i) => Over(i)'
    BY <1>1 DEF Over
  <2>4. ASSUME NEW j \in n + 1 .. counts.picks PROVE Together(j, n)
    <3>1. j \in 1 .. counts.picks /\ n \in 1 .. j - 1
      BY <1>2
    <3>2. ~Over(n)
      BY <1>1 DEF Over
    <3>3. Together(n, j)
      BY <1>5, <3>1, <3>2 DEF PicksInOrder
    <3>4. QED
      BY <3>3 DEF Together
  <2>5. PicksInOrder'
    BY <1>1, <1>5, <2>2, <2>3, <2>4 DEF PicksInOrder
  <2>6. QED
    BY <1>3, <2>1, <2>5 DEF UploadInv
<1>6. QED
  BY <1>4, <1>5 DEF UploadInv

(* A button pressed, the end of a song, or a guest who joins. *)
LEMMA CountedInv ==
  ASSUME UploadInv, NEW what \in {"toggles", "joins"}, Count(what),
         UNCHANGED <<pickVars, uploadVars>>
  PROVE  UploadInv'
<1>1. CountTypes' /\ PicksAsBefore
  BY CountsOn DEF UploadInv
<1>2. UNCHANGED <<uploads, named, song, writers, clock>>
  BY DEF uploadVars
<1>3. QED
  BY <1>1, <1>2, UploadsUntouched

LEMMA SongsBegin ==
  ASSUME PartyInit
  PROVE  UploadInv
<1>1. /\ uploads = [u \in Uploads |-> [at |-> "none", name |-> 0, file |-> 0]]
      /\ named = [n \in Names |-> 0] /\ song = 0
      /\ writers = [f \in Uploads |-> {}]
      /\ awaited = {} /\ announced = 0
      /\ counts = [picks |-> 0, others |-> 0, toggles |-> 0, joins |-> 0]
  BY DEF PartyInit, UploadInit
<1>2. [at |-> "none", name |-> 0, file |-> 0] \in Handlers
  BY DEF Handlers
<1>3. UploadTypes /\ CountTypes
  BY <1>1, <1>2, UploadsNumbered DEF UploadTypes, CountTypes
<1>4. OwnFiles
  BY <1>1, UploadsNumbered DEF OwnFiles, OwnFile
<1>5. PicksInOrder
  BY <1>1, UploadsNumbered DEF PicksInOrder
<1>6. QED
  BY <1>3, <1>4, <1>5 DEF UploadInv

LEMMA SongsGoOn ==
  ASSUME UploadInv, [PartyNext]_partyVars
  PROVE  UploadInv'
<1>1. CASE \/ UNCHANGED partyVars
           \/ StartParty
           \/ \E d \in Devices :
                HandleEvent(d) \/ Read(d) \/ Loaded(d) \/ RoomAnswer(d)
  <2>1. UNCHANGED <<counts, awaited, announced, overlaps, uploads, named, song, writers, clock>>
    BY <1>1 DEF partyVars, playVars, StartParty, HandleEvent, Read, Loaded, RoomAnswer,
                pickVars, uploadVars
  <2>2. CountTypes' /\ PicksAsBefore
    BY <2>1 DEF UploadInv, CountTypes, PicksAsBefore
  <2>3. QED
    BY <2>1, <2>2, UploadsUntouched
<1>2. CASE \E g \in GuestDevices : Join(g) \/ SyncPlayback(g)
  <2>1. Count("joins") /\ UNCHANGED <<pickVars, uploadVars>>
    BY <1>2 DEF Join, SyncPlayback
  <2>2. QED
    BY <2>1, CountedInv
<1>3. CASE Toggle \/ \E d \in Devices : SongEnds(d)
  <2>1. Count("toggles") /\ UNCHANGED <<pickVars, uploadVars>>
    BY <1>3 DEF Toggle, SongEnds, SetPlaying
  <2>2. QED
    BY <2>1, CountedInv
<1>4. CASE PickSong \/ \E n \in DOMAIN PickList : Announce(n)
  BY <1>4, PickSongInv, AnnounceInv
<1>5. CASE \E u \in Uploads : HostUpload(u) \/ OtherParty(u) \/ UploadGoesOn(u)
  BY <1>5, OtherPartyInv, UploadsInv
<1>6. QED
  BY <1>1, <1>2, <1>3, <1>4, <1>5 DEF PartyNext

(* For any uploads of any number of parties, any host's list and any       *)
(* devices, however requests, answers and events interleave and however    *)
(* many songs the host picks while others are still on their way: song.mp3 *)
(* is always one whole upload, and no song that was over when the          *)
(* announced one was picked, as long as no two uploads got one millisecond.*)
THEOREM AlwaysServedSong == PartySpec => []ServedSong
<1>1. UploadInv => ServedSong
  <2> SUFFICES ASSUME UploadInv, ~SharedName PROVE ServedSong
    BY DEF ServedSong
  <2>1. OwnFiles /\ PicksInOrder
    BY DEF UploadInv
  <2>2. ASSUME song # 0 PROVE writers[song] = {song} /\ Writing(song) = {}
    <3>1. song \in Uploads /\ uploads[song].at = "stored" /\ uploads[song].file = song
      BY <2>1, <2>2 DEF UploadInv, UploadTypes, OwnFiles, OwnFile
    <3>2. \A v \in Uploads : uploads[v].file = song => v = song
      BY <2>1, <2>2 DEF OwnFiles, OwnFile
    <3>3. QED
      BY <2>1, <3>1, <3>2 DEF OwnFiles, OwnFile, Writing
  <2>3. song # 0 => Whole(song)
    BY <2>2 DEF UploadInv, UploadTypes, Whole
  <2>4. ASSUME announced # 0, uploads[announced].at = "stored"
        PROVE  /\ song # 0
               /\ \/ song = announced \/ song \in awaited \/ song \notin DOMAIN PickList
                  \/ Together(song, announced)
    <3>1. announced \in 1 .. counts.picks
      BY <2>4, UploadsNumbered DEF UploadInv, CountTypes
    <3>2. song # 0 /\ (song \in DOMAIN PickList => song >= announced \/ Together(song, announced))
      BY <2>1, <2>4, <3>1 DEF PicksInOrder
    <3>3. ASSUME song \in DOMAIN PickList, song > announced, ~Together(song, announced)
          PROVE  song \in awaited
      <4>1. uploads[song].at = "stored"
        BY <2>1, <3>2 DEF OwnFiles
      <4>2. ~(song > counts.picks)
        BY <2>1, <3>3, <4>1 DEF PicksInOrder
      <4>3. song \in announced + 1 .. counts.picks
        BY <3>1, <3>3, <4>2, UploadsNumbered DEF UploadInv, CountTypes
      <4>4. QED
        BY <2>1, <2>4, <3>3, <4>3 DEF PicksInOrder
    <3>4. song \in DOMAIN PickList => song \in Nat
      BY UploadsNumbered
    <3>5. QED
      BY <3>1, <3>2, <3>3, <3>4
  <2>5. announced # 0 /\ uploads[announced].at = "stored" => song \in writers[song]
    BY <2>2, <2>4
  <2>6. QED
    BY <2>3, <2>4, <2>5 DEF ServedSong
<1>2. PartyInit => UploadInv
  BY SongsBegin
<1>3. UploadInv /\ [PartyNext]_partyVars => UploadInv'
  BY SongsGoOn
<1>4. QED
  BY <1>1, <1>2, <1>3, PTL DEF PartySpec
=============================================================================
