------------------------------ MODULE RoomSync ------------------------------
(***************************************************************************)
(* Membership of one room: the Rust API server (api_server/src/main.rs)    *)
(* keeps the room its HTTP requests create, join and delete, and posts it  *)
(* to the Node server when it is created and joined; the Node server       *)
(* (backend/controllers, backend/sockets) keeps a copy of its own, changed *)
(* by the posts and by the sockets of the users' devices, and broadcasts   *)
(* it to them (frontend waiting_room_screen.dart, socket_service.dart).    *)
(*                                                                         *)
(* Posts travel each on a TCP connection of its own and nobody waits for   *)
(* their answer: they arrive in any order, or never -- a post or request   *)
(* that is lost is one that stays on its way.  A socket's events arrive in *)
(* order, and a broadcast is read when it is sent; what a device does when *)
(* the room is closed comes later.  The Node server handles one event at a *)
(* time; the Rust server holds its lock while it joins a room and posts it.*)
(*                                                                         *)
(* A room is its host and the names of its members: in both stores the     *)
(* member flagged as host is the one with the host's name.  Users have     *)
(* different names.  Playback is not modelled here.                        *)
(***************************************************************************)
EXTENDS Naturals, Sequences, FiniteSets, Bags

CONSTANTS
  Host,          \* the user who creates the room
  Guests,
  Connections,   \* bound: sockets a device may have open at the server
  MaxJoins,      \* bound: join requests
  MaxDrops,      \* bound: broken connections
  None

Users == Guests \cup {Host}
Sockets == Users \X (1 .. Connections)
Rooms == [host : Users, members : SUBSET Users]

ASSUME RoomAssumption ==
  /\ Host \notin Guests
  /\ None \notin Users \cup Sockets \cup Rooms /\ \A S \in SUBSET Users : None # S
  /\ Connections \in Nat \ {0} /\ MaxJoins \in Nat /\ MaxDrops \in Nat

VARIABLES
  api,       \* the Rust store: the room's members, or None
  posts,     \* posts to the Node server on their way, a bag of members
  deletes,   \* users whose delete request is on its way
  node,      \* the Node store: the room, or None
  clients,   \* per user: the screen, the socket in use, and whether the
             \* last room seen before the connection broke has it as host
  socks,     \* per socket: events on their way, and its state at the server
  joins, drops, \* counters of the bounds
  departed   \* history: guests Node has removed and who did not join since

vars == <<api, posts, deletes, node, clients, socks, joins, drops, departed>>

Clients == [screen : {"home", "waiting", "gone"},
            socket : Sockets \cup {None}, wasHost : BOOLEAN]

(* named: socket.roomId and socket.userName are set; news, cancelled: the  *)
(* last room-updated and whether a room-cancelled was sent to it.          *)
SocketStates == [up : Seq({"join", "leave", "disconnect"}), named : BOOLEAN,
                 joined : BOOLEAN, cancelled : BOOLEAN, news : Rooms \cup {None}]

TypeOK ==
  /\ api \in {None} \cup SUBSET Users
  /\ IsABag(posts) /\ BagToSet(posts) \subseteq SUBSET Users
  /\ deletes \subseteq Users
  /\ node \in Rooms \cup {None}
  /\ clients \in [Users -> Clients]
  /\ socks \in [Sockets -> SocketStates]
  /\ joins \in 0 .. MaxJoins /\ drops \in 0 .. MaxDrops
  /\ departed \subseteq Guests

Free == [up |-> <<>>, named |-> FALSE, joined |-> FALSE, cancelled |-> FALSE, news |-> None]

AtHome == [screen |-> "home", socket |-> None, wasHost |-> FALSE]

Init ==
  /\ api = None /\ posts = EmptyBag /\ deletes = {} /\ node = None
  /\ clients = [c \in Users |-> AtHome]
  /\ socks = [s \in Sockets |-> Free]
  /\ joins = 0 /\ drops = 0
  /\ departed = {}

-----------------------------------------------------------------------------
(* The Rust server *)

(* sync_with_node *)
SyncWithNode(members) == posts' = posts (+) SetToBag({members})

(* The waiting screen, opened by the request's answer: it connects a new    *)
(* socket and sends join-room.                                             *)
OpenWaitingRoom(c) ==
  LET free == {k \in 1 .. Connections : socks[<<c, k>>] = Free}
  IN  \E k \in free :
        /\ \A l \in free : k <= l
        /\ clients' = [clients EXCEPT ![c] =
                         [AtHome EXCEPT !.screen = "waiting", !.socket = <<c, k>>]]
        /\ socks' = [socks EXCEPT ![<<c, k>>].up = <<"join">>]

(* create_room, and its answer.  A room is created once. *)
CreateRoom ==
  /\ clients[Host].screen = "home"
  /\ api' = {Host}
  /\ SyncWithNode({Host})
  /\ OpenWaitingRoom(Host)
  /\ UNCHANGED <<deletes, node, joins, drops, departed>>

JoinRoomOnCopy(g) ==   \* mutant: the member is added to a copy of the room
  /\ clients[g].screen = "home" /\ joins < MaxJoins
  /\ api # None
  /\ SyncWithNode(api \cup {g})
  /\ OpenWaitingRoom(g)
  /\ joins' = joins + 1
  /\ UNCHANGED <<api, deletes, node, drops, departed>>

(* join_room, and its answer.  A guest has the room's code from the host's *)
(* waiting screen.                                                         *)
JoinRoom(g) ==
  /\ clients[g].screen = "home" /\ joins < MaxJoins
  /\ api # None
  /\ api' = api \cup {g}
  /\ SyncWithNode(api \cup {g})
  /\ OpenWaitingRoom(g)
  /\ joins' = joins + 1
  /\ departed' = departed \ {g}
  /\ UNCHANGED <<deletes, node, drops>>

(* delete_room: the Node server is not told. *)
DeleteRoom(c) ==
  /\ c \in deletes
  /\ deletes' = deletes \ {c}
  /\ api' = None
  /\ UNCHANGED <<posts, node, clients, socks, joins, drops, departed>>

-----------------------------------------------------------------------------
(* The devices *)

(* The device's room has it as host. *)
TakesItselfForHost(c) ==
  \/ c = Host \/ clients[c].wasHost
  \/ LET s == clients[c].socket
     IN  s # None /\ socks[s].news # None /\ socks[s].news.host = c

(* dispose of the waiting screen: whoever takes himself for the host asks  *)
(* for the room's deletion, without waiting for it; then leave-room, and   *)
(* the socket is closed.                                                   *)
Leave(c) ==
  LET s == clients[c].socket
  IN  /\ clients[c].screen = "waiting"
      /\ deletes' = IF TakesItselfForHost(c) THEN deletes \cup {c} ELSE deletes
      /\ clients' = [clients EXCEPT
           ![c] = [AtHome EXCEPT !.screen = IF c = Host THEN "gone" ELSE "home"]]
      /\ socks' = IF s = None THEN socks
                  ELSE [socks EXCEPT ![s].up = @ \o <<"leave", "disconnect">>]
      /\ UNCHANGED <<api, posts, node, joins, drops, departed>>

(* room-cancelled *)
LeaveCancelled(c) ==
  /\ clients[c].socket # None /\ socks[clients[c].socket].cancelled
  /\ Leave(c)

(* The connection breaks: events on their way are lost, the server notices *)
(* in time.  The device reconnects with a new socket and does not join.    *)
Drop(c) ==
  /\ clients[c].socket # None /\ drops < MaxDrops
  /\ clients' = [clients EXCEPT ![c].socket = None,
                                ![c].wasHost = c # Host /\ TakesItselfForHost(c)]
  /\ socks' = [socks EXCEPT ![clients[c].socket].up = <<"disconnect">>]
  /\ drops' = drops + 1
  /\ UNCHANGED <<api, posts, deletes, node, joins, departed>>

-----------------------------------------------------------------------------
(* The Node server *)

(* Mutant: the device that caused the change is not told. *)
BroadcastOthers(sk, room) ==
  [s \in Sockets |-> IF sk[s].joined /\ sk[s].news # None
                     THEN [sk[s] EXCEPT !.news = room] ELSE sk[s]]

(* io.to(roomId).emit("room-updated", room) *)
Broadcast(sk, room) ==
  [s \in Sockets |-> IF sk[s].joined THEN [sk[s] EXCEPT !.news = room] ELSE sk[s]]

(* io.to(roomId).emit("room-cancelled") *)
Cancel(sk) ==
  [s \in Sockets |-> IF sk[s].joined THEN [sk[s] EXCEPT !.cancelled = TRUE] ELSE sk[s]]

(* syncRoom: the post replaces whatever room there is. *)
SyncRoom(members) ==
  /\ BagIn(members, posts)
  /\ posts' = posts (-) SetToBag({members})
  /\ node' = [host |-> Host, members |-> members]
  /\ socks' = Broadcast(socks, node')
  /\ UNCHANGED <<api, deletes, clients, joins, drops, departed>>

(* join-room: a room that does not exist is created, with the user as host. *)
HandleJoin(s) ==
  LET found == IF node = None THEN [host |-> s[1], members |-> {}] ELSE node
  IN  /\ socks[s].up # <<>> /\ Head(socks[s].up) = "join"
      /\ node' = [found EXCEPT !.members = @ \cup {s[1]}]
      /\ socks' = Broadcast([socks EXCEPT ![s].up = Tail(@), ![s].named = TRUE,
                                          ![s].joined = TRUE], node')
      /\ UNCHANGED <<api, posts, deletes, clients, joins, drops, departed>>

(* Mutant: the host is removed like anyone else. *)
UserLeavingAsGuest(s, sk) ==
  IF socks[s].named /\ node # None
  THEN /\ node' = [node EXCEPT !.members = @ \ {s[1]}]
       /\ socks' = Broadcast(sk, node')
       /\ UNCHANGED departed
  ELSE UNCHANGED <<node, departed>> /\ socks' = sk

(* handleUserLeaving, with sk the sockets without the leaving one: its     *)
(* device does not listen any more.  The host's leaving closes the room, a *)
(* guest is removed from the list.                                         *)
UserLeaving(s, sk) ==
  \/ /\ ~socks[s].named \/ node = None
     /\ UNCHANGED <<node, departed>> /\ socks' = sk
  \/ /\ socks[s].named /\ node # None /\ s[1] = node.host
     /\ node' = None /\ socks' = Cancel(sk) /\ UNCHANGED departed
  \/ /\ socks[s].named /\ node # None /\ s[1] # node.host
     /\ IF s[1] \in node.members
          THEN /\ node' = [node EXCEPT !.members = @ \ {s[1]}]
               /\ socks' = Broadcast(sk, node')
               /\ departed' = departed \cup (Guests \cap {s[1]})
          ELSE UNCHANGED <<node, departed>> /\ socks' = sk

(* leave-room; socket.roomId stays set. *)
HandleLeave(s) ==
  /\ socks[s].up # <<>> /\ Head(socks[s].up) = "leave"
  /\ UserLeaving(s, [socks EXCEPT ![s].up = Tail(@), ![s].joined = FALSE, ![s].news = None])
  /\ UNCHANGED <<api, posts, deletes, clients, joins, drops>>

(* disconnect: the socket has left its rooms; the user leaves, again if he *)
(* already did.                                                            *)
HandleDisconnect(s) ==
  /\ socks[s].up # <<>> /\ Head(socks[s].up) = "disconnect"
  /\ UserLeaving(s, [socks EXCEPT ![s] = Free])
  /\ UNCHANGED <<api, posts, deletes, clients, joins, drops>>

Node(s) == HandleJoin(s) \/ HandleLeave(s) \/ HandleDisconnect(s)

Next ==
  \/ CreateRoom
  \/ \E g \in Guests : JoinRoom(g)
  \/ \E c \in Users :
       DeleteRoom(c) \/ Leave(c) \/ Drop(c)
  \/ \E members \in BagToSet(posts) : SyncRoom(members)
  \/ \E s \in Sockets : Node(s)

Spec == Init /\ [][Next]_vars

(* Messages of open connections are delivered and handled, and a device    *)
(* told that the room is closed leaves it.                                 *)
Fairness ==
  /\ \A s \in Sockets : WF_vars(Node(s))
  /\ \A c \in Users : WF_vars(LeaveCancelled(c))

FairSpec == Spec /\ Fairness

-----------------------------------------------------------------------------
(* The list a device in the room shows, once it has read what was sent to  *)
(* it, is the server's, whichever way the room changed last; and a room    *)
(* that is gone was announced as closed to every device in it              *)
(* (socketHandler.js:7-82, roomController.js:118-153,                      *)
(* waiting_room_screen.dart:40-67).                                        *)
ListsCurrent ==
  \A s \in Sockets :
    socks[s].joined /\ ~socks[s].cancelled => node # None /\ socks[s].news = node

(* However posts and sockets interleave, the Node server lists only users  *)
(* the Rust server accepted, as long as the room exists there: no name     *)
(* that an HTTP request for the room would not return                      *)
(* (main.rs:160-216, socketHandler.js:48-78).                              *)
NodeListsMembers == api # None /\ node # None => node.members \subseteq api

HostLeaving ==
  /\ node # None /\ node.host = Host
  /\ \E k \in 1 .. Connections :
       socks[<<Host, k>>].joined /\ socks[<<Host, k>>].up # <<>>

(* When the host leaves or his connection breaks, every guest in the room  *)
(* is sent home, whatever joins, departures and posts are on their way     *)
(* (socketHandler.js:7-27, waiting_room_screen.dart:58-67).                *)
GuestsSentHome ==
  \A g \in Guests : \A k \in 1 .. Connections :
    HostLeaving /\ clients[g].socket = <<g, k>> /\ socks[<<g, k>>].joined
      ~> clients[g].socket # <<g, k>>

(* socketHandler.js:21 reports a guest who left as removed from the room:  *)
(* he is not listed again before he asks to join.                          *)
DepartedStayGone == node # None => departed \cap node.members = {}
=============================================================================
