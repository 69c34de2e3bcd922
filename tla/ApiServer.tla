----------------------------- MODULE ApiServer -----------------------------
(***************************************************************************)
(* The Rust server (api_server/src/main.rs): one thread per connection     *)
(* reads one request, serves it from the rooms, which a mutex protects,    *)
(* posts the room to the Node server and answers.                          *)
(*                                                                         *)
(* join_room and get_room keep the mutex until they have answered -- over  *)
(* the connection to Node --, create_room and delete_room release it       *)
(* before.                                                                 *)
(*                                                                         *)
(* Bytes are counted in units of which a header has a few.  A room id is a *)
(* key: whether it has the prefix "SB-", and a number.  What the Node      *)
(* server makes of the posts is RoomSync's business.                       *)
(***************************************************************************)
EXTENDS Naturals, FiniteSets, SequencesExt, JsonText

CONSTANTS
  Conns,         \* connections, each with one request
  NamesFor,      \* the names a connection's user may give (a bound)
  Period,        \* room numbers are milliseconds modulo Period (36^6 in the code)
  Shapes,        \* of requests: units of header and body, and the announced Content-Length
  HeadLimit,     \* 32 KB, 1 MB
  BodyLimit,
  None

(* Numbers below Period are generated; Period stands for one nobody has. *)
Keys == [sb : BOOLEAN, n : 0 .. Period]
Key(n) == [sb |-> TRUE, n |-> n]

ASSUME ApiAssumption ==
  /\ IsFiniteSet(Conns) /\ None \notin Conns \cup Keys
  /\ \A c \in Conns : \A text \in NamesFor[c] : text \in Texts
  /\ Period \in Nat \ {0} /\ HeadLimit \in Nat /\ BodyLimit \in Nat
  /\ Shapes \subseteq [head : Nat \ {0}, body : Nat, announced : Nat]

VARIABLES
  conns,     \* per connection: its thread's place, request, bytes read, room and answer
  rooms,     \* the room under each key, or None
  lock,      \* the thread that holds the mutex, or None
  now,       \* milliseconds
  posts      \* rooms posted to the Node server, the names as JSON

vars == <<conns, rooms, lock, now, posts>>

(* The names users give, and what the server reads. *)
Names == UNION {NamesFor[c] : c \in Conns}

(* Mutant: a name is kept as the client wrote it. *)
NameReadRaw == [text \in Names |-> UpToQuote(JsonEscape(text) \o <<Quote>>)]

NameRead == [text \in Names |-> TextRead(text)]

(* The members in the order they came: the first is the host. *)
Rooms == [maker : Conns, members : Seq(Texts)]
NoRoom == [maker |-> None, members |-> <<>>]

Kinds == {"create", "join", "delete", "get", "other"}

TypeOK ==
  /\ conns \in [Conns ->
       [at : {"idle", "head", "body", "read", "request", "insert", "post", "answer", "done", "closed"},
        kind : Kinds, key : Keys \cup {None}, name : Names \cup {None},
        shape : Shapes \cup {None}, raw : Nat,
        room : Rooms \cup {NoRoom}, code : {0, 200, 204, 400, 404}]]
  /\ rooms \in [Keys -> Rooms \cup {NoRoom}]
  /\ lock \in Conns \cup {None}
  /\ now \in Nat
  /\ posts \in Seq(Rooms)

Fresh == [at |-> "idle", kind |-> "other", key |-> None, name |-> None, shape |-> None, raw |-> 0,
          room |-> NoRoom, code |-> 0]

Init ==
  /\ conns = [c \in Conns |-> Fresh]
  /\ rooms = [k \in Keys |-> NoRoom]
  /\ lock = None
  /\ now = 0
  /\ posts = <<>>

Goes(c, at) == conns' = [conns EXCEPT ![c].at = at]

(* The thread ends with its request unread. *)
Closed == [Fresh EXCEPT !.at = "closed"]

-----------------------------------------------------------------------------
(* Reading a request *)

Connect(c) ==
  /\ conns[c].at = "idle"
  /\ \E s \in Shapes : conns' = [conns EXCEPT ![c].at = "head", ![c].shape = s]
  /\ UNCHANGED <<rooms, lock, now, posts>>

(* Where the thread is when it has read that many units. *)
ReadUpTo(s, raw) ==
  IF raw < s.head THEN IF raw > HeadLimit THEN "closed" ELSE "head"
  ELSE IF s.announced > BodyLimit THEN "closed"
  ELSE IF raw < s.head + s.announced THEN "body" ELSE "read"

(* Some more of what the client sends: a part of the header, or its end    *)
(* with as much of the body as came along.                                 *)
ReadHead(c) ==
  LET s == conns[c].shape
  IN  /\ conns[c].at = "head"
      /\ \E raw \in conns[c].raw + 1 .. s.head + s.body :
           conns' = [conns EXCEPT ![c] =
             IF ReadUpTo(s, raw) = "closed" THEN Closed
             ELSE [@ EXCEPT !.raw = raw, !.at = ReadUpTo(s, raw)]]
      /\ UNCHANGED <<rooms, lock, now, posts>>

(* Mutant: one read, which returns what there is. *)
ReadSome(c) ==
  LET s == conns[c].shape
  IN  /\ conns[c].at = "body"
      /\ \E raw \in conns[c].raw + 1 .. s.head + s.body :
           conns' = [conns EXCEPT ![c].raw = raw, ![c].at = "read"]
      /\ UNCHANGED <<rooms, lock, now, posts>>

(* read_exact *)
ReadBody(c) ==
  LET s == conns[c].shape
  IN  /\ conns[c].at = "body" /\ s.announced <= s.body
      /\ conns' = [conns EXCEPT ![c].raw = s.head + s.announced, ![c].at = "read"]
      /\ UNCHANGED <<rooms, lock, now, posts>>

(* The client ends the connection or says nothing for five seconds. *)
GiveUp(c) ==
  /\ conns[c].at \in {"head", "body"}
  /\ conns' = [conns EXCEPT ![c] = Closed]
  /\ UNCHANGED <<rooms, lock, now, posts>>

-----------------------------------------------------------------------------
(* Serving it *)

(* Users have a room's number from the answer its host got, or mistake it; *)
(* they type it with or without the prefix.                                *)
Told == {conns[c].key.n : c \in {d \in Conns : /\ conns[d].kind = "create"
                                               /\ conns[d].at = "done"}}
Typed == [sb : BOOLEAN, n : Told] \cup {Key(Period)}

(* Without a key a request has an empty room id. *)
Requests ==
  [kind : {"create", "join", "delete", "other"}, key : {None}]
    \cup [kind : {"join", "delete", "get"}, key : Typed]

(* handle_client: which request it was. *)
HandleClient(c) ==
  /\ conns[c].at = "read"
  /\ \E r \in Requests, name \in NamesFor[c] :
       conns' = [conns EXCEPT ![c].at = "request", ![c].kind = r.kind, ![c].key = r.key,
                              ![c].name = IF r.kind \in {"create", "join"} THEN name ELSE None]
  /\ UNCHANGED <<rooms, lock, now, posts>>

Serves(c, kind) == conns[c].at = "request" /\ conns[c].kind = kind

(* Without a room id, or with a name that was read as an empty one. *)
Incomplete(c) ==
  Serves(c, "join") /\ (conns[c].key = None \/ NameRead[conns[c].name] = <<>>)

(* Unknown routes and requests join_room finds incomplete. *)
ServeOther(c) ==
  /\ Serves(c, "other") \/ Incomplete(c)
  /\ \E code \in IF conns[c].kind = "join" THEN {400} ELSE {200, 204, 404} :
       conns' = [conns EXCEPT ![c].at = "answer", ![c].code = code]
  /\ UNCHANGED <<rooms, lock, now, posts>>

(* generate_room_id: in the millisecond of the request before, or later. *)
GenerateRoomId(c) ==
  /\ Serves(c, "create")
  /\ now' \in {now, now + 1}
  /\ conns' = [conns EXCEPT ![c].at = "insert", ![c].key = Key(now' % Period)]
  /\ UNCHANGED <<rooms, lock, posts>>

CreateRoom(c) ==
  LET room == [maker |-> c, members |-> <<NameRead[conns[c].name]>>]
  IN  /\ conns[c].at = "insert" /\ lock = None
      /\ rooms' = [rooms EXCEPT ![conns[c].key] = room]
      /\ conns' = [conns EXCEPT ![c].at = "post", ![c].room = room, ![c].code = 200]
      /\ UNCHANGED <<lock, now, posts>>

Other(key) == [key EXCEPT !.sb = ~@]

(* Mutant: the room is removed under the id as it was typed. *)
SpelledAsTyped(key) == {key}

(* The spellings delete_room removes. *)
Spellings(key) == {key, Other(key)}

(* Mutant: the mutex is taken a second time, by the thread that has it. *)
DeleteRelocking(c) ==
  /\ Serves(c, "delete") /\ lock = None
  /\ rooms' = IF conns[c].key = None THEN rooms
              ELSE [k \in Keys |-> IF k \in Spellings(conns[c].key) THEN NoRoom ELSE rooms[k]]
  /\ lock' = c
  /\ UNCHANGED <<conns, now, posts>>

DeleteRoom(c) ==
  /\ Serves(c, "delete")
  /\ conns[c].key # None => lock = None
  /\ rooms' = IF conns[c].key = None THEN rooms
              ELSE [k \in Keys |-> IF k \in Spellings(conns[c].key) THEN NoRoom ELSE rooms[k]]
  /\ conns' = [conns EXCEPT ![c].at = "answer", ![c].code = 200]
  /\ UNCHANGED <<lock, now, posts>>

(* join_room and get_room look for the id as typed, then with the prefix   *)
(* added or removed.                                                       *)
Lookup(key) == IF rooms[key] # NoRoom THEN key ELSE Other(key)

(* Mutant: the mutex is released when the member is in. *)
Released(c) == None

(* Both keep the mutex. *)
Kept(c) == c

JoinRoom(c) ==
  LET key == Lookup(conns[c].key)
      room == rooms[key]
      name == NameRead[conns[c].name]
      joined == IF name \in Range(room.members) THEN room
                ELSE [room EXCEPT !.members = Append(@, name)]
  IN  /\ Serves(c, "join") /\ ~Incomplete(c) /\ lock = None
      /\ \/ /\ room = NoRoom
            /\ conns' = [conns EXCEPT ![c].at = "answer", ![c].code = 404]
            /\ UNCHANGED rooms
         \/ /\ room # NoRoom
            /\ rooms' = [rooms EXCEPT ![key] = joined]
            /\ conns' = [conns EXCEPT ![c].at = "post", ![c].key = key,
                                      ![c].room = joined, ![c].code = 200]
      /\ lock' = Kept(c)
      /\ UNCHANGED <<now, posts>>

GetRoom(c) ==
  LET room == rooms[Lookup(conns[c].key)]
  IN  /\ Serves(c, "get") /\ lock = None
      /\ conns' = [conns EXCEPT ![c].at = "answer", ![c].room = room,
                                ![c].code = IF room = NoRoom THEN 404 ELSE 200]
      /\ lock' = Kept(c)
      /\ UNCHANGED <<rooms, now, posts>>

(* room_json *)
RoomJson(room) ==
  [room EXCEPT !.members = [i \in DOMAIN @ |-> JsonEscape(@[i])]]

(* The room is written to the Node server, or that cannot be reached. *)
SyncWithNode(c) ==
  /\ conns[c].at = "post"
  /\ posts' \in {posts, Append(posts, RoomJson(conns[c].room))}
  /\ Goes(c, "answer")
  /\ UNCHANGED <<rooms, lock, now>>

Freed(c) == IF lock = c THEN None ELSE lock

(* Whether the answer reaches the client or not, the thread ends. *)
WriteResponse(c) ==
  /\ conns[c].at = "answer"
  /\ Goes(c, "done")
  /\ lock' = Freed(c)
  /\ UNCHANGED <<rooms, now, posts>>

Reading(c) == ReadHead(c) \/ ReadBody(c) \/ GiveUp(c)

Serving(c) ==
  \/ HandleClient(c) \/ ServeOther(c) \/ GenerateRoomId(c) \/ CreateRoom(c)
  \/ DeleteRoom(c) \/ JoinRoom(c) \/ GetRoom(c) \/ SyncWithNode(c) \/ WriteResponse(c)

Next == \E c \in Conns : Connect(c) \/ Reading(c) \/ Serving(c)

Spec == Init /\ [][Next]_vars

(* Reads time out; connecting to Node and writing to sockets end.  The     *)
(* mutex is not fair: the connections are finitely many.                   *)
FairSpec == Spec /\ \A c \in Conns : WF_vars(Reading(c)) /\ WF_vars(Serving(c))

-----------------------------------------------------------------------------
Created == {c \in Conns : conns[c].kind = "create" /\ conns[c].key # None}

(* Two rooms were given the same number. *)
Collided == \E c, d \in Created : c # d /\ conns[c].key = conns[d].key

(* The posts of a room show it growing, although they are written by       *)
(* different threads and the creator's without the mutex: a list with      *)
(* fewer members never follows one with more (main.rs:132-138, 196-208).   *)
(* Two rooms with one number break this.                                   *)
PostsInOrder ==
  ~Collided => \A i, j \in 1 .. Len(posts) :
    i < j /\ posts[i].maker = posts[j].maker => IsPrefix(posts[i].members, posts[j].members)

(* A room deleted under either spelling of its id is not found again under *)
(* either, whatever joins of it were going on (main.rs:143-155).           *)
DeletedGone ==
  ~Collided => \A c \in Conns :
    conns[c].kind = "delete" /\ conns[c].key # None /\ conns[c].at \in {"answer", "done"}
      => rooms[Lookup(conns[c].key)] = NoRoom

(* A guest is never told he joined a room that is gone, or is not in: when *)
(* the answer of join_room is written the room is there, as answered, in   *)
(* spite of the time the post took (main.rs:170-208).                      *)
JoinedRoomExists ==
  [][\A c \in Conns :
       conns[c].at = "answer" /\ conns'[c].at = "done"
         /\ conns[c].kind = "join" /\ conns[c].code = 200
         => /\ rooms[conns[c].key] = conns[c].room
            /\ NameRead[conns[c].name] \in Range(conns[c].room.members)]_vars

(* Who created or joined a room is listed under the name he gave, and the  *)
(* Node server reads in a post only names that users gave: what is written *)
(* as JSON on one side is read alike on the other (main.rs:308-382) -- but *)
(* names with a quotation mark are cut there.                              *)
ListedAsTyped ==
  /\ \A c \in Conns :
       conns[c].kind \in {"create", "join"} /\ conns[c].code = 200
         /\ Quote \notin Range(conns[c].name)
         => conns[c].name \in Range(conns[c].room.members)
  /\ \A i \in 1 .. Len(posts) : \A raw \in Range(posts[i].members) :
       \E name \in Names : JsonUnescape(raw) = NameRead[name]

(* A request is served when all of its announced body has been read, in    *)
(* whatever pieces header and body came (main.rs:246-294).                 *)
ServedWhole ==
  \A c \in Conns :
    conns[c].at \notin {"idle", "head", "body", "closed"}
      => conns[c].raw >= conns[c].shape.head + conns[c].shape.announced

(* The server never stays busy: every connection is answered or closed,    *)
(* however long others hold the mutex while they connect to Node.          *)
Answered == []<>(\A c \in Conns : conns[c].at \in {"idle", "done", "closed"})
=============================================================================
