--------------------------- MODULE PartyPlayback ---------------------------
(***************************************************************************)
(* Playback of one party: the devices' player screens (frontend            *)
(* player_screen.dart), the media events the Node server records and       *)
(* relays (backend/sockets/socketHandler.js), and the song file the host   *)
(* uploads before he announces it (SongUpload).                            *)
(*                                                                         *)
(* A device's socket keeps its events in order in either direction; HTTP   *)
(* requests are answered at any time.  _playSong awaits the audio player   *)
(* and then sets isPlaying, so that events are handled meanwhile.          *)
(*                                                                         *)
(* A song is its title.  Positions within a song (media-seek) are left     *)
(* out: they are relayed as toggles are and nothing depends on them.  Who  *)
(* is in the room is RoomSync's business: here nobody leaves, and posts of *)
(* the Rust server matter because they overwrite the playback fields too;  *)
(* those of the guests who were early have arrived.                        *)
(***************************************************************************)
EXTENDS SongUpload, Sequences

CONSTANTS
  HostDevice,
  Early, Late,           \* guests in the room from the beginning, guests who join the party
  PickList,              \* titles the host picks (and a bound); each is the upload of its number
  Limits,                \* bounds, of which one must hold: songs picked, uploads of other
                         \* parties, presses of play or pause and ends of songs, and messages
                         \* of guests who join
  NoTitle

Titles == {PickList[i] : i \in DOMAIN PickList}

ASSUME PlaybackAssumption ==
  /\ HostDevice \notin Early \cup Late /\ Early \cap Late = {}
  /\ Limits \subseteq [picks : 0 .. Len(PickList), others : Nat, toggles : Nat, joins : Nat]
  /\ PickList \in Seq(Titles) /\ DOMAIN PickList \subseteq Uploads
  /\ NoTitle \notin Titles

GuestDevices == Early \cup Late
Devices == GuestDevices \cup {HostDevice}

VARIABLES
  devices,   \* per device: its screen and what its player keeps
  up, down,  \* per device: events on their way to and from the Node server
  latePosts, \* late guests whose post the Rust server has yet to make, or is under way
  playback,  \* the playback fields of the Node server's room, and whether a post
             \* was the last to set them
  awaited,   \* the picks of the host whose upload he awaits
  counts,    \* how often there was what Limits bounds
  announced, \* history: the pick he announced last, or 0
  overlaps,  \* history: picks, with an earlier one that was not over yet
  raced      \* history: guests whose state was overtaken, see Settles

playVars == <<devices, up, down, latePosts, playback, awaited, counts, announced, overlaps, raced>>
partyVars == <<playVars, uploadVars>>

Event(kind, val) == [kind |-> kind, val |-> val]

PartyTypeOK ==
  /\ devices \in [Devices -> [screen : {"away", "waiting", "player"}, playlist : Seq(Titles),
                              index : Nat, playing : BOOLEAN, loads : Nat, asked : BOOLEAN]]
  /\ latePosts \subseteq Late
  /\ playback \in [playing : BOOLEAN, index : Nat, title : Titles \cup {NoTitle}, posted : BOOLEAN]
  /\ \A d \in Devices : \A q \in {up[d], down[d]} : \A i \in 1 .. Len(q) :
       q[i].kind \in {"start", "toggle", "local", "song", "ask"}
  /\ awaited \subseteq DOMAIN PickList /\ announced \in {0} \cup DOMAIN PickList
  /\ overlaps \subseteq (DOMAIN PickList) \X (DOMAIN PickList)
  /\ raced \subseteq GuestDevices
  /\ song \in {0} \cup Uploads /\ clock \in {0} \cup Names

(* index 0 is currentSongIndex -1, and so on. *)
Blank == [playing |-> FALSE, index |-> 0, title |-> NoTitle, posted |-> TRUE]

PartyInit ==
  /\ UploadInit
  /\ devices = [d \in Devices |->
       [screen |-> IF d \in Late THEN "away" ELSE "waiting", playlist |-> <<>>, index |-> 0,
        playing |-> FALSE, loads |-> 0, asked |-> FALSE]]
  /\ up = [d \in Devices |-> <<>>] /\ down = [d \in Devices |-> <<>>]
  /\ latePosts = Late
  /\ playback = [Blank EXCEPT !.posted = FALSE]
  /\ awaited = {} /\ announced = 0 /\ overlaps = {}
  /\ counts = [picks |-> 0, others |-> 0, toggles |-> 0, joins |-> 0]
  /\ raced = {}

pickVars == <<awaited, announced, overlaps>>

(* One more of what Limits bounds. *)
Count(what) ==
  /\ counts' = [counts EXCEPT ![what] = @ + 1]
  /\ \E l \in Limits : \A w \in DOMAIN counts : counts'[w] <= l[w]

Send(d, events) == up' = [up EXCEPT ![d] = @ \o events]

-----------------------------------------------------------------------------
(* The Node server *)

Joined == {d \in Devices : devices[d].screen # "away"}

(* syncRoom: the post of a join during the party has no playback fields.   *)
(* It comes before the guest's join-room or after, or never.               *)
SyncPlayback(g) ==
  /\ g \in latePosts /\ devices[HostDevice].screen = "player"
  /\ latePosts' = latePosts \ {g}
  /\ playback' = Blank
  /\ Count("joins")
  /\ UNCHANGED <<devices, up, down, pickVars, raced, uploadVars>>

(* A guest opens the waiting room; join-room ends by asking the others for *)
(* the playback state, which only the host's player listens to.            *)
Join(g) ==
  /\ devices[g].screen = "away" /\ devices[HostDevice].screen = "player"
  /\ devices' = [devices EXCEPT ![g].screen = "waiting"]
  /\ down' = [down EXCEPT ![HostDevice] = Append(@, Event("ask", NoTitle))]
  /\ Count("joins")
  /\ UNCHANGED <<up, latePosts, playback, pickVars, raced, uploadVars>>

(* Devices that are in the player or will be when an event sent now        *)
(* arrives; the waiting room does not listen to media events.              *)
Listening == {d \in Devices : devices[d].screen = "player" \/ down[d] # <<>>}

(* socket.to(roomId).emit: to the others in the room. *)
Relay(s, e) ==
  [d \in Devices |-> IF d \in Listening \ {s} THEN Append(down[d], e) ELSE down[d]]

(* io.to(roomId).emit *)
RelayStart(e) ==
  [d \in Devices |-> IF d \in Joined THEN Append(down[d], e) ELSE down[d]]

(* Mutant: a song change leaves the room's play state. *)
RecordedSilently(e) ==
  CASE e.kind = "toggle" -> [playback EXCEPT !.playing = e.val]
    [] e.kind = "local"  -> [playback EXCEPT !.title = e.val, !.posted = FALSE]
    [] e.kind = "song"   -> [playback EXCEPT !.title = NoTitle, !.index = e.val, !.posted = FALSE]
    [] OTHER -> playback

(* What the room remembers of an event. *)
Recorded(e) ==
  CASE e.kind = "toggle" -> [playback EXCEPT !.playing = e.val]
    [] e.kind = "local"  -> [playback EXCEPT !.title = e.val, !.playing = TRUE, !.posted = FALSE]
    [] e.kind = "song"   -> [index |-> e.val, title |-> NoTitle, playing |-> TRUE, posted |-> FALSE]
    [] OTHER -> playback

(* Devices with an event of their own on the way get this one out of order. *)
Overtaken(s) == {g \in GuestDevices \ {s} : up[g] # <<>>}

HandleEvent(s) ==
  LET e == Head(up[s])
  IN  /\ up[s] # <<>>
      /\ up' = [up EXCEPT ![s] = Tail(@)]
      /\ playback' = Recorded(e)
      /\ down' = IF e.kind = "start" THEN RelayStart(e) ELSE Relay(s, e)
      /\ raced' = raced \cup Overtaken(s)
      /\ UNCHANGED <<devices, latePosts, pickVars, counts, uploadVars>>

-----------------------------------------------------------------------------
(* The devices *)

(* The waiting screen's button. *)
StartParty ==
  /\ devices[HostDevice].screen = "waiting" /\ up[HostDevice] = <<>>
  /\ \A i \in 1 .. Len(down[HostDevice]) : down[HostDevice][i].kind # "start"
  /\ Send(HostDevice, <<Event("start", NoTitle)>>)
  /\ UNCHANGED <<devices, down, latePosts, playback, pickVars, counts, raced, uploadVars>>

(* playlist.indexWhere *)
Titled(list, t) == {i \in 1 .. Len(list) : list[i] = t}

(* _playSong begins: without a song it returns, past the list it throws. *)
Play(dev) == IF dev.index \in 1 .. Len(dev.playlist) THEN [dev EXCEPT !.loads = @ + 1] ELSE dev

(* onLocalSongChanged: a title not in the list is added to it. *)
LocalSong(dev, t) ==
  LET known == Titled(dev.playlist, t)
      list == IF known = {} THEN Append(dev.playlist, t) ELSE dev.playlist
      first == CHOOSE i \in Titled(list, t) : \A j \in Titled(list, t) : i <= j
  IN  Play([dev EXCEPT !.playlist = list, !.index = first])

(* The state of a player that handles an event. *)
Handled(dev, e) ==
  CASE e.kind = "toggle" -> [dev EXCEPT !.playing = e.val]
    [] e.kind = "local"  -> LocalSong(dev, e.val)
    [] e.kind = "song"   -> Play([dev EXCEPT !.index = e.val])
    [] OTHER -> dev

(* onRequestHostSync *)
Answer == <<Event("toggle", devices[HostDevice].playing)>>
            \o IF devices[HostDevice].index # 0 THEN <<Event("song", devices[HostDevice].index)>> ELSE <<>>

(* A device reads an event.  The waiting room waits for the party to start *)
(* and opens the player, which asks the Rust server for the room at once;  *)
(* it does not listen to the media events.                                 *)
Read(d) ==
  LET e == Head(down[d])
      inPlayer == devices[d].screen = "player"
  IN  /\ down[d] # <<>>
      /\ down' = [down EXCEPT ![d] = Tail(@)]
      /\ devices' = [devices EXCEPT ![d] =
           IF inPlayer THEN Handled(@, e)
           ELSE IF e.kind = "start" THEN [@ EXCEPT !.screen = "player", !.asked = TRUE] ELSE @]
      /\ IF inPlayer /\ d = HostDevice /\ e.kind = "ask" THEN Send(d, Answer) ELSE UNCHANGED up
      /\ raced' = IF inPlayer /\ e.kind = "toggle" /\ devices[d].loads > 0
                  THEN raced \cup ({d} \cap GuestDevices) ELSE raced
      /\ UNCHANGED <<latePosts, playback, pickVars, counts, uploadVars>>

(* The rest of _playSong, when the player has begun or has given up. *)
Loaded(d) ==
  /\ devices[d].loads > 0
  /\ devices' = [devices EXCEPT ![d].loads = @ - 1, ![d].playing = TRUE]
  /\ UNCHANGED <<up, down, latePosts, playback, pickVars, counts, raced, uploadVars>>

(* _syncPlaybackWithServer: the Rust server's room never has a song and    *)
(* does not play; or the request fails.                                    *)
RoomAnswer(d) ==
  /\ devices[d].asked
  /\ \/ /\ devices' = [devices EXCEPT ![d].asked = FALSE, ![d].index = 0, ![d].playing = FALSE]
        /\ raced' = IF devices[d].playlist # <<>> THEN raced \cup ({d} \cap GuestDevices) ELSE raced
     \/ /\ devices' = [devices EXCEPT ![d].asked = FALSE]
        /\ UNCHANGED raced
  /\ UNCHANGED <<up, down, latePosts, playback, pickVars, counts, uploadVars>>

HasSong(d) == devices[d].screen = "player" /\ devices[d].index # 0 /\ devices[d].playlist # <<>>

(* _updatePlaybackState with localEmit. *)
SetPlaying(d, playing) ==
  /\ Count("toggles")
  /\ devices' = [devices EXCEPT ![d].playing = playing]
  /\ Send(d, <<Event("toggle", playing)>>)
  /\ raced' = IF down[d] # <<>> \/ devices[d].loads > 0 THEN raced \cup ({d} \cap GuestDevices) ELSE raced
  /\ UNCHANGED <<down, latePosts, playback, pickVars, uploadVars>>

(* The host presses play or pause. *)
Toggle ==
  /\ HasSong(HostDevice)
  /\ SetPlaying(HostDevice, ~devices[HostDevice].playing)

(* onPlayerComplete: any device, a guest's too, pauses the party. *)
SongEnds(d) ==
  /\ HasSong(d) /\ devices[d].playing
  /\ SetPlaying(d, FALSE)

(* Picks that are not over: the host awaits the answer, or the server has  *)
(* yet to get the request or to finish with it.                            *)
GoingOn ==
  {n \in 1 .. counts.picks : n \in awaited \/ uploads[n].at \in {"none", "write", "rename"}}

(* _pickLocalSong sends the upload and awaits it; nothing keeps the host   *)
(* from picking the next song meanwhile.                                   *)
PickSong ==
  /\ devices[HostDevice].screen = "player" /\ counts.picks < Len(PickList)
  /\ Count("picks")
  /\ awaited' = awaited \cup {counts'.picks}
  /\ overlaps' = overlaps \cup ({counts'.picks} \X GoingOn)
  /\ UNCHANGED <<devices, up, down, latePosts, playback, announced, raced, uploadVars>>

(* When the request is answered, whatever the answer, or fails on its way, *)
(* wherever the server is with it: the announcement.                       *)
Announce(n) ==
  /\ n \in awaited
  /\ awaited' = awaited \ {n} /\ announced' = n
  /\ devices' = [devices EXCEPT ![HostDevice].playlist = Append(@, PickList[n]),
                                ![HostDevice].index = Len(devices[HostDevice].playlist) + 1,
                                ![HostDevice].playing = FALSE]
  /\ Send(HostDevice, <<Event("toggle", FALSE), Event("local", PickList[n])>>)
  /\ UNCHANGED <<down, latePosts, playback, counts, overlaps, raced, uploadVars>>

(* The server gets the request of a song that was picked.                  *)
HostUpload(u) ==
  /\ u \in 1 .. counts.picks
  /\ Begin(u) \/ Refuse(u)
  /\ UNCHANGED playVars

(* Uploads that are not the host's belong to other parties. *)
OtherParty(u) ==
  /\ u \notin DOMAIN PickList
  /\ Begin(u) \/ Refuse(u)
  /\ Count("others")
  /\ UNCHANGED <<devices, up, down, latePosts, playback, pickVars, raced>>

UploadGoesOn(u) ==
  /\ Written(u) \/ Rename(u)
  /\ UNCHANGED playVars

PartyNext ==
  \/ \E g \in GuestDevices : Join(g) \/ SyncPlayback(g)
  \/ StartParty \/ Toggle \/ PickSong \/ \E n \in DOMAIN PickList : Announce(n)
  \/ \E d \in Devices : HandleEvent(d) \/ Read(d) \/ Loaded(d) \/ RoomAnswer(d) \/ SongEnds(d)
  \/ \E u \in Uploads : HostUpload(u) \/ OtherParty(u) \/ UploadGoesOn(u)

PartySpec == PartyInit /\ [][PartyNext]_partyVars

(* Events on open connections arrive and are handled, requests are         *)
(* answered and the audio player's calls end (they have timeouts).         *)
PartyFairness ==
  /\ \A d \in Devices : WF_partyVars(HandleEvent(d)) /\ WF_partyVars(Read(d))
                        /\ WF_partyVars(Loaded(d)) /\ WF_partyVars(RoomAnswer(d))

PartyFairSpec == PartySpec /\ PartyFairness

-----------------------------------------------------------------------------
TitleOf(dev, i) == IF i \in 1 .. Len(dev.playlist) THEN dev.playlist[i] ELSE NoTitle

(* The title the room's record stands for: that of a local song, or the    *)
(* one the index has in the host's list.                                   *)
RoomTitle ==
  IF playback.title # NoTitle THEN playback.title ELSE TitleOf(devices[HostDevice], playback.index)

Repeated == \E i, j \in DOMAIN devices[HostDevice].playlist :
              i # j /\ devices[HostDevice].playlist[i] = devices[HostDevice].playlist[j]

(* However events, answers and loading songs interleave, every guest in    *)
(* the player ends up with the song and the play state of the Node         *)
(* server's room -- late guests' questions, which make the host send his   *)
(* song's index in a list of his own, included.  The exceptions are the    *)
(* guest's own doing: a toggle that came while it was loading a song and   *)
(* is overwritten when that ends, the answer of the Rust server resetting  *)
(* a song already announced, an end of its song that crossed another       *)
(* event; a title picked twice, which shifts the indices; and the Rust     *)
(* server's post, after which the room has no song until the next is       *)
(* announced (player_screen.dart:119-206, 280-435, socketHandler.js:78-140,*)
(* roomController.js:118-137).                                             *)
Settles ==
  \A g \in GuestDevices :
    <>[](\/ devices[g].screen # "player" \/ g \in raced \/ Repeated \/ playback.posted
         \/ /\ devices[g].playing = playback.playing
            /\ TitleOf(devices[g], devices[g].index) = RoomTitle)

(* One was picked before the other was over. *)
Together(m, n) == <<m, n>> \in overlaps \/ <<n, m>> \in overlaps

(* song.mp3 is always one upload from beginning to end, never a part of    *)
(* one or a mixture, whatever uploads are going on.  And when the last     *)
(* announced song has been stored, the file is that song, or a newer one   *)
(* still to be announced, or another party's -- or one whose upload was    *)
(* going on together with that of the announced one: the host may pick     *)
(* again before an answer, and either file may be the last to be renamed.  *)
(* A song that was over when the announced one was picked never comes back *)
(* (server.js:65-83, player_screen.dart:437-486).  Provided no two uploads *)
(* got the same millisecond.                                               *)
ServedSong ==
  SharedName \/
    /\ song # 0 => Whole(song)
    /\ announced # 0 /\ uploads[announced].at = "stored"
       => \E u \in writers[song] :
            u = announced \/ u \in awaited \/ u \notin DOMAIN PickList \/ Together(u, announced)

Quiet ==
  /\ awaited = {}
  /\ \A d \in Devices : up[d] = <<>> /\ down[d] = <<>> /\ devices[d].loads = 0
                        /\ ~devices[d].asked

(* socketHandler.js:80 asks the host for the playback status "so the guest *)
(* is synced immediately": when all is delivered, a guest who joined the   *)
(* party shows the host's song.                                            *)
LateGuestSynced ==
  Quiet => \A g \in Late :
    devices[g].screen # "away" /\ devices[HostDevice].index # 0
      => TitleOf(devices[g], devices[g].index) = TitleOf(devices[HostDevice], devices[HostDevice].index)
=============================================================================
