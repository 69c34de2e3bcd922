----------------------------- MODULE SongUpload -----------------------------
(***************************************************************************)
(* The upload route of the Node server (backend/server.js:45-84): a        *)
(* request's body is written to a temporary file named after the           *)
(* millisecond, which is then renamed to song.mp3, the file all parties    *)
(* fetch.                                                                  *)
(*                                                                         *)
(* The file system is external, and its calls take time: uploads           *)
(* interleave between them.  Writing to an existing name truncates and     *)
(* goes to the same file, also if that is renamed meanwhile; renaming      *)
(* replaces the target at once.                                            *)
(***************************************************************************)
EXTENDS Naturals, FiniteSets

CONSTANTS Uploads      \* the upload requests, numbered from 1

ASSUME UploadAssumption == Uploads \subseteq Nat \ {0} /\ IsFiniteSet(Uploads)

VARIABLES
  uploads,   \* per request: where its handler is, the name it made, the file it writes
  named,     \* directory: the file under each temporary name; 0 for none
  song,      \* directory: the file under song.mp3; 0 for none
  writers,   \* per file: the uploads its content comes from
  clock      \* Date.now()

uploadVars == <<uploads, named, song, writers, clock>>

Names == 1 .. Cardinality(Uploads)

UploadInit ==
  /\ uploads = [u \in Uploads |-> [at |-> "none", name |-> 0, file |-> 0]]
  /\ named = [n \in Names |-> 0] /\ song = 0
  /\ writers = [f \in Uploads |-> {}]
  /\ clock = 0

(* A body without audio is refused, a request cut off is never handled. *)
Refuse(u) ==
  /\ uploads[u].at = "none"
  /\ uploads' = [uploads EXCEPT ![u].at = "failed"]
  /\ UNCHANGED <<named, song, writers, clock>>

Writing(f) == {u \in Uploads : uploads[u].at = "write" /\ uploads[u].file = f}

(* Mutant: the song itself is written. *)
BeginInPlace(u) ==
  /\ uploads[u].at = "none"
  /\ LET f == IF song = 0 THEN u ELSE song
     IN  /\ song' = f
         /\ uploads' = [uploads EXCEPT ![u] = [at |-> "write", name |-> clock, file |-> f]]
         /\ writers' = [writers EXCEPT ![f] = Writing(f) \cup {u}]
  /\ UNCHANGED <<named, clock>>

(* tempPath -- the millisecond may be that of the upload before -- and     *)
(* fs.writeFile, which opens and truncates that file, or makes one.        *)
Begin(u) ==
  /\ uploads[u].at = "none"
  /\ \E now \in Names \cap {clock, clock + 1} :
       LET f == IF named[now] = 0 THEN u ELSE named[now]
       IN  /\ clock' = now
           /\ named' = [named EXCEPT ![now] = f]
           /\ uploads' = [uploads EXCEPT ![u] = [at |-> "write", name |-> now, file |-> f]]
           /\ writers' = [writers EXCEPT ![f] = Writing(f) \cup {u}]
  /\ UNCHANGED song

(* All of the body is written, or writing fails and leaves the file. *)
Written(u) ==
  /\ uploads[u].at = "write"
  /\ \/ uploads' = [uploads EXCEPT ![u].at = "rename"]
     \/ uploads' = [uploads EXCEPT ![u].at = "failed"]
  /\ UNCHANGED <<named, song, writers, clock>>

(* fs.rename; a failure removes the temporary file.  It fails when an      *)
(* upload with the same name was first.                                    *)
Rename(u) ==
  LET n == uploads[u].name
  IN  /\ uploads[u].at = "rename"
      /\ \/ /\ named[n] # 0
            /\ song' = named[n]
            /\ uploads' = [uploads EXCEPT ![u].at = "stored"]
         \/ /\ uploads' = [uploads EXCEPT ![u].at = "failed"]
            /\ UNCHANGED song
      /\ named' = [named EXCEPT ![n] = 0]
      /\ UNCHANGED <<writers, clock>>

(* A file is whole when it is one upload's and that has ended its writing. *)
(* (A failed write leaves a file nobody renames, unless names are shared.) *)
Whole(f) == Writing(f) = {} /\ \E u \in Uploads : writers[f] = {u}

SharedName ==
  \E u, v \in Uploads :
    u # v /\ 0 \notin {uploads[u].file, uploads[v].file} /\ uploads[u].name = uploads[v].name
=============================================================================
