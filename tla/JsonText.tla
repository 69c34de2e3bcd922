------------------------------ MODULE JsonText ------------------------------
(***************************************************************************)
(* How a text comes through the Rust server's own reading and writing of   *)
(* JSON (api_server/src/main.rs).  A text is a sequence of characters;     *)
(* those that are escaped matter, and the letter that stands for one.      *)
(***************************************************************************)
EXTENDS Naturals, SequencesExt

Quote == "\""
Backslash == "\\"
Newline == "\n"

(* Tabs and carriage returns are like newlines. *)
Chars == {Quote, Backslash, Newline, "n", "a", "b"}
Texts == Seq(Chars)

Escapes(ch) ==
  IF ch \in {Quote, Backslash} THEN <<Backslash, ch>>
  ELSE IF ch = Newline THEN <<Backslash, "n">>
  ELSE <<ch>>

(* Clients escape as the server does. *)
JsonEscape(text) == FlattenSeq([i \in 1 .. Len(text) |-> Escapes(text[i])])

(* What an escaped character stands for. *)
Meant(ch) == IF ch = "n" THEN Newline ELSE ch

JsonUnescape(raw) ==
  FoldLeft(LAMBDA read, ch :
             IF read.escaped THEN [text |-> Append(read.text, Meant(ch)), escaped |-> FALSE]
             ELSE IF ch = Backslash THEN [text |-> read.text, escaped |-> TRUE]
             ELSE [text |-> Append(read.text, ch), escaped |-> FALSE],
           [text |-> <<>>, escaped |-> FALSE], raw).text

UpToQuote(raw) ==
  SubSeq(raw, 1, SelectInSeq(raw, LAMBDA ch : ch = Quote) - 1)

(* The value that follows its opening quotation mark: it ends with the     *)
(* next one, escaped or not.                                               *)
JsonStringValue(raw) == JsonUnescape(UpToQuote(raw))

(* What the server takes a text to be that a client sends. *)
TextRead(text) == JsonStringValue(JsonEscape(text) \o <<Quote>>)
=============================================================================
