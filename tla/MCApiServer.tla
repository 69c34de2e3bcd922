---------------------------- MODULE MCApiServer ----------------------------
EXTENDS ApiServer

CONSTANTS c1, c2, c3

(* Three users, and one of them twice, or as nobody. *)
Users == (c1 :> {<<"a">>}) @@ (c2 :> {<<Backslash, "n">>}) @@ (c3 :> {<<"a", Quote>>, <<Quote>>})

(* An ordinary request, and one that fails for its header or its body. *)
SomeShapes == {[head |-> 1, body |-> 2, announced |-> 2],
               [head |-> 3, body |-> 1, announced |-> 3]}

(* Reading undoes writing, up to the first quotation mark. *)
ShortTexts == UNION {[1 .. n -> Chars] : n \in 0 .. 4}

ASSUME \A text \in ShortTexts :
  TextRead(text) = IF Quote \in Range(text) THEN UpToQuote(text) ELSE text
=============================================================================
