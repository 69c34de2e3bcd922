------------------------------ MODULE ApiProofs ------------------------------
(***************************************************************************)
(* Proofs about ApiServer for any connections, names, shapes of requests   *)
(* and limits: what the answers and the posts promise, as long as no two   *)
(* rooms were given one number, and without that condition where it is not *)
(* needed; and that what is written as JSON is read back.                  *)
(***************************************************************************)
EXTENDS ApiServer, SequenceTheorems, WellFoundedInduction, TLAPS

-----------------------------------------------------------------------------
(* Texts through JSON: what is so of every text, by induction over its     *)
(* characters.                                                             *)

LEMMA Induction ==
  ASSUME NEW S, 0 \in S, \A n \in Nat : n \in S => n + 1 \in S
  PROVE  Nat \subseteq S
<1> DEFINE T == Nat \ S
<1>1. SUFFICES ASSUME T # {} PROVE FALSE
  OBVIOUS
<1>2. PICK w \in T : \A v \in T : ~(<<v, w>> \in OpToRel(<, Nat))
  BY <1>1, NatLessThanWellFounded, WFMin, Zenon
<1>3. w # 0 /\ w - 1 \in Nat
  OBVIOUS
<1>4. <<w - 1, w>> \in OpToRel(<, Nat)
  BY <1>3 DEF OpToRel
<1>5. w - 1 \notin T
  BY <1>2, <1>4, Zenon
<1>6. (w - 1) + 1 \in S
  BY <1>3, <1>5
<1>7. QED
  BY <1>6

(* A text is empty, or one more character after a text. *)
LEMMA TextInduction ==
  ASSUME NEW S, <<>> \in S, \A t \in Texts, ch \in Chars : t \in S => Append(t, ch) \in S
  PROVE  Texts \subseteq S
<1> DEFINE L == {n \in Nat : \A t \in Texts : Len(t) = n => t \in S}
<1>1. 0 \in L
  <2>1. ASSUME NEW t \in Texts, Len(t) = 0 PROVE t = <<>>
    BY <2>1, EmptySeq DEF Texts
  <2>2. QED
    BY <2>1
<1>2. ASSUME NEW n \in Nat, n \in L
      PROVE  n + 1 \in L
  <2>1. SUFFICES ASSUME NEW t \in Texts, Len(t) = n + 1 PROVE t \in S
    OBVIOUS
  <2> DEFINE front == SubSeq(t, 1, n)
  <2>2. front \in Seq(Chars) /\ Len(front) = n /\ \A i \in 1 .. n : front[i] = t[i]
    BY <2>1 DEF Texts
  <2>3. t[n + 1] \in Chars /\ t \in Seq(Chars)
    BY <2>1 DEF Texts
  <2> HIDE DEF front
  <2>4. Append(front, t[n + 1]) = t
    BY <2>1, <2>2, <2>3
  <2>5. front \in S
    BY <1>2, <2>2 DEF Texts
  <2>6. QED
    BY <2>2, <2>3, <2>4, <2>5 DEF Texts
<1> HIDE DEF L
<1>3. Nat \subseteq L
  BY <1>1, <1>2, Induction
<1>4. QED
  BY <1>3 DEF L, Texts

-----------------------------------------------------------------------------
Start == [text |-> <<>>, escaped |-> FALSE]

(* One character of the loop in json_unescape. *)
Reads(read, ch) ==
  IF read.escaped THEN [text |-> Append(read.text, Meant(ch)), escaped |-> FALSE]
  ELSE IF ch = Backslash THEN [text |-> read.text, escaped |-> TRUE]
  ELSE [text |-> Append(read.text, ch), escaped |-> FALSE]

Folding(f, raw) ==
  f = [s \in SUBSET DOMAIN raw |->
         IF s = {} THEN Start ELSE Reads(f[s \ {Max(s)}], raw[Max(s)])]

(* The state of the loop behind the last character. *)
Loop(raw) == (CHOOSE f : Folding(f, raw))[DOMAIN raw]

LEMMA Unfold ==
  ASSUME NEW raw
  PROVE  JsonUnescape(raw) = Loop(raw).text
BY Zenon DEF JsonUnescape, FoldLeft, MapThenFoldSet, Folding, Reads, Start, Loop

LEMMA LastIsMax ==
  ASSUME NEW k \in Nat, NEW s \in SUBSET (1 .. k), k \in s
  PROVE  Max(s) = k
<1>1. k \in s /\ \A y \in s : k >= y
  OBVIOUS
<1>2. \A x \in s : (\A y \in s : x >= y) => x = k
  BY <1>1
<1>3. QED
  BY <1>1, <1>2 DEF Max

LEMMA FoldExists ==
  ASSUME NEW n \in Nat, NEW raw, DOMAIN raw = 1 .. n
  PROVE  \E f : Folding(f, raw)
<1> DEFINE Of(f, k) == f = [s \in SUBSET (1 .. k) |->
                              IF s = {} THEN Start ELSE Reads(f[s \ {Max(s)}], raw[Max(s)])]
           S == {k \in Nat : \E f : Of(f, k)}
<1>1. 0 \in S
  <2> DEFINE f == [s \in SUBSET (1 .. 0) |-> Start]
  <2>1. SUBSET (1 .. 0) = {{}}
    OBVIOUS
  <2>2. Of(f, 0)
    BY <2>1
  <2>3. QED
    BY <2>2
<1>2. ASSUME NEW k \in Nat, k \in S
      PROVE  k + 1 \in S
  <2>1. PICK f : Of(f, k)
    BY <1>2
  <2> DEFINE g == [s \in SUBSET (1 .. k + 1) |->
                     IF k + 1 \in s THEN Reads(f[s \ {k + 1}], raw[k + 1]) ELSE f[s]]
  <2>2. ASSUME NEW s \in SUBSET (1 .. k + 1)
        PROVE  g[s] = IF s = {} THEN Start ELSE Reads(g[s \ {Max(s)}], raw[Max(s)])
    <3>1. CASE k + 1 \in s
      <4>1. Max(s) = k + 1
        BY <3>1, LastIsMax
      <4>2. s \ {k + 1} \in SUBSET (1 .. k + 1) /\ k + 1 \notin s \ {k + 1} /\ s # {}
        BY <3>1
      <4>3. QED
        BY <3>1, <4>1, <4>2
    <3>2. CASE k + 1 \notin s
      <4>1. s \in SUBSET (1 .. k)
        BY <3>2
      <4>2. f[s] = IF s = {} THEN Start ELSE Reads(f[s \ {Max(s)}], raw[Max(s)])
        BY <2>1, <4>1
      <4>3. s \ {Max(s)} \in SUBSET (1 .. k + 1) /\ k + 1 \notin s \ {Max(s)}
        BY <3>2
      <4>4. QED
        BY <3>2, <4>2, <4>3
    <3>3. QED
      BY <3>1, <3>2
  <2>3. Of(g, k + 1)
    BY <2>2
  <2> HIDE DEF Of, g
  <2>4. QED
    BY <2>3
<1> HIDE DEF S
<1>3. n \in S
  BY <1>1, <1>2, Induction
<1>4. QED
  BY <1>3 DEF S, Folding

LEMMA LoopUnfolded ==
  ASSUME NEW n \in Nat, NEW raw, DOMAIN raw = 1 .. n
  PROVE  \E f : /\ f[{}] = Start
                /\ \A k \in 1 .. n : f[1 .. k] = Reads(f[1 .. k - 1], raw[k])
                /\ Loop(raw) = f[1 .. n]
<1>1. PICK f : f = (CHOOSE g : Folding(g, raw))
  OBVIOUS
<1>2. Folding(f, raw)
  BY <1>1, FoldExists, Zenon
<1>3. f[{}] = Start
  BY <1>2 DEF Folding
<1>4. ASSUME NEW k \in 1 .. n
      PROVE  f[1 .. k] = Reads(f[1 .. k - 1], raw[k])
  <2>1. 1 .. k \in SUBSET DOMAIN raw /\ 1 .. k # {} /\ (1 .. k) \ {k} = 1 .. k - 1
    OBVIOUS
  <2>2. Max(1 .. k) = k
    BY LastIsMax
  <2>3. QED
    BY <1>2, <2>1, <2>2 DEF Folding
<1>5. Loop(raw) = f[1 .. n]
  BY <1>1 DEF Loop
<1>6. QED
  BY <1>3, <1>4, <1>5

LEMMA LoopStart == Loop(<<>>) = Start
<1>1. DOMAIN <<>> = 1 .. 0 /\ 1 .. 0 = {}
  OBVIOUS
<1>2. PICK f : f[{}] = Start /\ Loop(<<>>) = f[1 .. 0]
  BY <1>1, LoopUnfolded
<1>3. QED
  BY <1>1, <1>2

LEMMA LoopNext ==
  ASSUME NEW raw \in Texts, NEW ch \in Chars
  PROVE  Loop(Append(raw, ch)) = Reads(Loop(raw), ch)
<1> DEFINE n == Len(raw)
           more == Append(raw, ch)
<1>1. /\ n \in Nat /\ DOMAIN raw = 1 .. n /\ DOMAIN more = 1 .. n + 1
      /\ more[n + 1] = ch /\ \A k \in 1 .. n : more[k] = raw[k]
  BY DEF Texts
<1> HIDE DEF n, more
<1>2. PICK f : /\ f[{}] = Start
               /\ \A k \in 1 .. n : f[1 .. k] = Reads(f[1 .. k - 1], raw[k])
               /\ Loop(raw) = f[1 .. n]
  BY <1>1, LoopUnfolded
<1>3. PICK g : /\ g[{}] = Start
               /\ \A k \in 1 .. n + 1 : g[1 .. k] = Reads(g[1 .. k - 1], more[k])
               /\ Loop(more) = g[1 .. n + 1]
  BY <1>1, LoopUnfolded
<1> DEFINE S == {k \in Nat : k > n \/ f[1 .. k] = g[1 .. k]}
<1>4. 0 \in S
  <2>1. 1 .. 0 = {}
    OBVIOUS
  <2>2. QED
    BY <1>2, <1>3, <2>1
<1>5. ASSUME NEW k \in Nat, k \in S
      PROVE  k + 1 \in S
  <2>1. SUFFICES ASSUME k < n PROVE f[1 .. k + 1] = g[1 .. k + 1]
    BY <1>1
  <2>2. k + 1 \in 1 .. n /\ k + 1 \in 1 .. n + 1 /\ (k + 1) - 1 = k
    BY <1>1, <2>1
  <2>3. f[1 .. k + 1] = Reads(f[1 .. k], raw[k + 1])
    BY <1>2, <2>2
  <2>4. g[1 .. k + 1] = Reads(g[1 .. k], more[k + 1])
    BY <1>3, <2>2
  <2>5. f[1 .. k] = g[1 .. k]
    BY <1>1, <1>5, <2>1
  <2>6. QED
    BY <1>1, <2>2, <2>3, <2>4, <2>5
<1> HIDE DEF S
<1>6. n \in S
  BY <1>1, <1>4, <1>5, Induction
<1>7. f[1 .. n] = g[1 .. n]
  BY <1>1, <1>6 DEF S
<1>8. n + 1 \in 1 .. n + 1 /\ (n + 1) - 1 = n
  BY <1>1
<1>9. Loop(more) = Reads(g[1 .. n], ch)
  BY <1>1, <1>3, <1>8
<1>10. QED
  BY <1>2, <1>7, <1>9 DEF more

-----------------------------------------------------------------------------
(* json_escape, one character after the other *)

LEMMA EscapesFacts ==
  ASSUME NEW ch \in Chars
  PROVE  \/ Escapes(ch) = <<ch>> /\ ch # Backslash /\ ch # Quote
         \/ \E x \in Chars : /\ Escapes(ch) = <<Backslash, x>> /\ Meant(x) = ch
                             /\ x = Quote <=> ch = Quote
<1>1. Quote # Backslash /\ Quote # Newline /\ Backslash # Newline
      /\ Quote # "n" /\ Backslash # "n"
  BY DEF Quote, Backslash, Newline
<1>2. CASE ch \in {Quote, Backslash}
  BY <1>1, <1>2 DEF Escapes, Meant
<1>3. CASE ch = Newline
  BY <1>1, <1>3 DEF Escapes, Meant, Chars
<1>4. CASE ch \notin {Quote, Backslash, Newline}
  BY <1>4 DEF Escapes
<1>5. QED
  BY <1>2, <1>3, <1>4

LEMMA EscapesType ==
  ASSUME NEW ch \in Chars
  PROVE  Escapes(ch) \in Texts
<1>1. Backslash \in Chars /\ "n" \in Chars
  BY DEF Chars
<1>2. <<ch>> \in Seq(Chars) /\ <<Backslash, ch>> \in Seq(Chars) /\ <<Backslash, "n">> \in Seq(Chars)
  BY <1>1
<1>3. QED
  BY <1>2, Zenon DEF Escapes, Texts

(* The pieces of FlattenSeq. *)
Pieces(e, seqs, n) ==
  \A i \in 1 .. n : e[i] = IF i = 1 THEN seqs[i] ELSE e[i - 1] \o seqs[i]

LEMMA PiecesExist ==
  ASSUME NEW n \in Nat, NEW seqs
  PROVE  \E e : e = [i \in 1 .. n |-> IF i = 1 THEN seqs[i] ELSE e[i - 1] \o seqs[i]]
<1> DEFINE Of(e, k) == e = [i \in 1 .. k |-> IF i = 1 THEN seqs[i] ELSE e[i - 1] \o seqs[i]]
           S == {k \in Nat : \E e : Of(e, k)}
<1>1. 0 \in S
  <2>1. Of([i \in 1 .. 0 |-> 0], 0)
    OBVIOUS
  <2>2. QED
    BY <2>1
<1>2. ASSUME NEW k \in Nat, k \in S
      PROVE  k + 1 \in S
  <2>1. PICK e : Of(e, k)
    BY <1>2
  <2> DEFINE g == [i \in 1 .. k + 1 |->
                     IF i = k + 1 THEN IF k = 0 THEN seqs[1] ELSE e[k] \o seqs[k + 1] ELSE e[i]]
  <2>2. ASSUME NEW i \in 1 .. k + 1
        PROVE  g[i] = IF i = 1 THEN seqs[i] ELSE g[i - 1] \o seqs[i]
    <3>1. CASE i = k + 1
      BY <3>1
    <3>2. CASE i # k + 1
      <4>1. i \in 1 .. k /\ i - 1 \in 0 .. k - 1
        BY <3>2
      <4>2. e[i] = IF i = 1 THEN seqs[i] ELSE e[i - 1] \o seqs[i]
        BY <2>1, <4>1
      <4>3. g[i] = e[i] /\ (i # 1 => g[i - 1] = e[i - 1])
        BY <4>1
      <4>4. QED
        BY <4>2, <4>3
    <3>3. QED
      BY <3>1, <3>2
  <2>3. Of(g, k + 1)
    BY <2>2
  <2> HIDE DEF Of, g
  <2>4. QED
    BY <2>3
<1> HIDE DEF S
<1>3. n \in S
  BY <1>1, <1>2, Induction
<1>4. QED
  BY <1>3 DEF S

LEMMA FlattenUnfolded ==
  ASSUME NEW n \in Nat, NEW seqs, Len(seqs) = n
  PROVE  /\ n = 0 => FlattenSeq(seqs) = seqs
         /\ n > 0 => \E e : Pieces(e, seqs, n) /\ FlattenSeq(seqs) = e[n]
<1> DEFINE Of(e) == e = [i \in 1 .. n |-> IF i = 1 THEN seqs[i] ELSE e[i - 1] \o seqs[i]]
           flatten == CHOOSE e : Of(e)
<1>1. Of(flatten)
  BY PiecesExist, Zenon
<1>2. n # 0 => FlattenSeq(seqs) = flatten[n]
  BY Zenon DEF FlattenSeq
<1>3. n = 0 => FlattenSeq(seqs) = seqs
  BY Zenon DEF FlattenSeq
<1> HIDE DEF flatten
<1>4. Pieces(flatten, seqs, n)
  BY <1>1 DEF Pieces
<1>5. QED
  BY <1>2, <1>3, <1>4

LEMMA EscapeNone == JsonEscape(<<>>) = <<>>
<1>1. PICK seqs : seqs = [i \in 1 .. 0 |-> Escapes(<<>>[i])]
  OBVIOUS
<1>2. Len(seqs) = 0 /\ seqs = <<>>
  BY <1>1
<1>3. JsonEscape(<<>>) = FlattenSeq(seqs)
  BY <1>1 DEF JsonEscape
<1>4. QED
  BY <1>2, <1>3, FlattenUnfolded

LEMMA EscapeNext ==
  ASSUME NEW text \in Texts, NEW ch \in Chars
  PROVE  JsonEscape(Append(text, ch)) =
           IF Len(text) = 0 THEN Escapes(ch) ELSE JsonEscape(text) \o Escapes(ch)
<1> DEFINE n == Len(text)
           more == Append(text, ch)
           a == [i \in 1 .. n |-> Escapes(text[i])]
           b == [i \in 1 .. n + 1 |-> Escapes(more[i])]
<1>1. /\ n \in Nat /\ Len(more) = n + 1
      /\ more[n + 1] = ch /\ \A k \in 1 .. n : more[k] = text[k]
  BY DEF Texts
<1>2. /\ Len(a) = n /\ Len(b) = n + 1 /\ b[n + 1] = Escapes(ch)
      /\ \A k \in 1 .. n : b[k] = a[k]
  BY <1>1
<1>3. JsonEscape(text) = FlattenSeq(a) /\ JsonEscape(more) = FlattenSeq(b)
  BY <1>1 DEF JsonEscape
<1> HIDE DEF n, more, a, b
<1>4. PICK g : Pieces(g, b, n + 1) /\ FlattenSeq(b) = g[n + 1]
  BY <1>1, <1>2, FlattenUnfolded
<1>5. CASE n = 0
  BY <1>2, <1>3, <1>4, <1>5 DEF Pieces, n, more
<1>6. CASE n > 0
  <2>1. PICK f : Pieces(f, a, n) /\ FlattenSeq(a) = f[n]
    BY <1>1, <1>2, <1>6, FlattenUnfolded
  <2> DEFINE S == {k \in Nat : k + 1 > n \/ f[k + 1] = g[k + 1]}
  <2>2. 0 \in S
    BY <1>1, <1>2, <1>4, <1>6, <2>1 DEF Pieces
  <2>3. ASSUME NEW k \in Nat, k \in S
        PROVE  k + 1 \in S
    <3>1. SUFFICES ASSUME k + 2 <= n PROVE f[k + 2] = g[k + 2]
      BY <1>1
    <3>2. k + 2 \in 1 .. n /\ k + 2 \in 1 .. n + 1 /\ (k + 2) - 1 = k + 1 /\ k + 2 # 1
      BY <1>1, <3>1
    <3>3. f[k + 2] = f[k + 1] \o a[k + 2]
      BY <2>1, <3>2 DEF Pieces
    <3>4. g[k + 2] = g[k + 1] \o b[k + 2]
      BY <1>4, <3>2 DEF Pieces
    <3>5. f[k + 1] = g[k + 1] /\ a[k + 2] = b[k + 2]
      BY <1>1, <1>2, <2>3, <3>1, <3>2
    <3>6. QED
      BY <3>3, <3>4, <3>5
  <2> HIDE DEF S
  <2>4. n - 1 \in S
    BY <1>1, <1>6, <2>2, <2>3, Induction
  <2>5. f[n] = g[n]
    BY <1>1, <1>6, <2>4 DEF S
  <2>6. n + 1 \in 1 .. n + 1 /\ n + 1 # 1 /\ (n + 1) - 1 = n
    BY <1>1, <1>6
  <2>7. g[n + 1] = g[n] \o b[n + 1]
    BY <1>4, <2>6 DEF Pieces
  <2>8. QED
    BY <1>2, <1>3, <1>4, <1>6, <2>1, <2>5, <2>7 DEF n, more
<1>7. QED
  BY <1>1, <1>5, <1>6

-----------------------------------------------------------------------------
LEMMA EscapeAppend ==
  ASSUME NEW text \in Texts, JsonEscape(text) \in Texts, NEW ch \in Chars
  PROVE  JsonEscape(Append(text, ch)) = JsonEscape(text) \o Escapes(ch)
<1>1. CASE Len(text) = 0
  <2>1. text = <<>>
    BY <1>1, EmptySeq DEF Texts
  <2>2. Escapes(ch) \in Seq(Chars)
    BY EscapesType DEF Texts
  <2>3. QED
    BY <1>1, <2>1, <2>2, EscapeNext, EscapeNone, ConcatEmptySeq
<1>2. CASE Len(text) # 0
  BY <1>2, EscapeNext
<1>3. QED
  BY <1>1, <1>2

LEMMA EscapedType ==
  ASSUME NEW text \in Texts
  PROVE  JsonEscape(text) \in Texts
<1> DEFINE S == {t \in Texts : JsonEscape(t) \in Texts}
<1>1. <<>> \in S
  <2>1. <<>> \in Texts
    BY DEF Texts
  <2>2. QED
    BY <2>1, EscapeNone
<1>2. ASSUME NEW t \in Texts, NEW ch \in Chars, t \in S
      PROVE  Append(t, ch) \in S
  <2>1. JsonEscape(t) \in Seq(Chars) /\ Escapes(ch) \in Seq(Chars)
    BY <1>2, EscapesType DEF Texts
  <2>2. JsonEscape(Append(t, ch)) = JsonEscape(t) \o Escapes(ch)
    BY <1>2, EscapeAppend
  <2>3. Append(t, ch) \in Texts
    BY DEF Texts
  <2>4. JsonEscape(t) \o Escapes(ch) \in Seq(Chars)
    BY <2>1, ConcatProperties
  <2>5. QED
    BY <2>2, <2>3, <2>4 DEF Texts
<1> HIDE DEF S
<1>3. Texts \subseteq S
  BY <1>1, <1>2, TextInduction
<1>4. QED
  BY <1>3 DEF S

LEMMA ReadsFacts ==
  ASSUME NEW text, NEW ch
  PROVE  /\ Reads([text |-> text, escaped |-> TRUE], ch)
              = [text |-> Append(text, Meant(ch)), escaped |-> FALSE]
         /\ ch = Backslash =>
              Reads([text |-> text, escaped |-> FALSE], ch) = [text |-> text, escaped |-> TRUE]
         /\ ch # Backslash =>
              Reads([text |-> text, escaped |-> FALSE], ch)
                = [text |-> Append(text, ch), escaped |-> FALSE]
BY DEF Reads

(* The last character read from what a character is written as is it. *)
LEMMA ReadsEscapes ==
  ASSUME NEW raw \in Texts, NEW ch \in Chars, NEW text \in Texts,
         Loop(raw) = [text |-> text, escaped |-> FALSE]
  PROVE  Loop(raw \o Escapes(ch)) = [text |-> Append(text, ch), escaped |-> FALSE]
<1>1. CASE Escapes(ch) = <<ch>> /\ ch # Backslash
  <2>1. raw \o <<ch>> = Append(raw, ch)
    BY AppendIsConcat DEF Texts
  <2>2. Loop(Append(raw, ch)) = Reads(Loop(raw), ch)
    BY LoopNext
  <2>3. QED
    BY <1>1, <2>1, <2>2, ReadsFacts
<1>2. ASSUME NEW x \in Chars, Escapes(ch) = <<Backslash, x>>, Meant(x) = ch
      PROVE  Loop(raw \o Escapes(ch)) = [text |-> Append(text, ch), escaped |-> FALSE]
  <2>1. Backslash \in Chars
    BY DEF Chars
  <2>2. raw \o <<Backslash, x>> = Append(Append(raw, Backslash), x) /\ Append(raw, Backslash) \in Texts
    BY <2>1 DEF Texts
  <2>3. Loop(Append(raw, Backslash)) = Reads(Loop(raw), Backslash)
    BY <2>1, LoopNext
  <2>4. Loop(Append(raw, Backslash)) = [text |-> text, escaped |-> TRUE]
    BY <2>3, ReadsFacts
  <2>5. Loop(Append(Append(raw, Backslash), x)) = Reads([text |-> text, escaped |-> TRUE], x)
    BY <2>2, <2>4, LoopNext
  <2>6. QED
    BY <1>2, <2>2, <2>5, ReadsFacts
<1>3. QED
  BY <1>1, <1>2, EscapesFacts

(* What is read of a text that was written is the text. *)
LEMMA LoopOfEscaped ==
  ASSUME NEW text \in Texts
  PROVE  Loop(JsonEscape(text)) = [text |-> text, escaped |-> FALSE]
<1> DEFINE S == {t \in Texts : Loop(JsonEscape(t)) = [text |-> t, escaped |-> FALSE]}
<1>1. <<>> \in S
  <2>1. <<>> \in Texts
    BY DEF Texts
  <2>2. QED
    BY <2>1, EscapeNone, LoopStart, Zenon DEF Start
<1>2. ASSUME NEW t \in Texts, NEW ch \in Chars, t \in S
      PROVE  Append(t, ch) \in S
  <2>1. JsonEscape(t) \in Texts /\ Append(t, ch) \in Texts
    BY EscapedType DEF Texts
  <2>2. JsonEscape(Append(t, ch)) = JsonEscape(t) \o Escapes(ch)
    BY <2>1, EscapeAppend
  <2>3. Loop(JsonEscape(t) \o Escapes(ch)) = [text |-> Append(t, ch), escaped |-> FALSE]
    BY <1>2, <2>1, ReadsEscapes
  <2>4. QED
    BY <2>1, <2>2, <2>3
<1> HIDE DEF S
<1>3. Texts \subseteq S
  BY <1>1, <1>2, TextInduction
<1>4. QED
  BY <1>3 DEF S

(* Reading undoes writing (main.rs:304-335). *)
LEMMA UnescapeEscaped ==
  ASSUME NEW text \in Texts
  PROVE  JsonUnescape(JsonEscape(text)) = text
BY Unfold, LoopOfEscaped

-----------------------------------------------------------------------------
(* Up to the quotation mark *)

Plain(raw) == \A i \in 1 .. Len(raw) : raw[i] # Quote

LEMMA UpToFirstQuote ==
  ASSUME NEW raw \in Texts, Plain(raw), NEW rest \in Texts
  PROVE  UpToQuote((raw \o <<Quote>>) \o rest) = raw
<1> DEFINE n == Len(raw)
           t == (raw \o <<Quote>>) \o rest
           I == {i \in 1 .. Len(t) : t[i] = Quote}
<1>1. Quote \in Chars
  BY DEF Chars
<1>2. /\ n \in Nat /\ Len(rest) \in Nat /\ t \in Seq(Chars) /\ Len(t) = n + 1 + Len(rest)
      /\ t[n + 1] = Quote /\ \A i \in 1 .. n : t[i] = raw[i]
  BY <1>1 DEF Texts
<1> HIDE DEF t
<1>3. n + 1 \in I /\ \A i \in I : n + 1 <= i
  BY <1>2 DEF Plain
<1>4. \A x \in I : (\A y \in I : x <= y) => x = n + 1
  BY <1>3
<1>5. Min(I) = n + 1
  BY <1>3, <1>4 DEF Min
<1>6. SelectInSeq(t, LAMBDA ch : ch = Quote) = n + 1
  BY <1>3, <1>5, Zenon DEF SelectInSeq
<1>7. UpToQuote(t) = SubSeq(t, 1, (n + 1) - 1)
  BY <1>6, Zenon DEF UpToQuote
<1>8. SubSeq(t, 1, n) \in Seq(Chars) /\ Len(SubSeq(t, 1, n)) = n
      /\ \A i \in 1 .. n : SubSeq(t, 1, n)[i] = raw[i]
  BY <1>2
<1>9. SubSeq(t, 1, n) = raw
  BY <1>2, <1>8, SeqEqual DEF Texts
<1>10. QED
  BY <1>2, <1>7, <1>9 DEF t

LEMMA PlainConcat ==
  ASSUME NEW s \in Texts, NEW t \in Texts
  PROVE  Plain(s \o t) <=> Plain(s) /\ Plain(t)
<1>1. /\ Len(s) \in Nat /\ Len(t) \in Nat /\ Len(s \o t) = Len(s) + Len(t)
      /\ \A i \in 1 .. Len(s) : (s \o t)[i] = s[i]
      /\ \A i \in 1 .. Len(t) : (s \o t)[Len(s) + i] = t[i]
  BY DEF Texts
<1>2. ASSUME Plain(s \o t) PROVE Plain(s) /\ Plain(t)
  <2>1. ASSUME NEW i \in 1 .. Len(s) PROVE s[i] # Quote
    BY <1>1, <1>2 DEF Plain
  <2>2. ASSUME NEW i \in 1 .. Len(t) PROVE t[i] # Quote
    <3>1. Len(s) + i \in 1 .. Len(s \o t)
      BY <1>1
    <3>2. QED
      BY <1>1, <1>2, <3>1 DEF Plain
  <2>3. QED
    BY <2>1, <2>2 DEF Plain
<1>3. ASSUME Plain(s), Plain(t) PROVE Plain(s \o t)
  <2>1. ASSUME NEW i \in 1 .. Len(s) + Len(t) PROVE (s \o t)[i] # Quote
    <3>1. CASE i <= Len(s)
      BY <1>1, <1>3, <3>1 DEF Plain
    <3>2. CASE i > Len(s)
      <4>1. i - Len(s) \in 1 .. Len(t) /\ Len(s) + (i - Len(s)) = i
        BY <1>1, <3>2
      <4>2. QED
        BY <1>1, <1>3, <4>1 DEF Plain
    <3>3. QED
      BY <1>1, <3>1, <3>2
  <2>2. QED
    BY <1>1, <2>1 DEF Plain
<1>4. QED
  BY <1>2, <1>3

(* Only a quotation mark is written with one. *)
LEMMA EscapedPlain ==
  ASSUME NEW text \in Texts, Plain(text)
  PROVE  Plain(JsonEscape(text))
<1> DEFINE S == {t \in Texts : Plain(t) => Plain(JsonEscape(t))}
<1>1. <<>> \in S
  <2>1. <<>> \in Texts
    BY DEF Texts
  <2>2. QED
    BY <2>1, EscapeNone
<1>2. ASSUME NEW t \in Texts, NEW ch \in Chars, t \in S
      PROVE  Append(t, ch) \in S
  <2>0. <<ch>> \in Texts /\ Append(t, ch) \in Texts /\ Append(t, ch) = t \o <<ch>>
    BY AppendIsConcat DEF Texts
  <2>1. JsonEscape(t) \in Texts
    BY EscapedType
  <2>2. JsonEscape(Append(t, ch)) = JsonEscape(t) \o Escapes(ch)
    BY <2>1, EscapeAppend
  <2>3. SUFFICES ASSUME Plain(Append(t, ch)) PROVE Plain(JsonEscape(t) \o Escapes(ch))
    BY <2>0, <2>2
  <2>4. Plain(t) /\ Plain(<<ch>>)
    BY <2>0, <2>3, PlainConcat
  <2>5. ch # Quote
    BY <2>4 DEF Plain
  <2>6. Plain(Escapes(ch))
    <3>1. Backslash # Quote
      BY DEF Backslash, Quote
    <3>2. CASE Escapes(ch) = <<ch>>
      BY <2>5, <3>2 DEF Plain
    <3>3. ASSUME NEW x, Escapes(ch) = <<Backslash, x>>, x = Quote <=> ch = Quote
          PROVE  Plain(Escapes(ch))
      BY <2>5, <3>1, <3>3 DEF Plain
    <3>4. QED
      BY <3>2, <3>3, EscapesFacts
  <2>7. QED
    BY <1>2, <2>1, <2>4, <2>6, EscapesType, PlainConcat
<1> HIDE DEF S
<1>3. Texts \subseteq S
  BY <1>1, <1>2, TextInduction
<1>4. QED
  BY <1>3 DEF S

(* Writing goes character by character. *)
LEMMA EscapeConcat ==
  ASSUME NEW s \in Texts, NEW t \in Texts
  PROVE  JsonEscape(s \o t) = JsonEscape(s) \o JsonEscape(t)
<1> DEFINE S == {u \in Texts : JsonEscape(s \o u) = JsonEscape(s) \o JsonEscape(u)}
<1>1. <<>> \in S
  <2>1. <<>> \in Texts /\ s \o <<>> = s
    BY DEF Texts
  <2>2. JsonEscape(s) \in Seq(Chars)
    BY EscapedType DEF Texts
  <2>3. JsonEscape(s) \o <<>> = JsonEscape(s)
    BY <2>2, ConcatEmptySeq
  <2>4. QED
    BY <2>1, <2>3, EscapeNone
<1>2. ASSUME NEW u \in Texts, NEW ch \in Chars, u \in S
      PROVE  Append(u, ch) \in S
  <2>1. s \in Seq(Chars) /\ u \in Seq(Chars) /\ s \o u \in Texts /\ Append(u, ch) \in Texts
    BY DEF Texts
  <2>2. s \o Append(u, ch) = Append(s \o u, ch)
    <3>1. Append(u, ch) = u \o <<ch>> /\ Append(s \o u, ch) = (s \o u) \o <<ch>>
      BY <2>1, AppendIsConcat DEF Texts
    <3>2. <<ch>> \in Seq(Chars)
      OBVIOUS
    <3>3. QED
      BY <2>1, <3>1, <3>2, ConcatAssociative
  <2>3. JsonEscape(s) \in Seq(Chars) /\ JsonEscape(u) \in Seq(Chars) /\ Escapes(ch) \in Seq(Chars)
    BY EscapedType, EscapesType DEF Texts
  <2>4. JsonEscape(Append(s \o u, ch)) = JsonEscape(s \o u) \o Escapes(ch)
    BY <2>1, EscapedType, EscapeAppend
  <2>5. JsonEscape(Append(u, ch)) = JsonEscape(u) \o Escapes(ch)
    BY EscapedType, EscapeAppend
  <2>6. (JsonEscape(s) \o JsonEscape(u)) \o Escapes(ch)
          = JsonEscape(s) \o (JsonEscape(u) \o Escapes(ch))
    BY <2>3, ConcatAssociative
  <2>7. JsonEscape(s \o u) = JsonEscape(s) \o JsonEscape(u)
    BY <1>2
  <2>8. QED
    BY <2>1, <2>2, <2>4, <2>5, <2>6, <2>7
<1> HIDE DEF S
<1>3. Texts \subseteq S
  BY <1>1, <1>2, TextInduction
<1>4. QED
  BY <1>3 DEF S

(* A text with a quotation mark has a first one. *)
LEMMA FirstQuote ==
  ASSUME NEW text \in Texts, ~Plain(text)
  PROVE  \E before \in Texts, behind \in Texts :
           Plain(before) /\ text = (before \o <<Quote>>) \o behind
<1> DEFINE S == {t \in Texts : ~Plain(t) => \E before \in Texts, behind \in Texts :
                    Plain(before) /\ t = (before \o <<Quote>>) \o behind}
<1>1. <<>> \in S
  BY DEF Plain, Texts
<1>2. ASSUME NEW t \in Texts, NEW ch \in Chars, t \in S
      PROVE  Append(t, ch) \in S
  <2>1. <<ch>> \in Texts /\ Append(t, ch) \in Texts /\ Append(t, ch) = t \o <<ch>>
    BY AppendIsConcat DEF Texts
  <2>2. SUFFICES ASSUME ~Plain(Append(t, ch))
                 PROVE  \E before \in Texts, behind \in Texts :
                          Plain(before) /\ Append(t, ch) = (before \o <<Quote>>) \o behind
    BY <2>1
  <2>3. CASE Plain(t)
    <3>1. ~Plain(<<ch>>)
      BY <2>1, <2>2, <2>3, PlainConcat
    <3>2. ch = Quote
      BY <3>1 DEF Plain
    <3>3. <<>> \in Texts /\ (t \o <<Quote>>) \o <<>> = t \o <<Quote>>
      BY <2>1, <3>2 DEF Texts
    <3>4. QED
      BY <2>1, <2>3, <3>2, <3>3
  <2>4. CASE ~Plain(t)
    <3>1. PICK before \in Texts, behind \in Texts :
            Plain(before) /\ t = (before \o <<Quote>>) \o behind
      BY <1>2, <2>4
    <3>2. before \o <<Quote>> \in Seq(Chars) /\ behind \in Seq(Chars) /\ <<ch>> \in Seq(Chars)
          /\ behind \o <<ch>> \in Texts
      BY DEF Texts, Chars
    <3>3. ((before \o <<Quote>>) \o behind) \o <<ch>>
            = (before \o <<Quote>>) \o (behind \o <<ch>>)
      BY <3>2, ConcatAssociative
    <3>4. QED
      BY <2>1, <3>1, <3>2, <3>3
  <2>5. QED
    BY <2>3, <2>4
<1> HIDE DEF S
<1>3. Texts \subseteq S
  BY <1>1, <1>2, TextInduction
<1>4. QED
  BY <1>3 DEF S

LEMMA PlainIs ==
  ASSUME NEW text \in Texts
  PROVE  Plain(text) <=> Quote \notin Range(text)
BY DEF Plain, Range, Texts

(* What is sent of a name without quotation mark is read as it is; what of *)
(* another, as what stands before its first quotation mark.                *)
LEMMA ReadPlain ==
  ASSUME NEW text \in Texts, Plain(text)
  PROVE  TextRead(text) = text
<1>1. JsonEscape(text) \in Texts /\ Plain(JsonEscape(text))
  BY EscapedType, EscapedPlain
<1>2. JsonEscape(text) \o <<Quote>> = (JsonEscape(text) \o <<Quote>>) \o <<>> /\ <<>> \in Texts
  BY <1>1 DEF Texts, Chars
<1>3. UpToQuote(JsonEscape(text) \o <<Quote>>) = JsonEscape(text)
  BY <1>1, <1>2, UpToFirstQuote
<1>4. QED
  BY <1>3, UnescapeEscaped DEF TextRead, JsonStringValue

LEMMA ReadCut ==
  ASSUME NEW text \in Texts, NEW before \in Texts, NEW behind \in Texts,
         Plain(before), text = (before \o <<Quote>>) \o behind
  PROVE  TextRead(text) = before
<1> DEFINE raw == JsonEscape(before)
<1>1. raw \in Texts /\ Plain(raw) /\ JsonEscape(behind) \in Texts
  BY EscapedType, EscapedPlain
<1>2. Quote \in Chars /\ Backslash \in Chars /\ Backslash # Quote
  BY DEF Chars, Quote, Backslash
<1>3. <<Quote>> \in Texts /\ <<Backslash>> \in Texts
  BY <1>2 DEF Texts
<1>4. JsonEscape(<<Quote>>) = <<Backslash, Quote>>
  <2>1. <<>> \in Texts /\ Append(<<>>, Quote) = <<Quote>> /\ Len(<<>>) = 0
    BY <1>2 DEF Texts
  <2>2. JsonEscape(<<Quote>>) = Escapes(Quote)
    BY <1>2, <2>1, EscapeNext
  <2>3. Escapes(Quote) = <<Backslash, Quote>>
    BY DEF Escapes
  <2>4. QED
    BY <2>2, <2>3
<1> HIDE DEF raw
<1>5. before \o <<Quote>> \in Texts
  BY <1>3 DEF Texts
<1>6. JsonEscape(text) = (raw \o <<Backslash, Quote>>) \o JsonEscape(behind)
  <2>1. JsonEscape(before \o <<Quote>>) = raw \o JsonEscape(<<Quote>>)
    BY <1>3, EscapeConcat, Zenon DEF raw
  <2>2. JsonEscape(text) = JsonEscape(before \o <<Quote>>) \o JsonEscape(behind)
    BY <1>5, EscapeConcat, Zenon
  <2>3. QED
    BY <1>4, <2>1, <2>2, Zenon
<1>7. PICK rest : rest = JsonEscape(behind) \o <<Quote>>
  OBVIOUS
<1>8. PICK head : head = raw \o <<Backslash>>
  OBVIOUS
<1>9. rest \in Texts /\ head \in Texts
  BY <1>1, <1>3, <1>7, <1>8 DEF Texts
<1>10. JsonEscape(text) \o <<Quote>> = (head \o <<Quote>>) \o rest
  <2>1. raw \o <<Backslash, Quote>> = head \o <<Quote>>
    <3>1. raw \o <<Backslash, Quote>> = Append(Append(raw, Backslash), Quote)
      BY <1>1, <1>2 DEF Texts
    <3>2. Append(head, Quote) = head \o <<Quote>> /\ Append(raw, Backslash) = head
      BY <1>1, <1>2, <1>8, <1>9, AppendIsConcat DEF Texts
    <3>3. QED
      BY <3>1, <3>2
  <2>2. head \o <<Quote>> \in Seq(Chars) /\ JsonEscape(behind) \in Seq(Chars) /\ <<Quote>> \in Seq(Chars)
    BY <1>1, <1>3, <1>9 DEF Texts
  <2>3. ((head \o <<Quote>>) \o JsonEscape(behind)) \o <<Quote>> = (head \o <<Quote>>) \o rest
    BY <1>7, <2>2, ConcatAssociative
  <2>4. QED
    BY <1>6, <2>1, <2>3
<1>11. Plain(head)
  <2>1. Plain(<<Backslash>>)
    BY <1>2 DEF Plain
  <2>2. QED
    BY <1>1, <1>3, <1>8, <2>1, PlainConcat
<1>12. UpToQuote(JsonEscape(text) \o <<Quote>>) = head
  BY <1>9, <1>10, <1>11, UpToFirstQuote
<1>13. head = Append(raw, Backslash)
  BY <1>1, <1>8, AppendIsConcat DEF Texts
<1>14. Loop(head) = Reads(Loop(raw), Backslash)
  BY <1>1, <1>2, <1>13, LoopNext
<1>15. Loop(head) = [text |-> before, escaped |-> TRUE]
  BY <1>14, LoopOfEscaped, ReadsFacts DEF raw
<1>16. JsonUnescape(head) = before
  BY <1>15, Unfold
<1>17. QED
  BY <1>12, <1>16 DEF TextRead, JsonStringValue

(* For every text: what the server makes of it -- unescaping what comes    *)
(* before the next quotation mark, escaped or not (main.rs:308-382) -- is  *)
(* the text itself, or what comes before its first quotation mark.         *)
THEOREM TextsReadBack ==
  ASSUME NEW text \in Texts
  PROVE  TextRead(text) = IF Quote \in Range(text) THEN UpToQuote(text) ELSE text
<1>1. CASE Quote \notin Range(text)
  BY <1>1, PlainIs, ReadPlain
<1>2. CASE Quote \in Range(text)
  <2>1. PICK before \in Texts, behind \in Texts :
          Plain(before) /\ text = (before \o <<Quote>>) \o behind
    BY <1>2, PlainIs, FirstQuote
  <2>2. TextRead(text) = before
    BY <2>1, ReadCut
  <2>3. UpToQuote(text) = before
    BY <2>1, UpToFirstQuote
  <2>4. QED
    BY <1>2, <2>2, <2>3
<1>3. QED
  BY <1>1, <1>2

LEMMA TextReadType ==
  ASSUME NEW text \in Texts
  PROVE  TextRead(text) \in Texts
<1>1. CASE Plain(text)
  BY <1>1, ReadPlain
<1>2. CASE ~Plain(text)
  BY <1>2, FirstQuote, ReadCut
<1>3. QED
  BY <1>1, <1>2

-----------------------------------------------------------------------------
(* What threads, rooms and the mutex have to do with each other *)

Places ==
  {"idle", "head", "body", "read", "request", "insert", "post", "answer", "done", "closed"}

AnyKey == Keys \cup {None}
AnyName == Names \cup {None}
AnyShape == Shapes \cup {None}
AnyRoom == Rooms \cup {NoRoom}
Codes == {0, 200, 204, 400, 404}

Conn ==
  [at : Places, kind : Kinds, key : AnyKey, name : AnyName, shape : AnyShape, raw : Nat,
   room : AnyRoom, code : Codes]

Early == {"idle", "head", "body", "read", "closed"}

MadeKeys == {Key(n) : n \in 0 .. Period - 1}

(* A join that has found its room and not yet answered. *)
Holding(r) == r.kind = "join" /\ (r.at = "post" \/ (r.at = "answer" /\ r.code = 200))

(* What is so of a thread at its place, whatever the others do. *)
ReadInv(r) ==
  /\ r.at \notin {"idle", "closed"} => r.shape \in Shapes
  /\ r.at \notin {"idle", "head", "body", "closed"} =>
       r.raw >= r.shape.head + r.shape.announced
  /\ r.at \in Early => r.kind = "other" /\ r.key = None

PlaceInv(c, r) ==
  /\ r.kind \in {"create", "join"} => r.name \in Names
  /\ r.kind = "create" => IF r.key = None THEN r.at = "request"
                          ELSE r.key \in MadeKeys /\ r.at \in {"insert", "post", "answer", "done"}
  /\ r.at = "insert" => r.kind = "create"
  /\ r.kind = "get" => r.key # None
  /\ r.at = "post" => r.kind \in {"create", "join"} /\ r.room \in Rooms
  /\ r.at = "post" /\ r.kind = "create" => r.room.maker = c
  /\ Holding(r) => /\ r.key # None /\ r.room \in Rooms
                   /\ NameRead[r.name] \in Range(r.room.members)

ConnInv(c, r) == r \in Conn /\ ReadInv(r) /\ PlaceInv(c, r)

(* Nobody changes a room that a join holds. *)
HeldInv == \A c \in Conns : Holding(conns[c]) =>
             lock = c /\ rooms[conns[c].key] = conns[c].room

(* The room at a key is the one that was made for it. *)
MadeBy(m, k) ==
  /\ conns[m].kind = "create" /\ conns[m].key = k
  /\ conns[m].at \in {"post", "answer", "done"}

RoomsInv == \A k \in Keys : rooms[k] # NoRoom => MadeBy(rooms[k].maker, k)

(* Users know the numbers they were told. *)
ToldInv == \A c \in Conns :
  conns[c].kind \in {"join", "delete", "get"} /\ conns[c].key # None =>
    conns[c].key.n \in Told \cup {Period}

WellTyped ==
  /\ conns \in [Conns -> Conn]
  /\ rooms \in [Keys -> Rooms \cup {NoRoom}]
  /\ lock \in Conns \cup {None}
  /\ now \in Nat

ThreadInv ==
  /\ WellTyped /\ \A c \in Conns : ConnInv(c, conns[c])
  /\ HeldInv /\ RoomsInv /\ ToldInv

-----------------------------------------------------------------------------
LEMMA ConnFields ==
  ASSUME NEW r \in Conn
  PROVE  /\ r.at \in Places /\ r.kind \in Kinds /\ r.key \in AnyKey /\ r.name \in AnyName
         /\ r.shape \in AnyShape /\ r.raw \in Nat /\ r.room \in AnyRoom /\ r.code \in Codes
BY DEF Conn

LEMMA NoRoomIsNone == NoRoom \notin Rooms
BY ApiAssumption DEF NoRoom, Rooms

LEMMA SamePair ==
  ASSUME NEW S, NEW k \in [sb : BOOLEAN, n : S], NEW l \in [sb : BOOLEAN, n : S],
         k.sb = l.sb, k.n = l.n
  PROVE  k = l
OBVIOUS

LEMMA SameKey ==
  ASSUME NEW k \in Keys, NEW l \in Keys, k.sb = l.sb, k.n = l.n
  PROVE  k = l
BY SamePair DEF Keys

LEMMA KeyFacts ==
  /\ \A n \in 0 .. Period - 1 : Key(n) \in Keys
  /\ \A k \in MadeKeys : k \in Keys /\ k.sb /\ k.n \in 0 .. Period - 1 /\ k = Key(k.n)
  /\ \A k \in Keys : /\ Other(k) \in Keys /\ Other(k).n = k.n /\ Other(Other(k)) = k
                     /\ k \in Spellings(k) /\ Other(k) \in Spellings(k)
  /\ \A k, l \in Keys : k.n = l.n => l \in Spellings(k)
  /\ None \notin Keys
<1>1. Period \in Nat \ {0} /\ None \notin Keys
  BY ApiAssumption
<1>2. \A n \in 0 .. Period - 1 : Key(n) \in Keys
  BY <1>1 DEF Key, Keys
<1>3. \A k \in MadeKeys : k \in Keys /\ k.sb /\ k.n \in 0 .. Period - 1 /\ k = Key(k.n)
  BY <1>2 DEF MadeKeys, Key
<1>4. \A k \in Keys : Other(k) \in Keys /\ Other(k).n = k.n /\ Other(Other(k)) = k
        /\ Other(k).sb = ~k.sb
  BY Zenon DEF Other, Keys
<1>5. \A k, l \in Keys : k.n = l.n => l \in Spellings(k)
  <2> SUFFICES ASSUME NEW k \in Keys, NEW l \in Keys, k.n = l.n PROVE l = k \/ l = Other(k)
    BY Zenon DEF Spellings
  <2>1. k.sb \in BOOLEAN /\ l.sb \in BOOLEAN
    BY DEF Keys
  <2>2. Other(k) \in Keys /\ Other(k).n = k.n /\ Other(k).sb = ~k.sb
    BY <1>4
  <2>3. (l.sb = TRUE \/ l.sb = FALSE) /\ (k.sb = TRUE \/ k.sb = FALSE)
    BY <2>1
  <2>4. l.sb = k.sb \/ l.sb = Other(k).sb
    BY <2>2, <2>3
  <2>5. QED
    BY <2>2, <2>4, SameKey
<1>6. QED
  BY <1>1, <1>2, <1>3, <1>4, <1>5, Zenon DEF Spellings

(* One thread takes a step. *)
LEMMA OneSteps ==
  ASSUME conns \in [Conns -> Conn], NEW c \in Conns, NEW r \in Conn,
         conns' = [conns EXCEPT ![c] = r]
  PROVE  /\ conns' \in [Conns -> Conn] /\ conns'[c] = r
         /\ \A d \in Conns : d # c => conns'[d] = conns[d]
OBVIOUS

(* What a step has to show: how its thread, the rooms and the mutex change *)
(* together.                                                               *)
LEMMA ThreadStep ==
  ASSUME ThreadInv, NEW c \in Conns, NEW r, conns' = [conns EXCEPT ![c] = r], ConnInv(c, r),
         rooms' \in [Keys -> Rooms \cup {NoRoom}], lock' \in Conns \cup {None}, now' \in Nat,
         \A k \in Keys : rooms'[k] # NoRoom =>
           IF rooms'[k].maker = c
           THEN r.kind = "create" /\ r.key = k /\ r.at \in {"post", "answer", "done"}
           ELSE rooms[k] # NoRoom /\ rooms'[k].maker = rooms[k].maker,
         Holding(r) => lock' = c /\ rooms'[r.key] = r.room,
         \A d \in Conns : d # c /\ Holding(conns[d]) =>
           lock' = d /\ rooms'[conns[d].key] = conns[d].room,
         conns[c].kind = "create" /\ conns[c].at = "done" =>
           r.kind = "create" /\ r.at = "done" /\ r.key = conns[c].key,
         r.kind \in {"join", "delete", "get"} /\ r.key # None => r.key.n \in Told \cup {Period}
  PROVE  ThreadInv'
<1>1. conns \in [Conns -> Conn] /\ r \in Conn
  BY DEF ThreadInv, WellTyped, ConnInv
<1>2. /\ conns' \in [Conns -> Conn] /\ conns'[c] = r
      /\ \A d \in Conns : d # c => conns'[d] = conns[d]
  BY <1>1, OneSteps
<1>3. WellTyped'
  BY <1>2 DEF WellTyped
<1>4. \A d \in Conns : ConnInv(d, conns'[d])
  BY <1>2, Zenon DEF ThreadInv
<1>5. HeldInv'
  BY <1>2, Zenon DEF HeldInv
<1>6. RoomsInv'
  <2> SUFFICES ASSUME NEW k \in Keys, rooms'[k] # NoRoom
               PROVE  /\ conns'[rooms'[k].maker].kind = "create"
                      /\ conns'[rooms'[k].maker].key = k
                      /\ conns'[rooms'[k].maker].at \in {"post", "answer", "done"}
    BY Zenon DEF RoomsInv, MadeBy
  <2>1. CASE rooms'[k].maker = c
    BY <1>2, <2>1, Zenon
  <2>2. CASE rooms'[k].maker # c
    <3> DEFINE m == rooms[k].maker
    <3>1. rooms[k] # NoRoom /\ rooms'[k].maker = m
      BY <2>2, Zenon
    <3>2. m \in Conns
      BY <3>1 DEF ThreadInv, WellTyped, Rooms
    <3>3. MadeBy(m, k)
      BY <3>1, Zenon DEF ThreadInv, RoomsInv
    <3>4. QED
      BY <1>2, <2>2, <3>1, <3>2, <3>3, Zenon DEF MadeBy
  <2>3. QED
    BY <2>1, <2>2
<1>7. ToldInv'
  <2>1. Told \subseteq Told'
    BY <1>2 DEF Told
  <2>2. QED
    BY <1>2, <2>1, Zenon DEF ThreadInv, ToldInv
<1>8. QED
  BY <1>3, <1>4, <1>5, <1>6, <1>7, Zenon DEF ThreadInv

(* The same where the rooms stay and the mutex, if at all, is released. *)
LEMMA QuietStep ==
  ASSUME ThreadInv, NEW c \in Conns, NEW r, conns' = [conns EXCEPT ![c] = r], ConnInv(c, r),
         rooms' = rooms, lock' \in {lock, Freed(c)}, now' \in Nat,
         Holding(r) => /\ Holding(conns[c]) /\ lock' = lock
                       /\ r.key = conns[c].key /\ r.room = conns[c].room,
         conns[c].kind = "create" /\ conns[c].at \in {"post", "answer", "done"} =>
           r.kind = "create" /\ r.key = conns[c].key /\ r.at \in {"post", "answer", "done"},
         conns[c].at # "done",
         r.kind \in {"join", "delete", "get"} /\ r.key # None => r.key.n \in Told \cup {Period}
  PROVE  ThreadInv'
<1>1. rooms' \in [Keys -> Rooms \cup {NoRoom}]
  BY DEF ThreadInv, WellTyped
<1>2. lock \in Conns \cup {None} /\ None \notin Conns
  BY ApiAssumption DEF ThreadInv, WellTyped
<1>3. lock' \in Conns \cup {None}
  BY <1>2, Zenon DEF Freed
<1>4. ASSUME NEW k \in Keys, rooms'[k] # NoRoom
      PROVE  IF rooms'[k].maker = c
             THEN r.kind = "create" /\ r.key = k /\ r.at \in {"post", "answer", "done"}
             ELSE rooms[k] # NoRoom /\ rooms'[k].maker = rooms[k].maker
  <2>1. rooms[k] # NoRoom /\ rooms'[k] = rooms[k]
    BY <1>4
  <2>2. MadeBy(rooms[k].maker, k)
    BY <2>1, Zenon DEF ThreadInv, RoomsInv
  <2>3. CASE rooms[k].maker = c
    BY <2>1, <2>2, <2>3, Zenon DEF MadeBy
  <2>4. CASE rooms[k].maker # c
    BY <2>1, <2>4, Zenon
  <2>5. QED
    BY <2>3, <2>4
<1>5. Holding(r) => lock' = c /\ rooms'[r.key] = r.room
  BY Zenon DEF ThreadInv, HeldInv
<1>6. ASSUME NEW d \in Conns, d # c, Holding(conns[d])
      PROVE  lock' = d /\ rooms'[conns[d].key] = conns[d].room
  <2>1. lock = d /\ rooms[conns[d].key] = conns[d].room
    BY <1>6, Zenon DEF ThreadInv, HeldInv
  <2>2. QED
    BY <1>6, <2>1, Zenon DEF Freed
<1>7. QED
  BY <1>1, <1>3, <1>4, <1>5, <1>6, ThreadStep, Zenon

LEMMA ConnectKeeps ==
  ASSUME ThreadInv, NEW c \in Conns, Connect(c)
  PROVE  ThreadInv'
<1>1. PICK s \in Shapes : conns' = [conns EXCEPT ![c].at = "head", ![c].shape = s]
  BY DEF Connect
<1>2. conns \in [Conns -> Conn] /\ conns[c] \in Conn /\ now \in Nat
  BY DEF ThreadInv, WellTyped
<1>3. PICK r : r = [conns[c] EXCEPT !.at = "head", !.shape = s]
  OBVIOUS
<1>4. conns' = [conns EXCEPT ![c] = r]
  BY <1>1, <1>2, <1>3
<1>5. /\ r \in Conn
      /\ r.at = "head" /\ r.kind = conns[c].kind /\ r.key = conns[c].key
      /\ r.name = conns[c].name /\ r.shape = s
  <2>1. "head" \in Places /\ s \in AnyShape
    BY DEF Places, AnyShape
  <2>2. QED
    BY <1>2, <1>3, <2>1, Zenon DEF Conn
<1>6. conns[c].at = "idle" /\ conns[c].kind = "other" /\ conns[c].key = None
  BY Zenon DEF Connect, ThreadInv, ConnInv, ReadInv, Early
<1>7. ConnInv(c, r)
  BY <1>5, <1>6 DEF ConnInv, ReadInv, PlaceInv, Holding, Early
<1>8. ~Holding(r)
  BY <1>5 DEF Holding
<1>9. QED
  BY <1>2, <1>4, <1>5, <1>6, <1>7, <1>8, QuietStep DEF Connect

LEMMA Here ==
  ASSUME ThreadInv, NEW c \in Conns
  PROVE  /\ conns \in [Conns -> Conn] /\ conns[c] \in Conn /\ now \in Nat
         /\ ReadInv(conns[c]) /\ PlaceInv(c, conns[c])
BY DEF ThreadInv, WellTyped, ConnInv

LEMMA ShapeFacts ==
  ASSUME NEW s \in Shapes
  PROVE  s.head \in Nat /\ s.body \in Nat /\ s.announced \in Nat /\ s \in AnyShape
BY ApiAssumption DEF AnyShape

LEMMA ClosedFacts ==
  ASSUME NEW c \in Conns
  PROVE  /\ ConnInv(c, Closed) /\ ~Holding(Closed)
         /\ Closed.kind = "other" /\ Closed.key = None
<1>1. "closed" \in Places /\ "other" \in Kinds /\ None \in AnyKey /\ None \in AnyName
        /\ None \in AnyShape /\ NoRoom \in AnyRoom /\ 0 \in Nat /\ 0 \in Codes
  BY DEF Places, Kinds, AnyKey, AnyName, AnyShape, AnyRoom, Codes
<1>2. Closed \in Conn
  BY <1>1, Zenon DEF Closed, Fresh, Conn
<1>3. Closed.at = "closed" /\ Closed.kind = "other" /\ Closed.key = None
  BY Zenon DEF Closed, Fresh
<1>4. QED
  BY <1>2, <1>3 DEF ConnInv, ReadInv, PlaceInv, Holding, Early

(* A thread that has not read its request gives it up. *)
LEMMA ClosingKeeps ==
  ASSUME ThreadInv, NEW c \in Conns, conns[c].at \in {"head", "body"},
         conns' = [conns EXCEPT ![c] = Closed], UNCHANGED <<rooms, lock, now, posts>>
  PROVE  ThreadInv'
<1>1. now \in Nat /\ conns[c].at # "done" /\ conns[c].kind = "other"
  BY Here DEF ReadInv, Early
<1>2. QED
  BY <1>1, ClosedFacts, QuietStep

(* It has read some more. *)
LEMMA ReadingKeeps ==
  ASSUME ThreadInv, NEW c \in Conns, conns[c].at \in {"head", "body"}, NEW raw \in Nat,
         NEW at \in {"head", "body", "read"},
         at = "read" => raw >= conns[c].shape.head + conns[c].shape.announced,
         NEW r, r = [conns[c] EXCEPT !.raw = raw, !.at = at], conns' = [conns EXCEPT ![c] = r],
         UNCHANGED <<rooms, lock, now, posts>>
  PROVE  ThreadInv'
<1>1. /\ conns[c] \in Conn /\ now \in Nat /\ conns[c].at # "done"
      /\ conns[c].shape \in Shapes /\ conns[c].kind = "other" /\ conns[c].key = None
  BY Here DEF ReadInv, Early
<1>2. /\ r \in Conn /\ r.at = at /\ r.raw = raw
      /\ r.kind = conns[c].kind /\ r.key = conns[c].key /\ r.shape = conns[c].shape
  <2>1. at \in Places
    BY DEF Places
  <2>2. QED
    BY <1>1, <2>1, Zenon DEF Conn
<1>3. ConnInv(c, r)
  BY <1>1, <1>2 DEF ConnInv, ReadInv, PlaceInv, Holding, Early
<1>4. ~Holding(r)
  BY <1>1, <1>2 DEF Holding
<1>5. QED
  BY <1>1, <1>2, <1>3, <1>4, QuietStep

LEMMA ReadHeadKeeps ==
  ASSUME ThreadInv, NEW c \in Conns, ReadHead(c)
  PROVE  ThreadInv'
<1> DEFINE s == conns[c].shape
<1>1. /\ conns[c].at = "head" /\ s \in Shapes /\ conns[c].raw \in Nat /\ conns[c] \in Conn
      /\ conns \in [Conns -> Conn]
  BY Here, ConnFields DEF ReadHead, ReadInv
<1>2. PICK raw \in conns[c].raw + 1 .. s.head + s.body :
        conns' = [conns EXCEPT ![c] =
          IF ReadUpTo(s, raw) = "closed" THEN Closed
          ELSE [@ EXCEPT !.raw = raw, !.at = ReadUpTo(s, raw)]]
  BY Zenon DEF ReadHead
<1>3. raw \in Nat
  BY <1>1, ShapeFacts
<1>4. CASE ReadUpTo(s, raw) = "closed"
  <2>1. conns' = [conns EXCEPT ![c] = Closed]
    BY <1>2, <1>4
  <2>2. QED
    BY <1>1, <2>1, ClosingKeeps DEF ReadHead
<1>5. CASE ReadUpTo(s, raw) # "closed"
  <2>1. conns' = [conns EXCEPT ![c] = [conns[c] EXCEPT !.raw = raw, !.at = ReadUpTo(s, raw)]]
    BY <1>1, <1>2, <1>5, Zenon
  <2>2. s.head \in Nat /\ s.announced \in Nat
    BY <1>1, ShapeFacts
  <2>3. /\ ReadUpTo(s, raw) \in {"head", "body", "read"}
        /\ ReadUpTo(s, raw) = "read" => raw >= s.head + s.announced
    BY <1>3, <1>5, <2>2 DEF ReadUpTo
  <2>4. QED
    BY <1>1, <1>3, <2>1, <2>3, ReadingKeeps DEF ReadHead
<1>6. QED
  BY <1>4, <1>5

LEMMA ReadBodyKeeps ==
  ASSUME ThreadInv, NEW c \in Conns, ReadBody(c)
  PROVE  ThreadInv'
<1> DEFINE s == conns[c].shape
<1>1. conns[c].at = "body" /\ s \in Shapes /\ conns[c] \in Conn /\ conns \in [Conns -> Conn]
  BY Here DEF ReadBody, ReadInv
<1>2. s.head + s.announced \in Nat /\ s.head + s.announced >= s.head + s.announced
  BY <1>1, ShapeFacts
<1>3. conns' = [conns EXCEPT ![c] =
                  [conns[c] EXCEPT !.raw = s.head + s.announced, !.at = "read"]]
  BY <1>1 DEF ReadBody
<1>4. QED
  BY <1>1, <1>2, <1>3, ReadingKeeps DEF ReadBody

LEMMA GiveUpKeeps ==
  ASSUME ThreadInv, NEW c \in Conns, GiveUp(c)
  PROVE  ThreadInv'
BY ClosingKeeps DEF GiveUp

(* What users can type is a key, and its number one they were told, or     *)
(* nobody's.                                                               *)
LEMMA TypedFacts ==
  ASSUME ThreadInv
  PROVE  /\ Told \subseteq 0 .. Period - 1
         /\ \A k \in Typed : k \in Keys /\ k.n \in Told \cup {Period}
<1>1. Period \in Nat \ {0}
  BY ApiAssumption
<1>2. Told \subseteq 0 .. Period - 1
  <2> SUFFICES ASSUME NEW d \in Conns, conns[d].kind = "create", conns[d].at = "done"
               PROVE  conns[d].key.n \in 0 .. Period - 1
    BY Zenon DEF Told
  <2>1. conns[d].key \in MadeKeys
    BY Here DEF PlaceInv
  <2>2. QED
    BY <2>1, KeyFacts
<1>3. ASSUME NEW k \in Typed PROVE k \in Keys /\ k.n \in Told \cup {Period}
  <2>1. CASE k \in [sb : BOOLEAN, n : Told]
    <3>1. \A n \in Told : n \in 0 .. Period
      BY <1>1, <1>2
    <3>2. QED
      BY <2>1, <3>1, Zenon DEF Keys
  <2>2. CASE k = Key(Period)
    <3>1. Period \in 0 .. Period
      BY <1>1
    <3>2. QED
      BY <2>2, <3>1, Zenon DEF Key, Keys
  <2>3. QED
    BY <2>1, <2>2, Zenon DEF Typed
<1>4. QED
  BY <1>2, <1>3, Zenon

LEMMA HandleClientKeeps ==
  ASSUME ThreadInv, NEW c \in Conns, HandleClient(c)
  PROVE  ThreadInv'
<1>1. /\ conns \in [Conns -> Conn] /\ conns[c] \in Conn /\ now \in Nat /\ conns[c].at = "read"
      /\ conns[c].shape \in Shapes
      /\ conns[c].raw >= conns[c].shape.head + conns[c].shape.announced
  BY Here DEF HandleClient, ReadInv
<1>2. PICK q \in Requests, name \in NamesFor[c] :
        conns' = [conns EXCEPT ![c].at = "request", ![c].kind = q.kind, ![c].key = q.key,
                               ![c].name = IF q.kind \in {"create", "join"} THEN name ELSE None]
  BY Zenon DEF HandleClient
<1>3. PICK asked : asked = IF q.kind \in {"create", "join"} THEN name ELSE None
  OBVIOUS
<1>4. PICK r : r = [conns[c] EXCEPT !.at = "request", !.kind = q.kind, !.key = q.key,
                                    !.name = asked]
  OBVIOUS
<1>5. conns' = [conns EXCEPT ![c] = r]
  BY <1>1, <1>2, <1>3, <1>4
<1>6. /\ q.kind \in Kinds
      /\ q.kind = "create" => q.key = None
      /\ q.key # None => q.key \in Typed
      /\ q.kind = "get" => q.key \in Typed
  BY DEF Requests, Kinds
<1>7. /\ q.key # None => q.key \in Keys /\ q.key.n \in Told \cup {Period}
      /\ q.kind = "get" => q.key # None
  BY <1>6, TypedFacts, KeyFacts
<1>8. name \in Names
  BY DEF Names
<1>9. /\ r \in Conn /\ r.at = "request" /\ r.kind = q.kind /\ r.key = q.key
      /\ r.name = asked /\ r.shape = conns[c].shape /\ r.raw = conns[c].raw
  <2>1. "request" \in Places /\ q.kind \in Kinds /\ q.key \in AnyKey /\ asked \in AnyName
    BY <1>3, <1>6, <1>7, <1>8 DEF Places, AnyKey, AnyName
  <2>2. QED
    BY <1>1, <1>4, <2>1, Zenon DEF Conn
<1>10. ConnInv(c, r)
  BY <1>1, <1>3, <1>6, <1>7, <1>8, <1>9 DEF ConnInv, ReadInv, PlaceInv, Holding, Early
<1>11. ~Holding(r)
  BY <1>9 DEF Holding
<1>12. conns[c].kind = "other"
  BY <1>1, Here DEF ReadInv, Early
<1>13. QED
  BY <1>1, <1>5, <1>7, <1>9, <1>10, <1>11, <1>12, QuietStep DEF HandleClient

LEMMA AnswerCode ==
  ASSUME conns \in [Conns -> Conn], NEW c \in Conns, NEW code
  PROVE  [conns EXCEPT ![c].at = "answer", ![c].code = code]
           = [conns EXCEPT ![c] = [conns[c] EXCEPT !.at = "answer", !.code = code]]
OBVIOUS

LEMMA ServeOtherKeeps ==
  ASSUME ThreadInv, NEW c \in Conns, ServeOther(c)
  PROVE  ThreadInv'
<1>1. /\ conns \in [Conns -> Conn] /\ conns[c] \in Conn /\ now \in Nat
      /\ ReadInv(conns[c]) /\ PlaceInv(c, conns[c])
  BY Here
<1>2. conns[c].at = "request" /\ conns[c].kind \in {"other", "join"}
  BY DEF ServeOther, Serves, Incomplete
<1>3. PICK code : /\ code \in IF conns[c].kind = "join" THEN {400} ELSE {200, 204, 404}
                  /\ conns' = [conns EXCEPT ![c].at = "answer", ![c].code = code]
  BY ZenonT(40) DEF ServeOther
<1>4. PICK r : r = [conns[c] EXCEPT !.at = "answer", !.code = code]
  OBVIOUS
<1>5. conns' = [conns EXCEPT ![c] = r]
  <2>1. conns' = [conns EXCEPT ![c].at = "answer", ![c].code = code]
    BY <1>3
  <2>2. conns \in [Conns -> Conn]
    BY <1>1
  <2>3. QED
    BY <1>4, <2>1, <2>2, AnswerCode
<1>6. code \in Codes /\ (conns[c].kind = "join" => code = 400)
  BY <1>3 DEF Codes
<1>7. /\ r \in Conn /\ r.at = "answer" /\ r.kind = conns[c].kind /\ r.key = conns[c].key
      /\ r.name = conns[c].name /\ r.shape = conns[c].shape /\ r.raw = conns[c].raw
      /\ r.code = code
  <2>1. "answer" \in Places /\ code \in Codes
    BY <1>6 DEF Places
  <2>2. QED
    BY <1>1, <1>4, <2>1, Zenon DEF Conn
<1>8. ~Holding(r)
  BY <1>6, <1>7 DEF Holding
<1>9. ConnInv(c, r)
  BY <1>1, <1>2, <1>7, <1>8 DEF ConnInv, ReadInv, PlaceInv, Early
<1>10. r.kind \in {"join", "delete", "get"} /\ r.key # None => r.key.n \in Told \cup {Period}
  BY <1>7, Zenon DEF ThreadInv, ToldInv
<1>11. QED
  BY <1>1, <1>2, <1>5, <1>8, <1>9, <1>10, QuietStep, ZenonT(40) DEF ServeOther

LEMMA GenerateRoomIdKeeps ==
  ASSUME ThreadInv, NEW c \in Conns, GenerateRoomId(c)
  PROVE  ThreadInv'
<1>1. /\ conns \in [Conns -> Conn] /\ conns[c] \in Conn /\ now \in Nat
      /\ ReadInv(conns[c]) /\ PlaceInv(c, conns[c])
  BY Here
<1>2. conns[c].at = "request" /\ conns[c].kind = "create" /\ now' \in {now, now + 1}
  BY DEF GenerateRoomId, Serves
<1>3. PICK t : t = now'
  OBVIOUS
<1>4. t \in Nat /\ t % Period \in 0 .. Period - 1
  <2>1. Period \in Nat \ {0} /\ t \in Nat
    BY <1>1, <1>2, <1>3, ApiAssumption
  <2>2. QED
    BY <2>1
<1> DEFINE key == Key(t % Period)
<1>12. key \in MadeKeys
  BY <1>4, Zenon DEF MadeKeys
<1> HIDE DEF key
<1>5. PICK r : r = [conns[c] EXCEPT !.at = "insert", !.key = key]
  OBVIOUS
<1>6. conns' = [conns EXCEPT ![c] = r]
  BY <1>1, <1>3, <1>5 DEF GenerateRoomId, key
<1>7. key \in Keys /\ key # None
  BY <1>12, KeyFacts
<1>8. /\ r \in Conn /\ r.at = "insert" /\ r.kind = conns[c].kind /\ r.key = key
      /\ r.name = conns[c].name /\ r.shape = conns[c].shape /\ r.raw = conns[c].raw
  <2>1. "insert" \in Places /\ key \in AnyKey
    BY <1>7 DEF Places, AnyKey
  <2>2. QED
    BY <1>1, <1>5, <2>1, Zenon DEF Conn
<1>9. ~Holding(r)
  BY <1>8 DEF Holding
<1>10. ConnInv(c, r)
  BY <1>1, <1>2, <1>7, <1>8, <1>9, <1>12 DEF ConnInv, ReadInv, PlaceInv, Early
<1>11. QED
  BY <1>1, <1>2, <1>3, <1>4, <1>6, <1>8, <1>9, <1>10, QuietStep DEF GenerateRoomId

LEMMA NobodyHolds ==
  ASSUME ThreadInv, lock = None
  PROVE  \A d \in Conns : ~Holding(conns[d])
BY ApiAssumption, Zenon DEF ThreadInv, HeldInv

(* What the server reads as a name is a name. *)
LEMMA NamesRead ==
  ASSUME NEW name \in Names
  PROVE  name \in Texts /\ NameRead[name] = TextRead(name) /\ NameRead[name] \in Texts
<1>1. name \in Texts
  BY ApiAssumption DEF Names
<1>2. NameRead[name] = TextRead(name)
  BY DEF NameRead
<1>3. QED
  BY <1>1, <1>2, TextReadType

(* A room of somebody else is not at a key by a thread that made none. *)
LEMMA NotMine ==
  ASSUME ThreadInv, NEW c \in Conns, NEW k \in Keys, rooms[k] # NoRoom,
         conns[c].kind # "create" \/ conns[c].at \notin {"post", "answer", "done"}
  PROVE  rooms[k] \in Rooms /\ rooms[k].maker # c
<1>1. rooms[k] \in Rooms
  BY DEF ThreadInv, WellTyped
<1>2. MadeBy(rooms[k].maker, k)
  BY Zenon DEF ThreadInv, RoomsInv
<1>3. QED
  BY <1>1, <1>2, Zenon DEF MadeBy

LEMMA CreateRoomKeeps ==
  ASSUME ThreadInv, NEW c \in Conns, CreateRoom(c)
  PROVE  ThreadInv'
<1> DEFINE key == conns[c].key
<1>1. /\ conns \in [Conns -> Conn] /\ conns[c] \in Conn /\ now \in Nat
      /\ ReadInv(conns[c]) /\ PlaceInv(c, conns[c])
  BY Here
<1>2. conns[c].at = "insert" /\ lock = None /\ UNCHANGED <<lock, now, posts>>
  BY DEF CreateRoom
<1>3. conns[c].kind = "create" /\ conns[c].name \in Names /\ key # None /\ key \in MadeKeys
  BY <1>1, <1>2 DEF PlaceInv
<1>4. PICK room : room = [maker |-> c, members |-> <<NameRead[conns[c].name]>>]
  OBVIOUS
<1>5. room \in Rooms /\ room.maker = c /\ room # NoRoom
  <2>1. <<NameRead[conns[c].name]>> \in Seq(Texts)
    BY <1>3, NamesRead
  <2>2. room \in Rooms /\ room.maker = c
    BY <1>4, <2>1, Zenon DEF Rooms
  <2>3. QED
    BY <2>2, NoRoomIsNone
<1>6. PICK r : r = [conns[c] EXCEPT !.at = "post", !.room = room, !.code = 200]
  OBVIOUS
<1>7. conns' = [conns EXCEPT ![c] = r]
  <2>1. conns' = [conns EXCEPT ![c].at = "post", ![c].room = room, ![c].code = 200]
    BY <1>4, Zenon DEF CreateRoom
  <2>2. conns \in [Conns -> Conn]
    BY <1>1
  <2>3. QED
    BY <2>1, <2>2, <1>6
<1>8. /\ r \in Conn /\ r.at = "post" /\ r.kind = conns[c].kind /\ r.key = key /\ r.room = room
      /\ r.name = conns[c].name /\ r.shape = conns[c].shape /\ r.raw = conns[c].raw
  <2>1. "post" \in Places /\ room \in AnyRoom /\ 200 \in Codes
    BY <1>5 DEF Places, AnyRoom, Codes
  <2>2. QED
    BY <1>1, <1>6, <2>1, ZenonT(40) DEF Conn
<1>9. key \in Keys
  BY <1>3, KeyFacts
<1>10. rooms' = [rooms EXCEPT ![key] = room] /\ rooms \in [Keys -> Rooms \cup {NoRoom}]
  BY <1>4, Zenon DEF CreateRoom, ThreadInv, WellTyped
<1>11. ~Holding(r)
  BY <1>3, <1>8 DEF Holding
<1>12. ConnInv(c, r)
  BY <1>1, <1>2, <1>3, <1>5, <1>8, <1>11 DEF ConnInv, ReadInv, PlaceInv, Early
<1>13. rooms' \in [Keys -> Rooms \cup {NoRoom}]
  BY <1>5, <1>9, <1>10
<1>14. ASSUME NEW k \in Keys, rooms'[k] # NoRoom
       PROVE  IF rooms'[k].maker = c
              THEN r.kind = "create" /\ r.key = k /\ r.at \in {"post", "answer", "done"}
              ELSE rooms[k] # NoRoom /\ rooms'[k].maker = rooms[k].maker
  <2>1. CASE k = key
    BY <1>3, <1>5, <1>8, <1>9, <1>10, <2>1
  <2>2. CASE k # key
    <3>1. rooms'[k] = rooms[k]
      BY <1>10, <2>2
    <3>2. rooms[k] # NoRoom
      BY <1>14, <3>1
    <3>3. rooms[k].maker # c
      BY <1>2, <3>2, NotMine
    <3>4. QED
      BY <3>1, <3>2, <3>3
  <2>3. QED
    BY <2>1, <2>2
<1>15. \A d \in Conns : ~Holding(conns[d])
  BY <1>2, NobodyHolds
<1>16. lock' \in Conns \cup {None} /\ now' \in Nat
  BY <1>1, <1>2
<1> HIDE DEF key
<1>17. conns[c].at # "done" /\ r.kind \notin {"join", "delete", "get"}
  BY <1>2, <1>3, <1>8
<1>18. QED
  BY <1>7, <1>11, <1>12, <1>13, <1>14, <1>15, <1>16, <1>17, ThreadStep, Zenon

LEMMA DeleteRoomKeeps ==
  ASSUME ThreadInv, NEW c \in Conns, DeleteRoom(c)
  PROVE  ThreadInv'
<1> DEFINE key == conns[c].key
<1>1. /\ conns \in [Conns -> Conn] /\ conns[c] \in Conn /\ now \in Nat
      /\ ReadInv(conns[c]) /\ PlaceInv(c, conns[c])
  BY Here
<1>2. conns[c].at = "request" /\ conns[c].kind = "delete" /\ UNCHANGED <<lock, now, posts>>
  BY DEF DeleteRoom, Serves
<1>3. PICK r : r = [conns[c] EXCEPT !.at = "answer", !.code = 200]
  OBVIOUS
<1>4. conns' = [conns EXCEPT ![c] = r]
  <2>1. conns' = [conns EXCEPT ![c].at = "answer", ![c].code = 200]
    BY DEF DeleteRoom
  <2>2. conns \in [Conns -> Conn]
    BY <1>1
  <2>3. QED
    BY <2>1, <2>2, <1>3
<1>5. /\ r \in Conn /\ r.at = "answer" /\ r.kind = "delete" /\ r.key = key
      /\ r.name = conns[c].name /\ r.shape = conns[c].shape /\ r.raw = conns[c].raw
  <2>1. "answer" \in Places /\ 200 \in Codes
    BY DEF Places, Codes
  <2>2. QED
    BY <1>1, <1>2, <1>3, <2>1, ZenonT(40) DEF Conn
<1>6. ~Holding(r)
  BY <1>5 DEF Holding
<1>7. ConnInv(c, r)
  BY <1>1, <1>2, <1>5, <1>6 DEF ConnInv, ReadInv, PlaceInv, Early
<1>8. r.kind \in {"join", "delete", "get"} /\ r.key # None => r.key.n \in Told \cup {Period}
  BY <1>2, <1>5, Zenon DEF ThreadInv, ToldInv
<1>9. lock' \in Conns \cup {None} /\ now' \in Nat
  BY <1>1, <1>2 DEF ThreadInv, WellTyped
<1>10. CASE key = None
  <2>1. rooms' = rooms
    BY <1>10, Zenon DEF DeleteRoom
  <2>2. QED
    BY <1>2, <1>4, <1>5, <1>6, <1>7, <1>8, <1>9, <2>1, QuietStep
<1>11. CASE key # None
  <2>1. lock = None
    BY <1>11 DEF DeleteRoom
  <2>2. rooms' = [k \in Keys |-> IF k \in Spellings(key) THEN NoRoom ELSE rooms[k]]
    BY <1>11, Zenon DEF DeleteRoom
  <2>3. rooms \in [Keys -> Rooms \cup {NoRoom}]
    BY DEF ThreadInv, WellTyped
  <2> HIDE DEF key
  <2>4. rooms' \in [Keys -> Rooms \cup {NoRoom}]
    BY <2>2, <2>3
  <2>5. ASSUME NEW k \in Keys, rooms'[k] # NoRoom
        PROVE  IF rooms'[k].maker = c
               THEN r.kind = "create" /\ r.key = k /\ r.at \in {"post", "answer", "done"}
               ELSE rooms[k] # NoRoom /\ rooms'[k].maker = rooms[k].maker
    <3>1. rooms[k] # NoRoom /\ rooms'[k] = rooms[k]
      BY <2>2, <2>5
    <3>2. rooms[k].maker # c
      BY <1>2, <3>1, NotMine
    <3>3. QED
      BY <3>1, <3>2
  <2>6. \A d \in Conns : ~Holding(conns[d])
    BY <2>1, NobodyHolds
  <2>7. conns[c].at # "done"
    BY <1>2
  <2>8. QED
    BY <1>4, <1>6, <1>7, <1>8, <1>9, <2>4, <2>5, <2>6, <2>7, ThreadStep, Zenon
<1>12. QED
  BY <1>10, <1>11

(* The key a lookup ends at, and the room there. *)
LEMMA LookupFacts ==
  ASSUME ThreadInv, NEW key \in Keys
  PROVE  /\ Lookup(key) \in Keys /\ Lookup(key).n = key.n
         /\ rooms[Lookup(key)] = NoRoom <=> rooms[key] = NoRoom /\ rooms[Other(key)] = NoRoom
<1>1. Other(key) \in Keys /\ Other(key).n = key.n
  BY KeyFacts
<1>2. QED
  BY <1>1, Zenon DEF Lookup

(* A join or a look that finds nothing, or a look that finds a room: the   *)
(* mutex is taken and nothing else.                                        *)
LEMMA LookKeeps ==
  ASSUME ThreadInv, NEW c \in Conns, lock = None, NEW r, conns' = [conns EXCEPT ![c] = r],
         conns[c].at = "request", conns[c].kind \in {"join", "get"}, rooms' = rooms,
         r \in Conn, ~Holding(r), r.at = "answer", r.kind = conns[c].kind,
         r.key = conns[c].key, r.name = conns[c].name, r.shape = conns[c].shape,
         r.raw = conns[c].raw, lock' = Kept(c), UNCHANGED <<now, posts>>
  PROVE  ThreadInv'
<1>1. now \in Nat /\ ReadInv(conns[c]) /\ PlaceInv(c, conns[c])
  BY Here
<1>2. ConnInv(c, r)
  BY <1>1 DEF ConnInv, ReadInv, PlaceInv, Early
<1>3. r.kind \in {"join", "delete", "get"} /\ r.key # None => r.key.n \in Told \cup {Period}
  BY Zenon DEF ThreadInv, ToldInv
<1>4. lock' \in Conns \cup {None} /\ now' \in Nat /\ conns[c].at # "done"
  BY <1>1 DEF Kept
<1>5. rooms' \in [Keys -> Rooms \cup {NoRoom}]
  BY DEF ThreadInv, WellTyped
<1>6. ASSUME NEW k \in Keys, rooms'[k] # NoRoom
      PROVE  IF rooms'[k].maker = c
             THEN r.kind = "create" /\ r.key = k /\ r.at \in {"post", "answer", "done"}
             ELSE rooms[k] # NoRoom /\ rooms'[k].maker = rooms[k].maker
  <2>1. rooms[k] # NoRoom /\ rooms'[k] = rooms[k]
    BY <1>6
  <2>2. rooms[k].maker # c
    BY <2>1, NotMine
  <2>3. QED
    BY <2>1, <2>2
<1>7. \A d \in Conns : ~Holding(conns[d])
  BY NobodyHolds
<1>8. QED
  BY <1>2, <1>3, <1>4, <1>5, <1>6, <1>7, ThreadStep, Zenon

(* What JoinRoom makes of the room: the member is in it. *)
Joined(room, name) ==
  IF name \in Range(room.members) THEN room ELSE [room EXCEPT !.members = Append(@, name)]

LEMMA JoinedFacts ==
  ASSUME NEW room \in Rooms, NEW name \in Texts
  PROVE  /\ Joined(room, name) \in Rooms /\ Joined(room, name).maker = room.maker
         /\ name \in Range(Joined(room, name).members)
         /\ \/ Joined(room, name).members = room.members
            \/ Joined(room, name).members = Append(room.members, name)
<1>1. room.maker \in Conns /\ room.members \in Seq(Texts)
  BY DEF Rooms
<1>2. CASE name \in Range(room.members)
  BY <1>2, Zenon DEF Joined
<1>3. CASE name \notin Range(room.members)
  <2>1. PICK more : more = Append(room.members, name)
    OBVIOUS
  <2>2. more \in Seq(Texts) /\ name \in Range(more)
    <3>1. /\ more \in Seq(Texts) /\ Len(more) = Len(room.members) + 1
          /\ more[Len(room.members) + 1] = name
      BY <1>1, <2>1, AppendProperties
    <3>2. Len(room.members) + 1 \in DOMAIN more
      BY <1>1, <3>1
    <3>3. QED
      BY <3>1, <3>2 DEF Range
  <2>3. Joined(room, name) = [room EXCEPT !.members = more]
    BY <1>3, <2>1, Zenon DEF Joined
  <2>4. [room EXCEPT !.members = more] \in Rooms
    BY <2>2, Zenon DEF Rooms
  <2>5. /\ [room EXCEPT !.members = more].maker = room.maker
        /\ [room EXCEPT !.members = more].members = more
    BY Zenon DEF Rooms
  <2>6. QED
    BY <2>1, <2>2, <2>3, <2>4, <2>5, Zenon
<1>4. QED
  BY <1>2, <1>3

(* A join that finds the room. *)
JoinsRoom(c, key, room, joined) ==
  /\ key = Lookup(conns[c].key) /\ room = rooms[key] /\ room # NoRoom
  /\ joined = Joined(room, NameRead[conns[c].name])
  /\ rooms' = [rooms EXCEPT ![key] = joined]
  /\ conns' = [conns EXCEPT ![c].at = "post", ![c].key = key, ![c].room = joined,
                            ![c].code = 200]

JoinsNothing(c) ==
  /\ rooms[Lookup(conns[c].key)] = NoRoom
  /\ conns' = [conns EXCEPT ![c].at = "answer", ![c].code = 404]
  /\ UNCHANGED rooms

LEMMA JoinRoomCases ==
  ASSUME NEW c \in Conns, JoinRoom(c)
  PROVE  /\ conns[c].at = "request" /\ conns[c].kind = "join" /\ lock = None
         /\ conns[c].key # None /\ lock' = Kept(c) /\ UNCHANGED <<now, posts>>
         /\ JoinsNothing(c) \/ \E key, room, joined : JoinsRoom(c, key, room, joined)
<1>1. /\ conns[c].at = "request" /\ conns[c].kind = "join" /\ lock = None
      /\ conns[c].key # None /\ lock' = Kept(c) /\ UNCHANGED <<now, posts>>
  BY DEF JoinRoom, Serves, Incomplete
<1>2. JoinsNothing(c) \/ \E key, room, joined : JoinsRoom(c, key, room, joined)
  <2> DEFINE key == Lookup(conns[c].key)
             room == rooms[key]
             joined == Joined(room, NameRead[conns[c].name])
  <2>1. \/ room = NoRoom /\ JoinsNothing(c)
        \/ /\ room # NoRoom /\ rooms' = [rooms EXCEPT ![key] = joined]
           /\ conns' = [conns EXCEPT ![c].at = "post", ![c].key = key, ![c].room = joined,
                                     ![c].code = 200]
    BY DEF JoinRoom, JoinsNothing, Joined
  <2>2. room # NoRoom /\ rooms' = [rooms EXCEPT ![key] = joined]
          /\ conns' = [conns EXCEPT ![c].at = "post", ![c].key = key, ![c].room = joined,
                                    ![c].code = 200]
        => JoinsRoom(c, key, room, joined)
    BY Zenon DEF JoinsRoom
  <2>3. QED
    BY <2>1, <2>2, Zenon
<1>3. QED
  BY <1>1, <1>2

(* What a join that found the room leaves. *)
LEMMA JoinsRoomFacts ==
  ASSUME ThreadInv, NEW c \in Conns, JoinRoom(c), NEW key, NEW room, NEW joined,
         JoinsRoom(c, key, room, joined)
  PROVE  /\ key \in Keys /\ key.n = conns[c].key.n /\ key # None
         /\ room \in Rooms /\ joined \in Rooms /\ joined.maker = room.maker
         /\ NameRead[conns[c].name] \in Range(joined.members)
         /\ joined.members = room.members
              \/ joined.members = Append(room.members, NameRead[conns[c].name])
         /\ NameRead[conns[c].name] \in Texts
         /\ \E r \in Conn : /\ conns' = [conns EXCEPT ![c] = r]
                            /\ r.at = "post" /\ r.kind = "join" /\ r.key = key
                            /\ r.name = conns[c].name /\ r.shape = conns[c].shape
                            /\ r.raw = conns[c].raw /\ r.room = joined
<1>1. conns[c].at = "request" /\ conns[c].kind = "join" /\ conns[c].key # None
  BY JoinRoomCases
<1>2. /\ conns \in [Conns -> Conn] /\ conns[c] \in Conn /\ PlaceInv(c, conns[c])
      /\ conns[c].key \in Keys
  BY <1>1, Here, ConnFields DEF AnyKey
<1>3. key \in Keys /\ key.n = conns[c].key.n /\ key # None
  BY <1>2, LookupFacts, KeyFacts DEF JoinsRoom
<1>4. room \in Rooms
  BY <1>3 DEF JoinsRoom, ThreadInv, WellTyped
<1>5. PICK name : name = NameRead[conns[c].name]
  OBVIOUS
<1>6. name \in Texts
  BY <1>1, <1>2, <1>5, NamesRead DEF PlaceInv
<1>7. joined = Joined(room, name)
  BY <1>5 DEF JoinsRoom
<1>8. /\ joined \in Rooms /\ joined.maker = room.maker /\ name \in Range(joined.members)
      /\ joined.members = room.members \/ joined.members = Append(room.members, name)
  BY <1>4, <1>6, <1>7, JoinedFacts
<1>9. PICK r : r = [conns[c] EXCEPT !.at = "post", !.key = key, !.room = joined, !.code = 200]
  OBVIOUS
<1>10. conns' = [conns EXCEPT ![c] = r]
  <2>1. conns' = [conns EXCEPT ![c].at = "post", ![c].key = key, ![c].room = joined,
                               ![c].code = 200]
    BY DEF JoinsRoom
  <2>2. conns \in [Conns -> Conn]
    BY <1>2
  <2>3. QED
    BY <2>1, <2>2, <1>9
<1>11. /\ r \in Conn /\ r.at = "post" /\ r.kind = "join" /\ r.key = key
       /\ r.name = conns[c].name /\ r.shape = conns[c].shape /\ r.raw = conns[c].raw
       /\ r.room = joined
  <2>1. "post" \in Places /\ joined \in AnyRoom /\ 200 \in Codes /\ key \in AnyKey
    BY <1>3, <1>8 DEF Places, AnyRoom, Codes, AnyKey
  <2>2. QED
    BY <1>1, <1>2, <1>9, <2>1, ZenonT(40) DEF Conn
<1>12. QED
  BY <1>3, <1>4, <1>5, <1>6, <1>8, <1>10, <1>11, Zenon

LEMMA JoinRoomKeeps ==
  ASSUME ThreadInv, NEW c \in Conns, JoinRoom(c)
  PROVE  ThreadInv'
<1>1. /\ conns[c].at = "request" /\ conns[c].kind = "join" /\ lock = None
      /\ conns[c].key # None /\ lock' = Kept(c) /\ UNCHANGED <<now, posts>>
      /\ JoinsNothing(c) \/ \E key, room, joined : JoinsRoom(c, key, room, joined)
  BY JoinRoomCases
<1>2. /\ conns \in [Conns -> Conn] /\ conns[c] \in Conn /\ now \in Nat
      /\ ReadInv(conns[c]) /\ PlaceInv(c, conns[c])
  BY Here
<1>3. CASE JoinsNothing(c)
  <2>1. PICK r : r = [conns[c] EXCEPT !.at = "answer", !.code = 404]
    OBVIOUS
  <2>2. conns' = [conns EXCEPT ![c] = r]
    <3>1. conns' = [conns EXCEPT ![c].at = "answer", ![c].code = 404]
      BY <1>3 DEF JoinsNothing
    <3>2. conns \in [Conns -> Conn]
      BY <1>2
    <3>3. QED
      BY <2>1, <3>1, <3>2, ZenonT(40)
  <2>3. /\ r \in Conn /\ r.at = "answer" /\ r.kind = conns[c].kind /\ r.key = conns[c].key
        /\ r.name = conns[c].name /\ r.shape = conns[c].shape /\ r.raw = conns[c].raw
        /\ r.code = 404
    <3>1. conns[c] \in Conn /\ "answer" \in Places /\ 404 \in Codes
      BY <1>2 DEF Places, Codes
    <3>2. PICK code \in Codes : code = 404
      BY <3>1
    <3>3. r = [conns[c] EXCEPT !.at = "answer", !.code = code]
      BY <2>1, <3>2
    <3>4. /\ r \in Conn /\ r.at = "answer" /\ r.kind = conns[c].kind /\ r.key = conns[c].key
          /\ r.name = conns[c].name /\ r.shape = conns[c].shape /\ r.raw = conns[c].raw
          /\ r.code = code
      BY <3>1, <3>3, Zenon DEF Conn
    <3>5. QED
      BY <3>2, <3>4
  <2>4. ~Holding(r)
    BY <2>3 DEF Holding
  <2>5. rooms' = rooms
    BY <1>3 DEF JoinsNothing
  <2>6. QED
    BY <1>1, <2>2, <2>3, <2>4, <2>5, LookKeeps
<1>4. ASSUME NEW key, NEW room, NEW joined, JoinsRoom(c, key, room, joined) PROVE ThreadInv'
  <2>1. /\ key \in Keys /\ key.n = conns[c].key.n /\ key # None
        /\ room \in Rooms /\ joined \in Rooms /\ joined.maker = room.maker
        /\ NameRead[conns[c].name] \in Range(joined.members)
    BY <1>4, JoinsRoomFacts
  <2>2. PICK r \in Conn :
          /\ conns' = [conns EXCEPT ![c] = r]
          /\ r.at = "post" /\ r.kind = "join" /\ r.key = key
          /\ r.name = conns[c].name /\ r.shape = conns[c].shape
          /\ r.raw = conns[c].raw /\ r.room = joined
    BY <1>4, JoinsRoomFacts
  <2>3. ConnInv(c, r)
    BY <1>1, <1>2, <2>1, <2>2 DEF ConnInv, ReadInv, PlaceInv, Early, Holding
  <2>4. conns[c].key.n \in Told \cup {Period}
    BY <1>1, Zenon DEF ThreadInv, ToldInv
  <2>5. /\ room = rooms[key] /\ room # NoRoom
        /\ rooms' = [rooms EXCEPT ![key] = joined] /\ rooms \in [Keys -> Rooms \cup {NoRoom}]
    BY <1>4 DEF JoinsRoom, ThreadInv, WellTyped
  <2>6. rooms' \in [Keys -> Rooms \cup {NoRoom}] /\ rooms'[key] = joined
    BY <2>1, <2>5
  <2>7. ASSUME NEW k \in Keys, rooms'[k] # NoRoom
        PROVE  IF rooms'[k].maker = c
               THEN r.kind = "create" /\ r.key = k /\ r.at \in {"post", "answer", "done"}
               ELSE rooms[k] # NoRoom /\ rooms'[k].maker = rooms[k].maker
    <3>1. rooms[k] # NoRoom /\ rooms'[k].maker = rooms[k].maker
      BY <2>1, <2>5, <2>7
    <3>2. rooms[k].maker # c
      BY <1>1, <3>1, NotMine
    <3>3. QED
      BY <3>1, <3>2
  <2>8. \A d \in Conns : ~Holding(conns[d])
    BY <1>1, NobodyHolds
  <2>9. /\ lock' = c /\ lock' \in Conns \cup {None} /\ now' \in Nat
        /\ conns[c].at # "done" /\ r.key.n \in Told \cup {Period}
    BY <1>1, <1>2, <2>1, <2>2, <2>4 DEF Kept
  <2>10. QED
    BY <2>2, <2>3, <2>6, <2>7, <2>8, <2>9, ThreadStep, Zenon
<1>5. QED
  BY <1>1, <1>3, <1>4

LEMMA GetRoomKeeps ==
  ASSUME ThreadInv, NEW c \in Conns, GetRoom(c)
  PROVE  ThreadInv'
<1>1. /\ conns \in [Conns -> Conn] /\ conns[c] \in Conn /\ PlaceInv(c, conns[c])
  BY Here
<1>2. /\ conns[c].at = "request" /\ conns[c].kind = "get" /\ lock = None
      /\ lock' = Kept(c) /\ UNCHANGED <<rooms, now, posts>>
  BY DEF GetRoom, Serves
<1>3. PICK room, code : /\ room = rooms[Lookup(conns[c].key)]
                        /\ code = IF room = NoRoom THEN 404 ELSE 200
  OBVIOUS
<1>4. room \in AnyRoom /\ code \in Codes
  <2>1. conns[c].key \in Keys
    BY <1>1, <1>2, ConnFields DEF PlaceInv, AnyKey
  <2>2. Lookup(conns[c].key) \in Keys
    BY <2>1, LookupFacts
  <2>3. QED
    BY <1>3, <2>2 DEF ThreadInv, WellTyped, AnyRoom, Codes
<1>5. PICK r : r = [conns[c] EXCEPT !.at = "answer", !.room = room, !.code = code]
  OBVIOUS
<1>6. conns' = [conns EXCEPT ![c] = r]
  <2>1. conns' = [conns EXCEPT ![c].at = "answer", ![c].room = room, ![c].code = code]
    BY <1>3, Zenon DEF GetRoom
  <2>2. conns \in [Conns -> Conn]
    BY <1>1
  <2>3. QED
    BY <2>1, <2>2, <1>5
<1>7. /\ r \in Conn /\ r.at = "answer" /\ r.kind = conns[c].kind /\ r.key = conns[c].key
      /\ r.name = conns[c].name /\ r.shape = conns[c].shape /\ r.raw = conns[c].raw
  <2>1. conns[c] \in Conn /\ "answer" \in Places /\ room \in AnyRoom /\ code \in Codes
    BY <1>1, <1>4 DEF Places
  <2>2. QED
    BY <1>5, <2>1, Zenon DEF Conn
<1>8. ~Holding(r)
  BY <1>2, <1>7 DEF Holding
<1>9. QED
  BY <1>2, <1>6, <1>7, <1>8, LookKeeps

(* A thread goes on to answer, or has. *)
LEMMA GoesKeeps ==
  ASSUME ThreadInv, NEW c \in Conns, NEW at \in {"answer", "done"}, conns[c].at # "done",
         conns[c].at \notin Early \cup {"request", "insert"},
         Goes(c, at), UNCHANGED <<rooms, now>>, lock' \in {lock, Freed(c)},
         at = "answer" => conns[c].at = "post" /\ lock' = lock
  PROVE  /\ ThreadInv'
         /\ \E r \in Conn : /\ conns' = [conns EXCEPT ![c] = r]
                            /\ r.at = at /\ r.kind = conns[c].kind /\ r.key = conns[c].key
                            /\ r.name = conns[c].name /\ r.shape = conns[c].shape
                            /\ r.raw = conns[c].raw /\ r.room = conns[c].room
                            /\ r.code = conns[c].code
<1>1. /\ conns \in [Conns -> Conn] /\ conns[c] \in Conn /\ now \in Nat
      /\ ReadInv(conns[c]) /\ PlaceInv(c, conns[c])
  BY Here
<1>2. PICK r : r = [conns[c] EXCEPT !.at = at]
  OBVIOUS
<1>3. conns' = [conns EXCEPT ![c] = r]
  <2>1. conns' = [conns EXCEPT ![c].at = at]
    BY DEF Goes
  <2>2. conns \in [Conns -> Conn]
    BY <1>1
  <2>3. QED
    BY <2>1, <2>2, <1>2
<1>4. /\ r \in Conn /\ r.at = at /\ r.kind = conns[c].kind /\ r.key = conns[c].key
      /\ r.name = conns[c].name /\ r.shape = conns[c].shape /\ r.raw = conns[c].raw
      /\ r.room = conns[c].room /\ r.code = conns[c].code
  <2>1. conns[c] \in Conn /\ at \in Places
    BY <1>1 DEF Places
  <2>2. QED
    BY <1>2, <2>1, Zenon DEF Conn
<1>5. Holding(r) => Holding(conns[c]) /\ lock' = lock
  BY <1>4 DEF Holding
<1>6. ConnInv(c, r)
  BY <1>1, <1>4, <1>5 DEF ConnInv, ReadInv, PlaceInv, Early, Holding
<1>7. r.kind \in {"join", "delete", "get"} /\ r.key # None => r.key.n \in Told \cup {Period}
  BY <1>4, Zenon DEF ThreadInv, ToldInv
<1>8. r.at \in {"post", "answer", "done"} /\ now' \in Nat
  BY <1>1, <1>4
<1>9. ThreadInv'
  BY <1>3, <1>4, <1>5, <1>6, <1>7, <1>8, QuietStep, Zenon
<1>10. QED
  BY <1>3, <1>4, <1>9, Zenon

LEMMA SyncWithNodeKeeps ==
  ASSUME ThreadInv, NEW c \in Conns, SyncWithNode(c)
  PROVE  ThreadInv'
BY GoesKeeps DEF SyncWithNode, Early

LEMMA WriteResponseKeeps ==
  ASSUME ThreadInv, NEW c \in Conns, WriteResponse(c)
  PROVE  ThreadInv'
BY GoesKeeps DEF WriteResponse, Early

LEMMA ThreadsStart == Init => ThreadInv
<1> SUFFICES ASSUME Init PROVE ThreadInv
  OBVIOUS
<1>1. /\ Fresh.at = "idle" /\ Fresh.kind = "other" /\ Fresh.key = None
      /\ ~Holding(Fresh)
  BY Zenon DEF Fresh, Holding
<1>2. Fresh \in Conn
  <2>1. "idle" \in Places /\ "other" \in Kinds /\ None \in AnyKey /\ None \in AnyName
          /\ None \in AnyShape /\ NoRoom \in AnyRoom /\ 0 \in Nat /\ 0 \in Codes
    BY DEF Places, Kinds, AnyKey, AnyName, AnyShape, AnyRoom, Codes
  <2>2. QED
    BY <2>1, Zenon DEF Fresh, Conn
<1>3. \A c \in Conns : conns[c] = Fresh
  BY DEF Init
<1>4. WellTyped
  BY <1>2 DEF Init, WellTyped
<1>5. \A c \in Conns : ConnInv(c, conns[c])
  BY <1>1, <1>2, <1>3 DEF ConnInv, ReadInv, PlaceInv, Early
<1>6. HeldInv /\ ToldInv
  BY <1>1, <1>3 DEF HeldInv, ToldInv
<1>7. RoomsInv
  BY DEF Init, RoomsInv
<1>8. QED
  BY <1>4, <1>5, <1>6, <1>7 DEF ThreadInv

LEMMA ThreadsKeep == ThreadInv /\ [Next]_vars => ThreadInv'
<1> SUFFICES ASSUME ThreadInv, [Next]_vars PROVE ThreadInv'
  OBVIOUS
<1>1. CASE UNCHANGED vars
  BY <1>1 DEF vars, ThreadInv, WellTyped, HeldInv, RoomsInv, MadeBy, ToldInv, Told
<1>2. ASSUME NEW c \in Conns, Connect(c) \/ Reading(c) \/ Serving(c) PROVE ThreadInv'
  BY <1>2, ConnectKeeps, ReadHeadKeeps, ReadBodyKeeps, GiveUpKeeps, HandleClientKeeps,
     ServeOtherKeeps, GenerateRoomIdKeeps, CreateRoomKeeps, DeleteRoomKeeps, JoinRoomKeeps,
     GetRoomKeeps, SyncWithNodeKeeps, WriteResponseKeeps, Zenon DEF Reading, Serving
<1>3. QED
  BY <1>1, <1>2, Zenon DEF Next

LEMMA Threads == Spec => []ThreadInv
BY ThreadsStart, ThreadsKeep, PTL DEF Spec

(* A request is served when all of its announced body has been read, in    *)
(* whatever pieces header and body came (main.rs:246-294).                 *)
THEOREM AlwaysServedWhole == Spec => []ServedWhole
<1>1. ThreadInv => ServedWhole
  BY Zenon DEF ThreadInv, ConnInv, ReadInv, ServedWhole
<1>2. QED
  BY <1>1, Threads, PTL

(* A guest is never told he joined a room that is gone, or is not in       *)
(* (main.rs:170-208): the mutex he holds until then keeps the room.        *)
THEOREM JoinedRoomsExist == Spec => JoinedRoomExists
<1> DEFINE Rightly(c) ==
      conns[c].at = "answer" /\ conns'[c].at = "done"
        /\ conns[c].kind = "join" /\ conns[c].code = 200
        => /\ rooms[conns[c].key] = conns[c].room
           /\ NameRead[conns[c].name] \in Range(conns[c].room.members)
<1>1. ThreadInv => \A c \in Conns : Rightly(c)
  BY Zenon DEF ThreadInv, ConnInv, PlaceInv, HeldInv, Holding
<1>2. QED
  BY <1>1, Threads, PTL DEF JoinedRoomExists

-----------------------------------------------------------------------------
(* As long as no two rooms have one number *)

(* The members as they are posted. *)
Written == {JsonEscape(text) : text \in Texts}
Escaped(members) == [i \in DOMAIN members |-> JsonEscape(members[i])]

(* A creator's room is there and is his own until he posts it. *)
PostingInv == \A c \in Conns :
  conns[c].kind = "create" /\ conns[c].at = "post" => rooms[conns[c].key] = conns[c].room

PostsTyped == posts \in Seq([maker : Conns, members : Seq(Written)])

(* Who is told a room's number comes after its creator has been answered. *)
PostsInv ==
  \A i \in 1 .. Len(posts) : \E m \in Conns :
    /\ posts[i].maker = m /\ conns[m].kind = "create" /\ conns[m].key # None
    /\ conns[m].at \in {"answer", "done"}
    /\ rooms[conns[m].key] # NoRoom =>
         IsPrefix(posts[i].members, Escaped(rooms[conns[m].key].members))

OrderedPosts == \A i, j \in 1 .. Len(posts) :
  i < j /\ posts[i].maker = posts[j].maker => IsPrefix(posts[i].members, posts[j].members)

GoneInv == \A c \in Conns :
  conns[c].kind = "delete" /\ conns[c].key # None /\ conns[c].at \in {"answer", "done"} =>
    rooms[conns[c].key] = NoRoom /\ rooms[Other(conns[c].key)] = NoRoom

ApartInv ==
  ThreadInv /\ PostsTyped
    /\ (~Collided => PostingInv /\ PostsInv /\ OrderedPosts /\ GoneInv)

LEMMA InSeq ==
  ASSUME NEW S, NEW s \in Seq(S), NEW i \in 1 .. Len(s)
  PROVE  s[i] \in S
OBVIOUS

LEMMA PrefixFacts ==
  ASSUME NEW S, NEW s \in Seq(S), NEW t \in Seq(S)
  PROVE  IsPrefix(s, t) <=> Len(s) <= Len(t) /\ \A i \in 1 .. Len(s) : s[i] = t[i]
<1>1. Len(s) \in Nat /\ Len(t) \in Nat
  OBVIOUS
<1>2. SubSeq(s, 1, Len(s)) = s
  OBVIOUS
<1>3. CASE Len(s) <= Len(t)
  <2>1. /\ SubSeq(t, 1, Len(s)) \in Seq(S) /\ Len(SubSeq(t, 1, Len(s))) = Len(s)
        /\ \A i \in 1 .. Len(s) : SubSeq(t, 1, Len(s))[i] = t[i]
    BY <1>1, <1>3
  <2>2. s = SubSeq(t, 1, Len(s)) <=> \A i \in 1 .. Len(s) : s[i] = t[i]
    BY <2>1
  <2>3. QED
    BY <1>2, <1>3, <2>2, Zenon DEF IsPrefix
<1>4. CASE ~(Len(s) <= Len(t))
  BY <1>4 DEF IsPrefix
<1>5. QED
  BY <1>3, <1>4

LEMMA EscapedFacts ==
  ASSUME NEW s \in Seq(Texts), NEW text \in Texts
  PROVE  /\ Escaped(s) \in Seq(Written)
         /\ Escaped(Append(s, text)) = Append(Escaped(s), JsonEscape(text))
         /\ JsonEscape(text) \in Written
<1>1. \A i \in 1 .. Len(s) : s[i] \in Texts /\ JsonEscape(s[i]) \in Written
  BY DEF Written
<1>2. JsonEscape(text) \in Written
  BY DEF Written
<1>3. Escaped(s) = [i \in 1 .. Len(s) |-> JsonEscape(s[i])]
  BY DEF Escaped
<1>4. Escaped(s) \in Seq(Written) /\ Len(Escaped(s)) = Len(s)
  BY <1>1, <1>3
<1>5. Escaped(Append(s, text)) = Append(Escaped(s), JsonEscape(text))
  <2>1. Append(s, text) \in Seq(Texts) /\ Len(Append(s, text)) = Len(s) + 1
    BY AppendProperties
  <2>2. Escaped(Append(s, text)) = [i \in 1 .. Len(s) + 1 |-> JsonEscape(Append(s, text)[i])]
    BY <2>1 DEF Escaped
  <2>3. \A i \in 1 .. Len(s) + 1 :
          Append(s, text)[i] = IF i = Len(s) + 1 THEN text ELSE s[i]
    BY AppendProperties
  <2>4. QED
    BY <1>2, <1>3, <1>4, <2>2, <2>3
<1>6. QED
  BY <1>2, <1>4, <1>5

(* A prefix stays one when the members become more. *)
LEMMA PrefixGrows ==
  ASSUME NEW s \in Seq(Written), NEW members \in Seq(Texts), NEW text \in Texts,
         IsPrefix(s, Escaped(members))
  PROVE  IsPrefix(s, Escaped(Append(members, text)))
<1>1. PICK t : t = Escaped(members)
  OBVIOUS
<1>2. t \in Seq(Written) /\ JsonEscape(text) \in Written
  BY <1>1, EscapedFacts
<1>3. PICK u : u = JsonEscape(text)
  OBVIOUS
<1>4. /\ Append(t, u) \in Seq(Written) /\ Len(Append(t, u)) = Len(t) + 1
      /\ \A i \in 1 .. Len(t) : Append(t, u)[i] = t[i]
  BY <1>2, <1>3, AppendProperties
<1>5. Len(s) <= Len(t) /\ \A i \in 1 .. Len(s) : s[i] = t[i]
  BY <1>1, <1>2, PrefixFacts
<1>6. Len(s) <= Len(t) + 1 /\ \A i \in 1 .. Len(s) : s[i] = Append(t, u)[i]
  <2>1. Len(s) \in Nat /\ Len(t) \in Nat
    BY <1>2
  <2>2. QED
    BY <1>4, <1>5, <2>1
<1>7. IsPrefix(s, Append(t, u))
  BY <1>4, <1>6, PrefixFacts
<1>8. QED
  BY <1>1, <1>3, <1>7, EscapedFacts

(* Two creators with one number are one. *)
LEMMA OneMaker ==
  ASSUME ~Collided, NEW m \in Conns, NEW d \in Conns,
         conns[m].kind = "create", conns[m].key # None, conns[d].kind = "create",
         conns[d].key = conns[m].key
  PROVE  d = m
BY Zenon DEF Collided, Created

(* A creator whose number another request uses has been answered. *)
LEMMA ToldMaker ==
  ASSUME ThreadInv, ~Collided, NEW c \in Conns, conns[c].kind \in {"join", "delete", "get"},
         conns[c].key # None, NEW m \in Conns, conns[m].kind = "create", conns[m].key # None,
         conns[m].key.n = conns[c].key.n
  PROVE  conns[m].at = "done"
<1>1. conns[m].key \in MadeKeys
  BY Here DEF PlaceInv
<1>2. conns[m].key.n \in 0 .. Period - 1 /\ Period \in Nat
  BY <1>1, KeyFacts, ApiAssumption
<1>3. conns[c].key.n \in Told \cup {Period}
  BY Zenon DEF ThreadInv, ToldInv
<1>4. conns[m].key.n \in Told
  BY <1>2, <1>3
<1>5. PICK d \in Conns : /\ conns[d].kind = "create" /\ conns[d].at = "done"
                         /\ conns[d].key.n = conns[m].key.n
  BY <1>4 DEF Told
<1>6. conns[d].key \in MadeKeys
  BY <1>5, Here DEF PlaceInv
<1>7. conns[d].key = conns[m].key
  BY <1>1, <1>5, <1>6, KeyFacts
<1>8. QED
  BY <1>5, <1>7, OneMaker

(* What a step of one thread leaves of the others, and of what creators    *)
(* were given.                                                             *)
StepOf(c) ==
  /\ \A d \in Conns : d # c => conns'[d] = conns[d]
  /\ conns[c].kind = "create" /\ conns[c].key # None =>
       /\ conns'[c].kind = "create" /\ conns'[c].key = conns[c].key
       /\ conns[c].at \in {"answer", "done"} => conns'[c].at \in {"answer", "done"}

MadeNow(c) == conns'[c].kind = "create" /\ conns'[c].at = "post"

DeletedNow(c) ==
  /\ conns'[c].kind = "delete" /\ conns'[c].key # None /\ conns'[c].at \in {"answer", "done"}
  /\ ~(/\ conns[c].kind = "delete" /\ conns[c].at \in {"answer", "done"}
       /\ conns[c].key = conns'[c].key)

LEMMA CollidedStays ==
  ASSUME ThreadInv, NEW c \in Conns, StepOf(c), Collided
  PROVE  Collided'
<1>1. \A d \in Conns : conns[d].kind = "create" /\ conns[d].key # None =>
        conns'[d].kind = "create" /\ conns'[d].key = conns[d].key
  BY Zenon DEF StepOf
<1>2. PICK d \in Conns, e \in Conns :
        /\ conns[d].kind = "create" /\ conns[d].key # None
        /\ conns[e].kind = "create" /\ conns[e].key # None
        /\ d # e /\ conns[d].key = conns[e].key
  BY Zenon DEF Collided, Created
<1>3. d \in Created' /\ e \in Created' /\ conns'[d].key = conns'[e].key
  BY <1>1, <1>2, Zenon DEF Created
<1>4. QED
  BY <1>2, <1>3, Zenon DEF Collided

(* A step that reads or changes neither rooms nor posts. *)
LEMMA QuietApart ==
  ASSUME ApartInv, ThreadInv', NEW c \in Conns, StepOf(c), ~MadeNow(c), ~DeletedNow(c),
         UNCHANGED <<rooms, posts>>
  PROVE  ApartInv'
<1>1. PostsTyped'
  BY DEF ApartInv, PostsTyped
<1>2. ASSUME ~Collided' PROVE (PostingInv /\ PostsInv /\ OrderedPosts /\ GoneInv)'
  <2>1. PostingInv /\ PostsInv /\ OrderedPosts /\ GoneInv
    BY <1>2, CollidedStays DEF ApartInv
  <2>2. PostingInv'
    BY <2>1, Zenon DEF PostingInv, StepOf, MadeNow
  <2>3. PostsInv'
    <3> SUFFICES ASSUME NEW i \in 1 .. Len(posts)
                 PROVE  \E m \in Conns :
                   /\ posts[i].maker = m /\ conns'[m].kind = "create" /\ conns'[m].key # None
                   /\ conns'[m].at \in {"answer", "done"}
                   /\ rooms[conns'[m].key] # NoRoom =>
                        IsPrefix(posts[i].members, Escaped(rooms[conns'[m].key].members))
      BY Zenon DEF PostsInv
    <3>1. PICK m \in Conns :
            /\ posts[i].maker = m /\ conns[m].kind = "create" /\ conns[m].key # None
            /\ conns[m].at \in {"answer", "done"}
            /\ rooms[conns[m].key] # NoRoom =>
                 IsPrefix(posts[i].members, Escaped(rooms[conns[m].key].members))
      BY <2>1, Zenon DEF PostsInv
    <3>2. /\ conns'[m].kind = "create" /\ conns'[m].key = conns[m].key
          /\ conns'[m].at \in {"answer", "done"}
      BY <3>1, Zenon DEF StepOf
    <3>3. QED
      BY <3>1, <3>2, Zenon
  <2>4. OrderedPosts'
    BY <2>1, Zenon DEF OrderedPosts
  <2>5. GoneInv'
    <3> SUFFICES ASSUME NEW d \in Conns, conns'[d].kind = "delete", conns'[d].key # None,
                        conns'[d].at \in {"answer", "done"}
                 PROVE  rooms[conns'[d].key] = NoRoom /\ rooms[Other(conns'[d].key)] = NoRoom
      BY Zenon DEF GoneInv
    <3>1. /\ conns[d].kind = "delete" /\ conns[d].key = conns'[d].key
          /\ conns[d].at \in {"answer", "done"}
      BY Zenon DEF StepOf, DeletedNow
    <3>2. QED
      BY <2>1, <3>1, Zenon DEF GoneInv
  <2>6. QED
    BY <2>2, <2>3, <2>4, <2>5
<1>3. QED
  BY <1>1, <1>2 DEF ApartInv

(* A thread that has not asked for anything yet. *)
LEMMA EarlyApart ==
  ASSUME ApartInv, ThreadInv', NEW c \in Conns, conns[c].at \in Early,
         \A d \in Conns : d # c => conns'[d] = conns[d],
         conns'[c].at \in Early \cup {"request"},
         UNCHANGED <<rooms, posts>>
  PROVE  ApartInv'
<1>1. conns[c].kind = "other"
  BY Here DEF ApartInv, ReadInv
<1>2. StepOf(c)
  BY <1>1, Zenon DEF StepOf
<1>3. conns'[c].at \notin {"post", "answer", "done"}
  BY DEF Early
<1>4. QED
  BY <1>2, <1>3, QuietApart, Zenon DEF MadeNow, DeletedNow

LEMMA ReadingApart ==
  ASSUME ApartInv, ThreadInv', NEW c \in Conns, Connect(c) \/ Reading(c) \/ HandleClient(c)
  PROVE  ApartInv'
<1>1. conns \in [Conns -> Conn] /\ conns[c] \in Conn /\ UNCHANGED <<rooms, posts>>
  BY Here DEF ApartInv, Connect, Reading, ReadHead, ReadBody, GiveUp, HandleClient
<1>2. conns[c].at \in Early
  BY Zenon DEF Connect, Reading, ReadHead, ReadBody, GiveUp, HandleClient, Early
<1>3. \A d \in Conns : d # c => conns'[d] = conns[d]
  <2>1. CASE Connect(c)
    BY <1>1, <2>1 DEF Connect
  <2>2. CASE ReadHead(c)
    BY <1>1, <2>2 DEF ReadHead
  <2>3. CASE ReadBody(c)
    BY <1>1, <2>3 DEF ReadBody
  <2>4. CASE GiveUp(c)
    BY <1>1, <2>4 DEF GiveUp
  <2>5. CASE HandleClient(c)
    BY <1>1, <2>5 DEF HandleClient
  <2>6. QED
    BY <2>1, <2>2, <2>3, <2>4, <2>5 DEF Reading
<1>4. conns'[c].at \in Early \cup {"request"}
  <2>1. CASE Connect(c)
    <3>1. PICK s : conns' = [conns EXCEPT ![c].at = "head", ![c].shape = s]
      BY <2>1 DEF Connect
    <3>2. conns'[c].at = "head"
      BY <1>1, <3>1
    <3>3. QED
      BY <3>2 DEF Early
  <2>2. CASE ReadHead(c)
    <3>1. PICK raw, s : conns' = [conns EXCEPT ![c] =
             IF ReadUpTo(s, raw) = "closed" THEN Closed
             ELSE [conns[c] EXCEPT !.raw = raw, !.at = ReadUpTo(s, raw)]]
      BY <2>2, Zenon DEF ReadHead
    <3>2. Closed.at = "closed"
      BY Zenon DEF Closed, Fresh
    <3>3. ReadUpTo(s, raw) \in {"closed", "head", "body", "read"}
      BY Zenon DEF ReadUpTo
    <3>4. CASE ReadUpTo(s, raw) = "closed"
      BY <1>1, <3>1, <3>2, <3>4 DEF Early
    <3>5. CASE ReadUpTo(s, raw) # "closed"
      <4>1. conns'[c] = [conns[c] EXCEPT !.raw = raw, !.at = ReadUpTo(s, raw)]
        BY <1>1, <3>1, <3>5
      <4>2. conns'[c].at = ReadUpTo(s, raw)
        BY <1>1, <4>1, Zenon DEF Conn
      <4>3. QED
        BY <3>3, <4>2, Zenon DEF Early
    <3>6. QED
      BY <3>4, <3>5
  <2>3. CASE ReadBody(c)
    BY <1>1, <2>3 DEF ReadBody, Early
  <2>4. CASE GiveUp(c)
    <3>1. Closed.at = "closed"
      BY Zenon DEF Closed, Fresh
    <3>2. QED
      BY <1>1, <2>4, <3>1 DEF GiveUp, Early
  <2>5. CASE HandleClient(c)
    <3>1. PICK q \in Requests, name \in NamesFor[c] :
            conns' = [conns EXCEPT ![c].at = "request", ![c].kind = q.kind, ![c].key = q.key,
                        ![c].name = IF q.kind \in {"create", "join"} THEN name ELSE None]
      BY <2>5, Zenon DEF HandleClient
    <3>2. PICK asked : asked = IF q.kind \in {"create", "join"} THEN name ELSE None
      OBVIOUS
    <3>3. conns' = [conns EXCEPT ![c].at = "request", ![c].kind = q.kind, ![c].key = q.key,
                                 ![c].name = asked]
      BY <3>1, <3>2, Zenon
    <3>4. conns'[c].at = "request"
      BY <1>1, <3>3
    <3>5. QED
      BY <3>4
  <2>6. QED
    BY <2>1, <2>2, <2>3, <2>4, <2>5 DEF Reading
<1>5. QED
  BY <1>1, <1>2, <1>3, <1>4, EarlyApart

(* A thread that answers, without having changed a room now. *)
LEMMA AnswerApart ==
  ASSUME ApartInv, ThreadInv', NEW c \in Conns, \A d \in Conns : d # c => conns'[d] = conns[d],
         conns'[c].kind = conns[c].kind, conns'[c].key = conns[c].key,
         conns'[c].at \in {"answer", "done"}, conns[c].kind # "delete" \/ conns[c].at = "answer",
         UNCHANGED <<rooms, posts>>
  PROVE  ApartInv'
<1>1. StepOf(c)
  BY Zenon DEF StepOf
<1>2. ~MadeNow(c) /\ ~DeletedNow(c)
  BY DEF MadeNow, DeletedNow
<1>3. QED
  BY <1>1, <1>2, QuietApart

LEMMA ServeOtherApart ==
  ASSUME ApartInv, ThreadInv', NEW c \in Conns, ServeOther(c)
  PROVE  ApartInv'
<1>1. conns \in [Conns -> Conn]
  BY Here DEF ApartInv
<1>2. conns[c].kind \in {"other", "join"} /\ UNCHANGED <<rooms, posts>>
  BY DEF ServeOther, Serves, Incomplete
<1>3. PICK code : conns' = [conns EXCEPT ![c].at = "answer", ![c].code = code]
  BY ZenonT(40) DEF ServeOther
<1>4. /\ conns'[c].kind = conns[c].kind /\ conns'[c].key = conns[c].key
      /\ conns'[c].at = "answer" /\ \A d \in Conns : d # c => conns'[d] = conns[d]
  BY <1>1, <1>3
<1>5. QED
  BY <1>2, <1>4, AnswerApart

LEMMA GenerateRoomIdApart ==
  ASSUME ApartInv, ThreadInv', NEW c \in Conns, GenerateRoomId(c)
  PROVE  ApartInv'
<1>1. conns \in [Conns -> Conn]
  BY Here DEF ApartInv
<1>2. conns[c].kind = "create" /\ conns[c].key = None /\ UNCHANGED <<rooms, posts>>
  BY Here DEF GenerateRoomId, Serves, PlaceInv, ApartInv
<1>3. PICK key : conns' = [conns EXCEPT ![c].at = "insert", ![c].key = key]
  BY Zenon DEF GenerateRoomId
<1>4. /\ conns'[c].kind = conns[c].kind /\ conns'[c].at = "insert"
      /\ \A d \in Conns : d # c => conns'[d] = conns[d]
  BY <1>1, <1>3
<1>5. StepOf(c) /\ ~MadeNow(c) /\ ~DeletedNow(c)
  BY <1>2, <1>4 DEF StepOf, MadeNow, DeletedNow
<1>6. QED
  BY <1>2, <1>5, QuietApart

LEMMA GetRoomApart ==
  ASSUME ApartInv, ThreadInv', NEW c \in Conns, GetRoom(c)
  PROVE  ApartInv'
<1>1. conns \in [Conns -> Conn]
  BY Here DEF ApartInv
<1>2. conns[c].kind = "get" /\ UNCHANGED <<rooms, posts>>
  BY DEF GetRoom, Serves
<1>3. PICK room, code :
        conns' = [conns EXCEPT ![c].at = "answer", ![c].room = room, ![c].code = code]
  <2>1. PICK room : room = rooms[Lookup(conns[c].key)]
    OBVIOUS
  <2>2. PICK code : code = IF room = NoRoom THEN 404 ELSE 200
    OBVIOUS
  <2>3. conns' = [conns EXCEPT ![c].at = "answer", ![c].room = room, ![c].code = code]
    BY <2>1, <2>2, Zenon DEF GetRoom
  <2>4. QED
    BY <2>3
<1>4. /\ conns'[c].kind = conns[c].kind /\ conns'[c].key = conns[c].key
      /\ conns'[c].at = "answer" /\ \A d \in Conns : d # c => conns'[d] = conns[d]
  BY <1>1, <1>3
<1>5. QED
  BY <1>2, <1>4, AnswerApart

LEMMA WriteResponseApart ==
  ASSUME ApartInv, ThreadInv', NEW c \in Conns, WriteResponse(c)
  PROVE  ApartInv'
<1>1. conns \in [Conns -> Conn]
  BY Here DEF ApartInv
<1>2. conns[c].at = "answer" /\ UNCHANGED <<rooms, posts>>
  BY DEF WriteResponse
<1>3. /\ conns'[c].kind = conns[c].kind /\ conns'[c].key = conns[c].key
      /\ conns'[c].at = "done" /\ \A d \in Conns : d # c => conns'[d] = conns[d]
  BY <1>1 DEF WriteResponse, Goes
<1>4. QED
  BY <1>2, <1>3, AnswerApart

LEMMA CreateRoomApart ==
  ASSUME ApartInv, ThreadInv', NEW c \in Conns, CreateRoom(c)
  PROVE  ApartInv'
<1> DEFINE key == conns[c].key
<1>1. conns \in [Conns -> Conn] /\ ThreadInv /\ PlaceInv(c, conns[c])
  BY Here DEF ApartInv
<1>2. /\ conns[c].at = "insert" /\ conns[c].kind = "create" /\ key # None /\ key \in MadeKeys
      /\ UNCHANGED posts
  BY <1>1 DEF CreateRoom, PlaceInv
<1>3. PICK room : room = [maker |-> c, members |-> <<NameRead[conns[c].name]>>]
  OBVIOUS
<1>4. /\ conns' = [conns EXCEPT ![c].at = "post", ![c].room = room, ![c].code = 200]
      /\ rooms' = [rooms EXCEPT ![key] = room]
  BY <1>3, Zenon DEF CreateRoom
<1>5. /\ conns'[c].kind = "create" /\ conns'[c].key = key /\ conns'[c].at = "post"
      /\ conns'[c].room = room /\ \A d \in Conns : d # c => conns'[d] = conns[d]
  BY <1>1, <1>2, <1>4
<1>6. StepOf(c)
  BY <1>2, <1>5 DEF StepOf
<1>7. key \in Keys /\ key.n \in 0 .. Period - 1
  BY <1>2, KeyFacts
<1>8. /\ rooms'[key] = room
      /\ \A k \in Keys : k # key => rooms'[k] = rooms[k]
  BY <1>4, <1>7, <1>1 DEF ThreadInv, WellTyped
<1>9. PostsTyped'
  BY <1>2 DEF ApartInv, PostsTyped
<1>10. ASSUME ~Collided' PROVE (PostingInv /\ PostsInv /\ OrderedPosts /\ GoneInv)'
  <2>1. ~Collided /\ PostingInv /\ PostsInv /\ OrderedPosts /\ GoneInv
    BY <1>1, <1>6, <1>10, CollidedStays DEF ApartInv
  <2>2. \A m \in Conns : m # c /\ conns[m].kind = "create" /\ conns[m].key # None =>
          conns[m].key \in Keys /\ conns[m].key # key
    <3> SUFFICES ASSUME NEW m \in Conns, m # c, conns[m].kind = "create", conns[m].key # None
                 PROVE  conns[m].key \in Keys /\ conns[m].key # key
      OBVIOUS
    <3>1. conns[m].key \in Keys
      BY <1>1, Here, ConnFields DEF AnyKey
    <3>2. conns[m].key # key
      BY <1>2, <2>1, OneMaker
    <3>3. QED
      BY <3>1, <3>2
  <2>3. PostingInv'
    <3> SUFFICES ASSUME NEW m \in Conns, conns'[m].kind = "create", conns'[m].at = "post"
                 PROVE  rooms'[conns'[m].key] = conns'[m].room
      BY Zenon DEF PostingInv
    <3>1. CASE m = c
      BY <1>5, <1>8, <3>1
    <3>2. CASE m # c
      <4>1. conns'[m] = conns[m] /\ conns[m].kind = "create" /\ conns[m].at = "post"
        BY <1>5, <3>2
      <4>2. conns[m].key # None
        BY <1>1, <4>1, Here DEF PlaceInv
      <4>3. rooms'[conns[m].key] = rooms[conns[m].key]
        BY <1>8, <2>2, <3>2, <4>1, <4>2
      <4>4. QED
        BY <2>1, <4>1, <4>3, Zenon DEF PostingInv
    <3>3. QED
      BY <3>1, <3>2
  <2>4. PostsInv'
    <3> SUFFICES ASSUME NEW i \in 1 .. Len(posts)
                 PROVE  \E m \in Conns :
                   /\ posts[i].maker = m /\ conns'[m].kind = "create" /\ conns'[m].key # None
                   /\ conns'[m].at \in {"answer", "done"}
                   /\ rooms'[conns'[m].key] # NoRoom =>
                        IsPrefix(posts[i].members, Escaped(rooms'[conns'[m].key].members))
      BY <1>2, Zenon DEF PostsInv
    <3>1. PICK m \in Conns :
            /\ posts[i].maker = m /\ conns[m].kind = "create" /\ conns[m].key # None
            /\ conns[m].at \in {"answer", "done"}
            /\ rooms[conns[m].key] # NoRoom =>
                 IsPrefix(posts[i].members, Escaped(rooms[conns[m].key].members))
      BY <2>1, Zenon DEF PostsInv
    <3>2. m # c
      BY <1>2, <3>1
    <3>3. conns'[m] = conns[m] /\ rooms'[conns[m].key] = rooms[conns[m].key]
      BY <1>5, <1>8, <2>2, <3>1, <3>2
    <3>4. QED
      BY <3>1, <3>3, Zenon
  <2>5. OrderedPosts'
    BY <1>2, <2>1, Zenon DEF OrderedPosts
  <2>6. GoneInv'
    <3> SUFFICES ASSUME NEW d \in Conns, conns'[d].kind = "delete", conns'[d].key # None,
                        conns'[d].at \in {"answer", "done"}
                 PROVE  /\ rooms'[conns'[d].key] = NoRoom
                        /\ rooms'[Other(conns'[d].key)] = NoRoom
      BY Zenon DEF GoneInv
    <3>1. d # c /\ conns'[d] = conns[d]
      BY <1>5
    <3>2. rooms[conns[d].key] = NoRoom /\ rooms[Other(conns[d].key)] = NoRoom
      BY <2>1, <3>1, Zenon DEF GoneInv
    <3>3. conns[d].key \in Keys
      BY <1>1, <3>1, Here, ConnFields DEF AnyKey
    <3>4. conns[d].key.n # key.n
      BY <1>1, <1>2, <2>1, <3>1, ToldMaker
    <3>5. /\ conns[d].key # key /\ Other(conns[d].key) # key /\ Other(conns[d].key) \in Keys
      BY <3>3, <3>4, KeyFacts
    <3>6. QED
      BY <1>8, <3>1, <3>2, <3>3, <3>5
  <2>7. QED
    BY <2>3, <2>4, <2>5, <2>6
<1>11. QED
  BY <1>9, <1>10 DEF ApartInv

(* No creator who has still to post has the number that another request    *)
(* uses.                                                                   *)
LEMMA PostingApart ==
  ASSUME ThreadInv, ~Collided, NEW c \in Conns, conns[c].kind \in {"join", "delete", "get"},
         conns[c].key # None, NEW m \in Conns, conns[m].kind = "create", conns[m].at = "post"
  PROVE  conns[m].key \in Keys /\ conns[m].key # None /\ conns[m].key.n # conns[c].key.n
<1>1. conns[m].key # None
  BY Here DEF PlaceInv
<1>2. conns[m].key \in Keys
  BY <1>1, Here, ConnFields DEF AnyKey
<1>3. conns[m].key.n # conns[c].key.n
  BY <1>1, ToldMaker
<1>4. QED
  BY <1>1, <1>2, <1>3

LEMMA DeleteRoomApart ==
  ASSUME ApartInv, ThreadInv', NEW c \in Conns, DeleteRoom(c)
  PROVE  ApartInv'
<1> DEFINE key == conns[c].key
<1>1. conns \in [Conns -> Conn] /\ ThreadInv /\ conns[c] \in Conn
  BY Here DEF ApartInv
<1>2. conns[c].at = "request" /\ conns[c].kind = "delete" /\ UNCHANGED posts
  BY DEF DeleteRoom, Serves
<1>3. conns' = [conns EXCEPT ![c].at = "answer", ![c].code = 200]
  BY DEF DeleteRoom
<1>4. /\ conns'[c].kind = "delete" /\ conns'[c].key = key /\ conns'[c].at = "answer"
      /\ \A d \in Conns : d # c => conns'[d] = conns[d]
  BY <1>1, <1>2, <1>3
<1>5. StepOf(c) /\ ~MadeNow(c)
  BY <1>2, <1>4 DEF StepOf, MadeNow
<1>6. CASE key = None
  <2>1. ~DeletedNow(c)
    BY <1>4, <1>6 DEF DeletedNow
  <2>2. rooms' = rooms
    BY <1>6, Zenon DEF DeleteRoom
  <2>3. QED
    BY <1>2, <1>5, <2>1, <2>2, QuietApart
<1>7. CASE key # None
  <2>1. rooms' = [k \in Keys |-> IF k \in Spellings(key) THEN NoRoom ELSE rooms[k]]
    BY <1>7, Zenon DEF DeleteRoom
  <2>2. key \in Keys
    BY <1>1, <1>7, ConnFields DEF AnyKey
  <2>3. /\ Other(key) \in Keys /\ key \in Spellings(key) /\ Other(key) \in Spellings(key)
        /\ \A k \in Spellings(key) : k.n = key.n
    BY <2>2, KeyFacts DEF Spellings
  <2>4. rooms'[key] = NoRoom /\ rooms'[Other(key)] = NoRoom
    BY <2>1, <2>2, <2>3
  <2>5. \A k \in Keys : rooms'[k] = NoRoom \/ rooms'[k] = rooms[k]
    BY <2>1
  <2>6. \A k \in Keys : k.n # key.n => rooms'[k] = rooms[k]
    BY <2>1, <2>3
  <2>7. PostsTyped'
    BY <1>2 DEF ApartInv, PostsTyped
  <2>8. ASSUME ~Collided' PROVE (PostingInv /\ PostsInv /\ OrderedPosts /\ GoneInv)'
    <3>1. ~Collided /\ PostingInv /\ PostsInv /\ OrderedPosts /\ GoneInv
      BY <1>1, <1>5, <2>8, CollidedStays DEF ApartInv
    <3>2. PostingInv'
      <4> SUFFICES ASSUME NEW m \in Conns, conns'[m].kind = "create", conns'[m].at = "post"
                   PROVE  rooms'[conns'[m].key] = conns'[m].room
        BY Zenon DEF PostingInv
      <4>1. conns'[m] = conns[m] /\ conns[m].kind = "create" /\ conns[m].at = "post"
        BY <1>4
      <4>2. conns[m].key \in Keys /\ conns[m].key.n # key.n
        BY <1>1, <1>2, <1>7, <3>1, <4>1, PostingApart
      <4>3. rooms'[conns[m].key] = rooms[conns[m].key]
        BY <2>6, <4>2
      <4>4. QED
        BY <3>1, <4>1, <4>3, Zenon DEF PostingInv
    <3>3. PostsInv'
      <4> SUFFICES ASSUME NEW i \in 1 .. Len(posts)
                   PROVE  \E m \in Conns :
                     /\ posts[i].maker = m /\ conns'[m].kind = "create"
                     /\ conns'[m].key # None /\ conns'[m].at \in {"answer", "done"}
                     /\ rooms'[conns'[m].key] # NoRoom =>
                          IsPrefix(posts[i].members, Escaped(rooms'[conns'[m].key].members))
        BY <1>2, Zenon DEF PostsInv
      <4>1. PICK m \in Conns :
              /\ posts[i].maker = m /\ conns[m].kind = "create" /\ conns[m].key # None
              /\ conns[m].at \in {"answer", "done"}
              /\ rooms[conns[m].key] # NoRoom =>
                   IsPrefix(posts[i].members, Escaped(rooms[conns[m].key].members))
        BY <3>1, Zenon DEF PostsInv
      <4>2. conns'[m] = conns[m]
        BY <1>2, <1>4, <4>1
      <4>3. conns[m].key \in Keys
        BY <1>1, <4>1, Here, ConnFields DEF AnyKey
      <4>4. rooms'[conns[m].key] = NoRoom \/ rooms'[conns[m].key] = rooms[conns[m].key]
        BY <2>5, <4>3
      <4>5. QED
        BY <4>1, <4>2, <4>4, Zenon
    <3>4. OrderedPosts'
      BY <1>2, <3>1, Zenon DEF OrderedPosts
    <3>5. GoneInv'
      <4> SUFFICES ASSUME NEW d \in Conns, conns'[d].kind = "delete", conns'[d].key # None,
                          conns'[d].at \in {"answer", "done"}
                   PROVE  /\ rooms'[conns'[d].key] = NoRoom
                          /\ rooms'[Other(conns'[d].key)] = NoRoom
        BY Zenon DEF GoneInv
      <4>1. CASE d = c
        BY <1>4, <2>4, <4>1
      <4>2. CASE d # c
        <5>1. conns'[d] = conns[d]
          BY <1>4, <4>2
        <5>2. rooms[conns[d].key] = NoRoom /\ rooms[Other(conns[d].key)] = NoRoom
          BY <3>1, <5>1, Zenon DEF GoneInv
        <5>3. conns[d].key \in Keys
          BY <1>1, <5>1, Here, ConnFields DEF AnyKey
        <5>4. Other(conns[d].key) \in Keys
          BY <5>3, KeyFacts
        <5>5. QED
          BY <2>5, <5>1, <5>2, <5>3, <5>4
      <4>3. QED
        BY <4>1, <4>2
    <3>6. QED
      BY <3>2, <3>3, <3>4, <3>5
  <2>9. QED
    BY <2>7, <2>8 DEF ApartInv
<1>8. QED
  BY <1>6, <1>7

LEMMA JoinRoomApart ==
  ASSUME ApartInv, ThreadInv', NEW c \in Conns, JoinRoom(c)
  PROVE  ApartInv'
<1>1. conns \in [Conns -> Conn] /\ ThreadInv /\ conns[c] \in Conn
  BY Here DEF ApartInv
<1>2. /\ conns[c].at = "request" /\ conns[c].kind = "join" /\ conns[c].key # None
      /\ UNCHANGED posts
      /\ JoinsNothing(c) \/ \E key, room, joined : JoinsRoom(c, key, room, joined)
  BY JoinRoomCases
<1>3. CASE JoinsNothing(c)
  <2>1. conns' = [conns EXCEPT ![c].at = "answer", ![c].code = 404] /\ UNCHANGED rooms
    BY <1>3 DEF JoinsNothing
  <2>2. /\ conns'[c].kind = conns[c].kind /\ conns'[c].key = conns[c].key
        /\ conns'[c].at = "answer" /\ \A d \in Conns : d # c => conns'[d] = conns[d]
    BY <1>1, <2>1
  <2>3. QED
    BY <1>2, <2>1, <2>2, AnswerApart
<1>4. ASSUME NEW key, NEW room, NEW joined, JoinsRoom(c, key, room, joined) PROVE ApartInv'
  <2>1. /\ key \in Keys /\ key.n = conns[c].key.n /\ room \in Rooms /\ joined \in Rooms
        /\ joined.members = room.members
             \/ joined.members = Append(room.members, NameRead[conns[c].name])
        /\ NameRead[conns[c].name] \in Texts
    BY <1>4, <1>1, JoinsRoomFacts
  <2>2. /\ conns'[c].kind = "join" /\ conns'[c].at = "post"
        /\ \A d \in Conns : d # c => conns'[d] = conns[d]
    <3>1. PICK r \in Conn : conns' = [conns EXCEPT ![c] = r] /\ r.at = "post" /\ r.kind = "join"
      BY <1>4, <1>1, JoinsRoomFacts
    <3>2. QED
      BY <1>1, <3>1
  <2>3. StepOf(c)
    BY <1>2, <2>2 DEF StepOf
  <2>4. /\ room = rooms[key] /\ room # NoRoom /\ rooms'[key] = joined
        /\ \A k \in Keys : k # key => rooms'[k] = rooms[k]
    BY <1>1, <1>4, <2>1 DEF JoinsRoom, ThreadInv, WellTyped
  <2>5. PostsTyped'
    BY <1>2 DEF ApartInv, PostsTyped
  <2>6. ASSUME ~Collided' PROVE (PostingInv /\ PostsInv /\ OrderedPosts /\ GoneInv)'
    <3>1. ~Collided /\ PostingInv /\ PostsInv /\ OrderedPosts /\ GoneInv
      BY <1>1, <2>3, <2>6, CollidedStays DEF ApartInv
    <3>2. PostingInv'
      <4> SUFFICES ASSUME NEW m \in Conns, conns'[m].kind = "create", conns'[m].at = "post"
                   PROVE  rooms'[conns'[m].key] = conns'[m].room
        BY Zenon DEF PostingInv
      <4>1. conns'[m] = conns[m] /\ conns[m].kind = "create" /\ conns[m].at = "post"
        BY <2>2
      <4>2. conns[m].key \in Keys /\ conns[m].key.n # conns[c].key.n
        BY <1>1, <1>2, <3>1, <4>1, PostingApart
      <4>3. rooms'[conns[m].key] = rooms[conns[m].key]
        BY <2>1, <2>4, <4>2
      <4>4. QED
        BY <3>1, <4>1, <4>3, Zenon DEF PostingInv
    <3>3. PostsInv'
      <4> SUFFICES ASSUME NEW i \in 1 .. Len(posts)
                   PROVE  \E m \in Conns :
                     /\ posts[i].maker = m /\ conns'[m].kind = "create"
                     /\ conns'[m].key # None /\ conns'[m].at \in {"answer", "done"}
                     /\ rooms'[conns'[m].key] # NoRoom =>
                          IsPrefix(posts[i].members, Escaped(rooms'[conns'[m].key].members))
        BY <1>2, Zenon DEF PostsInv
      <4>1. PICK m \in Conns :
              /\ posts[i].maker = m /\ conns[m].kind = "create" /\ conns[m].key # None
              /\ conns[m].at \in {"answer", "done"}
              /\ rooms[conns[m].key] # NoRoom =>
                   IsPrefix(posts[i].members, Escaped(rooms[conns[m].key].members))
        BY <3>1, Zenon DEF PostsInv
      <4>2. conns'[m] = conns[m]
        BY <1>2, <2>2, <4>1
      <4>3. conns[m].key \in Keys
        BY <1>1, <4>1, Here, ConnFields DEF AnyKey
      <4>4. CASE conns[m].key # key
        <5>1. rooms'[conns[m].key] = rooms[conns[m].key]
          BY <2>4, <4>3, <4>4
        <5>2. QED
          BY <4>1, <4>2, <5>1, Zenon
      <4>5. CASE conns[m].key = key
        <5>1. posts[i].members \in Seq(Written)
          <6>1. posts \in Seq([maker : Conns, members : Seq(Written)])
            BY Zenon DEF ApartInv, PostsTyped
          <6>2. posts[i] \in [maker : Conns, members : Seq(Written)]
            BY <6>1, InSeq
          <6>3. QED
            BY <6>2
        <5>2. room.members \in Seq(Texts)
          BY <2>1 DEF Rooms
        <5>3. IsPrefix(posts[i].members, Escaped(room.members))
          BY <2>4, <4>1, <4>5
        <5>4. IsPrefix(posts[i].members, Escaped(joined.members))
          BY <2>1, <5>1, <5>2, <5>3, PrefixGrows
        <5>5. QED
          BY <2>4, <4>1, <4>2, <4>5, <5>4, Zenon
      <4>6. QED
        BY <4>4, <4>5
    <3>4. OrderedPosts'
      BY <1>2, <3>1, Zenon DEF OrderedPosts
    <3>5. GoneInv'
      <4> SUFFICES ASSUME NEW d \in Conns, conns'[d].kind = "delete", conns'[d].key # None,
                          conns'[d].at \in {"answer", "done"}
                   PROVE  /\ rooms'[conns'[d].key] = NoRoom
                          /\ rooms'[Other(conns'[d].key)] = NoRoom
        BY Zenon DEF GoneInv
      <4>1. conns'[d] = conns[d]
        BY <2>2
      <4>2. rooms[conns[d].key] = NoRoom /\ rooms[Other(conns[d].key)] = NoRoom
        BY <3>1, <4>1, Zenon DEF GoneInv
      <4>3. conns[d].key \in Keys
        BY <1>1, <4>1, Here, ConnFields DEF AnyKey
      <4>4. Other(conns[d].key) \in Keys
        BY <4>3, KeyFacts
      <4>5. QED
        BY <2>4, <4>1, <4>2, <4>3, <4>4
    <3>6. QED
      BY <3>2, <3>3, <3>4, <3>5
  <2>7. QED
    BY <2>5, <2>6 DEF ApartInv
<1>5. QED
  BY <1>2, <1>3, <1>4

LEMMA RoomJsonFacts ==
  ASSUME NEW room \in Rooms
  PROVE  /\ RoomJson(room) \in [maker : Conns, members : Seq(Written)]
         /\ RoomJson(room).maker = room.maker
         /\ RoomJson(room).members = Escaped(room.members)
         /\ Escaped(room.members) \in Seq(Written)
<1>1. room.members \in Seq(Texts) /\ room.maker \in Conns
  BY DEF Rooms
<1>2. Escaped(room.members) \in Seq(Written)
  <2>1. \A i \in 1 .. Len(room.members) : JsonEscape(room.members[i]) \in Written
    BY <1>1 DEF Written
  <2>2. Escaped(room.members)
          = [i \in 1 .. Len(room.members) |-> JsonEscape(room.members[i])]
    BY <1>1 DEF Escaped
  <2>3. QED
    BY <1>1, <2>1, <2>2
<1>3. PICK members : members = Escaped(room.members)
  OBVIOUS
<1>4. RoomJson(room) = [room EXCEPT !.members = members]
  BY <1>3, Zenon DEF RoomJson, Escaped
<1>5. /\ [room EXCEPT !.members = members].maker = room.maker
      /\ [room EXCEPT !.members = members].members = members
  BY Zenon DEF Rooms
<1>6. [room EXCEPT !.members = members] \in [maker : Conns, members : Seq(Written)]
  <2>1. members \in Seq(Written)
    BY <1>2, <1>3
  <2>2. QED
    BY <2>1, Zenon DEF Rooms
<1>7. QED
  BY <1>2, <1>3, <1>4, <1>5, <1>6, Zenon

(* The room that is posted is the one at its key. *)
LEMMA PostedRoom ==
  ASSUME ThreadInv, PostingInv, NEW c \in Conns, conns[c].at = "post"
  PROVE  LET room == conns[c].room
         IN  /\ room \in Rooms /\ conns[c].key \in Keys
             /\ rooms[conns[c].key] = room /\ room # NoRoom
             /\ MadeBy(room.maker, conns[c].key)
             /\ conns[c].kind = "create" => room.maker = c
             /\ conns[c].kind \in {"create", "join"} /\ conns[c].key # None
<1>1. PlaceInv(c, conns[c]) /\ conns[c] \in Conn
  BY Here
<1>2. /\ conns[c].kind \in {"create", "join"} /\ conns[c].key # None
      /\ conns[c].room \in Rooms
      /\ conns[c].kind = "create" => conns[c].room.maker = c
  BY <1>1 DEF PlaceInv, Holding
<1>3. conns[c].key \in Keys
  BY <1>1, <1>2, ConnFields DEF AnyKey
<1>4. rooms[conns[c].key] = conns[c].room
  <2>1. CASE conns[c].kind = "create"
    BY <2>1, Zenon DEF PostingInv
  <2>2. CASE conns[c].kind = "join"
    <3>1. Holding(conns[c])
      BY <2>2 DEF Holding
    <3>2. QED
      BY <3>1, Zenon DEF ThreadInv, HeldInv
  <2>3. QED
    BY <1>2, <2>1, <2>2
<1>5. conns[c].room # NoRoom
  BY <1>2, NoRoomIsNone
<1>6. MadeBy(conns[c].room.maker, conns[c].key)
  BY <1>3, <1>4, <1>5, Zenon DEF ThreadInv, RoomsInv
<1>7. QED
  BY <1>2, <1>3, <1>4, <1>5, <1>6, Zenon

LEMMA SyncWithNodeApart ==
  ASSUME ApartInv, ThreadInv', NEW c \in Conns, SyncWithNode(c)
  PROVE  ApartInv'
<1>1. conns \in [Conns -> Conn] /\ ThreadInv /\ PlaceInv(c, conns[c])
  BY Here DEF ApartInv
<1>2. conns[c].at = "post" /\ UNCHANGED rooms
  BY DEF SyncWithNode
<1>3. conns[c].kind \in {"create", "join"} /\ conns[c].room \in Rooms
  BY <1>1, <1>2 DEF PlaceInv
<1>4. /\ conns'[c].kind = conns[c].kind /\ conns'[c].key = conns[c].key
      /\ conns'[c].at = "answer" /\ \A d \in Conns : d # c => conns'[d] = conns[d]
  BY <1>1 DEF SyncWithNode, Goes
<1>5. StepOf(c)
  BY <1>4 DEF StepOf
<1>6. CASE posts' = posts
  BY <1>2, <1>3, <1>4, <1>6, AnswerApart
<1>7. CASE posts' = Append(posts, RoomJson(conns[c].room))
  <2>1. PICK post : post = RoomJson(conns[c].room)
    OBVIOUS
  <2>2. /\ post \in [maker : Conns, members : Seq(Written)]
        /\ post.maker = conns[c].room.maker /\ post.members = Escaped(conns[c].room.members)
        /\ Escaped(conns[c].room.members) \in Seq(Written)
    BY <1>3, <2>1, RoomJsonFacts
  <2>3. posts \in Seq([maker : Conns, members : Seq(Written)]) /\ Len(posts) \in Nat
    BY DEF ApartInv, PostsTyped
  <2>4. /\ PostsTyped' /\ Len(posts') = Len(posts) + 1 /\ posts'[Len(posts) + 1] = post
        /\ \A i \in 1 .. Len(posts) : posts'[i] = posts[i]
    BY <1>7, <2>1, <2>2, <2>3, AppendProperties DEF PostsTyped
  <2>5. ASSUME ~Collided' PROVE (PostingInv /\ PostsInv /\ OrderedPosts /\ GoneInv)'
    <3>1. ~Collided /\ PostingInv /\ PostsInv /\ OrderedPosts /\ GoneInv
      BY <1>1, <1>5, <2>5, CollidedStays DEF ApartInv
    <3> DEFINE m == conns[c].room.maker
               key == conns[c].key
    <3>2. /\ key \in Keys /\ key # None /\ rooms[key] = conns[c].room
          /\ conns[c].room # NoRoom /\ MadeBy(m, key) /\ m \in Conns
          /\ conns[c].kind = "create" => m = c
      BY <1>1, <1>2, <1>3, <3>1, PostedRoom DEF Rooms
    <3>3. conns[m].kind = "create" /\ conns[m].key = key
      BY <3>2 DEF MadeBy
    <3>4. /\ conns'[m].kind = "create" /\ conns'[m].key = key
          /\ conns'[m].at \in {"answer", "done"}
      <4>1. CASE conns[c].kind = "create"
        BY <1>4, <3>2, <3>3, <4>1
      <4>2. CASE conns[c].kind = "join"
        <5>1. conns[m].at = "done"
          BY <1>1, <3>1, <3>2, <3>3, <4>2, ToldMaker
        <5>2. m # c
          BY <3>3, <4>2
        <5>3. conns'[m] = conns[m]
          BY <1>4, <3>2, <5>2
        <5>4. QED
          BY <3>3, <5>1, <5>3
      <4>3. QED
        BY <1>3, <4>1, <4>2
    <3>5. PostingInv'
      BY <1>2, <1>4, <3>1, Zenon DEF PostingInv
    <3>6. PostsInv'
      <4> SUFFICES ASSUME NEW i \in 1 .. Len(posts')
                   PROVE  \E d \in Conns :
                     /\ posts'[i].maker = d /\ conns'[d].kind = "create"
                     /\ conns'[d].key # None /\ conns'[d].at \in {"answer", "done"}
                     /\ rooms[conns'[d].key] # NoRoom =>
                          IsPrefix(posts'[i].members, Escaped(rooms[conns'[d].key].members))
        BY <1>2, Zenon DEF PostsInv
      <4>1. i \in 1 .. Len(posts) \/ i = Len(posts) + 1
        BY <2>3, <2>4
      <4>2. CASE i \in 1 .. Len(posts)
        <5>1. PICK d \in Conns :
                /\ posts[i].maker = d /\ conns[d].kind = "create" /\ conns[d].key # None
                /\ conns[d].at \in {"answer", "done"}
                /\ rooms[conns[d].key] # NoRoom =>
                     IsPrefix(posts[i].members, Escaped(rooms[conns[d].key].members))
          BY <3>1, <4>2, Zenon DEF PostsInv
        <5>2. d # c
          BY <1>2, <5>1
        <5>3. conns'[d] = conns[d] /\ posts'[i] = posts[i]
          BY <1>4, <2>4, <4>2, <5>2
        <5>4. QED
          BY <5>1, <5>3, Zenon
      <4>3. CASE i = Len(posts) + 1
        <5>1. posts'[i] = post
          BY <2>4, <4>3
        <5>2. IsPrefix(post.members, Escaped(conns[c].room.members))
          <6>1. PICK s : s = Escaped(conns[c].room.members)
            OBVIOUS
          <6>2. s \in Seq(Written) /\ Len(s) <= Len(s)
            BY <2>2, <6>1
          <6>3. IsPrefix(s, s)
            BY <6>2, PrefixFacts
          <6>4. QED
            BY <2>2, <6>1, <6>3
        <5>3. QED
          BY <2>2, <3>2, <3>4, <5>1, <5>2, Zenon
      <4>4. QED
        BY <4>1, <4>2, <4>3
    <3>7. OrderedPosts'
      <4> SUFFICES ASSUME NEW i \in 1 .. Len(posts'), NEW j \in 1 .. Len(posts'), i < j,
                          posts'[i].maker = posts'[j].maker
                   PROVE  IsPrefix(posts'[i].members, posts'[j].members)
        BY Zenon DEF OrderedPosts
      <4>1. i \in 1 .. Len(posts) /\ (j \in 1 .. Len(posts) \/ j = Len(posts) + 1)
        BY <2>3, <2>4
      <4>2. CASE j \in 1 .. Len(posts)
        <5>1. posts'[i] = posts[i] /\ posts'[j] = posts[j]
          BY <2>4, <4>1, <4>2
        <5>2. QED
          BY <3>1, <4>1, <4>2, <5>1, Zenon DEF OrderedPosts
      <4>3. CASE j = Len(posts) + 1
        <5>1. posts'[i] = posts[i] /\ posts'[j] = post
          BY <2>4, <4>1, <4>3
        <5>2. PICK d \in Conns :
                /\ posts[i].maker = d
                /\ rooms[conns[d].key] # NoRoom =>
                     IsPrefix(posts[i].members, Escaped(rooms[conns[d].key].members))
          BY <3>1, <4>1, Zenon DEF PostsInv
        <5>3. d = m
          BY <2>2, <5>1, <5>2
        <5>4. IsPrefix(posts[i].members, Escaped(conns[c].room.members))
          BY <3>2, <3>3, <5>2, <5>3, Zenon
        <5>5. QED
          BY <2>2, <5>1, <5>4, Zenon
      <4>4. QED
        BY <4>1, <4>2, <4>3
    <3>8. GoneInv'
      <4> SUFFICES ASSUME NEW d \in Conns, conns'[d].kind = "delete", conns'[d].key # None,
                          conns'[d].at \in {"answer", "done"}
                   PROVE  rooms[conns'[d].key] = NoRoom /\ rooms[Other(conns'[d].key)] = NoRoom
        BY <1>2, Zenon DEF GoneInv
      <4>1. d # c /\ conns'[d] = conns[d]
        BY <1>3, <1>4
      <4>2. QED
        BY <3>1, <4>1, Zenon DEF GoneInv
    <3>9. QED
      BY <3>5, <3>6, <3>7, <3>8
  <2>6. QED
    BY <2>4, <2>5 DEF ApartInv
<1>8. QED
  BY <1>6, <1>7 DEF SyncWithNode

LEMMA ApartStarts == Init => ApartInv
<1> SUFFICES ASSUME Init PROVE ApartInv
  OBVIOUS
<1>1. ThreadInv
  BY ThreadsStart
<1>2. posts = <<>> /\ \A c \in Conns : conns[c] = Fresh
  BY DEF Init
<1>3. Fresh.at = "idle" /\ Fresh.kind = "other"
  BY Zenon DEF Fresh
<1>4. PostsTyped /\ PostsInv /\ OrderedPosts
  BY <1>2 DEF PostsTyped, PostsInv, OrderedPosts
<1>5. PostingInv /\ GoneInv
  BY <1>2, <1>3 DEF PostingInv, GoneInv
<1>6. QED
  BY <1>1, <1>4, <1>5 DEF ApartInv

LEMMA ApartKeeps == ApartInv /\ [Next]_vars => ApartInv'
<1> SUFFICES ASSUME ApartInv, [Next]_vars PROVE ApartInv'
  OBVIOUS
<1>1. ThreadInv'
  BY ThreadsKeep DEF ApartInv
<1>2. CASE UNCHANGED vars
  <2>1. UNCHANGED <<conns, rooms, posts>>
    BY <1>2 DEF vars
  <2>2. PostsTyped' /\ (Collided' <=> Collided)
    BY <2>1 DEF ApartInv, PostsTyped, Collided, Created
  <2>3. PostingInv /\ PostsInv /\ OrderedPosts /\ GoneInv =>
          (PostingInv /\ PostsInv /\ OrderedPosts /\ GoneInv)'
    BY <2>1, Zenon DEF PostingInv, PostsInv, OrderedPosts, GoneInv
  <2>4. QED
    BY <1>1, <2>2, <2>3 DEF ApartInv
<1>3. ASSUME NEW c \in Conns, Connect(c) \/ Reading(c) \/ Serving(c) PROVE ApartInv'
  BY <1>1, <1>3, ReadingApart, ServeOtherApart, GenerateRoomIdApart, CreateRoomApart,
     DeleteRoomApart, JoinRoomApart, GetRoomApart, SyncWithNodeApart, WriteResponseApart,
     Zenon DEF Serving
<1>4. QED
  BY <1>2, <1>3, Zenon DEF Next

LEMMA Apart == Spec => []ApartInv
BY ApartStarts, ApartKeeps, PTL DEF Spec

(* The posts of a room show it growing, although they are written by       *)
(* different threads and the creator's without the mutex: nobody can join  *)
(* before the creator has posted and told the number (main.rs:132-138,     *)
(* 196-208).                                                               *)
THEOREM PostsAlwaysInOrder == Spec => []PostsInOrder
<1>1. ApartInv => PostsInOrder
  BY Zenon DEF ApartInv, OrderedPosts, PostsInOrder
<1>2. QED
  BY <1>1, Apart, PTL

(* A room deleted under either spelling of its id is not found again under *)
(* either, whatever joins of it were going on (main.rs:143-155).           *)
THEOREM DeletedRoomsGone == Spec => []DeletedGone
<1>1. ApartInv => DeletedGone
  BY Zenon DEF ApartInv, GoneInv, DeletedGone, Lookup
<1>2. QED
  BY <1>1, Apart, PTL

-----------------------------------------------------------------------------
(* Who is listed *)

ReadNames == {NameRead[name] : name \in Names}
WrittenNames == {JsonEscape(text) : text \in ReadNames}

(* A thread answers "200" when its user is in the room. *)
ListedConn(r) ==
  /\ r.room.members \in Seq(ReadNames)
  /\ r.code = 200 => r.at \in {"post", "answer", "done"}
  /\ r.kind \in {"create", "join"} /\ r.code = 200 => NameRead[r.name] \in Range(r.room.members)

ListedInv ==
  /\ \A k \in Keys : rooms[k].members \in Seq(ReadNames)
  /\ \A c \in Conns : ListedConn(conns[c])
  /\ \A i \in 1 .. Len(posts) : posts[i].members \in Seq(WrittenNames)

LEMMA ListedStep ==
  ASSUME ListedInv, NEW c \in Conns, \A d \in Conns : d # c => conns'[d] = conns[d],
         ListedConn(conns'[c]), \A k \in Keys : rooms'[k].members \in Seq(ReadNames),
         \A i \in 1 .. Len(posts') : posts'[i].members \in Seq(WrittenNames)
  PROVE  ListedInv'
<1>1. \A d \in Conns : ListedConn(conns'[d])
  BY Zenon DEF ListedInv
<1>2. QED
  BY <1>1, Zenon DEF ListedInv, ListedConn

(* Its code is that of a thread which has none yet. *)
LEMMA ListedEarly ==
  ASSUME ListedInv, NEW c \in Conns, conns \in [Conns -> Conn], NEW r,
         conns' = [conns EXCEPT ![c] = r], conns[c].at \in Early \cup {"request"},
         r.room = conns[c].room, r.code = conns[c].code, UNCHANGED <<rooms, posts>>
  PROVE  ListedInv'
<1>1. conns'[c] = r /\ \A d \in Conns : d # c => conns'[d] = conns[d]
  OBVIOUS
<1>2. ListedConn(conns[c])
  BY DEF ListedInv
<1>3. r.code # 200
  BY <1>2 DEF ListedConn, Early
<1>4. ListedConn(conns'[c])
  BY <1>1, <1>2, <1>3, ZenonT(40) DEF ListedConn
<1>5. \A k \in Keys : rooms'[k].members \in Seq(ReadNames)
  BY Zenon DEF ListedInv
<1>6. \A i \in 1 .. Len(posts') : posts'[i].members \in Seq(WrittenNames)
  BY Zenon DEF ListedInv
<1>7. QED
  BY <1>1, <1>4, <1>5, <1>6, ListedStep

LEMMA ConnectLists ==
  ASSUME ThreadInv, ListedInv, NEW c \in Conns, Connect(c)
  PROVE  ListedInv'
<1>1. conns \in [Conns -> Conn] /\ conns[c] \in Conn /\ conns[c].at = "idle"
  BY Here DEF Connect
<1>2. PICK s \in Shapes : conns' = [conns EXCEPT ![c].at = "head", ![c].shape = s]
  BY DEF Connect
<1>3. PICK r : r = [conns[c] EXCEPT !.at = "head", !.shape = s]
  OBVIOUS
<1>4. conns' = [conns EXCEPT ![c] = r]
  BY <1>1, <1>2, <1>3
<1>5. r.room = conns[c].room /\ r.code = conns[c].code
  BY <1>1, <1>3, Zenon DEF Conn
<1>6. UNCHANGED <<rooms, posts>> /\ conns[c].at \in Early \cup {"request"}
  BY <1>1 DEF Connect, Early
<1>7. QED
  BY <1>1, <1>4, <1>5, <1>6, ListedEarly

LEMMA ClosingLists ==
  ASSUME ThreadInv, ListedInv, NEW c \in Conns,
         conns' = [conns EXCEPT ![c] = Closed], UNCHANGED <<rooms, posts>>
  PROVE  ListedInv'
<1>1. conns \in [Conns -> Conn]
  BY Here
<1>2. conns'[c] = Closed /\ \A d \in Conns : d # c => conns'[d] = conns[d]
  BY <1>1
<1>3. Closed.room = NoRoom /\ Closed.code = 0 /\ NoRoom.members = <<>>
  BY Zenon DEF Closed, Fresh, NoRoom
<1>4. PICK r : r = Closed
  OBVIOUS
<1>5. ListedConn(conns'[c])
  <2>1. conns'[c] = r /\ r.room = NoRoom /\ r.code = 0
    BY <1>2, <1>3, <1>4
  <2>2. NoRoom.members \in Seq(ReadNames)
    BY <1>3
  <2>3. 0 # 200
    OBVIOUS
  <2>4. QED
    BY <2>1, <2>2, <2>3, Zenon DEF ListedConn
<1>6. \A k \in Keys : rooms'[k].members \in Seq(ReadNames)
  BY Zenon DEF ListedInv
<1>7. \A i \in 1 .. Len(posts') : posts'[i].members \in Seq(WrittenNames)
  BY Zenon DEF ListedInv
<1>8. QED
  BY <1>2, <1>5, <1>6, <1>7, ListedStep

LEMMA ReadingLists ==
  ASSUME ThreadInv, ListedInv, NEW c \in Conns, Reading(c)
  PROVE  ListedInv'
<1> DEFINE s == conns[c].shape
<1>1. conns \in [Conns -> Conn] /\ conns[c] \in Conn
  BY Here
<1>2. UNCHANGED <<rooms, posts>> /\ conns[c].at \in Early \cup {"request"}
  BY DEF Reading, ReadHead, ReadBody, GiveUp, Early
<1>3. ASSUME NEW raw, NEW at, conns' = [conns EXCEPT ![c] = [conns[c] EXCEPT !.raw = raw, !.at = at]]
      PROVE  ListedInv'
  <2>1. PICK r : r = [conns[c] EXCEPT !.raw = raw, !.at = at]
    OBVIOUS
  <2>2. r.room = conns[c].room /\ r.code = conns[c].code
    BY <1>1, <2>1, Zenon DEF Conn
  <2>3. QED
    BY <1>1, <1>2, <1>3, <2>1, <2>2, ListedEarly
<1>4. CASE ReadHead(c)
  <2>1. PICK raw :
          conns' = [conns EXCEPT ![c] =
            IF ReadUpTo(s, raw) = "closed" THEN Closed
            ELSE [@ EXCEPT !.raw = raw, !.at = ReadUpTo(s, raw)]]
    BY <1>4, Zenon DEF ReadHead
  <2>2. CASE ReadUpTo(s, raw) = "closed"
    <3>1. conns' = [conns EXCEPT ![c] = Closed]
      BY <2>1, <2>2
    <3>2. QED
      BY <1>2, <3>1, ClosingLists
  <2>3. CASE ReadUpTo(s, raw) # "closed"
    <3>1. conns' = [conns EXCEPT ![c] = [conns[c] EXCEPT !.raw = raw, !.at = ReadUpTo(s, raw)]]
      BY <1>1, <2>1, <2>3, Zenon
    <3>2. QED
      BY <1>3, <3>1
  <2>4. QED
    BY <2>2, <2>3
<1>5. CASE ReadBody(c)
  <2>1. conns' = [conns EXCEPT ![c] =
                    [conns[c] EXCEPT !.raw = s.head + s.announced, !.at = "read"]]
    BY <1>1, <1>5 DEF ReadBody
  <2>2. QED
    BY <1>3, <2>1
<1>6. CASE GiveUp(c)
  BY <1>2, <1>6, ClosingLists DEF GiveUp
<1>7. QED
  BY <1>4, <1>5, <1>6 DEF Reading

LEMMA HandleClientLists ==
  ASSUME ThreadInv, ListedInv, NEW c \in Conns, HandleClient(c)
  PROVE  ListedInv'
<1>1. conns \in [Conns -> Conn] /\ conns[c] \in Conn
  BY Here
<1>2. PICK q \in Requests, name \in NamesFor[c] :
        conns' = [conns EXCEPT ![c].at = "request", ![c].kind = q.kind, ![c].key = q.key,
                               ![c].name = IF q.kind \in {"create", "join"} THEN name ELSE None]
  BY Zenon DEF HandleClient
<1>3. PICK asked : asked = IF q.kind \in {"create", "join"} THEN name ELSE None
  OBVIOUS
<1>4. PICK r : r = [conns[c] EXCEPT !.at = "request", !.kind = q.kind, !.key = q.key,
                                    !.name = asked]
  OBVIOUS
<1>5. conns' = [conns EXCEPT ![c] = r]
  BY <1>1, <1>2, <1>3, <1>4
<1>6. r.room = conns[c].room /\ r.code = conns[c].code
  BY <1>1, <1>4, Zenon DEF Conn
<1>7. UNCHANGED <<rooms, posts>> /\ conns[c].at \in Early \cup {"request"}
  BY DEF HandleClient, Early
<1>8. QED
  BY <1>1, <1>5, <1>6, <1>7, ListedEarly

LEMMA GenerateRoomIdLists ==
  ASSUME ThreadInv, ListedInv, NEW c \in Conns, GenerateRoomId(c)
  PROVE  ListedInv'
<1>1. conns \in [Conns -> Conn] /\ conns[c] \in Conn
  BY Here
<1>2. PICK key : key = Key(now' % Period)
  OBVIOUS
<1>3. PICK r : r = [conns[c] EXCEPT !.at = "insert", !.key = key]
  OBVIOUS
<1>4. conns' = [conns EXCEPT ![c] = r]
  BY <1>1, <1>2, <1>3 DEF GenerateRoomId
<1>5. r.room = conns[c].room /\ r.code = conns[c].code
  BY <1>1, <1>3, Zenon DEF Conn
<1>6. UNCHANGED <<rooms, posts>> /\ conns[c].at \in Early \cup {"request"}
  BY DEF GenerateRoomId, Serves
<1>7. QED
  BY <1>1, <1>4, <1>5, <1>6, ListedEarly

LEMMA ServeOtherLists ==
  ASSUME ThreadInv, ListedInv, NEW c \in Conns, ServeOther(c)
  PROVE  ListedInv'
<1>1. conns \in [Conns -> Conn] /\ conns[c] \in Conn
  BY Here
<1>2. conns[c].kind \in {"other", "join"} /\ UNCHANGED <<rooms, posts>>
  BY DEF ServeOther, Serves, Incomplete
<1>3. PICK code : /\ code \in IF conns[c].kind = "join" THEN {400} ELSE {200, 204, 404}
                  /\ conns' = [conns EXCEPT ![c].at = "answer", ![c].code = code]
  BY ZenonT(40) DEF ServeOther
<1>4. conns[c].kind = "join" => code # 200
  BY <1>3
<1>5. PICK r : r = [conns[c] EXCEPT !.at = "answer", !.code = code]
  OBVIOUS
<1>6. conns' = [conns EXCEPT ![c] = r]
  <2>1. conns' = [conns EXCEPT ![c].at = "answer", ![c].code = code]
    BY <1>3
  <2>2. QED
    BY <1>1, <1>5, <2>1, AnswerCode
<1>7. /\ r.at = "answer" /\ r.kind = conns[c].kind /\ r.name = conns[c].name
      /\ r.room = conns[c].room /\ r.code = code
  BY <1>1, <1>5, Zenon DEF Conn
<1>8. conns'[c] = r /\ \A d \in Conns : d # c => conns'[d] = conns[d]
  BY <1>1, <1>6
<1>9. ListedConn(conns[c])
  BY DEF ListedInv
<1>10. ListedConn(conns'[c])
  BY <1>2, <1>4, <1>7, <1>8, <1>9 DEF ListedConn
<1>11. \A k \in Keys : rooms'[k].members \in Seq(ReadNames)
  BY <1>2, Zenon DEF ListedInv
<1>12. \A i \in 1 .. Len(posts') : posts'[i].members \in Seq(WrittenNames)
  BY <1>2, Zenon DEF ListedInv
<1>13. QED
  BY <1>8, <1>10, <1>11, <1>12, ListedStep

LEMMA CreateRoomLists ==
  ASSUME ThreadInv, ListedInv, NEW c \in Conns, CreateRoom(c)
  PROVE  ListedInv'
<1> DEFINE key == conns[c].key
<1>1. conns \in [Conns -> Conn] /\ conns[c] \in Conn /\ PlaceInv(c, conns[c])
  BY Here
<1>2. conns[c].at = "insert" /\ UNCHANGED posts
  BY DEF CreateRoom
<1>3. conns[c].kind = "create" /\ conns[c].name \in Names /\ key \in Keys
  BY <1>1, <1>2, KeyFacts DEF PlaceInv
<1>4. PICK members : members = <<NameRead[conns[c].name]>>
  OBVIOUS
<1>5. PICK room : room = [maker |-> c, members |-> members]
  OBVIOUS
<1>6. room.members = members
  BY <1>5, Zenon
<1>7. members \in Seq(ReadNames) /\ NameRead[conns[c].name] \in Range(members)
  <2>1. NameRead[conns[c].name] \in ReadNames
    BY <1>3 DEF ReadNames
  <2>2. members \in Seq(ReadNames) /\ 1 \in DOMAIN members /\ members[1] = NameRead[conns[c].name]
    BY <1>4, <2>1
  <2>3. QED
    BY <2>2 DEF Range
<1>8. PICK r : r = [conns[c] EXCEPT !.at = "post", !.room = room, !.code = 200]
  OBVIOUS
<1>9. conns' = [conns EXCEPT ![c] = r]
  <2>1. conns' = [conns EXCEPT ![c].at = "post", ![c].room = room, ![c].code = 200]
    BY <1>4, <1>5, Zenon DEF CreateRoom
  <2>2. conns \in [Conns -> Conn]
    BY <1>1
  <2>3. QED
    BY <2>1, <2>2, <1>8
<1>10. r.at = "post" /\ r.room = room /\ r.name = conns[c].name
  BY <1>1, <1>8, Zenon DEF Conn
<1>11. conns'[c] = r /\ \A d \in Conns : d # c => conns'[d] = conns[d]
  BY <1>1, <1>9
<1>12. ListedConn(conns'[c])
  BY <1>6, <1>7, <1>10, <1>11 DEF ListedConn
<1>13. rooms' = [rooms EXCEPT ![key] = room] /\ rooms \in [Keys -> Rooms \cup {NoRoom}]
  BY <1>4, <1>5, Zenon DEF CreateRoom, ThreadInv, WellTyped
<1>14. \A k \in Keys : rooms'[k] \in {rooms[k], room}
  BY <1>3, <1>13
<1>15. \A k \in Keys : rooms'[k].members \in Seq(ReadNames)
  BY <1>6, <1>7, <1>14, Zenon DEF ListedInv
<1>16. \A i \in 1 .. Len(posts') : posts'[i].members \in Seq(WrittenNames)
  BY <1>2, Zenon DEF ListedInv
<1>17. QED
  BY <1>11, <1>12, <1>15, <1>16, ListedStep

LEMMA DeleteRoomLists ==
  ASSUME ThreadInv, ListedInv, NEW c \in Conns, DeleteRoom(c)
  PROVE  ListedInv'
<1> DEFINE key == conns[c].key
<1>1. conns \in [Conns -> Conn] /\ conns[c] \in Conn
  BY Here
<1>2. conns[c].kind = "delete" /\ UNCHANGED posts
  BY DEF DeleteRoom, Serves
<1>3. PICK r : r = [conns[c] EXCEPT !.at = "answer", !.code = 200]
  OBVIOUS
<1>4. conns' = [conns EXCEPT ![c] = r]
  <2>1. conns' = [conns EXCEPT ![c].at = "answer", ![c].code = 200]
    BY DEF DeleteRoom
  <2>2. PICK code : code = 200
    OBVIOUS
  <2>3. [conns EXCEPT ![c].at = "answer", ![c].code = code]
          = [conns EXCEPT ![c] = [conns[c] EXCEPT !.at = "answer", !.code = code]]
    BY <1>1, AnswerCode, Zenon
  <2>4. r = [conns[c] EXCEPT !.at = "answer", !.code = code]
    BY <1>3, <2>2
  <2>5. conns' = [conns EXCEPT ![c].at = "answer", ![c].code = code]
    BY <2>1, <2>2
  <2>6. QED
    BY <2>3, <2>4, <2>5, Zenon
<1>5. r.at = "answer" /\ r.kind = "delete" /\ r.room = conns[c].room
  <2>1. r.at = "answer" /\ r.kind = conns[c].kind /\ r.room = conns[c].room
    BY <1>1, <1>3, ZenonT(40) DEF Conn
  <2>2. QED
    BY <1>2, <2>1
<1>6. conns'[c] = r /\ \A d \in Conns : d # c => conns'[d] = conns[d]
  BY <1>1, <1>4
<1>7. ListedConn(conns[c])
  BY DEF ListedInv
<1>8. ListedConn(conns'[c])
  BY <1>5, <1>6, <1>7 DEF ListedConn
<1>9. \A k \in Keys : rooms'[k] \in {rooms[k], NoRoom}
  <2>1. rooms' = IF key = None THEN rooms
                 ELSE [k \in Keys |-> IF k \in Spellings(key) THEN NoRoom ELSE rooms[k]]
    BY Zenon DEF DeleteRoom
  <2> HIDE DEF key
  <2>2. QED
    BY <2>1
<1>10. NoRoom.members \in Seq(ReadNames)
  <2>1. NoRoom.members = <<>>
    BY Zenon DEF NoRoom
  <2>2. QED
    BY <2>1
<1>11. \A k \in Keys : rooms'[k].members \in Seq(ReadNames)
  BY <1>9, <1>10, Zenon DEF ListedInv
<1>12. \A i \in 1 .. Len(posts') : posts'[i].members \in Seq(WrittenNames)
  BY <1>2, Zenon DEF ListedInv
<1>13. QED
  BY <1>6, <1>8, <1>11, <1>12, ListedStep

LEMMA JoinRoomLists ==
  ASSUME ThreadInv, ListedInv, NEW c \in Conns, JoinRoom(c)
  PROVE  ListedInv'
<1>1. conns \in [Conns -> Conn] /\ conns[c] \in Conn /\ PlaceInv(c, conns[c])
  BY Here
<1>2. /\ conns[c].at = "request" /\ conns[c].kind = "join" /\ UNCHANGED posts
      /\ JoinsNothing(c) \/ \E key, room, joined : JoinsRoom(c, key, room, joined)
  BY JoinRoomCases
<1>3. ListedConn(conns[c]) /\ \A k \in Keys : rooms[k].members \in Seq(ReadNames)
  BY DEF ListedInv
<1>4. \A i \in 1 .. Len(posts') : posts'[i].members \in Seq(WrittenNames)
  BY <1>2, Zenon DEF ListedInv
<1>5. CASE JoinsNothing(c)
  <2>1. PICK code : code = 404
    OBVIOUS
  <2>2. PICK r : r = [conns[c] EXCEPT !.at = "answer", !.code = code]
    OBVIOUS
  <2>3. conns' = [conns EXCEPT ![c] = r]
    <3>1. conns' = [conns EXCEPT ![c].at = "answer", ![c].code = code]
      BY <1>5, <2>1 DEF JoinsNothing
    <3>2. QED
      BY <1>1, <2>2, <3>1, AnswerCode
  <2>4. r.at = "answer" /\ r.room = conns[c].room /\ r.code = code
    BY <1>1, <2>2, Zenon DEF Conn
  <2>5. conns'[c] = r /\ \A d \in Conns : d # c => conns'[d] = conns[d]
    BY <1>1, <2>3
  <2>6. code # 200
    BY <2>1
  <2>7. ListedConn(conns'[c])
    BY <1>3, <2>4, <2>5, <2>6, Zenon DEF ListedConn
  <2>8. \A k \in Keys : rooms'[k].members \in Seq(ReadNames)
    BY <1>3, <1>5, Zenon DEF JoinsNothing
  <2>9. QED
    BY <1>4, <2>5, <2>7, <2>8, ListedStep
<1>6. ASSUME NEW key, NEW room, NEW joined, JoinsRoom(c, key, room, joined)
      PROVE  ListedInv'
  <2>1. /\ key \in Keys
        /\ NameRead[conns[c].name] \in Range(joined.members)
        /\ joined.members = room.members
             \/ joined.members = Append(room.members, NameRead[conns[c].name])
    BY <1>6, JoinsRoomFacts
  <2>2. PICK r : /\ conns' = [conns EXCEPT ![c] = r]
                 /\ r.at = "post" /\ r.name = conns[c].name /\ r.room = joined
    BY <1>6, JoinsRoomFacts
  <2>3. room = rooms[key] /\ rooms' = [rooms EXCEPT ![key] = joined]
        /\ rooms \in [Keys -> Rooms \cup {NoRoom}]
    BY <1>6 DEF JoinsRoom, ThreadInv, WellTyped
  <2>4. NameRead[conns[c].name] \in ReadNames
    BY <1>1, <1>2 DEF PlaceInv, ReadNames
  <2>5. joined.members \in Seq(ReadNames)
    <3>1. PICK before, after, name : before = room.members /\ after = joined.members
                                     /\ name = NameRead[conns[c].name]
      OBVIOUS
    <3>2. before \in Seq(ReadNames) /\ name \in ReadNames
          /\ (after = before \/ after = Append(before, name))
      BY <1>3, <2>1, <2>3, <2>4, <3>1, Zenon
    <3>3. after \in Seq(ReadNames)
      BY <3>2, AppendProperties
    <3>4. QED
      BY <3>1, <3>3
  <2>6. conns'[c] = r /\ \A d \in Conns : d # c => conns'[d] = conns[d]
    BY <1>1, <2>2
  <2>7. ListedConn(conns'[c])
    BY <2>1, <2>2, <2>5, <2>6 DEF ListedConn
  <2>8. \A k \in Keys : rooms'[k] \in {rooms[k], joined}
    BY <2>1, <2>3
  <2>9. \A k \in Keys : rooms'[k].members \in Seq(ReadNames)
    BY <1>3, <2>5, <2>8, Zenon
  <2>10. QED
    BY <1>4, <2>6, <2>7, <2>9, ListedStep
<1>7. QED
  BY <1>2, <1>5, <1>6

LEMMA GetRoomLists ==
  ASSUME ThreadInv, ListedInv, NEW c \in Conns, GetRoom(c)
  PROVE  ListedInv'
<1>1. conns \in [Conns -> Conn] /\ conns[c] \in Conn /\ PlaceInv(c, conns[c])
  BY Here
<1>2. conns[c].kind = "get" /\ UNCHANGED <<rooms, posts>>
  BY DEF GetRoom, Serves
<1>3. PICK room, code : /\ room = rooms[Lookup(conns[c].key)]
                        /\ code = IF room = NoRoom THEN 404 ELSE 200
  OBVIOUS
<1>4. room.members \in Seq(ReadNames)
  <2>1. conns[c].key \in Keys
    BY <1>1, <1>2, ConnFields DEF PlaceInv, AnyKey
  <2>2. Lookup(conns[c].key) \in Keys
    BY <2>1, LookupFacts
  <2>3. QED
    BY <1>3, <2>2, Zenon DEF ListedInv
<1>5. PICK r : r = [conns[c] EXCEPT !.at = "answer", !.room = room, !.code = code]
  OBVIOUS
<1>6. conns' = [conns EXCEPT ![c] = r]
  <2>1. conns' = [conns EXCEPT ![c].at = "answer", ![c].room = room, ![c].code = code]
    BY <1>3, Zenon DEF GetRoom
  <2>2. conns \in [Conns -> Conn]
    BY <1>1
  <2>3. QED
    BY <2>1, <2>2, <1>5
<1>7. r.at = "answer" /\ r.kind = conns[c].kind /\ r.room = room
  BY <1>1, <1>5, Zenon DEF Conn
<1>8. conns'[c] = r /\ \A d \in Conns : d # c => conns'[d] = conns[d]
  BY <1>1, <1>6
<1>9. ListedConn(conns'[c])
  BY <1>2, <1>4, <1>7, <1>8 DEF ListedConn
<1>10. \A k \in Keys : rooms'[k].members \in Seq(ReadNames)
  BY <1>2, Zenon DEF ListedInv
<1>11. \A i \in 1 .. Len(posts') : posts'[i].members \in Seq(WrittenNames)
  BY <1>2, Zenon DEF ListedInv
<1>12. QED
  BY <1>8, <1>9, <1>10, <1>11, ListedStep

(* It goes on with the room and the code it has. *)
LEMMA GoesLists ==
  ASSUME ListedInv, NEW c \in Conns, NEW at \in {"answer", "done"}, conns \in [Conns -> Conn],
         Goes(c, at)
  PROVE  /\ ListedConn(conns'[c])
         /\ \A d \in Conns : d # c => conns'[d] = conns[d]
<1>1. PICK r : r = [conns[c] EXCEPT !.at = at]
  OBVIOUS
<1>2. conns' = [conns EXCEPT ![c] = r]
  BY <1>1 DEF Goes
<1>3. conns[c] \in Conn /\ ListedConn(conns[c])
  BY DEF ListedInv
<1>4. /\ r.at = at /\ r.kind = conns[c].kind /\ r.name = conns[c].name
      /\ r.room = conns[c].room /\ r.code = conns[c].code
  BY <1>1, <1>3, Zenon DEF Conn
<1>5. conns'[c] = r /\ \A d \in Conns : d # c => conns'[d] = conns[d]
  BY <1>2
<1>6. at \in {"post", "answer", "done"}
  OBVIOUS
<1>7. ListedConn(conns'[c])
  BY <1>3, <1>4, <1>5, <1>6, Zenon DEF ListedConn
<1>8. QED
  BY <1>5, <1>7

LEMMA EscapedNames ==
  ASSUME NEW members \in Seq(ReadNames)
  PROVE  Escaped(members) \in Seq(WrittenNames)
<1>1. \A i \in 1 .. Len(members) : JsonEscape(members[i]) \in WrittenNames
  BY DEF WrittenNames
<1>2. Escaped(members) = [i \in 1 .. Len(members) |-> JsonEscape(members[i])]
  BY DEF Escaped
<1>3. QED
  BY <1>1, <1>2

LEMMA SyncWithNodeLists ==
  ASSUME ThreadInv, PostsTyped, ListedInv, NEW c \in Conns, SyncWithNode(c)
  PROVE  ListedInv'
<1>1. conns \in [Conns -> Conn] /\ PlaceInv(c, conns[c])
  BY Here
<1>2. conns[c].at = "post" /\ Goes(c, "answer") /\ UNCHANGED rooms
  BY DEF SyncWithNode
<1>3. conns[c].room \in Rooms
  BY <1>1, <1>2 DEF PlaceInv
<1>4. ListedConn(conns'[c]) /\ \A d \in Conns : d # c => conns'[d] = conns[d]
  BY <1>1, <1>2, GoesLists
<1>5. \A k \in Keys : rooms'[k].members \in Seq(ReadNames)
  BY <1>2, Zenon DEF ListedInv
<1>6. \A i \in 1 .. Len(posts) : posts[i].members \in Seq(WrittenNames)
  BY DEF ListedInv
<1>7. CASE posts' = posts
  BY <1>4, <1>5, <1>6, <1>7, ListedStep
<1>8. CASE posts' = Append(posts, RoomJson(conns[c].room))
  <2>1. PICK post : post = RoomJson(conns[c].room)
    OBVIOUS
  <2>2. /\ post \in [maker : Conns, members : Seq(Written)]
        /\ post.members = Escaped(conns[c].room.members)
    BY <1>3, <2>1, RoomJsonFacts
  <2>3. post.members \in Seq(WrittenNames)
    <3>1. conns[c].room.members \in Seq(ReadNames)
      BY DEF ListedInv, ListedConn
    <3>2. QED
      BY <2>2, <3>1, EscapedNames
  <2>4. posts \in Seq([maker : Conns, members : Seq(Written)]) /\ Len(posts) \in Nat
    BY DEF PostsTyped
  <2>5. /\ Len(posts') = Len(posts) + 1 /\ posts'[Len(posts) + 1] = post
        /\ \A i \in 1 .. Len(posts) : posts'[i] = posts[i]
    BY <1>8, <2>1, <2>2, <2>4, AppendProperties
  <2>6. ASSUME NEW i \in 1 .. Len(posts')
        PROVE  posts'[i].members \in Seq(WrittenNames)
    <3>1. i \in 1 .. Len(posts) \/ i = Len(posts) + 1
      BY <2>4, <2>5
    <3>2. QED
      BY <1>6, <2>3, <2>5, <3>1, Zenon
  <2>7. QED
    BY <1>4, <1>5, <2>6, ListedStep
<1>9. QED
  BY <1>7, <1>8 DEF SyncWithNode

LEMMA WriteResponseLists ==
  ASSUME ThreadInv, ListedInv, NEW c \in Conns, WriteResponse(c)
  PROVE  ListedInv'
<1>1. Goes(c, "done") /\ UNCHANGED <<rooms, posts>> /\ conns \in [Conns -> Conn]
  BY Here DEF WriteResponse
<1>2. ListedConn(conns'[c]) /\ \A d \in Conns : d # c => conns'[d] = conns[d]
  BY <1>1, GoesLists
<1>3. \A k \in Keys : rooms'[k].members \in Seq(ReadNames)
  BY <1>1, Zenon DEF ListedInv
<1>4. \A i \in 1 .. Len(posts') : posts'[i].members \in Seq(WrittenNames)
  BY <1>1, Zenon DEF ListedInv
<1>5. QED
  BY <1>2, <1>3, <1>4, ListedStep

LEMMA ListedStarts == Init => ListedInv
<1> SUFFICES ASSUME Init PROVE ListedInv
  OBVIOUS
<1>1. posts = <<>> /\ (\A c \in Conns : conns[c] = Fresh) /\ \A k \in Keys : rooms[k] = NoRoom
  BY DEF Init
<1>2. Fresh.room = NoRoom /\ Fresh.code = 0 /\ NoRoom.members = <<>>
  BY Zenon DEF Fresh, NoRoom
<1>3. NoRoom.members \in Seq(ReadNames)
  BY <1>2
<1>4. ListedConn(Fresh)
  BY <1>2, <1>3 DEF ListedConn
<1>5. \A i \in 1 .. Len(posts) : posts[i].members \in Seq(WrittenNames)
  BY <1>1
<1>6. QED
  BY <1>1, <1>3, <1>4, <1>5, Zenon DEF ListedInv

LEMMA ListedKeeps == ApartInv /\ ListedInv /\ [Next]_vars => ListedInv'
<1> SUFFICES ASSUME ApartInv, ListedInv, [Next]_vars PROVE ListedInv'
  OBVIOUS
<1>1. ThreadInv /\ PostsTyped
  BY DEF ApartInv
<1>2. CASE UNCHANGED vars
  <2>1. UNCHANGED <<conns, rooms, posts>>
    BY <1>2 DEF vars
  <2>2. QED
    BY <2>1, Zenon DEF ListedInv, ListedConn
<1>3. ASSUME NEW c \in Conns, Connect(c) \/ Reading(c) \/ Serving(c) PROVE ListedInv'
  BY <1>1, <1>3, ConnectLists, ReadingLists, HandleClientLists, ServeOtherLists,
     GenerateRoomIdLists, CreateRoomLists, DeleteRoomLists, JoinRoomLists, GetRoomLists,
     SyncWithNodeLists, WriteResponseLists, Zenon DEF Serving
<1>4. QED
  BY <1>2, <1>3, Zenon DEF Next

LEMMA Listed == Spec => []ListedInv
BY Apart, ListedStarts, ListedKeeps, PTL DEF Spec

(* Who created or joined a room is listed under the name he gave, and the  *)
(* Node server reads in a post only names that users gave: reading undoes  *)
(* writing for every name (main.rs:308-382) -- but one with a quotation    *)
(* mark is cut there.                                                      *)
THEOREM AlwaysListedAsTyped == Spec => []ListedAsTyped
<1>1. ASSUME ThreadInv, ListedInv PROVE ListedAsTyped
  <2>1. ASSUME NEW c \in Conns, conns[c].kind \in {"create", "join"}, conns[c].code = 200,
               Quote \notin Range(conns[c].name)
        PROVE  conns[c].name \in Range(conns[c].room.members)
    <3>1. conns[c].name \in Names
      BY <1>1, <2>1, Here DEF PlaceInv
    <3>2. NameRead[conns[c].name] = conns[c].name
      BY <2>1, <3>1, NamesRead, TextsReadBack
    <3>3. NameRead[conns[c].name] \in Range(conns[c].room.members)
      BY <1>1, <2>1, Zenon DEF ListedInv, ListedConn
    <3>4. QED
      BY <3>2, <3>3
  <2>2. ASSUME NEW i \in 1 .. Len(posts), NEW raw \in Range(posts[i].members)
        PROVE  \E name \in Names : JsonUnescape(raw) = NameRead[name]
    <3>1. raw \in WrittenNames
      BY <1>1 DEF ListedInv, Range
    <3>2. PICK name \in Names : raw = JsonEscape(NameRead[name])
      BY <3>1 DEF WrittenNames, ReadNames
    <3>3. QED
      BY <3>2, NamesRead, UnescapeEscaped
  <2>3. QED
    BY <2>1, <2>2, Zenon DEF ListedAsTyped
<1>2. QED
  BY <1>1, Threads, Listed, PTL

LEMMA SeqGrows ==
  ASSUME NEW S, NEW T, S \subseteq T
  PROVE  Seq(S) \subseteq Seq(T)
OBVIOUS

(* The state is what it is declared to be. *)
THEOREM ApiTypeCorrect == Spec => []TypeOK
<1>1. ASSUME ApartInv PROVE TypeOK
  <2>1. WellTyped /\ PostsTyped
    BY <1>1 DEF ApartInv, ThreadInv
  <2>2. Written \subseteq Texts
    BY EscapedType DEF Written
  <2>3. posts \in Seq(Rooms)
    <3>1. Seq(Written) \subseteq Seq(Texts)
      BY <2>2, SeqGrows
    <3>2. [maker : Conns, members : Seq(Written)] \subseteq Rooms
      BY <3>1, Zenon DEF Rooms
    <3>3. QED
      BY <2>1, <3>2, SeqGrows DEF PostsTyped
  <2>4. QED
    BY <2>1, <2>3, Zenon DEF TypeOK, WellTyped, Conn, Places, AnyKey, AnyName, AnyShape, AnyRoom, Codes
<1>2. QED
  BY <1>1, Apart, PTL
=============================================================================
