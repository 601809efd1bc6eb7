-------------------------- MODULE RoundTripProofs ---------------------------
(***************************************************************************)
(* RoundTrip for every text, every blob and every list of parameters: the  *)
(* tokenizer reads from a statement what _serialize_sql_value has written  *)
(* into it, and the client makes of the answer what it was given.          *)
(*                                                                         *)
(* Scan and FlattenSeq are defined by recursion.  That the recursion has a *)
(* solution (ScanExists, FlattenExists) is proved by induction; from that  *)
(* follow the equations (Reads, Joins) by which everything else goes.      *)
(***************************************************************************)
EXTENDS QueryPathProofs, NumberInduction, FiniteSetTheorems

-----------------------------------------------------------------------------
(* The tokenizer reads a text item by item. *)

\* The recursion of Scan has a solution.
LEMMA ScanExists ==
  ASSUME NEW s, NEW text, Len(text) \in Nat
  PROVE  \E f : f = [i \in 0 .. Len(text) |-> IF i = 0 THEN s ELSE ReadNext(f[i - 1], text[i])]
<1> DEFINE n == Len(text)
           Solves(f, k) == f = [i \in 0 .. k |-> IF i = 0 THEN s ELSE ReadNext(f[i - 1], text[i])]
           T == {k \in Nat : \E f : Solves(f, k)}
<1>1. 0 \in T
  <2> DEFINE f == [i \in 0 .. 0 |-> s]
  <2>1. f = [i \in 0 .. 0 |-> IF i = 0 THEN s ELSE ReadNext(f[i - 1], text[i])]
    OBVIOUS
  <2>2. \E g : Solves(g, 0)
    <3> HIDE DEF f
    <3> QED
      BY <2>1
  <2> QED
    BY <2>2
<1>2. \A k \in 0 .. n - 1 : k \in T => k + 1 \in T
  <2> SUFFICES ASSUME NEW k \in 0 .. n - 1, k \in T PROVE k + 1 \in T
    OBVIOUS
  <2>0. PICK f : Solves(f, k)
    OBVIOUS
  <2> DEFINE g == [i \in 0 .. k + 1 |-> IF i <= k THEN f[i] ELSE ReadNext(f[k], text[k + 1])]
  <2>1. \A i \in 0 .. k : f[i] = IF i = 0 THEN s ELSE ReadNext(f[i - 1], text[i])
    BY <2>0
  <2>2. \A i \in 0 .. k : g[i] = f[i]
    OBVIOUS
  <2>3. \A i \in 0 .. k + 1 : g[i] = IF i = 0 THEN s ELSE ReadNext(g[i - 1], text[i])
    <3> TAKE i \in 0 .. k + 1
    <3>1. CASE i = k + 1
      BY <3>1, <2>2
    <3>2. CASE i \in 0 .. k
      <4>1. i = 0 \/ i - 1 \in 0 .. k
        BY <3>2
      <4> QED
        BY <3>2, <4>1, <2>1, <2>2
    <3> QED
      BY <3>1, <3>2
  <2>4. Solves(g, k + 1)
    <3>1. DOMAIN g = 0 .. k + 1 /\ g = [i \in 0 .. k + 1 |-> g[i]]
      OBVIOUS
    <3> HIDE DEF g
    <3> QED
      BY <2>3, <3>1
  <2> HIDE DEF Solves, g
  <2> QED
    BY <2>4
<1>3. n \in T
  <2> HIDE DEF T
  <2>1. \A k \in 0 .. n : k \in T
    BY <1>1, <1>2, Induction
  <2> QED
    BY <2>1
<1> QED
  BY <1>3

\* The states of the tokenizer in front of a text and behind each of its items.
Reads(f, s, text) ==
    /\ f[0] = s
    /\ \A i \in 1 .. Len(text) : f[i] = ReadNext(f[i - 1], text[i])
    /\ Scan(s, text) = f[Len(text)]

\* A text is read from the left to the right.
LEMMA ScanFacts == ASSUME NEW s, NEW text, Len(text) \in Nat PROVE \E f : Reads(f, s, text)
<1> DEFINE Solves(g) == g = [i \in 0 .. Len(text) |-> IF i = 0 THEN s ELSE ReadNext(g[i - 1], text[i])]
           f == CHOOSE g : Solves(g)
<1>1. \E g : Solves(g)
  BY ScanExists
<1>2. Solves(f)
  BY <1>1, Zenon
<1>3. Scan(s, text) = f[Len(text)]
  BY Zenon DEF Scan
<1> HIDE DEF f
<1>4. f[0] = s /\ \A i \in 1 .. Len(text) : f[i] = ReadNext(f[i - 1], text[i])
  BY <1>2
<1> QED
  BY <1>3, <1>4 DEF Reads

\* Nothing is read from the empty text.
LEMMA ScanEmpty == \A s : Scan(s, <<>>) = s
<1> TAKE s
<1>1. Len(<<>>) = 0
  OBVIOUS
<1>2. PICK f : Reads(f, s, <<>>)
  BY <1>1, ScanFacts
<1> QED
  BY <1>1, <1>2 DEF Reads

\* A text of one item.
LEMMA ScanOne == \A s, x : Scan(s, <<x>>) = ReadNext(s, x)
<1> TAKE s, x
<1>1. Len(<<x>>) = 1 /\ <<x>>[1] = x
  OBVIOUS
<1>2. PICK f : Reads(f, s, <<x>>)
  BY <1>1, ScanFacts
<1>3. 1 \in 1 .. Len(<<x>>)
  BY <1>1
<1>4. f[1] = ReadNext(f[1 - 1], <<x>>[1])
  BY <1>2, <1>3 DEF Reads
<1> QED
  BY <1>1, <1>2, <1>4 DEF Reads

\* Reading a text in two parts is reading it.
LEMMA ScanConcat ==
  ASSUME NEW S, NEW t \in Seq(S), NEW u \in Seq(S), NEW s
  PROVE  Scan(s, t \o u) = Scan(Scan(s, t), u)
<1> DEFINE m == Len(t)
           n == Len(u)
           w == t \o u
<1>1. /\ m \in Nat /\ n \in Nat /\ Len(w) = m + n /\ Len(w) \in Nat
      /\ \A i \in 1 .. m : w[i] = t[i]
      /\ \A i \in 1 .. n : w[m + i] = u[i]
  BY LenProperties, ConcatProperties
<1>2. PICK f : Reads(f, s, t)
  BY <1>1, ScanFacts
<1>3. PICK g : Reads(g, Scan(s, t), u)
  BY <1>1, ScanFacts
<1> HIDE DEF w, m, n
<1>4. PICK h : Reads(h, s, w)
  BY <1>1, ScanFacts
<1>5. m = Len(t) /\ n = Len(u)
  BY DEF m, n
<1>6. h[m] = f[m]
  <2> DEFINE T == {i \in 0 .. m : h[i] = f[i]}
  <2>1. 0 \in T
    BY <1>1, <1>2, <1>4 DEF Reads
  <2>2. \A i \in 0 .. m - 1 : i \in T => i + 1 \in T
    <3> SUFFICES ASSUME NEW i \in 0 .. m - 1, h[i] = f[i] PROVE h[i + 1] = f[i + 1]
      BY <1>1
    <3>1. i + 1 \in 1 .. m /\ i + 1 \in 1 .. Len(w) /\ (i + 1) - 1 = i
      BY <1>1
    <3>2. f[i + 1] = ReadNext(f[(i + 1) - 1], t[i + 1]) /\ h[i + 1] = ReadNext(h[(i + 1) - 1], w[i + 1])
      BY <3>1, <1>2, <1>4, <1>5 DEF Reads
    <3> QED
      BY <1>1, <3>1, <3>2
  <2>3. \A i \in 0 .. m : i \in T
    <3> HIDE DEF T
    <3> QED
      BY <1>1, <2>1, <2>2, Induction
  <2> QED
    BY <2>3, <1>1
<1>7. h[m + n] = g[n]
  <2> DEFINE T == {i \in 0 .. n : h[m + i] = g[i]}
  <2>1. 0 \in T
    BY <1>1, <1>2, <1>3, <1>5, <1>6 DEF Reads
  <2>2. \A i \in 0 .. n - 1 : i \in T => i + 1 \in T
    <3> SUFFICES ASSUME NEW i \in 0 .. n - 1, i \in T PROVE i + 1 \in T
      OBVIOUS
    <3>0. h[m + i] = g[i]
      OBVIOUS
    <3>1. /\ i + 1 \in 1 .. n /\ m + (i + 1) \in 1 .. Len(w)
          /\ (i + 1) - 1 = i /\ (m + (i + 1)) - 1 = m + i
      BY <1>1
    <3>2. /\ g[i + 1] = ReadNext(g[(i + 1) - 1], u[i + 1])
          /\ h[m + (i + 1)] = ReadNext(h[(m + (i + 1)) - 1], w[m + (i + 1)])
      BY <3>1, <1>3, <1>4, <1>5 DEF Reads
    <3>3. h[m + (i + 1)] = g[i + 1]
      BY <1>1, <3>0, <3>1, <3>2
    <3> QED
      BY <1>1, <3>3
  <2>3. \A i \in 0 .. n : i \in T
    <3> HIDE DEF T
    <3> QED
      BY <1>1, <2>1, <2>2, Induction
  <2> QED
    BY <2>3, <1>1
<1> QED
  BY <1>1, <1>3, <1>4, <1>5, <1>7 DEF w, Reads

-----------------------------------------------------------------------------
(* Texts are put together of parts. *)

\* The recursion of FlattenSeq has a solution.
LEMMA FlattenExists ==
  ASSUME NEW seqs, Len(seqs) \in Nat \ {0}
  PROVE  \E f : f = [i \in 1 .. Len(seqs) |-> IF i = 1 THEN seqs[i] ELSE f[i - 1] \o seqs[i]]
<1> DEFINE n == Len(seqs)
           Solves(f, k) == f = [i \in 1 .. k |-> IF i = 1 THEN seqs[i] ELSE f[i - 1] \o seqs[i]]
           T == {k \in Nat : \E f : Solves(f, k + 1)}
<1>1. 0 \in T
  <2> DEFINE f == [i \in 1 .. 0 + 1 |-> seqs[i]]
  <2>1. f = [i \in 1 .. 0 + 1 |-> IF i = 1 THEN seqs[i] ELSE f[i - 1] \o seqs[i]]
    OBVIOUS
  <2>2. \E g : Solves(g, 0 + 1)
    <3> HIDE DEF f
    <3> QED
      BY <2>1
  <2> HIDE DEF Solves
  <2> QED
    BY <2>2
<1>2. \A k \in 0 .. (n - 1) - 1 : k \in T => k + 1 \in T
  <2> SUFFICES ASSUME NEW k \in 0 .. (n - 1) - 1, k \in T PROVE k + 1 \in T
    OBVIOUS
  <2>0. PICK f : Solves(f, k + 1)
    OBVIOUS
  <2> DEFINE j == k + 1
             g == [i \in 1 .. j + 1 |-> IF i <= j THEN f[i] ELSE f[j] \o seqs[j + 1]]
  <2>j. j \in Nat \ {0}
    OBVIOUS
  <2>1. \A i \in 1 .. j : f[i] = IF i = 1 THEN seqs[i] ELSE f[i - 1] \o seqs[i]
    BY <2>0
  <2> HIDE DEF j
  <2>2. \A i \in 1 .. j : g[i] = f[i]
    BY <2>j
  <2>3. \A i \in 1 .. j + 1 : g[i] = IF i = 1 THEN seqs[i] ELSE g[i - 1] \o seqs[i]
    <3> TAKE i \in 1 .. j + 1
    <3>1. CASE i = j + 1
      BY <3>1, <2>2, <2>j
    <3>2. CASE i \in 1 .. j
      <4>1. i = 1 \/ i - 1 \in 1 .. j
        BY <3>2, <2>j
      <4> QED
        BY <3>2, <4>1, <2>1, <2>2
    <3> QED
      BY <3>1, <3>2, <2>j
  <2>4. Solves(g, j + 1)
    <3>1. DOMAIN g = 1 .. j + 1 /\ g = [i \in 1 .. j + 1 |-> g[i]]
      OBVIOUS
    <3> HIDE DEF g
    <3> QED
      BY <2>3, <3>1
  <2> HIDE DEF Solves, g
  <2> QED
    BY <2>4 DEF j
<1>3. n - 1 \in T
  <2> HIDE DEF T
  <2>0. n - 1 \in Nat
    OBVIOUS
  <2>1. \A k \in 0 .. n - 1 : k \in T
    BY <1>1, <1>2, <2>0, Induction
  <2> QED
    BY <2>1
<1>4. \E f : Solves(f, (n - 1) + 1)
  <2> HIDE DEF Solves
  <2> QED
    BY <1>3
<1>5. (n - 1) + 1 = n
  OBVIOUS
<1> QED
  BY <1>4, <1>5

\* What FlattenSeq has put together after each part.
Joins(g, S, seqs) ==
    /\ g \in [0 .. Len(seqs) -> Seq(S)]
    /\ g[0] = <<>>
    /\ \A i \in 1 .. Len(seqs) : g[i] = g[i - 1] \o seqs[i]
    /\ FlattenSeq(seqs) = g[Len(seqs)]

\* FlattenSeq joins its parts from the left to the right.
LEMMA FlattenFacts == ASSUME NEW S, NEW seqs \in Seq(Seq(S)) PROVE \E g : Joins(g, S, seqs)
<1> DEFINE n == Len(seqs)
           Solves(g) == g = [i \in 1 .. n |-> IF i = 1 THEN seqs[i] ELSE g[i - 1] \o seqs[i]]
           f == CHOOSE g : Solves(g)
           r == [i \in 0 .. n |-> IF i = 0 THEN <<>> ELSE f[i]]
<1>1. n \in Nat /\ \A i \in 1 .. n : seqs[i] \in Seq(S)
  BY LenProperties, ElementOfSeq
<1>2. CASE n = 0
  <2>1. seqs = <<>> /\ FlattenSeq(seqs) = seqs
    BY <1>2, EmptySeq DEF FlattenSeq
  <2> DEFINE e == [i \in 0 .. n |-> <<>>]
  <2>2. e \in [0 .. n -> Seq(S)]
    BY EmptySeq
  <2>3. e[0] = <<>> /\ e[n] = <<>>
    BY <1>2
  <2>4. \A i \in 1 .. Len(seqs) : FALSE
    BY <1>2
  <2>5. Joins(e, S, seqs)
    <3> HIDE DEF e
    <3> QED
      BY <2>1, <2>2, <2>3, <2>4 DEF Joins
  <2> QED
    BY <2>5
<1>3. CASE n # 0
  <2>1. \E g : Solves(g)
    BY <1>1, <1>3, FlattenExists
  <2>2. Solves(f)
    BY <2>1, Zenon
  <2>3. FlattenSeq(seqs) = f[n]
    BY <1>3, Zenon DEF FlattenSeq
  <2> HIDE DEF f
  <2>4. \A i \in 1 .. n : f[i] = IF i = 1 THEN seqs[i] ELSE f[i - 1] \o seqs[i]
    BY <2>2
  <2>5. r[0] = <<>> /\ \A i \in 1 .. n : r[i] = f[i]
    BY <1>1
  <2>6. \A i \in 1 .. n : r[i] = r[i - 1] \o seqs[i]
    <3> TAKE i \in 1 .. n
    <3>1. CASE i = 1
      <4>1. <<>> \o seqs[1] = seqs[1]
        BY <1>1, <3>1, ConcatEmptySeq
      <4>2. r[i - 1] = <<>> /\ r[i] = f[i] /\ f[i] = seqs[1]
        BY <3>1, <2>4, <2>5
      <4> QED
        BY <3>1, <4>1, <4>2
    <3>2. CASE i # 1
      <4>1. i - 1 \in 1 .. n
        BY <3>2, <1>1
      <4> QED
        BY <3>2, <4>1, <2>4, <2>5
    <3> QED
      BY <3>1, <3>2
  <2> DEFINE T == {i \in 0 .. n : r[i] \in Seq(S)}
  <2>r. DOMAIN r = 0 .. n /\ r = [i \in 0 .. n |-> r[i]]
    OBVIOUS
  <2> HIDE DEF r
  <2>7. 0 \in T
    <3>1. <<>> \in Seq(S)
      BY EmptySeq
    <3>2. r[0] \in Seq(S)
      BY <2>5, <3>1
    <3>3. 0 \in 0 .. n
      BY <1>1
    <3> QED
      BY <3>2, <3>3
  <2>8. \A i \in 0 .. n - 1 : i \in T => i + 1 \in T
    <3> SUFFICES ASSUME NEW i \in 0 .. n - 1, r[i] \in Seq(S) PROVE r[i + 1] \in Seq(S)
      BY <1>1
    <3>1. i + 1 \in 1 .. n /\ (i + 1) - 1 = i
      BY <1>1
    <3>2. r[i + 1] = r[(i + 1) - 1] \o seqs[i + 1]
      BY <3>1, <2>6
    <3> QED
      BY <3>1, <3>2, <1>1, ConcatProperties
  <2>9. \A i \in 0 .. n : i \in T
    <3> HIDE DEF T
    <3> QED
      BY <1>1, <2>7, <2>8, Induction
  <2>10. r \in [0 .. n -> Seq(S)]
    BY <2>9, <2>r
  <2>11. FlattenSeq(seqs) = r[n]
    BY <2>3, <2>5, <1>1, <1>3
  <2>12. Joins(r, S, seqs)
    BY <2>5, <2>6, <2>10, <2>11 DEF Joins
  <2> QED
    BY <2>12
<1> QED
  BY <1>2, <1>3

-----------------------------------------------------------------------------
(* The tokenizer reads what _serialize_sql_value writes. *)

\* The parameters with which the INSERT fails.
HasNul(v) == v[1] = "str" /\ Contains(v[2], Nul)

\* The literal for a parameter that is not a text.
Literal(v) ==
    IF v[1] = "None" \/ (v[1] = "float" /\ v[2] = "nan") THEN Null
    ELSE IF v[1] = "bool" THEN <<"int", IF v[2] THEN 1 ELSE 0>> ELSE v

\* The value that is stored for a parameter, or for a placeholder without one.
Value(v) ==
    IF v = Error THEN Null ELSE IF v[1] = "str" THEN <<"TEXT", v[2]>> ELSE Stored(Literal(v))

\* What a statement consists of.  (The provers do not know that a string is in STRING.)
Item ==
    {Char(c) : c \in STRING} \union {Char(Quote), Char("?"), Char(",")}
    \union ParamType \union {Null} \union ({"int"} \X {0, 1})

\* A character of a text literal.
Spelled(c) == IF c = Quote THEN <<Char(Quote), Char(Quote)>> ELSE <<Char(c)>>

\* Sequences of one and of two items.
LEMMA ShortSequences ==
  ASSUME NEW S, NEW x \in S, NEW y \in S
  PROVE  <<x>> \in Seq(S) /\ <<x, y>> \in Seq(S) /\ <<x, y>> = <<x>> \o <<y>>
<1>1. <<x>> \in Seq(S)
  OBVIOUS
<1>2. <<x, y>> \in Seq(S)
  OBVIOUS
<1>3. <<y>> \in Seq(S)
  OBVIOUS
<1>4. <<x, y>> = <<x>> \o <<y>>
  <2> DEFINE a == <<x>>
             b == <<y>>
             w == <<x, y>>
  <2>1. Len(a) = 1 /\ Len(b) = 1 /\ Len(w) = 2 /\ a[1] = x /\ b[1] = y /\ w[1] = x /\ w[2] = y
    OBVIOUS
  <2>2. a \in Seq(S) /\ b \in Seq(S) /\ w \in Seq(S)
    BY <1>1, <1>2, <1>3
  <2> HIDE DEF a, b, w
  <2>3. /\ a \o b \in Seq(S) /\ Len(a \o b) = 2
        /\ \A i \in 1 .. 2 : (a \o b)[i] = IF i <= 1 THEN a[i] ELSE b[i - 1]
    BY <2>1, <2>2, ConcatProperties
  <2>4. \A i \in 1 .. 2 : w[i] = (a \o b)[i]
    BY <2>1, <2>3
  <2>5. w = a \o b
    BY <2>1, <2>2, <2>3, <2>4, SeqEqual
  <2> QED
    BY <2>5 DEF a, b, w
<1> QED
  BY <1>1, <1>2, <1>4

\* Characters are items of a statement.
LEMMA CharTyped == \A c \in STRING : Char(c) \in Item /\ <<Char(c)>> \in Seq(Item) /\ Spelled(c) \in Seq(Item)
<1> TAKE c \in STRING
<1>1. Char(c) \in Item /\ Char(Quote) \in Item
  BY Zenon DEF Item
<1> HIDE DEF Item
<1> QED
  BY <1>1, ShortSequences DEF Spelled

\* A text of two items.
LEMMA ScanTwo == \A s, x, y : Scan(s, <<x, y>>) = ReadNext(ReadNext(s, x), y)
<1> TAKE s, x, y
<1> DEFINE S == {x, y}
<1>0. x \in S /\ y \in S
  OBVIOUS
<1> HIDE DEF S
<1>1. <<x>> \in Seq(S) /\ <<y>> \in Seq(S) /\ <<x, y>> = <<x>> \o <<y>>
  BY <1>0, ShortSequences
<1>2. Scan(s, <<x>> \o <<y>>) = Scan(Scan(s, <<x>>), <<y>>)
  BY <1>1, ScanConcat
<1> QED
  BY <1>1, <1>2, ScanOne

\* Behind the end of the statement nothing is read.
LEMMA EndScanned ==
  ASSUME NEW S, NEW text \in Seq(S), NEW values
  PROVE  Scan(AtEnd(values), text) = AtEnd(values)
<1> DEFINE n == Len(text)
<1>1. n \in Nat
  BY LenProperties
<1>2. PICK f : Reads(f, AtEnd(values), text)
  BY <1>1, ScanFacts
<1> DEFINE T == {i \in 0 .. n : f[i] = AtEnd(values)}
<1>3. 0 \in T
  BY <1>1, <1>2 DEF Reads
<1>4. \A i \in 0 .. n - 1 : i \in T => i + 1 \in T
  <2> SUFFICES ASSUME NEW i \in 0 .. n - 1, i \in T PROVE i + 1 \in T
    OBVIOUS
  <2>1. i + 1 \in 1 .. n /\ i + 1 \in 0 .. n /\ (i + 1) - 1 = i /\ f[i] = AtEnd(values)
    BY <1>1
  <2>2. f[i + 1] = ReadNext(f[(i + 1) - 1], text[i + 1])
    BY <1>2, <2>1 DEF Reads
  <2>3. f[i + 1] = AtEnd(values)
    BY <2>1, <2>2 DEF ReadNext, AtEnd
  <2> QED
    BY <2>1, <2>3
<1>5. n \in T
  <2> HIDE DEF T, n
  <2>1. \A i \in 0 .. n : i \in T
    BY <1>1, <1>3, <1>4, Induction
  <2> QED
    BY <1>1, <2>1
<1> QED
  BY <1>2, <1>5 DEF Reads

\* A character inside a text is one character of the value.
LEMMA CharScanned ==
  ASSUME NEW c \in STRING, NEW values, NEW t
  PROVE  Scan(Inside(values, t), Spelled(c)) =
            IF c = Nul THEN AtEnd(Append(values, Error)) ELSE Inside(values, Append(t, c))
<1>1. CASE c = Quote
  <2>1. ReadNext(Inside(values, t), Char(Quote)) = AtQuote(values, t)
    BY DEF ReadNext, Inside, AtQuote, Char, Quote, Nul
  <2>2. ReadNext(AtQuote(values, t), Char(Quote)) = Inside(values, Append(t, Quote))
    BY DEF ReadNext, Inside, AtQuote, Char, Quote, Nul
  <2>3. Scan(Inside(values, t), Spelled(c)) = Inside(values, Append(t, Quote))
    <3>1. Spelled(c) = <<Char(Quote), Char(Quote)>>
      BY <1>1 DEF Spelled
    <3> QED
      BY <2>1, <2>2, <3>1, ScanTwo
  <2> QED
    BY <1>1, <2>3 DEF Quote, Nul
<1>2. CASE c = Nul
  <2>1. ReadNext(Inside(values, t), Char(Nul)) = AtEnd(Append(values, Error))
    <3>1. Complete(Inside(values, t)) = Append(values, Error)
      BY DEF Complete, Inside
    <3>2. Inside(values, t).at = "inside"
      BY DEF Inside
    <3> HIDE DEF Inside
    <3> QED
      BY <3>1, <3>2 DEF ReadNext
  <2> QED
    BY <1>2, <2>1, ScanOne DEF Spelled, Quote, Nul
<1>3. CASE c # Quote /\ c # Nul
  <2>1. Char(c) # Char(Quote) /\ Char(c) # Char(Nul) /\ Char(c)[2] = c
    BY <1>3 DEF Char
  <2>2. ReadNext(Inside(values, t), Char(c)) = Inside(values, Append(t, c))
    BY <2>1 DEF ReadNext, Inside
  <2> QED
    BY <1>3, <2>2, ScanOne DEF Spelled
<1> QED
  BY <1>1, <1>2, <1>3

\* A text comes out of its literal as it is, unless it has a NUL.
LEMMA SpellScanned ==
  ASSUME NEW s \in Seq(STRING), NEW values
  PROVE  /\ Spell(s) \in Seq(Item)
         /\ Scan(Inside(values, <<>>), Spell(s)) =
               IF Contains(s, Nul) THEN AtEnd(Append(values, Error)) ELSE Inside(values, s)
<1> DEFINE n == Len(s)
           parts == [i \in 1 .. n |-> Spelled(s[i])]
           start == Inside(values, <<>>)
           Until(i) == IF \E k \in 1 .. i : s[k] = Nul THEN AtEnd(Append(values, Error))
                       ELSE Inside(values, SubSeq(s, 1, i))
<1>1. n \in Nat /\ DOMAIN s = 1 .. n /\ \A i \in 1 .. n : s[i] \in STRING
  BY LenProperties, ElementOfSeq
<1>2. /\ parts \in Seq(Seq(Item)) /\ Len(parts) = n
      /\ \A i \in 1 .. n : parts[i] = Spelled(s[i]) /\ parts[i] \in Seq(Item)
  <2>1. \A i \in 1 .. n : Spelled(s[i]) \in Seq(Item)
    BY <1>1, CharTyped
  <2> HIDE DEF Item, Spelled
  <2> QED
    BY <1>1, <2>1
<1>3. Spell(s) = FlattenSeq(parts)
  BY <1>1 DEF Spell, Spelled
<1> HIDE DEF parts, Spelled, Item, n
<1>4. PICK g : Joins(g, Item, parts)
  BY <1>2, FlattenFacts
<1>5. /\ \A i \in 0 .. n : g[i] \in Seq(Item)
      /\ g[0] = <<>>
      /\ \A i \in 1 .. n : g[i] = g[i - 1] \o parts[i]
      /\ Spell(s) = g[n]
  BY <1>2, <1>3, <1>4 DEF Joins
<1> DEFINE T == {i \in 0 .. n : Scan(start, g[i]) = Until(i)}
<1>6. 0 \in T
  <2>1. Scan(start, g[0]) = start
    BY <1>5, ScanEmpty
  <2>2. SubSeq(s, 1, 0) = <<>>
    BY SubSeqEmpty
  <2>3. Until(0) = start
    <3>1. ~ \E k \in 1 .. 0 : s[k] = Nul
      OBVIOUS
    <3> QED
      BY <2>2, <3>1, Zenon
  <2>4. 0 \in 0 .. n
    BY <1>1
  <2> HIDE DEF Until, start
  <2> QED
    BY <2>1, <2>3, <2>4
<1>7. \A i \in 0 .. n - 1 : i \in T => i + 1 \in T
  <2> SUFFICES ASSUME NEW i \in 0 .. n - 1, i \in T PROVE i + 1 \in T
    OBVIOUS
  <2> DEFINE c == s[i + 1]
  <2>1. i + 1 \in 1 .. n /\ i + 1 \in 0 .. n /\ i \in 0 .. n /\ (i + 1) - 1 = i
    BY <1>1
  <2>2. Scan(start, g[i]) = Until(i)
    OBVIOUS
  <2>3. c \in STRING /\ parts[i + 1] = Spelled(c) /\ parts[i + 1] \in Seq(Item)
    BY <1>1, <1>2, <2>1
  <2>4. g[i + 1] = g[i] \o Spelled(c) /\ g[i] \in Seq(Item) /\ Spelled(c) \in Seq(Item)
    BY <1>5, <2>1, <2>3
  <2>5. Scan(start, g[i + 1]) = Scan(Scan(start, g[i]), Spelled(c))
    BY <2>4, ScanConcat
  <2>6. Append(SubSeq(s, 1, i), c) = SubSeq(s, 1, i + 1)
    <3>1. SubSeq(s, 1, i + 1) = SubSeq(s, 1, (i + 1) - 1) \o <<s[i + 1]>>
      BY <1>1, <2>1, SubSeqRecursiveSecond DEF n
    <3>2. SubSeq(s, 1, i) \in Seq(STRING)
      BY <1>1, <2>1, SubSeqProperties DEF n
    <3> HIDE DEF c
    <3>3. Append(SubSeq(s, 1, i), c) = SubSeq(s, 1, i) \o <<c>>
      BY <3>2, <2>3, AppendIsConcat
    <3> QED
      BY <3>1, <3>3, <2>1 DEF c
  <2>7. CASE \E k \in 1 .. i : s[k] = Nul
    <3>1. Until(i) = AtEnd(Append(values, Error)) /\ Until(i + 1) = AtEnd(Append(values, Error))
      BY <2>7, <2>1
    <3>2. Scan(AtEnd(Append(values, Error)), Spelled(c)) = AtEnd(Append(values, Error))
      BY <2>4, EndScanned
    <3> HIDE DEF Until, start, c
    <3> QED
      BY <2>1, <2>2, <2>5, <3>1, <3>2
  <2>8. CASE ~ \E k \in 1 .. i : s[k] = Nul
    <3>1. Until(i) = Inside(values, SubSeq(s, 1, i))
      BY <2>8
    <3>2. (\E k \in 1 .. i + 1 : s[k] = Nul) <=> c = Nul
      BY <2>8, <2>1
    <3>3. Until(i + 1) = IF c = Nul THEN AtEnd(Append(values, Error))
                         ELSE Inside(values, Append(SubSeq(s, 1, i), c))
      BY <3>2, <2>6
    <3>4. Scan(Inside(values, SubSeq(s, 1, i)), Spelled(c)) =
            IF c = Nul THEN AtEnd(Append(values, Error))
            ELSE Inside(values, Append(SubSeq(s, 1, i), c))
      BY <2>3, CharScanned
    <3> HIDE DEF Until, start, c
    <3> QED
      BY <2>1, <2>2, <2>5, <3>1, <3>3, <3>4
  <2> QED
    BY <2>7, <2>8
<1>8. n \in T
  <2> HIDE DEF T
  <2>1. \A i \in 0 .. n : i \in T
    BY <1>1, <1>6, <1>7, Induction
  <2> QED
    BY <1>1, <2>1
<1>9. Until(n) = IF Contains(s, Nul) THEN AtEnd(Append(values, Error)) ELSE Inside(values, s)
  <2>1. SubSeq(s, 1, n) = s
    BY SubSeqFull DEF n
  <2> QED
    BY <2>1 DEF Contains, n
<1>10. Spell(s) \in Seq(Item)
  BY <1>1, <1>5
<1> HIDE DEF Until, start
<1>11. Scan(start, Spell(s)) = Until(n)
  BY <1>5, <1>8
<1> QED
  BY <1>9, <1>10, <1>11 DEF start

\* The literal of a text, with what follows it.
LEMMA TextScanned ==
  ASSUME NEW s \in Seq(STRING), NEW values
  PROVE  LET text == <<Char(Quote)>> \o Spell(s) \o <<Char(Quote)>> IN
         /\ text \in Seq(Item)
         /\ Scan(Outside(values), text) =
               IF Contains(s, Nul) THEN AtEnd(Append(values, Error)) ELSE AtQuote(values, s)
<1> DEFINE q == <<Char(Quote)>>
           w == Spell(s)
           inner == q \o w
<1>1. ReadNext(Outside(values), Char(Quote)) = Inside(values, <<>>)
  <2>1. Outside(values).at = "outside" /\ Outside(values).values = values
    BY DEF Outside
  <2>2. Char(Quote) # Char(Nul) /\ Char(Quote) # Char(",") /\ Char(Quote) # Char("?")
    BY DEF Char, Quote, Nul
  <2> HIDE DEF Outside
  <2> QED
    BY <2>1, <2>2, Zenon DEF ReadNext, Token
<1>2. q \in Seq(Item) /\ w \in Seq(Item)
  <2>1. Char(Quote) \in Item
    BY Zenon DEF Item
  <2> QED
    BY <2>1, SpellScanned, ShortSequences
<1>3. inner \in Seq(Item) /\ inner \o q \in Seq(Item)
  BY <1>2, ConcatProperties
<1>4. Scan(Outside(values), q) = Inside(values, <<>>)
  BY <1>1, ScanOne
<1>5. Scan(Inside(values, <<>>), w) =
        IF Contains(s, Nul) THEN AtEnd(Append(values, Error)) ELSE Inside(values, s)
  BY SpellScanned
<1> HIDE DEF inner, w, q
<1>6. Scan(Outside(values), inner) =
        IF Contains(s, Nul) THEN AtEnd(Append(values, Error)) ELSE Inside(values, s)
  BY <1>2, <1>4, <1>5, ScanConcat DEF inner
<1>7. Scan(Outside(values), inner \o q) = Scan(Scan(Outside(values), inner), q)
  BY <1>2, <1>3, ScanConcat
<1>8. CASE Contains(s, Nul)
  BY <1>2, <1>3, <1>6, <1>7, <1>8, EndScanned DEF inner, w, q
<1>9. CASE ~ Contains(s, Nul)
  <2>1. ReadNext(Inside(values, s), Char(Quote)) = AtQuote(values, s)
    BY DEF ReadNext, Inside, AtQuote, Char, Quote, Nul
  <2>2. Scan(Inside(values, s), q) = AtQuote(values, s)
    BY <2>1, ScanOne DEF q
  <2> QED
    BY <1>3, <1>6, <1>7, <1>9, <2>2 DEF inner, w, q
<1> QED
  BY <1>8, <1>9

\* What a parameter can be.
LEMMA ParamKinds ==
  ASSUME NEW v \in ParamType
  PROVE  /\ v = <<v[1], v[2]>> /\ v # Error
         /\ \/ v = NoneValue
            \/ v[1] = "bool" /\ v[2] \in BOOLEAN
            \/ v[1] = "int" /\ v[2] \in Int
            \/ v[1] = "float" /\ v[2] \in {"finite", "nan", "inf"}
            \/ v[1] = "bytes" /\ v[2] \in Seq(HexDigits \X HexDigits)
            \/ v[1] = "str" /\ v[2] \in Seq(STRING \ {Broken})
<1>1. CASE v = NoneValue
  BY <1>1 DEF NoneValue, Error
<1>2. CASE v \in {"bool"} \X BOOLEAN
  BY <1>2 DEF Error
<1>3. CASE v \in {"int"} \X Int
  BY <1>3 DEF Error
<1>4. CASE v \in {"float"} \X {"finite", "nan", "inf"}
  BY <1>4 DEF Error
<1>5. CASE v \in {"bytes"} \X Seq(HexDigits \X HexDigits)
  BY <1>5 DEF Error
<1>6. CASE v \in {"str"} \X Seq(STRING \ {Broken})
  BY <1>6 DEF Error
<1> QED
  BY <1>1, <1>2, <1>3, <1>4, <1>5, <1>6, Zenon DEF ParamType

\* A parameter that is not a text is one literal, and no character.
LEMMA LiteralWritten ==
  ASSUME NEW v \in ParamType, v[1] # "str"
  PROVE  SerializeSqlValue(v) = <<Literal(v)>> /\ Literal(v) \in Item /\ Literal(v)[1] # "char"
<1>0. /\ v = NoneValue \/ v[1] \in {"bool", "int", "float", "bytes"}
      /\ v[1] = "bool" => v[2] \in BOOLEAN
  BY ParamKinds DEF NoneValue
<1>1. CASE v = NoneValue
  <2>1. v[1] = "None"
    BY <1>1 DEF NoneValue
  <2>2. SerializeSqlValue(v) = <<Null>>
    BY <2>1, Zenon DEF SerializeSqlValue
  <2>3. Literal(v) = Null /\ Null[1] # "char"
    BY <2>1 DEF Literal, Null
  <2>4. Null \in Item
    BY Zenon DEF Item
  <2> QED
    BY <2>2, <2>3, <2>4
<1>2. CASE v[1] = "bool"
  <2>1. SerializeSqlValue(v) = <<<<"int", IF v[2] THEN 1 ELSE 0>>>>
    BY <1>2 DEF SerializeSqlValue
  <2>2. Literal(v) = <<"int", IF v[2] THEN 1 ELSE 0>>
    BY <1>2 DEF Literal
  <2>3. <<"int", IF v[2] THEN 1 ELSE 0>> \in {"int"} \X {0, 1}
    OBVIOUS
  <2>4. Literal(v) \in Item
    BY <2>2, <2>3, Zenon DEF Item
  <2> QED
    BY <2>1, <2>2, <2>4
<1>3. CASE v[1] = "float"
  <2>1. SerializeSqlValue(v) = <<IF v[2] = "nan" THEN Null ELSE v>>
    BY <1>3 DEF SerializeSqlValue
  <2>2. Literal(v) = IF v[2] = "nan" THEN Null ELSE v
    BY <1>3 DEF Literal
  <2>3. Literal(v) \in Item
    BY <2>2, Zenon DEF Item
  <2> QED
    BY <1>3, <2>1, <2>2, <2>3 DEF Null
<1>4. CASE v[1] \in {"int", "bytes"}
  <2>1. SerializeSqlValue(v) = <<v>>
    BY <1>4 DEF SerializeSqlValue
  <2>2. Literal(v) = v
    BY <1>4 DEF Literal
  <2>3. v \in Item
    BY Zenon DEF Item
  <2> QED
    BY <1>4, <2>1, <2>2, <2>3
<1> QED
  BY <1>0, <1>1, <1>2, <1>3, <1>4

\* What stands in the statement for an item of the template.
Piece(v) == (IF v = Error THEN <<Char("?")>> ELSE SerializeSqlValue(v)) \o <<Char(",")>>

\* The tokenizer behind the literal of a value.
Behind(values, v) ==
    IF HasNul(v) THEN AtEnd(Append(values, Error))
    ELSE IF v[1] = "str" THEN AtQuote(values, v[2])
    ELSE Outside(Append(values, Value(v)))

\* An item is read as one value, and what follows it does not matter.
LEMMA ItemScanned ==
  ASSUME NEW v \in ParamType, NEW values
  PROVE  SerializeSqlValue(v) \in Seq(Item)
         /\ Scan(Outside(values), SerializeSqlValue(v)) = Behind(values, v)
<1>1. CASE v[1] = "str"
  <2>1. SerializeSqlValue(v) = <<Char(Quote)>> \o Spell(v[2]) \o <<Char(Quote)>>
    BY <1>1 DEF SerializeSqlValue
  <2>2. v[2] \in Seq(STRING \ {Broken})
    BY <1>1, ParamKinds DEF NoneValue
  <2>3. v[2] \in Seq(STRING)
    BY <2>2
  <2> QED
    BY <1>1, <2>1, <2>3, TextScanned DEF Behind, HasNul
<1>2. CASE v[1] # "str"
  <2> DEFINE x == Literal(v)
  <2>1. SerializeSqlValue(v) = <<x>> /\ x \in Item /\ x[1] # "char"
    BY <1>2, LiteralWritten
  <2>2. <<x>> \in Seq(Item)
    BY <2>1, ShortSequences
  <2>3. Value(v) = Stored(x)
    BY <1>2, ParamKinds DEF Value
  <2> HIDE DEF x
  <2>4. x # Char(Nul) /\ x # Char(",") /\ x # Char("?") /\ x # Char(Quote)
    <3>1. \A c : Char(c)[1] = "char"
      BY DEF Char
    <3> QED
      BY <2>1, <3>1
  <2>5. Outside(values).at = "outside" /\ Outside(values).values = values
    BY DEF Outside
  <2>6. ReadNext(Outside(values), x) = Outside(Append(values, Stored(x)))
    <3> HIDE DEF Outside
    <3>1. ReadNext(Outside(values), x) = Token(values, x)
      BY <2>4, <2>5, Zenon DEF ReadNext
    <3> QED
      BY <2>1, <2>4, <3>1, Zenon DEF Token
  <2> QED
    BY <1>2, <2>1, <2>2, <2>3, <2>6, ScanOne DEF Behind, HasNul
<1> QED
  BY <1>1, <1>2

\* With the comma behind it, an item adds its value, or ends the statement at a NUL.
LEMMA PieceScanned ==
  ASSUME NEW v \in ParamType \union {Error}, NEW values
  PROVE  /\ Piece(v) \in Seq(Item)
         /\ Scan(Outside(values), Piece(v)) =
               IF HasNul(v) THEN AtEnd(Append(values, Error))
               ELSE Outside(Append(values, Value(v)))
<1> DEFINE comma == <<Char(",")>>
<1>1. comma \in Seq(Item) /\ <<Char("?")>> \in Seq(Item)
  <2>1. Char(",") \in Item /\ Char("?") \in Item
    BY Zenon DEF Item
  <2> QED
    BY <2>1, ShortSequences
<1>2. \A z : ReadNext(Outside(z), Char(",")) = Outside(z)
  <2> TAKE z
  <2>1. Outside(z).at = "outside" /\ Outside(z).values = z
    BY DEF Outside
  <2>2. Char(",") # Char(Nul)
    BY DEF Char, Nul
  <2> HIDE DEF Outside
  <2> QED
    BY <2>1, <2>2, Zenon DEF ReadNext, Token
<1>3. CASE v = Error
  <2>1. Piece(v) = <<Char("?")>> \o comma
    BY <1>3 DEF Piece
  <2>2. ReadNext(Outside(values), Char("?")) = Outside(Append(values, Null))
    <3>1. Outside(values).at = "outside" /\ Outside(values).values = values
      BY DEF Outside
    <3>2. Char("?") # Char(Nul) /\ Char("?") # Char(",")
      BY DEF Char, Nul
    <3> HIDE DEF Outside
    <3> QED
      BY <3>1, <3>2, Zenon DEF ReadNext, Token
  <2>3. Scan(Outside(values), <<Char("?")>>) = Outside(Append(values, Null))
    BY <2>2, ScanOne
  <2>4. ~ HasNul(v) /\ Value(v) = Null
    BY <1>3 DEF HasNul, Value, Error
  <2>5. Scan(Outside(Append(values, Null)), comma) = Outside(Append(values, Null))
    BY <1>2, ScanOne
  <2> DEFINE mark == <<Char("?")>>
  <2>6. mark \in Seq(Item) /\ Scan(Outside(values), mark) = Outside(Append(values, Null))
    BY <1>1, <2>3
  <2> HIDE DEF comma, mark
  <2>7. mark \o comma \in Seq(Item) /\ Scan(Outside(values), mark \o comma) = Outside(Append(values, Null))
    BY <1>1, <2>5, <2>6, ConcatProperties, ScanConcat
  <2> QED
    BY <2>1, <2>4, <2>7 DEF mark
<1>4. CASE v \in ParamType
  <2> DEFINE w == SerializeSqlValue(v)
  <2>1. Piece(v) = w \o comma
    BY <1>4, ParamKinds DEF Piece
  <2>2. w \in Seq(Item) /\ Scan(Outside(values), w) = Behind(values, v)
    BY <1>4, ItemScanned
  <2>3. Scan(Behind(values, v), comma) = ReadNext(Behind(values, v), Char(","))
    BY ScanOne
  <2> HIDE DEF w, comma
  <2>4. w \o comma \in Seq(Item) /\ Scan(Outside(values), w \o comma) = Scan(Behind(values, v), comma)
    BY <1>1, <2>2, ConcatProperties, ScanConcat
  <2>5. CASE HasNul(v)
    <3>1. Behind(values, v) = AtEnd(Append(values, Error))
      BY <2>5 DEF Behind
    <3>2. Scan(Behind(values, v), comma) = AtEnd(Append(values, Error))
      BY <1>1, <3>1, EndScanned
    <3> QED
      BY <2>1, <2>4, <2>5, <3>2
  <2>6. CASE ~ HasNul(v) /\ v[1] = "str"
    <3>1. Behind(values, v) = AtQuote(values, v[2])
      BY <2>6 DEF Behind
    <3>2. Value(v) = <<"TEXT", v[2]>>
      BY <1>4, <2>6, ParamKinds DEF Value
    <3> DEFINE a == AtQuote(values, v[2])
    <3>3. a.at = "quote" /\ a.values = values /\ a.text = v[2]
      BY DEF AtQuote
    <3>4. Char(",") # Char(Nul) /\ Char(",") # Char(Quote)
      BY DEF Char, Nul, Quote
    <3> HIDE DEF a
    <3>5. Complete(a) = Append(values, <<"TEXT", v[2]>>)
      BY <3>3, Zenon DEF Complete
    <3>6. ReadNext(a, Char(",")) = Token(Complete(a), Char(","))
      BY <3>3, <3>4, Zenon DEF ReadNext
    <3>7. ReadNext(a, Char(",")) = Outside(Append(values, Value(v)))
      BY <3>2, <3>5, <3>6, Zenon DEF Token
    <3> QED
      BY <2>1, <2>3, <2>4, <2>6, <3>1, <3>7 DEF a
  <2>7. CASE ~ HasNul(v) /\ v[1] # "str"
    <3>1. Behind(values, v) = Outside(Append(values, Value(v)))
      BY <2>7 DEF Behind
    <3> QED
      BY <1>2, <2>1, <2>3, <2>4, <2>7, <3>1
  <2> QED
    BY <2>5, <2>6, <2>7
<1> QED
  BY <1>3, <1>4

\* A placeholder has a parameter of the list, or none.
LEMMA ParamTyped ==
  ASSUME NEW t \in Seq(Nat), NEW ps \in Seq(ParamType), NEW i \in 1 .. Len(t)
  PROVE  Param(t, ps, i) \in ParamType \union {Error}
<1> DEFINE zeros == {k \in 1 .. i : t[k] = 0}
           n == IF t[i] # 0 THEN t[i] ELSE Cardinality(zeros)
<1>1. t[i] \in Nat /\ Len(ps) \in Nat /\ i \in Nat /\ i \in 1 .. i
  BY LenProperties, ElementOfSeq
<1>2. t[i] = 0 => Cardinality(zeros) \in Nat \ {0}
  <2> SUFFICES ASSUME t[i] = 0 PROVE Cardinality(zeros) \in Nat \ {0}
    OBVIOUS
  <2>1. IsFiniteSet(1 .. i)
    BY <1>1, FS_Interval
  <2>2. IsFiniteSet(zeros)
    BY <2>1, FS_Subset
  <2>3. zeros # {}
    BY <1>1
  <2> HIDE DEF zeros
  <2> QED
    BY <2>2, <2>3, FS_CardinalityType, FS_EmptySet
<1> HIDE DEF zeros
<1>3. n \in Nat \ {0}
  BY <1>1, <1>2
<1>4. n <= Len(ps) => ps[n] \in ParamType
  <2> HIDE DEF n
  <2> QED
    BY <1>1, <1>3, ElementOfSeq
<1>5. Param(t, ps, i) = IF n <= Len(ps) THEN ps[n] ELSE Error
  BY DEF Param, zeros
<1> HIDE DEF n
<1> QED
  BY <1>4, <1>5

\* SQLite reads from the statement that _client_side_prepare makes just the values
\* of its parameters, one for each placeholder, or, when one of them has a NUL,
\* something with an error: for a VALUES list of any length.
THEOREM StatementScanned ==
  ASSUME NEW t \in Seq(Nat), NEW ps \in Seq(ParamType)
  PROVE  IF \E i \in 1 .. Len(t) : HasNul(Param(t, ps, i))
         THEN Contains(ValuesOf(ClientSidePrepare(t, ps)), Error)
         ELSE ValuesOf(ClientSidePrepare(t, ps)) = [i \in 1 .. Len(t) |-> Value(Param(t, ps, i))]
<1> DEFINE n == Len(t)
           p(i) == Param(t, ps, i)
           parts == [i \in 1 .. n |-> Piece(p(i))]
           stored(i) == [k \in 1 .. i |-> Value(p(k))]
           V == {Value(p(k)) : k \in 1 .. n} \union {Error}
           start == Outside(<<>>)
<1>1. n \in Nat /\ DOMAIN t = 1 .. n
  BY LenProperties
<1>2. \A i \in 1 .. n : p(i) \in ParamType \union {Error}
  BY ParamTyped
<1>3. /\ parts \in Seq(Seq(Item)) /\ Len(parts) = n
      /\ \A i \in 1 .. n : parts[i] = Piece(p(i)) /\ parts[i] \in Seq(Item)
  <2> HIDE DEF p
  <2>1. \A i \in 1 .. n : Piece(p(i)) \in Seq(Item)
    BY <1>2, PieceScanned
  <2> HIDE DEF Item, Piece
  <2> QED
    BY <1>1, <2>1
<1>4. ClientSidePrepare(t, ps) = FlattenSeq(parts)
  BY <1>1 DEF ClientSidePrepare, Piece
<1>5. \A i \in 0 .. n : stored(i) \in Seq(V) /\ Len(stored(i)) = i
  <2> HIDE DEF p
  <2> SUFFICES ASSUME NEW i \in 0 .. n PROVE stored(i) \in Seq(V) /\ Len(stored(i)) = i
    OBVIOUS
  <2>1. \A k \in 1 .. i : Value(p(k)) \in V
    BY <1>1
  <2> HIDE DEF V
  <2> QED
    BY <1>1, <2>1
<1>6. \A i \in 0 .. n - 1 : Append(stored(i), Value(p(i + 1))) = stored(i + 1)
  <2> HIDE DEF p
  <2> SUFFICES ASSUME NEW i \in 0 .. n - 1 PROVE Append(stored(i), Value(p(i + 1))) = stored(i + 1)
    OBVIOUS
  <2> DEFINE a == stored(i)
             b == stored(i + 1)
             x == Value(p(i + 1))
  <2>0. i \in 0 .. n /\ i + 1 \in 0 .. n
    BY <1>1
  <2>1. a \in Seq(V) /\ Len(a) = i /\ b \in Seq(V) /\ Len(b) = i + 1
    BY <1>5, <2>0
  <2>2. (\A k \in 1 .. i : a[k] = b[k]) /\ b[i + 1] = x /\ x \in V
    BY <1>1
  <2> HIDE DEF a, b, x, V, stored
  <2>3. /\ Append(a, x) \in Seq(V) /\ Len(Append(a, x)) = i + 1
        /\ \A k \in 1 .. i : Append(a, x)[k] = a[k]
        /\ Append(a, x)[i + 1] = x
    BY <2>1, <2>2, AppendProperties
  <2>4. \A k \in 1 .. i + 1 : Append(a, x)[k] = b[k]
    BY <2>2, <2>3
  <2>5. Append(a, x) = b
    BY <2>1, <2>3, <2>4, SeqEqual
  <2> QED
    BY <2>5 DEF a, b, x
<1> HIDE DEF parts, p, stored, V
<1>7. PICK g : Joins(g, Item, parts)
  BY <1>3, FlattenFacts
<1> HIDE DEF n
<1>8. /\ \A i \in 0 .. n : g[i] \in Seq(Item)
      /\ g[0] = <<>>
      /\ \A i \in 1 .. n : g[i] = g[i - 1] \o parts[i]
      /\ ClientSidePrepare(t, ps) = g[n]
  BY <1>3, <1>4, <1>7 DEF Joins
<1> DEFINE Good(i) == (\A k \in 1 .. i : ~ HasNul(p(k))) /\ Scan(start, g[i]) = Outside(stored(i))
           Bad(i) == /\ \E k \in 1 .. i : HasNul(p(k))
                     /\ \E j \in 0 .. n : Scan(start, g[i]) = AtEnd(Append(stored(j), Error))
           T == {i \in 0 .. n : Good(i) \/ Bad(i)}
<1>9. 0 \in T
  <2>1. Scan(start, g[0]) = start
    BY <1>8, ScanEmpty
  <2>2. stored(0) = <<>>
    BY <1>1, <1>5, EmptySeq
  <2>3. 0 \in 0 .. n /\ \A k \in 1 .. 0 : ~ HasNul(p(k))
    BY <1>1
  <2>4. Good(0)
    BY <2>1, <2>2, <2>3
  <2> HIDE DEF Good, Bad
  <2> QED
    BY <2>3, <2>4
<1>10. \A i \in 0 .. n - 1 : i \in T => i + 1 \in T
  <2> SUFFICES ASSUME NEW i \in 0 .. n - 1, i \in T PROVE i + 1 \in T
    OBVIOUS
  <2> DEFINE v == p(i + 1)
  <2>1. i + 1 \in 1 .. n /\ i + 1 \in 0 .. n /\ i \in 0 .. n /\ (i + 1) - 1 = i
    BY <1>1
  <2>2. v \in ParamType \union {Error} /\ parts[i + 1] = Piece(v)
    BY <1>2, <1>3, <2>1
  <2>3. g[i + 1] = g[i] \o Piece(v) /\ g[i] \in Seq(Item) /\ Piece(v) \in Seq(Item)
    BY <1>3, <1>8, <2>1, <2>2
  <2>4. Scan(start, g[i + 1]) = Scan(Scan(start, g[i]), Piece(v))
    BY <2>3, ScanConcat
  <2>5. CASE Good(i)
    <3>1. Scan(Outside(stored(i)), Piece(v)) =
            IF HasNul(v) THEN AtEnd(Append(stored(i), Error))
            ELSE Outside(Append(stored(i), Value(v)))
      BY <2>2, PieceScanned
    <3>2. Append(stored(i), Value(v)) = stored(i + 1)
      BY <1>6
    <3>3. CASE HasNul(v)
      <4>1. Bad(i + 1)
        <5>1. Scan(start, g[i + 1]) = AtEnd(Append(stored(i), Error))
          BY <2>4, <2>5, <3>1, <3>3
        <5>2. i + 1 \in 1 .. i + 1
          BY <1>1
        <5> QED
          BY <2>1, <3>3, <5>1, <5>2
      <4> HIDE DEF Good, Bad
      <4> QED
        BY <2>1, <4>1
    <3>4. CASE ~ HasNul(v)
      <4>1. Good(i + 1)
        <5>1. Scan(start, g[i + 1]) = Outside(stored(i + 1))
          BY <2>4, <2>5, <3>1, <3>2, <3>4
        <5>2. \A k \in 1 .. i + 1 : k \in 1 .. i \/ k = i + 1
          BY <1>1
        <5> QED
          BY <2>5, <3>4, <5>1, <5>2
      <4> HIDE DEF Good, Bad
      <4> QED
        BY <2>1, <4>1
    <3> QED
      BY <3>3, <3>4
  <2>6. CASE Bad(i)
    <3>1. PICK j \in 0 .. n : Scan(start, g[i]) = AtEnd(Append(stored(j), Error))
      BY <2>6
    <3>2. Scan(AtEnd(Append(stored(j), Error)), Piece(v)) = AtEnd(Append(stored(j), Error))
      BY <2>3, EndScanned
    <3>3. Scan(start, g[i + 1]) = AtEnd(Append(stored(j), Error))
      BY <2>4, <3>1, <3>2
    <3>4. PICK k \in 1 .. i : HasNul(p(k))
      BY <2>6
    <3>5. k \in 1 .. i + 1
      OBVIOUS
    <3>6. Bad(i + 1)
      BY <3>3, <3>4, <3>5
    <3> HIDE DEF Good, Bad
    <3> QED
      BY <2>1, <3>6
  <2> QED
    BY <2>5, <2>6
<1>11. n \in T
  <2> HIDE DEF T
  <2>1. \A i \in 0 .. n : i \in T
    BY <1>1, <1>9, <1>10, Induction
  <2> QED
    BY <1>1, <2>1
<1>12. ValuesOf(ClientSidePrepare(t, ps)) = Complete(Scan(start, g[n]))
  BY <1>8 DEF ValuesOf
<1>13. CASE Good(n)
  <2>1. Complete(Outside(stored(n))) = stored(n)
    BY DEF Complete, Outside
  <2> QED
    BY <1>12, <1>13, <2>1 DEF stored, p, n
<1>14. CASE Bad(n)
  <2>1. PICK j \in 0 .. n : Scan(start, g[n]) = AtEnd(Append(stored(j), Error))
    BY <1>14
  <2>2. \A z : Complete(AtEnd(z)) = z
    BY DEF Complete, AtEnd
  <2>3. stored(j) \in Seq(V) /\ Error \in V /\ Len(stored(j)) = j
    BY <1>5 DEF V
  <2>4. Contains(Append(stored(j), Error), Error)
    <3>1. /\ Len(Append(stored(j), Error)) = Len(stored(j)) + 1
          /\ Append(stored(j), Error)[Len(stored(j)) + 1] = Error
      BY <2>3, AppendProperties
    <3> QED
      BY <1>1, <2>3, <3>1 DEF Contains
  <2> QED
    BY <1>12, <1>14, <2>1, <2>2, <2>4 DEF p, n
<1> QED
  BY <1>11, <1>13, <1>14

-----------------------------------------------------------------------------
(* blob() reads what handle_query writes for a BLOB. *)

\* What stands where in w = a \o c.
Consists(w, S, a, m, c, k) ==
    /\ w \in Seq(S) /\ Len(w) = m + k
    /\ \A i \in 1 .. m : w[i] = a[i]
    /\ \A i \in 1 .. k : w[m + i] = c[i]

\* The items of a sequence that is put together of two.
LEMMA ConcatAt ==
  ASSUME NEW S, NEW a \in Seq(S), NEW c \in Seq(S), NEW m \in Nat, NEW k \in Nat, Len(a) = m, Len(c) = k
  PROVE  Consists(a \o c, S, a, m, c, k)
<1> DEFINE w == a \o c
<1>1. /\ w \in Seq(S) /\ Len(w) = Len(a) + Len(c)
      /\ \A i \in 1 .. Len(a) + Len(c) : w[i] = IF i <= Len(a) THEN a[i] ELSE c[i - Len(a)]
  BY ConcatProperties, Zenon
<1> HIDE DEF w
<1>2. Len(w) = m + k /\ \A i \in 1 .. m : w[i] = a[i]
  BY <1>1
<1>3. \A i \in 1 .. k : w[m + i] = c[i]
  BY <1>1
<1>4. Consists(w, S, a, m, c, k)
  BY <1>1, <1>2, <1>3 DEF Consists
<1> QED
  BY <1>4 DEF w

\* A byte as its two digits.
Byte == HexDigits \X HexDigits

\* The literal has the two digits of each byte, in their order.
LEMMA HexDigitsOf ==
  ASSUME NEW b \in Seq(Byte)
  PROVE  /\ Hex(b) \in Seq(HexDigits) /\ Len(Hex(b)) = 2 * Len(b)
         /\ \A k \in 1 .. Len(b) : Hex(b)[2 * k - 1] = b[k][1] /\ Hex(b)[2 * k] = b[k][2]
<1> DEFINE n == Len(b)
<1>1. n \in Nat /\ \A i \in 1 .. n : b[i] \in Byte
  BY LenProperties, ElementOfSeq
<1>2. \A x \in Byte : x \in Seq(HexDigits) /\ Len(x) = 2
  <2> TAKE x \in Byte
  <2>1. x = <<x[1], x[2]>> /\ x[1] \in HexDigits /\ x[2] \in HexDigits
    BY DEF Byte
  <2>2. <<x[1], x[2]>> \in Seq(HexDigits)
    BY <2>1, ShortSequences
  <2>3. Len(<<x[1], x[2]>>) = 2
    OBVIOUS
  <2> QED
    BY <2>1, <2>2, <2>3
<1>3. b \in Seq(Seq(HexDigits))
  <2> HIDE DEF Byte
  <2> QED
    BY <1>2
<1>4. PICK g : Joins(g, HexDigits, b)
  BY <1>3, FlattenFacts
<1> HIDE DEF n
<1>5. /\ \A i \in 0 .. n : g[i] \in Seq(HexDigits)
      /\ g[0] = <<>>
      /\ \A i \in 1 .. n : g[i] = g[i - 1] \o b[i]
      /\ Hex(b) = g[n]
  BY <1>4 DEF Joins, Hex, n
<1> DEFINE Holds(i) == /\ Len(g[i]) = 2 * i
                       /\ \A k \in 1 .. i : g[i][2 * k - 1] = b[k][1] /\ g[i][2 * k] = b[k][2]
           T == {i \in 0 .. n : Holds(i)}
<1>6. 0 \in T
  <2>1. Len(g[0]) = 0
    BY <1>5, EmptySeq
  <2>2. Holds(0)
    BY <2>1
  <2> HIDE DEF Holds
  <2> QED
    BY <1>1, <2>2
<1>7. \A i \in 0 .. n - 1 : i \in T => i + 1 \in T
  <2> SUFFICES ASSUME NEW i \in 0 .. n - 1, i \in T PROVE i + 1 \in T
    OBVIOUS
  <2> DEFINE a == g[i]
             c == b[i + 1]
  <2>1. i + 1 \in 1 .. n /\ i + 1 \in 0 .. n /\ i \in 0 .. n /\ (i + 1) - 1 = i /\ i \in Nat
    BY <1>1
  <2>2. a \in Seq(HexDigits) /\ c \in Seq(HexDigits) /\ Len(c) = 2 /\ g[i + 1] = a \o c
    BY <1>1, <1>2, <1>5, <2>1
  <2>3. Len(a) = 2 * i /\ \A k \in 1 .. i : a[2 * k - 1] = b[k][1] /\ a[2 * k] = b[k][2]
    OBVIOUS
  <2> HIDE DEF a
  <2> HIDE DEF c
  <2> DEFINE m == 2 * i
  <2>m. m \in Nat /\ 2 \in Nat /\ Len(a) = m
    BY <2>1, <2>3
  <2> HIDE DEF m
  <2>4. /\ Len(a \o c) = m + 2
        /\ \A k \in 1 .. m : (a \o c)[k] = a[k]
        /\ \A k \in 1 .. 2 : (a \o c)[m + k] = c[k]
    <3>1. Consists(a \o c, HexDigits, a, m, c, 2)
      BY <2>2, <2>m, ConcatAt
    <3> QED
      BY <3>1, Zenon DEF Consists
  <2>5. \A k \in 1 .. i : (a \o c)[2 * k - 1] = b[k][1] /\ (a \o c)[2 * k] = b[k][2]
    <3> TAKE k \in 1 .. i
    <3>1. 2 * k - 1 \in 1 .. m /\ 2 * k \in 1 .. m
      BY <2>1 DEF m
    <3> QED
      BY <2>3, <2>4, <3>1
  <2>6. (a \o c)[2 * (i + 1) - 1] = b[i + 1][1] /\ (a \o c)[2 * (i + 1)] = b[i + 1][2]
    <3>1. 2 * (i + 1) - 1 = m + 1 /\ 2 * (i + 1) = m + 2 /\ 1 \in 1 .. 2 /\ 2 \in 1 .. 2
      BY <2>1 DEF m
    <3> QED
      BY <2>4, <3>1 DEF c
  <2>7. \A k \in 1 .. i + 1 : k \in 1 .. i \/ k = i + 1
    BY <2>1
  <2>8. 2 * (i + 1) = m + 2
    BY <2>1 DEF m
  <2>9. Holds(i + 1)
    BY <2>2, <2>4, <2>5, <2>6, <2>7, <2>8
  <2> HIDE DEF Holds
  <2> QED
    BY <2>1, <2>9
<1>8. n \in T
  <2> HIDE DEF T
  <2>1. \A i \in 0 .. n : i \in T
    BY <1>1, <1>6, <1>7, Induction
  <2> QED
    BY <1>1, <2>1
<1>9. Hex(b) \in Seq(HexDigits)
  BY <1>1, <1>5
<1> QED
  BY <1>5, <1>8, <1>9 DEF n

\* decode_blob_literal gives back the bytes that handle_query wrote as X'...',
\* for every BLOB.
THEOREM BlobDecoded ==
  ASSUME NEW b \in Seq(Byte)
  PROVE  DecodeBlobLiteral(Encode(<<"BLOB", b>>)) = <<"bytes", b>>
<1> DEFINE n == Len(b)
           h == Hex(b)
           S == HexDigits \union {"X", Quote}
           open == <<"X", Quote>>
           close == <<Quote>>
           s == open \o h \o close
           digits == SubSeq(s, 3, Len(s) - 1)
           bytes == [i \in 1 .. n |-> <<digits[2 * i - 1], digits[2 * i]>>]
<1>1. /\ n \in Nat /\ h \in Seq(HexDigits) /\ Len(h) = 2 * n
      /\ \A k \in 1 .. n : h[2 * k - 1] = b[k][1] /\ h[2 * k] = b[k][2]
  BY HexDigitsOf, LenProperties
<1>2. \A i \in 1 .. n : b[i] = <<b[i][1], b[i][2]>>
  <2>1. \A i \in 1 .. n : b[i] \in Byte
    BY <1>1, ElementOfSeq
  <2> QED
    BY <2>1 DEF Byte
<1>3. Encode(<<"BLOB", b>>) = <<"str", s>>
  <2> DEFINE v == <<"BLOB", b>>
  <2>1. v[1] = "BLOB" /\ v[2] = b
    OBVIOUS
  <2> HIDE DEF v
  <2>2. Encode(v) = <<"str", <<"X", Quote>> \o Hex(v[2]) \o <<Quote>>>>
    <3>1. v[1] # "INTEGER" /\ v[1] # "FLOAT" /\ v[1] # "TEXT" /\ v # Null
      BY <2>1 DEF Null
    <3> QED
      BY <2>1, <3>1, Zenon DEF Encode
  <2> QED
    BY <2>1, <2>2, Zenon DEF v
<1>4. /\ open \in Seq(S) /\ Len(open) = 2 /\ open[1] = "X" /\ open[2] = Quote
      /\ close \in Seq(S) /\ Len(close) = 1 /\ close[1] = Quote
  <2>1. "X" \in S /\ Quote \in S
    OBVIOUS
  <2> HIDE DEF S
  <2>2. open \in Seq(S) /\ close \in Seq(S)
    BY <2>1, ShortSequences
  <2> QED
    BY <2>2
<1>5. h \in Seq(S)
  BY <1>1
<1> HIDE DEF S, open, close, h, n
<1> DEFINE m == 2 * n
           w == open \o h
<1>m. m \in Nat /\ 2 + m \in Nat /\ 2 \in Nat /\ 1 \in Nat /\ Len(h) = m
  BY <1>1
<1> HIDE DEF m
<1>6. /\ w \in Seq(S) /\ Len(w) = 2 + m
      /\ \A i \in 1 .. 2 : w[i] = open[i]
      /\ \A i \in 1 .. m : w[2 + i] = h[i]
  <2>1. Consists(w, S, open, 2, h, m)
    BY <1>m, <1>4, <1>5, ConcatAt
  <2> HIDE DEF w
  <2> QED
    BY <2>1 DEF Consists
<1>s. s = w \o close
  OBVIOUS
<1> HIDE DEF w, s
<1>7. /\ s \in Seq(S) /\ Len(s) = (2 + m) + 1
      /\ \A i \in 1 .. 2 + m : s[i] = w[i]
      /\ \A i \in 1 .. 1 : s[(2 + m) + i] = close[i]
  <2>1. Consists(w \o close, S, w, 2 + m, close, 1)
    BY <1>m, <1>4, <1>6, ConcatAt
  <2> QED
    BY <2>1, <1>s DEF Consists
<1>8. Len(s) - 1 = 2 + m /\ Len(s) >= 3 /\ s[1] = "X" /\ s[2] = Quote /\ s[Len(s)] = Quote
  <2>1. 1 \in 1 .. 2 + m /\ 2 \in 1 .. 2 + m /\ 1 \in 1 .. 2 /\ 2 \in 1 .. 2 /\ 1 \in 1 .. 1
    BY <1>m
  <2> QED
    BY <1>m, <1>4, <1>6, <1>7, <2>1
<1>9. /\ Len(digits) = m
      /\ \A i \in 1 .. m : digits[i] = h[i]
  <2>1. \A i \in 3 .. 2 + m : s[i] \in S
    BY <1>m, <1>7, ElementOfSeq
  <2>2. digits = SubSeq(s, 3, 2 + m)
    BY <1>8
  <2> HIDE DEF digits
  <2>3. /\ Len(digits) = IF 3 <= 2 + m THEN (2 + m) - 3 + 1 ELSE 0
        /\ \A i \in 1 .. (2 + m) - 3 + 1 : digits[i] = s[3 + i - 1]
    BY <1>m, <2>1, <2>2, SubSeqProperties
  <2>4. \A i \in 1 .. m : i \in 1 .. (2 + m) - 3 + 1 /\ 3 + i - 1 = 2 + i /\ 2 + i \in 1 .. 2 + m
    BY <1>m
  <2>5. Len(digits) = m
    BY <1>m, <2>3
  <2>6. \A i \in 1 .. m : digits[i] = h[i]
    BY <1>6, <1>7, <2>3, <2>4
  <2> QED
    BY <2>5, <2>6
<1> HIDE DEF digits
<1>10. ToSet(digits) \subseteq HexDigits
  <2>1. \A i \in 1 .. m : h[i] \in HexDigits
    BY <1>1, <1>m, ElementOfSeq
  <2>2. DOMAIN digits = 1 .. m
    BY <1>9 DEF digits
  <2> QED
    BY <1>9, <2>1, <2>2 DEF ToSet
<1>11. Len(digits) % 2 = 0 /\ Len(digits) \div 2 = n
  BY <1>1, <1>9 DEF m
<1>12. bytes = b
  <2>1. \A i \in 1 .. n : 2 * i - 1 \in 1 .. m /\ 2 * i \in 1 .. m
    BY <1>1 DEF m
  <2>2. \A i \in 1 .. n : digits[2 * i - 1] = b[i][1] /\ digits[2 * i] = b[i][2]
    BY <1>1, <1>9, <2>1
  <2>3. \A i \in 1 .. n : bytes[i] = b[i]
    BY <1>2, <2>2
  <2>4. b = [i \in 1 .. n |-> b[i]]
    BY DEF n
  <2> QED
    BY <2>3, <2>4
<1>13. <<"str", s>> # NoneValue
  BY DEF NoneValue
<1>14. DecodeBlobLiteral(<<"str", s>>) = <<"bytes", bytes>>
  BY <1>8, <1>10, <1>11, <1>13 DEF DecodeBlobLiteral, digits
<1> QED
  BY <1>3, <1>12, <1>14

-----------------------------------------------------------------------------
(* A statement has a lone surrogate only from a parameter with one. *)

HasSurrogate(v) == v[1] = "str" /\ Contains(v[2], Surrogate)

\* The items of a statement that can be sent.
Plain == Item \ {Char(Surrogate)}

\* What is put together of parts over a set is over this set.
LEMMA FlattenTyped == ASSUME NEW S, NEW seqs \in Seq(Seq(S)) PROVE FlattenSeq(seqs) \in Seq(S)
<1>1. PICK g : Joins(g, S, seqs)
  BY FlattenFacts
<1>2. Len(seqs) \in 0 .. Len(seqs)
  BY LenProperties
<1> QED
  BY <1>1, <1>2 DEF Joins

\* Every character but a surrogate, and every literal, can be sent.
LEMMA PlainItems ==
  /\ Char(Quote) \in Plain /\ Char("?") \in Plain /\ Char(",") \in Plain
  /\ \A c \in STRING : c # Surrogate => Char(c) \in Plain
  /\ \A x \in Item : x[1] # "char" => x \in Plain
<1>1. Char(Quote) \in Item /\ Char("?") \in Item /\ Char(",") \in Item /\ \A c \in STRING : Char(c) \in Item
  BY Zenon DEF Item
<1>2. Char(Quote) # Char(Surrogate) /\ Char("?") # Char(Surrogate) /\ Char(",") # Char(Surrogate)
  BY DEF Char, Quote, Surrogate
<1>3. \A c : c # Surrogate => Char(c) # Char(Surrogate)
  BY DEF Char
<1>4. \A x : x[1] # "char" => x # Char(Surrogate)
  BY DEF Char
<1> HIDE DEF Item
<1> QED
  BY <1>1, <1>2, <1>3, <1>4 DEF Plain

\* What stands in a statement for a value without a surrogate can be sent.
LEMMA PlainPiece ==
  ASSUME NEW v \in ParamType \union {Error}, ~ HasSurrogate(v)
  PROVE  Piece(v) \in Seq(Plain)
<1> DEFINE q == <<Char(Quote)>>
           comma == <<Char(",")>>
<1>1. q \in Seq(Plain) /\ comma \in Seq(Plain) /\ <<Char("?")>> \in Seq(Plain)
  <2>1. Char(Quote) \in Plain /\ Char("?") \in Plain /\ Char(",") \in Plain
    BY PlainItems
  <2> HIDE DEF Plain
  <2> QED
    BY <2>1, ShortSequences
<1>2. CASE v = Error
  <2>1. Piece(v) = <<Char("?")>> \o comma
    BY <1>2 DEF Piece
  <2> HIDE DEF Plain, comma
  <2> QED
    BY <1>1, <2>1, ConcatProperties
<1>3. CASE v # Error /\ v[1] # "str"
  <2>1. SerializeSqlValue(v) = <<Literal(v)>> /\ Literal(v) \in Item /\ Literal(v)[1] # "char"
    BY <1>3, LiteralWritten
  <2>2. Literal(v) \in Plain
    BY <2>1, PlainItems
  <2>3. Piece(v) = <<Literal(v)>> \o comma
    BY <1>3, <2>1 DEF Piece
  <2> HIDE DEF Plain, comma, Literal
  <2>4. <<Literal(v)>> \in Seq(Plain)
    BY <2>2
  <2> QED
    BY <1>1, <2>3, <2>4, ConcatProperties
<1>4. CASE v # Error /\ v[1] = "str"
  <2> DEFINE s == v[2]
             parts == [i \in 1 .. Len(s) |-> Spelled(s[i])]
  <2>1. s \in Seq(STRING)
    <3>1. s \in Seq(STRING \ {Broken})
      BY <1>4, ParamKinds DEF NoneValue
    <3> QED
      BY <3>1
  <2>2. Len(s) \in Nat /\ DOMAIN s = 1 .. Len(s) /\ \A i \in 1 .. Len(s) : s[i] \in STRING
    BY <2>1, LenProperties, ElementOfSeq
  <2>3. \A i \in 1 .. Len(s) : s[i] # Surrogate
    BY <1>4, <2>2 DEF HasSurrogate, Contains
  <2>4. \A i \in 1 .. Len(s) : Spelled(s[i]) \in Seq(Plain)
    <3> TAKE i \in 1 .. Len(s)
    <3>1. Char(s[i]) \in Plain /\ Char(Quote) \in Plain
      BY <2>2, <2>3, PlainItems
    <3> HIDE DEF Plain
    <3> QED
      BY <3>1, ShortSequences DEF Spelled
  <2>5. Spell(s) = FlattenSeq(parts)
    BY <2>2 DEF Spell, Spelled
  <2>6. parts \in Seq(Seq(Plain))
    <3> HIDE DEF Plain, Spelled
    <3> QED
      BY <2>2, <2>4
  <2>7. Spell(s) \in Seq(Plain)
    <3> HIDE DEF Plain, parts
    <3> QED
      BY <2>5, <2>6, FlattenTyped
  <2>8. SerializeSqlValue(v) = q \o Spell(s) \o q
    BY <1>4 DEF SerializeSqlValue
  <2>9. Piece(v) = (q \o Spell(s) \o q) \o comma
    BY <1>4, <2>8 DEF Piece
  <2> HIDE DEF Plain, q, comma, s
  <2>10. q \o Spell(s) \in Seq(Plain)
    BY <1>1, <2>7, ConcatProperties
  <2>11. q \o Spell(s) \o q \in Seq(Plain)
    BY <1>1, <2>10, ConcatProperties
  <2> QED
    BY <1>1, <2>9, <2>11, ConcatProperties
<1> QED
  BY <1>2, <1>3, <1>4

\* A statement whose parameters have no surrogate is one that can be parsed.
LEMMA StatementParsed ==
  ASSUME NEW t \in Seq(Nat), NEW ps \in Seq(ParamType),
         \A i \in 1 .. Len(t) : ~ HasSurrogate(Param(t, ps, i))
  PROVE  ~ Unparsable(ClientSidePrepare(t, ps))
<1> DEFINE n == Len(t)
           parts == [i \in 1 .. n |-> Piece(Param(t, ps, i))]
           text == ClientSidePrepare(t, ps)
<1>1. n \in Nat /\ DOMAIN t = 1 .. n
  BY LenProperties
<1>2. \A i \in 1 .. n : Piece(Param(t, ps, i)) \in Seq(Plain)
  BY ParamTyped, PlainPiece
<1>3. text = FlattenSeq(parts)
  BY <1>1 DEF ClientSidePrepare, Piece
<1>4. parts \in Seq(Seq(Plain))
  <2> HIDE DEF Plain, Piece
  <2> QED
    BY <1>1, <1>2
<1>5. text \in Seq(Plain)
  <2> HIDE DEF Plain, parts, text
  <2> QED
    BY <1>3, <1>4, FlattenTyped
<1>6. Char(Surrogate) \notin Plain
  BY DEF Plain
<1> HIDE DEF Plain, text
<1>7. ~ Contains(text, Char(Surrogate))
  BY <1>5, <1>6, LenProperties, ElementOfSeq DEF Contains
<1> QED
  BY <1>7 DEF Unparsable, text

-----------------------------------------------------------------------------
(* What handle_query makes of a stored value. *)

\* A text without NUL is not cut, and one without bad bytes can be dumped.
LEMMA ValueFacts ==
  ASSUME NEW v \in ParamType \union {Error}, ~ HasNul(v)
  PROVE  /\ Value(v) # Error /\ ~ Unencodable(Value(v))
         /\ IF v[1] = "bytes" THEN DecodeBlobLiteral(Encode(Value(v))) = v
            ELSE Encode(Value(v)) = Returned(v)
<1> DEFINE x == Value(v)
<1>1. CASE v = Error
  <2>1. x = Null
    BY <1>1 DEF Value
  <2>2. Null # Error /\ Null[1] = "NULL"
    BY DEF Null, Error
  <2>3. Encode(Null) = NoneValue
    BY <2>2, Zenon DEF Encode
  <2>4. v[1] = "error"
    BY <1>1 DEF Error
  <2>5. Returned(v) = NoneValue
    BY <1>1, <2>4, Zenon DEF Returned
  <2> QED
    BY <2>1, <2>2, <2>3, <2>4, <2>5 DEF Unencodable
<1>2. CASE v = NoneValue
  <2>1. v[1] = "None" /\ v # Error
    BY <1>2 DEF NoneValue, Error
  <2>2. Literal(v) = Null /\ x = Stored(Literal(v))
    BY <2>1 DEF Literal, Value
  <2>3. Null # Error /\ Null[1] = "NULL"
    BY DEF Null, Error
  <2>4. Stored(Null) = Null /\ Encode(Null) = NoneValue
    BY <2>3, Zenon DEF Encode, Stored
  <2>5. Returned(v) = v
    BY <2>1, Zenon DEF Returned
  <2> QED
    BY <1>2, <2>1, <2>2, <2>3, <2>4, <2>5 DEF Unencodable
<1> DEFINE Size(k) == IF k \in -MaxDouble .. MaxDouble THEN "finite" ELSE "inf"
<1>i. ASSUME NEW k
      PROVE  /\ k \in -MaxInt - 1 .. MaxInt => Stored(<<"int", k>>) = <<"INTEGER", k>>
             /\ k \notin -MaxInt - 1 .. MaxInt => Stored(<<"int", k>>) = <<"FLOAT", Size(k)>>
             /\ Encode(<<"INTEGER", k>>) = <<"int", k>>
             /\ Encode(<<"FLOAT", Size(k)>>) =
                   IF k \in -MaxDouble .. MaxDouble THEN <<"float", "finite">> ELSE NoneValue
  <2> DEFINE l == <<"int", k>>
             a == <<"INTEGER", k>>
             f == <<"FLOAT", Size(k)>>
  <2>1. /\ l[1] = "int" /\ l[2] = k /\ l # Null
        /\ a[1] = "INTEGER" /\ a[2] = k /\ a # Null
        /\ f[1] = "FLOAT" /\ f[2] = Size(k) /\ f # Null
    BY DEF Null
  <2> HIDE DEF l, a, f
  <2>2. Stored(l) = IF l[2] \in -MaxInt - 1 .. MaxInt THEN <<"INTEGER", l[2]>> ELSE <<"FLOAT", Size(l[2])>>
    BY <2>1, Zenon DEF Stored
  <2>3. Encode(a) = <<"int", a[2]>>
    BY <2>1, Zenon DEF Encode
  <2>4. Encode(f) = IF f[2] = "finite" THEN <<"float", "finite">> ELSE NoneValue
    BY <2>1, Zenon DEF Encode
  <2> QED
    BY <2>1, <2>2, <2>3, <2>4 DEF l, a, f
<1>3. CASE v[1] = "bool" /\ v[2] \in BOOLEAN
  <2> DEFINE k == IF v[2] THEN 1 ELSE 0
  <2>1. v # Error
    BY <1>3 DEF Error
  <2>2. Literal(v) = <<"int", k>> /\ x = Stored(Literal(v))
    BY <1>3, <2>1 DEF Literal, Value
  <2>3. k \in -MaxInt - 1 .. MaxInt
    BY StatementAssumption
  <2>4. Returned(v) = <<"int", k>>
    BY <1>3, <2>1, Zenon DEF Returned
  <2> HIDE DEF k
  <2>5. x = <<"INTEGER", k>> /\ Encode(x) = <<"int", k>>
    BY <1>i, <2>2, <2>3
  <2> QED
    BY <1>3, <2>4, <2>5 DEF Unencodable, Error
<1>4. CASE v[1] = "int" /\ v[2] \in Int
  <2> DEFINE k == v[2]
  <2>1. v # Error /\ v = <<"int", k>>
    BY <1>4, ParamKinds DEF Error
  <2>2. Literal(v) = <<"int", k>> /\ x = Stored(<<"int", k>>)
    BY <1>4, <2>1 DEF Literal, Value
  <2>3. Returned(v) = IF k \in -MaxInt - 1 .. MaxInt THEN v
                      ELSE IF k \in -MaxDouble .. MaxDouble THEN <<"float", "finite">> ELSE NoneValue
    BY <1>4, <2>1, Zenon DEF Returned
  <2> HIDE DEF k
  <2>4. CASE k \in -MaxInt - 1 .. MaxInt
    <3>1. x = <<"INTEGER", k>> /\ Encode(x) = <<"int", k>>
      BY <1>i, <2>2, <2>4
    <3> QED
      BY <1>4, <2>1, <2>3, <2>4, <3>1 DEF Unencodable, Error
  <2>5. CASE k \notin -MaxInt - 1 .. MaxInt
    <3>1. /\ x = <<"FLOAT", Size(k)>>
          /\ Encode(x) = IF k \in -MaxDouble .. MaxDouble THEN <<"float", "finite">> ELSE NoneValue
      BY <1>i, <2>2, <2>5
    <3>2. x[1] = "FLOAT" /\ x # Error
      BY <3>1 DEF Error
    <3> QED
      BY <1>4, <2>3, <2>5, <3>1, <3>2 DEF Unencodable
  <2> QED
    BY <2>4, <2>5
<1>5. CASE v[1] = "float" /\ v[2] \in {"finite", "nan", "inf"}
  <2>1. v # Error
    BY <1>5 DEF Error
  <2>2. Returned(v) = IF v[2] = "finite" THEN v ELSE NoneValue
    BY <1>5, <2>1, Zenon DEF Returned
  <2>3. CASE v[2] = "nan"
    <3>1. Literal(v) = Null /\ x = Stored(Literal(v))
      BY <1>5, <2>1, <2>3 DEF Literal, Value
    <3>2. Null # Error /\ Null[1] = "NULL"
      BY DEF Null, Error
    <3>3. Stored(Null) = Null /\ Encode(Null) = NoneValue
      BY <3>2, Zenon DEF Encode, Stored
    <3> QED
      BY <1>5, <2>2, <2>3, <3>1, <3>2, <3>3 DEF Unencodable
  <2>4. CASE v[2] # "nan"
    <3>1. Literal(v) = v /\ x = Stored(v)
      BY <1>5, <2>1, <2>4 DEF Literal, Value
    <3>2. v # Null
      BY <1>5 DEF Null
    <3>3. Stored(v) = <<"FLOAT", v[2]>>
      BY <1>5, <3>2, Zenon DEF Stored
    <3>4. x[1] = "FLOAT" /\ x[2] = v[2] /\ x # Error /\ x # Null
      BY <3>1, <3>3 DEF Error, Null
    <3>5. Encode(x) = IF x[2] = "finite" THEN <<"float", "finite">> ELSE NoneValue
      <4> HIDE DEF x
      <4> QED
        BY <3>4, Zenon DEF Encode
    <3>6. v = <<"float", v[2]>>
      BY <1>5, <2>1, ParamKinds
    <3> QED
      BY <1>5, <2>2, <3>4, <3>5, <3>6 DEF Unencodable
  <2> QED
    BY <2>3, <2>4
<1>6. CASE v[1] = "bytes" /\ v[2] \in Seq(HexDigits \X HexDigits)
  <2>1. v # Error /\ v # Null /\ v = <<"bytes", v[2]>>
    BY <1>6, ParamKinds DEF Error, Null
  <2>2. Literal(v) = v /\ x = Stored(v)
    BY <1>6, <2>1 DEF Literal, Value
  <2>3. Stored(v) = <<"BLOB", v[2]>>
    BY <1>6, <2>1, Zenon DEF Stored
  <2>4. x[1] = "BLOB" /\ x # Error
    BY <2>2, <2>3 DEF Error
  <2>5. DecodeBlobLiteral(Encode(<<"BLOB", v[2]>>)) = <<"bytes", v[2]>>
    BY <1>6, BlobDecoded DEF Byte
  <2> QED
    BY <1>6, <2>1, <2>2, <2>3, <2>4, <2>5 DEF Unencodable
<1>7. CASE v[1] = "str" /\ v[2] \in Seq(STRING \ {Broken})
  <2>1. v # Error /\ v = <<"str", v[2]>>
    BY <1>7, ParamKinds DEF Error
  <2>2. x = <<"TEXT", v[2]>>
    BY <1>7, <2>1 DEF Value
  <2>3. ~ Contains(v[2], Nul) /\ Before(v[2], Nul) = v[2]
    BY <1>7 DEF HasNul, Before
  <2>4. ~ Contains(v[2], Broken)
    BY <1>7, LenProperties, ElementOfSeq DEF Contains
  <2>5. x[1] = "TEXT" /\ x[2] = v[2] /\ x # Error /\ x # Null
    BY <2>2 DEF Error, Null
  <2>6. Encode(x) = <<"str", Before(x[2], Nul)>>
    <3> HIDE DEF x
    <3> QED
      BY <2>5, Zenon DEF Encode
  <2>7. Returned(v) = v
    BY <1>7, <2>1, Zenon DEF Returned
  <2> HIDE DEF x
  <2>8. Encode(x) = Returned(v) /\ ~ Unencodable(x)
    BY <2>1, <2>3, <2>4, <2>5, <2>6, <2>7 DEF Unencodable
  <2> QED
    BY <1>7, <2>5, <2>8 DEF x
<1> QED
  BY <1>1, <1>2, <1>3, <1>4, <1>5, <1>6, <1>7, ParamKinds

-----------------------------------------------------------------------------
(* The invariant.  As long as no other connection has changed the table, it *)
(* holds the values of the client's parameters, and the schema is the first.*)

Given(i) == Param(template, params, i)

StatementTyped ==
    /\ template \in [DOMAIN FirstColumns -> Nat] /\ params \in Seq(ParamType)
    /\ \A i \in DOMAIN select : Contains(FirstColumns, select[i][1])

NoNul == \A i \in DOMAIN FirstColumns : ~ HasNul(Given(i))

NoSurrogate == \A i \in DOMAIN FirstColumns : ~ HasSurrogate(Given(i))

FirstTable == [i \in DOMAIN FirstColumns |-> [name |-> FirstColumns[i], value |-> Value(Given(i))]]

TripInv ==
    /\ ShapeInv
    /\ StatementTyped
    /\ changes \in Nat
    /\ changes = 0 =>
          /\ schema = FirstColumns
          /\ pc \in {"select", "step", "answered"} => NoNul /\ table = FirstTable
          /\ pc = "answered" => ~ stale
          /\ pc = "error" => ~ NoNul \/ ~ NoSurrogate
          /\ pc # "terminated"

\* The two columns.
LEMMA FirstColumnsFacts ==
  /\ Len(FirstColumns) = 2 /\ DOMAIN FirstColumns = 1 .. 2
  /\ FirstColumns[1] = "a" /\ FirstColumns[2] = "b"
<1>1. FirstColumns[1] = "a" /\ FirstColumns[2] = "b" /\ Len(FirstColumns) = 2
  BY DEF FirstColumns
<1> QED
  BY <1>1, FirstRow

\* The two placeholders of the template have a parameter each, or none.
LEMMA GivenTyped ==
  ASSUME StatementTyped
  PROVE  /\ template \in Seq(Nat) /\ Len(template) = 2 /\ DOMAIN template = 1 .. 2
         /\ \A i \in 1 .. 2 : Given(i) \in ParamType \union {Error}
<1>1. template \in [1 .. 2 -> Nat]
  BY FirstColumnsFacts DEF StatementTyped
<1>2. template \in Seq(Nat)
  BY <1>1, SeqDef
<1>3. Len(template) = 2
  BY <1>1, FunctionIsSeq
<1>4. \A i \in 1 .. 2 : Given(i) \in ParamType \union {Error}
  <2>1. params \in Seq(ParamType)
    BY DEF StatementTyped
  <2> QED
    BY <1>2, <1>3, <2>1, ParamTyped DEF Given
<1> QED
  BY <1>1, <1>2, <1>3, <1>4

\* The values SQLite reads from the statement of the client.
LEMMA InsertFacts ==
  ASSUME StatementTyped
  PROVE  LET values == ValuesOf(ClientSidePrepare(template, params)) IN
         /\ ~ NoNul => Contains(values, Error)
         /\ NoNul => /\ ~ Contains(values, Error) /\ Len(values) = 2
                     /\ \A i \in 1 .. 2 : values[i] = Value(Given(i))
         /\ NoSurrogate => ~ Unparsable(ClientSidePrepare(template, params))
<1> DEFINE values == ValuesOf(ClientSidePrepare(template, params))
<1>1. /\ template \in Seq(Nat) /\ Len(template) = 2 /\ params \in Seq(ParamType)
      /\ \A i \in 1 .. 2 : Given(i) \in ParamType \union {Error}
  BY GivenTyped DEF StatementTyped
<1>2. IF \E i \in 1 .. 2 : HasNul(Given(i)) THEN Contains(values, Error)
      ELSE values = [i \in 1 .. 2 |-> Value(Given(i))]
  BY <1>1, StatementScanned DEF Given
<1>3. NoNul <=> ~ \E i \in 1 .. 2 : HasNul(Given(i))
  BY FirstColumnsFacts DEF NoNul
<1>s. NoSurrogate => ~ Unparsable(ClientSidePrepare(template, params))
  BY <1>1, StatementParsed, FirstColumnsFacts DEF NoSurrogate, Given
<1> HIDE DEF values
<1>4. CASE NoNul
  <2>1. values = [i \in 1 .. 2 |-> Value(Given(i))]
    BY <1>2, <1>3, <1>4
  <2>2. \A i \in 1 .. 2 : Value(Given(i)) # Error
    BY <1>1, <1>3, <1>4, ValueFacts
  <2>3. values \in [1 .. 2 -> {Value(Given(i)) : i \in 1 .. 2}]
    BY <2>1
  <2>4. Len(values) = 2
    BY <2>3, FunctionIsSeq
  <2>5. \A i \in 1 .. 2 : values[i] = Value(Given(i))
    BY <2>1
  <2>6. ~ Contains(values, Error)
    BY <2>2, <2>4, <2>5 DEF Contains
  <2> QED
    BY <1>4, <1>s, <2>4, <2>5, <2>6 DEF values
<1>5. CASE ~ NoNul
  BY <1>2, <1>3, <1>5, <1>s DEF values
<1> QED
  BY <1>4, <1>5

\* The first state has an unchanged table and nothing in it.
LEMMA TripInit == Init => TripInv
<1> SUFFICES ASSUME Init PROVE TripInv
  OBVIOUS
<1>1. StatementTyped
  BY StatementAssumption DEF Init, StatementTyped
<1>2. pc = "insert" /\ schema = FirstColumns /\ changes = 0
  BY DEF Init
<1> QED
  BY <1>1, <1>2, ShapeInit DEF TripInv

\* What the select list takes from the table of the client is a value of it.
LEMMA FirstResult ==
  ASSUME ShapeInv, StatementTyped, table = FirstTable
  PROVE  /\ NamesOf(table) = FirstColumns
         /\ \A k \in 1 .. Len(ResultValues) : \E i \in 1 .. 2 : ResultValues[k] = Value(Given(i))
         /\ select = <<>> => \A i \in 1 .. 2 : ResultValues[i] = Value(Given(i))
<1>1. /\ DOMAIN table = 1 .. 2
      /\ \A i \in 1 .. 2 : table[i].name = FirstColumns[i] /\ table[i].value = Value(Given(i))
  <2> HIDE DEF Given, Value
  <2> QED
    BY FirstColumnsFacts DEF FirstTable
<1>2. NamesOf(table) = FirstColumns
  <2>1. NamesOf(table) = [i \in 1 .. 2 |-> FirstColumns[i]]
    BY <1>1 DEF NamesOf
  <2>2. FirstColumns = [i \in 1 .. 2 |-> FirstColumns[i]]
    BY DEF FirstColumns
  <2> QED
    BY <2>1, <2>2
<1>3. CASE select = <<>>
  <2>1. ResultValues = [i \in 1 .. 2 |-> table[i].value]
    BY <1>1, <1>3 DEF ResultValues
  <2>2. ResultValues \in [1 .. 2 -> {table[i].value : i \in 1 .. 2}]
    BY <2>1
  <2>3. Len(ResultValues) = 2
    BY <2>2, FunctionIsSeq
  <2> QED
    BY <1>1, <1>2, <2>1, <2>3
<1>4. CASE select # <<>>
  <2> DEFINE at(k) == SelectInSeq(FirstColumns, LAMBDA n : n = select[k][1])
  <2>1. select \in Seq(STRING \X STRING) /\ \A k \in DOMAIN select : Contains(FirstColumns, select[k][1])
    BY DEF ShapeInv, StatementTyped
  <2>2. Len(select) \in Nat /\ DOMAIN select = 1 .. Len(select)
    BY <2>1, LenProperties
  <2>3. ResultValues = [k \in 1 .. Len(select) |-> table[at(k)].value]
    BY <1>2, <1>4, <2>2 DEF ResultValues
  <2>4. \A k \in 1 .. Len(select) : at(k) \in 1 .. 2
    <3> TAKE k \in 1 .. Len(select)
    <3> DEFINE I == {i \in 1 .. Len(FirstColumns) : FirstColumns[i] = select[k][1]}
    <3>1. I # {}
      BY <2>1, <2>2 DEF Contains
    <3>2. I \subseteq 1 .. 2
      BY FirstColumnsFacts
    <3>3. at(k) = Min(I)
      BY <3>1 DEF SelectInSeq
    <3> HIDE DEF I
    <3>4. \E x \in I : \A y \in I : x <= y
      <4>1. I \subseteq Nat
        BY <3>2
      <4> QED
        BY <3>1, <4>1, LeastNumber
    <3>5. Min(I) \in I
      BY <3>4 DEF Min
    <3> QED
      BY <3>2, <3>3, <3>5
  <2> HIDE DEF at
  <2>5. ResultValues \in [1 .. Len(select) -> {table[at(k)].value : k \in 1 .. Len(select)}]
    BY <2>3
  <2>6. Len(ResultValues) = Len(select)
    BY <2>2, <2>5, FunctionIsSeq
  <2>7. \A k \in 1 .. Len(select) : ResultValues[k] = Value(Given(at(k)))
    BY <1>1, <2>3, <2>4
  <2> QED
    BY <1>2, <1>4, <2>4, <2>6, <2>7
<1> QED
  BY <1>3, <1>4

\* A SELECT from that table is answered.
LEMMA FirstAnswer ==
  ASSUME TripInv, StepSelect, changes = 0
  PROVE  pc' = "answered" /\ stale' = FALSE /\ schema' = FirstColumns
<1>1. pc = "step" /\ schema = FirstColumns /\ NoNul /\ table = FirstTable /\ columns = ResultNames(schema)
      /\ select \in Seq(STRING \X STRING) /\ IsRow(table)
  BY DEF StepSelect, TripInv, ShapeInv
<1>2. /\ NamesOf(table) = FirstColumns
      /\ \A k \in 1 .. Len(ResultValues) : \E i \in 1 .. 2 : ResultValues[k] = Value(Given(i))
  BY <1>1, FirstResult DEF TripInv
<1>3. Len(columns) = Len(ResultValues)
  BY <1>1, <1>2, ResultValuesTyped
<1>4. Len(columns) \in Nat
  <2>1. IsRow(columns)
    BY <1>1, ResultNamesTyped, FirstRow
  <2> QED
    BY <2>1, SeqFacts DEF IsRow
<1>5. Compiles(FirstColumns)
  BY DEF Compiles, TripInv, StatementTyped
<1>6. \A i \in 1 .. 2 : ~ Unencodable(Value(Given(i)))
  BY <1>1, GivenTyped, ValueFacts, FirstColumnsFacts DEF NoNul, TripInv
<1>7. \A k \in 1 .. Len(columns) : ~ Unencodable(ResultValues[k])
  BY <1>2, <1>3, <1>6
<1>8. ~ (Len(columns) > Len(ResultValues))
  BY <1>3, <1>4
<1> QED
  BY <1>1, <1>2, <1>5, <1>7, <1>8 DEF StepSelect

\* Every step keeps the invariant.
LEMMA TripStep == TripInv /\ [Next]_vars => TripInv'
<1> SUFFICES ASSUME TripInv, [Next]_vars PROVE TripInv'
  OBVIOUS
<1>1. ShapeInv'
  BY ShapeStep DEF TripInv
<1>2. UNCHANGED <<template, params, select>>
  BY DEF Next, vars, Insert, PrepareSelect, StepSelect, AddColumn, DropColumn, RenameColumn, UpdateText, Change
<1>3. StatementTyped' /\ NoNul' = NoNul /\ NoSurrogate' = NoSurrogate /\ FirstTable' = FirstTable
  <2>1. \A i : Given(i)' = Given(i)
    BY <1>2 DEF Given, Param
  <2> HIDE DEF Given
  <2> QED
    BY <1>2, <2>1 DEF TripInv, StatementTyped, NoNul, NoSurrogate, FirstTable
<1>4. CASE Insert
  <2> DEFINE values == ValuesOf(ClientSidePrepare(template, params))
  <2>1. pc' \in {"select", "error"} /\ UNCHANGED <<schema, changes>>
    BY <1>4 DEF Insert
  <2>2. /\ ~ NoNul => Contains(values, Error)
        /\ NoNul => /\ ~ Contains(values, Error) /\ Len(values) = 2
                    /\ \A i \in 1 .. 2 : values[i] = Value(Given(i))
        /\ NoSurrogate => ~ Unparsable(ClientSidePrepare(template, params))
    BY InsertFacts DEF TripInv
  <2> HIDE DEF values
  <2>3. CASE NoNul
    <3>1. CASE Unparsable(ClientSidePrepare(template, params))
      <4>1. pc' = "error"
        BY <1>4, <3>1 DEF Insert
      <4> QED
        BY <1>1, <1>3, <2>1, <2>2, <3>1, <4>1 DEF TripInv
    <3>2. CASE ~ Unparsable(ClientSidePrepare(template, params))
      <4>1. /\ pc' = "select"
            /\ table' = [i \in 1 .. 2 |-> [name |-> FirstColumns[i], value |-> values[i]]]
        BY <1>4, <2>2, <2>3, <3>2, FirstColumnsFacts DEF Insert, values
      <4>2. table' = FirstTable
        BY <2>2, <2>3, <4>1, FirstColumnsFacts DEF FirstTable
      <4> QED
        BY <1>1, <1>3, <2>1, <2>3, <4>1, <4>2 DEF TripInv
    <3> QED
      BY <3>1, <3>2
  <2>4. CASE ~ NoNul
    <3>1. pc' = "error"
      BY <1>4, <2>2, <2>4 DEF Insert, values
    <3> QED
      BY <1>1, <1>3, <2>1, <2>4, <3>1 DEF TripInv
  <2> QED
    BY <2>3, <2>4
<1>5. CASE PrepareSelect
  <2>1. pc = "select" /\ pc' \in {"step", "error"} /\ UNCHANGED <<table, changes>>
    BY <1>5 DEF PrepareSelect
  <2>2. ASSUME changes = 0 PROVE pc' = "step" /\ schema' = FirstColumns
    <3>1. schema = FirstColumns
      BY <2>2 DEF TripInv
    <3>2. Compiles(FirstColumns)
      BY DEF Compiles, TripInv, StatementTyped
    <3> QED
      BY <1>5, <3>1, <3>2 DEF PrepareSelect
  <2> QED
    BY <1>1, <1>3, <2>1, <2>2 DEF TripInv
<1>6. CASE StepSelect
  <2>1. pc = "step" /\ UNCHANGED <<table, changes>>
    BY <1>6 DEF StepSelect
  <2>2. ASSUME changes = 0 PROVE pc' = "answered" /\ stale' = FALSE /\ schema' = FirstColumns
    BY <1>6, <2>2, FirstAnswer
  <2> QED
    BY <1>1, <1>3, <2>1, <2>2 DEF TripInv
<1>7. CASE AddColumn \/ DropColumn \/ RenameColumn \/ UpdateText
  <2>1. changes' = changes + 1
    BY <1>7 DEF AddColumn, DropColumn, RenameColumn, UpdateText, Change
  <2> QED
    BY <1>1, <1>3, <2>1 DEF TripInv
<1>8. CASE UNCHANGED vars
  BY <1>1, <1>3, <1>8 DEF TripInv, vars
<1> QED
  BY <1>4, <1>5, <1>6, <1>7, <1>8 DEF Next

\* What the invariant says of an answer.
LEMMA TripAnswer == TripInv => RoundTrip
<1> SUFFICES ASSUME TripInv, changes = 0
             PROVE  /\ pc = "answered" /\ select = <<>> =>
                          \A i \in DOMAIN template :
                              LET v == Given(i)
                                  got == row[FirstColumns[i]]
                              IN  IF v[1] = "bytes" THEN DecodeBlobLiteral(got) = v ELSE got = Returned(v)
                    /\ pc = "error" =>
                          \E v \in Used : v[1] = "str" /\ \E c \in {Nul, Surrogate} : Contains(v[2], c)
                    /\ pc # "terminated"
  BY DEF RoundTrip, Given
<1>1. DOMAIN template = 1 .. 2 /\ \A i \in 1 .. 2 : Given(i) \in ParamType \union {Error}
  BY GivenTyped DEF TripInv
<1>2. ASSUME pc = "answered", select = <<>>, NEW i \in 1 .. 2
      PROVE  LET v == Given(i)
                 got == row[FirstColumns[i]]
             IN  IF v[1] = "bytes" THEN DecodeBlobLiteral(got) = v ELSE got = Returned(v)
  <2>1. ~ stale /\ NoNul /\ table = FirstTable
    BY <1>2 DEF TripInv
  <2>2. NamesOf(table) = FirstColumns /\ \A k \in 1 .. 2 : ResultValues[k] = Value(Given(k))
    BY <1>2, <2>1, FirstResult DEF TripInv
  <2>3. ResultNames(NamesOf(table)) = FirstColumns
    BY <1>2, <2>2 DEF ResultNames
  <2>4. columns = FirstColumns /\ Len(columns) = 2
    BY <1>2, <2>1, <2>3, FirstColumnsFacts DEF TripInv, ShapeInv, ResultShape
  <2>5. \A k \in 1 .. 2 : \A j \in k + 1 .. 2 : FirstColumns[j] # FirstColumns[k]
    BY FirstColumnsFacts
  <2>6. row[FirstColumns[i]] = Encode(ResultValues[i])
    BY <1>2, <2>3, <2>4, <2>5 DEF TripInv, ShapeInv, ResultShape
  <2>7. ~ HasNul(Given(i))
    BY <2>1, FirstColumnsFacts DEF NoNul
  <2> QED
    BY <1>1, <2>2, <2>6, <2>7, ValueFacts
<1>3. ASSUME pc = "error"
      PROVE  \E v \in Used : v[1] = "str" /\ \E c \in {Nul, Surrogate} : Contains(v[2], c)
  <2>1. PICK i \in 1 .. 2 : HasNul(Given(i)) \/ HasSurrogate(Given(i))
    BY <1>3, FirstColumnsFacts DEF TripInv, NoNul, NoSurrogate
  <2> QED
    BY <1>1, <2>1 DEF Used, Given, HasNul, HasSurrogate
<1>4. pc # "terminated"
  BY DEF TripInv
<1> QED
  BY <1>1, <1>2, <1>3, <1>4

\* A parameter of query() comes back from the table as RoundTrip says: for every
\* text, every sequence of bytes, every number, every list of parameters and every
\* '?' and '?N' that refers to them, and for any limits of integers and doubles.
\* A value never ends its literal, and the INSERT fails only when a text has a NUL
\* or a lone surrogate.
THEOREM ValuesRoundTrip == Spec => []RoundTrip
  BY TripInit, TripStep, TripAnswer, PTL DEF Spec
=============================================================================
