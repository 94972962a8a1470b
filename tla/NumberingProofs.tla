--------------------------- MODULE NumberingProofs ---------------------------
(***************************************************************************)
(* Numbers that the two sides have to agree on.  The ids of arrays,        *)
(* objects, references and strings are not in the stream: the writer       *)
(* counts while it walks and the reader will count what it reads.  The     *)
(* count in a header is written before the entries it counts.  Then, with  *)
(* both, the whole output: it is one value of the format.  What holds of   *)
(* them for every value of Serialize's constants.                          *)
(***************************************************************************)
EXTENDS SerializeProofs, Format

(***************************************************************************)
(* A buffer that grows by a token.                                         *)
(***************************************************************************)
LEMMA PutOne ==
  ASSUME NEW S, NEW b \in Seq(S), NEW t
  PROVE  LET c == b \o << t >>
         IN  /\ c \in Seq(S \cup {t}) /\ Len(b) \in Nat /\ Len(c) = Len(b) + 1
             /\ DOMAIN b = 1..Len(b) /\ DOMAIN c = 1..(Len(b) + 1)
             /\ \A i \in 1..Len(b) : c[i] = b[i]
             /\ c[Len(b) + 1] = t /\ c # << >>
<1> DEFINE s == << t >>
           c == b \o s
           R == S \cup {t}
<1>1. s \in Seq(R) /\ Len(s) = 1 /\ s[1] = t /\ b \in Seq(R)
  OBVIOUS
<1> HIDE DEF s, R
<1>2. /\ c \in Seq(R) /\ Len(c) = Len(b) + Len(s)
      /\ \A i \in 1..(Len(b) + Len(s)) : c[i] = IF i <= Len(b) THEN b[i] ELSE s[i - Len(b)]
  BY <1>1, ConcatProperties
<1> HIDE DEF c
<1>3. Len(b) \in Nat /\ DOMAIN b = 1..Len(b) /\ DOMAIN c = 1..Len(c)
  BY <1>2, LenProperties
<1>4. c # << >>
  BY <1>1, <1>2, <1>3, EmptySeq
<1>5. QED
  BY <1>1, <1>2, <1>3, <1>4 DEF c, s, R

LEMMA PutTwo ==
  ASSUME NEW S, NEW b \in Seq(S), NEW t, NEW u
  PROVE  b \o << t, u >> = (b \o << t >>) \o << u >>
<1> DEFINE p == << t, u >>
           c == b \o << t >>
           d == c \o << u >>
           e == b \o p
           R == (S \cup {t}) \cup {u}
<1>1. p \in Seq(R) /\ Len(p) = 2 /\ p[1] = t /\ p[2] = u /\ b \in Seq(R)
  OBVIOUS
<1> HIDE DEF p
<1>2. /\ c \in Seq(S \cup {t}) /\ Len(b) \in Nat /\ Len(c) = Len(b) + 1
      /\ \A i \in 1..Len(b) : c[i] = b[i]
      /\ c[Len(b) + 1] = t
  BY PutOne
<1> HIDE DEF c
<1>3. /\ d \in Seq(R) /\ Len(d) = Len(c) + 1
      /\ \A i \in 1..Len(c) : d[i] = c[i]
      /\ d[Len(c) + 1] = u
  BY <1>2, PutOne
<1> HIDE DEF d, R
<1>4. /\ e \in Seq(R) /\ Len(e) = Len(b) + 2
      /\ \A i \in 1..(Len(b) + 2) : e[i] = IF i <= Len(b) THEN b[i] ELSE p[i - Len(b)]
  <2>1. /\ e \in Seq(R) /\ Len(e) = Len(b) + Len(p)
        /\ \A i \in 1..(Len(b) + Len(p)) : e[i] = IF i <= Len(b) THEN b[i] ELSE p[i - Len(b)]
    BY <1>1, ConcatProperties
  <2> HIDE DEF e
  <2>2. QED
    BY <1>1, <2>1
<1> HIDE DEF e
<1>5. \A i \in 1..Len(e) : e[i] = d[i]
  <2> TAKE i \in 1..Len(e)
  <2>1. CASE i \in 1..Len(b)
    BY <1>2, <1>3, <1>4, <2>1
  <2>2. CASE i = Len(b) + 1
    BY <1>1, <1>2, <1>3, <1>4, <2>2
  <2>3. CASE i = Len(b) + 2
    BY <1>1, <1>2, <1>3, <1>4, <2>3
  <2>4. QED
    BY <1>2, <1>4, <2>1, <2>2, <2>3
<1>6. e = d
  <2>1. Len(e) = Len(d)
    BY <1>2, <1>3, <1>4
  <2>2. QED
    BY <1>3, <1>4, <1>5, <2>1, SeqEqual
<1>7. QED
  BY <1>6 DEF p, c, d, e

\* the numbers of a set of positions that gains the last one
LEMMA OneMore ==
  ASSUME NEW n \in Nat, NEW S \in SUBSET (1..n)
  PROVE  /\ IsFiniteSet(S) /\ Cardinality(S) \in Nat
         /\ Cardinality(S \cup {n + 1}) = Cardinality(S) + 1
<1>1. IsFiniteSet(S) /\ Cardinality(S) \in Nat
  <2>1. IsFiniteSet(1..n)
    BY FS_Interval
  <2>2. IsFiniteSet(S)
    BY <2>1, FS_Subset
  <2>3. QED
    BY <2>2, FS_CardinalityType
<1>2. n + 1 \notin S
  OBVIOUS
<1>3. QED
  BY <1>1, <1>2, FS_AddElement

(***************************************************************************)
(* Strings and class names.                                                *)
(***************************************************************************)
Rank(b, i) == Cardinality({j \in StringNumbers(b) : j < i})
StrOk(b, strs, n) ==
    /\ n = Cardinality(StringNumbers(b))
    /\ \A s \in Str : strs[s] # NoId =>
         \E i \in StringNumbers(b) : b[i].v = s /\ Rank(b, i) = strs[s]

IsText(t) == t.tag \in {"str", "obj"}

LEMMA RankStays ==
  ASSUME NEW S, NEW b \in Seq(S), NEW t
  PROVE  LET c == b \o << t >>
         IN  /\ StringNumbers(b) \subseteq 1..Len(b)
             /\ StringNumbers(c) = StringNumbers(b) \cup (IF IsText(t) THEN {Len(b) + 1} ELSE {})
             /\ \A i \in StringNumbers(b) : c[i] = b[i] /\ Rank(c, i) = Rank(b, i)
             /\ Rank(c, Len(b) + 1) = Cardinality(StringNumbers(b))
<1> DEFINE c == b \o << t >>
           n == Len(b)
<1>1. /\ n \in Nat /\ DOMAIN b = 1..n /\ DOMAIN c = 1..(n + 1)
      /\ \A i \in 1..n : c[i] = b[i]
      /\ c[n + 1] = t
  BY PutOne
<1> HIDE DEF c, n
<1>2. /\ StringNumbers(b) = {i \in 1..n : IsText(b[i])}
      /\ StringNumbers(c) = {i \in 1..(n + 1) : IsText(c[i])}
  BY <1>1 DEF StringNumbers, IsText
<1>3. StringNumbers(c) = StringNumbers(b) \cup (IF IsText(t) THEN {n + 1} ELSE {})
  BY <1>1, <1>2
<1>4. \A i \in 1..(n + 1) : {j \in StringNumbers(c) : j < i} = {j \in StringNumbers(b) : j < i}
  BY <1>1, <1>2, <1>3
<1>5. \A i \in StringNumbers(b) : Rank(c, i) = Rank(b, i)
  <2> TAKE i \in StringNumbers(b)
  <2>1. {j \in StringNumbers(c) : j < i} = {j \in StringNumbers(b) : j < i}
    BY <1>1, <1>2, <1>4
  <2>2. QED
    BY ONLY <2>1 DEF Rank
<1>6. {j \in StringNumbers(b) : j < n + 1} = StringNumbers(b)
  BY <1>1, <1>2
<1>7. Rank(c, n + 1) = Cardinality(StringNumbers(b))
  <2>1. {j \in StringNumbers(c) : j < n + 1} = StringNumbers(b)
    BY <1>1, <1>4, <1>6
  <2>2. QED
    BY ONLY <2>1 DEF Rank
<1>8. QED
  BY <1>1, <1>2, <1>3, <1>5, <1>7 DEF c, n

LEMMA OtherToken ==
  ASSUME NEW S, NEW b \in Seq(S), NEW t, ~IsText(t),
         NEW strs, NEW n, StrOk(b, strs, n)
  PROVE  StrOk(b \o << t >>, strs, n)
<1> DEFINE c == b \o << t >>
<1>1. /\ StringNumbers(c) = StringNumbers(b)
      /\ \A i \in StringNumbers(b) : c[i] = b[i] /\ Rank(c, i) = Rank(b, i)
  BY RankStays
<1> HIDE DEF c
<1>2. QED
  BY <1>1 DEF StrOk, c

\* a new string, filed or not, takes the next number
LEMMA TextToken ==
  ASSUME NEW S, NEW b \in Seq(S), NEW t, IsText(t),
         NEW strs \in [Str -> Nat \cup {NoId}], NEW n, StrOk(b, strs, n), NEW strs2,
         strs2 = strs \/ strs2 = [strs EXCEPT ![t.v] = n]
  PROVE  StrOk(b \o << t >>, strs2, n + 1)
<1> DEFINE c == b \o << t >>
           m == Len(b)
<1>1. /\ StringNumbers(b) \subseteq 1..m /\ m \in Nat
      /\ StringNumbers(c) = StringNumbers(b) \cup {m + 1}
      /\ \A i \in StringNumbers(b) : c[i] = b[i] /\ Rank(c, i) = Rank(b, i)
      /\ Rank(c, m + 1) = Cardinality(StringNumbers(b)) /\ c[m + 1] = t
  BY RankStays, PutOne
<1> HIDE DEF c, m
<1>2. n + 1 = Cardinality(StringNumbers(c))
  BY <1>1, OneMore DEF StrOk
<1>3. ASSUME NEW s \in Str, strs2[s] # NoId
      PROVE  \E i \in StringNumbers(c) : c[i].v = s /\ Rank(c, i) = strs2[s]
  <2>1. CASE strs2[s] = strs[s]
    BY <1>1, <1>3, <2>1 DEF StrOk
  <2>2. CASE strs2[s] # strs[s]
    <3>1. s = t.v /\ strs2[s] = n
      BY <2>2
    <3>2. QED
      BY <1>1, <3>1 DEF StrOk
  <2>3. QED
    BY <2>1, <2>2
<1>4. QED
  BY <1>2, <1>3 DEF StrOk, c

\* a step that writes no text and files none
LEMMA StrStill ==
  ASSUME StrOk(buffer, strings, string_count), NEW S, buffer \in Seq(S),
         UNCHANGED << strings, string_count >>,
         \/ buffer' = buffer
         \/ \E t : ~IsText(t) /\ Emit(<< t >>)
         \/ \E t, u : ~IsText(t) /\ ~IsText(u) /\ Emit(<< t, u >>)
  PROVE  StrOk(buffer, strings, string_count)'
<1>1. ASSUME NEW t, ~IsText(t), Emit(<< t >>)
      PROVE  StrOk(buffer, strings, string_count)'
  BY <1>1, OtherToken DEF Emit
<1>2. ASSUME NEW t, NEW u, ~IsText(t), ~IsText(u), Emit(<< t, u >>)
      PROVE  StrOk(buffer, strings, string_count)'
  <2> DEFINE c == buffer \o << t >>
  <2>1. c \in Seq(S \cup {t}) /\ StrOk(c, strings, string_count)
    BY <1>2, OtherToken, PutOne
  <2>2. buffer' = c \o << u >>
    BY SMTT(30), <1>2, PutTwo DEF Emit
  <2> HIDE DEF c
  <2>3. QED
    BY <1>2, <2>1, <2>2, OtherToken
<1>3. CASE buffer' = buffer
  BY <1>3
<1>4. QED
  BY <1>1, <1>2, <1>3

\* a step that writes a class name, and then something that is no text
LEMMA StrNamed ==
  ASSUME StrOk(buffer, strings, string_count), WalkInv,
         NEW c \in Str, FileName(c), NEW src, NEW u, ~IsText(u), Emit(<< NameTok(c, src), u >>)
  PROVE  StrOk(buffer, strings, string_count)'
<1> DEFINE t == NameTok(c, src)
           b == buffer \o << t >>
<1>1. buffer \in Seq(Token) /\ strings \in [Str -> Nat \cup {NoId}]
  BY DEF WalkInv, TypeOK
<1>2. b \in Seq(Token \cup {t}) /\ buffer' = b \o << u >>
  BY <1>1, PutOne, PutTwo DEF Emit
<1>3. StrOk(b, strings', string_count')
  <2>1. CASE strings[c] # NoId
    <3>1. ~IsText(t) /\ strings' = strings /\ string_count' = string_count
      BY <2>1 DEF FileName, NameTok, Tok, IsText
    <3> HIDE DEF t
    <3>2. QED
      BY <1>1, <3>1, OtherToken
  <2>2. CASE strings[c] = NoId
    <3>1. /\ IsText(t) /\ t.v = c
          /\ strings' = [strings EXCEPT ![c] = string_count]
          /\ string_count' = string_count + 1
      BY <2>2 DEF FileName, NameTok, Tok, IsText
    <3> HIDE DEF t
    <3>2. QED
      BY <1>1, <3>1, TextToken
  <2>3. QED
    BY <2>1, <2>2
<1> HIDE DEF b, t
<1>4. QED
  BY <1>2, <1>3, OtherToken

StringsInv == StrOk(buffer, strings, string_count)

\* tokens that carry no string
LEMMA NoTexts ==
  /\ \A v, src : /\ ~IsText(Tok("long", v, src)) /\ ~IsText(Tok("null", v, src))
                /\ ~IsText(Tok("empty", v, src)) /\ ~IsText(Tok("strid", v, src))
                /\ ~IsText(Tok("arr", v, src)) /\ ~IsText(Tok("enum", v, src))
                /\ ~IsText(Tok("objser", v, src)) /\ ~IsText(Tok("ref", v, src))
  /\ \A z : ~IsText(BackRef(z)) /\ ~IsText(RefTok(z))
  /\ \A c, src : ~IsText(Header(c, src))
BY DEF IsText, Tok, BackRef, RefTok, Header

LEMMA ZvalKeepsStrings ==
  ASSUME WalkInv, StringsInv, SerializeZval
  PROVE  StringsInv'
<1> USE DEF StringsInv
<1>1. buffer \in Seq(Token) /\ strings \in [Str -> Nat \cup {NoId}]
  BY DEF WalkInv, TypeOK
<1>2. CASE StackOverflows \/ TooManyStrings \/ TooManyReferences
  BY <1>2 DEF StackOverflows, TooManyStrings, TooManyReferences, Fail, tables
<1>3. CASE SerializeScalar
  <2>1. PICK t : ~IsText(t) /\ Emit(<< t >>)
    BY <1>3, NoTexts DEF SerializeScalar
  <2>2. QED
    BY <1>1, <1>3, <2>1, StrStill DEF SerializeScalar, tables
<1>4. CASE SerializeStringAgain
  <2>1. PICK t : ~IsText(t) /\ Emit(<< t >>)
    BY <1>4, NoTexts DEF SerializeStringAgain
  <2>2. QED
    BY <1>1, <1>4, <2>1, StrStill DEF SerializeStringAgain, tables
<1>5. CASE SerializeStringNew
  <2> DEFINE t == Tok("str", Z.v, NoVal)
  <2>1. IsText(t) /\ t.v = Z.v
    BY DEF IsText, Tok
  <2> HIDE DEF t
  <2>2. /\ buffer' = buffer \o << t >> /\ string_count' = string_count + 1
        /\ strings' = strings \/ strings' = [strings EXCEPT ![t.v] = string_count]
    BY <1>5, <2>1 DEF SerializeStringNew, Emit, t
  <2>3. QED
    BY <1>1, <2>1, <2>2, TextToken
<1>6. CASE SerializeArrayAgain
  <2>1. ~IsText(BackRef(Z)) /\ Emit(<< BackRef(Z) >>)
    BY <1>6, NoTexts DEF SerializeArrayAgain
  <2>2. QED
    BY <1>1, <1>6, <2>1, StrStill DEF SerializeArrayAgain, tables
<1>7. CASE SerializeArrayNew
  <2>1. PICK t : ~IsText(t) /\ Emit(<< t >>)
    BY <1>7, NoTexts DEF SerializeArrayNew
  <2>2. QED
    BY <1>1, <1>7, <2>1, StrStill DEF SerializeArrayNew
<1>8. CASE SerializeReferenceUnshared
  BY <1>1, <1>8, StrStill DEF SerializeReferenceUnshared, tables
<1>9. CASE SerializeReferenceToObject
  <2>1. ~IsText(RefTok(Z)) /\ Emit(<< RefTok(Z) >>)
    BY <1>9, NoTexts DEF SerializeReferenceToObject
  <2>2. QED
    BY <1>1, <1>9, <2>1, StrStill DEF SerializeReferenceToObject, tables
<1>10. CASE SerializeReferenceAgain
  <2>1. ~IsText(RefTok(Z)) /\ ~IsText(BackRef(Z)) /\ Emit(<< RefTok(Z), BackRef(Z) >>)
    BY <1>10, NoTexts DEF SerializeReferenceAgain
  <2>2. QED
    BY <1>1, <1>10, <2>1, StrStill DEF SerializeReferenceAgain, tables
<1>11. CASE SerializeReferenceNew
  <2>1. \/ \E t : ~IsText(t) /\ Emit(<< t >>)
        \/ \E t, u : ~IsText(t) /\ ~IsText(u) /\ Emit(<< t, u >>)
    BY <1>11, NoTexts DEF SerializeReferenceNew
  <2>2. QED
    BY <1>1, <1>11, <2>1, StrStill DEF SerializeReferenceNew
<1>12. QED
  BY <1>2, <1>3, <1>4, <1>5, <1>6, <1>7, <1>8, <1>9, <1>10, <1>11 DEF SerializeZval

\* what __serialize returns, of the heap it leaves
LEMMA WhatIsReturned ==
  ASSUME WalkInv, "assign" \notin RefWrites, SerializeObjectMagic
  PROVE  \E H \in Unsets(HeldWith(Z.v)) : \E G, new, ret :
            /\ AllocatedIn(G, new, ret, H, HeldWith(Z.v)) /\ Returned(G, new, ret)
            /\ \A a \in Addr : G[a] = H[a] \/ G[a].kind = "arr" \/ G[a] \in TempCells
            /\ \A a \in Addr \ new : G[a] = H[a]
            /\ G[ret].kind = "arr"
<1>1. PICK H \in Unsets(HeldWith(Z.v)) :
        LET live == Live(H, HeldWith(Z.v))
            free == Addr \ live
        IN  \/ \E a \in live : H[a].kind = "arr" /\ Returned(H, {}, a)
            \/ \E t \in free, c \in Temporaries(H, live) : Returned([H EXCEPT ![t] = c], {t}, t)
            \/ \E t \in free : \E u \in free \ {t}, k \in TempKeys, c \in TempCells :
                 Returned(WithCell(H, t, u, k, c), {t, u}, t)
  BY DEF SerializeObjectMagic
<1> DEFINE live == Live(H, HeldWith(Z.v))
           free == Addr \ live
           Cells(G) == \A a \in Addr : G[a] = H[a] \/ G[a].kind = "arr" \/ G[a] \in TempCells
           Goal == \E G, new, ret :
                     /\ AllocatedIn(G, new, ret, H, HeldWith(Z.v)) /\ Returned(G, new, ret)
                     /\ Cells(G) /\ \A a \in Addr \ new : G[a] = H[a]
                     /\ G[ret].kind = "arr"
<1>2. AtZval({"obj"})
  BY DEF SerializeObjectMagic, NewNamedObject, NewObject
<1>3. H \in [Addr -> Cell] /\ CellsOK(H)
  BY <1>2, ObjectFacts, UnsetsWhileHeld DEF UnsetOf
<1>4. ASSUME NEW a \in live, H[a].kind = "arr", Returned(H, {}, a)
      PROVE  Goal
  <2>1. AllocatedIn(H, {}, a, H, HeldWith(Z.v))
    BY <1>3, <1>4, NothingAllocated DEF AllocatedIn
  <2>2. QED
    BY <1>4, <2>1
<1>5. ASSUME NEW t \in free, NEW c \in Temporaries(H, live), Returned([H EXCEPT ![t] = c], {t}, t)
      PROVE  Goal
  <2> DEFINE G == [H EXCEPT ![t] = c]
  <2>1. AllocatedIn(G, {t}, t, H, HeldWith(Z.v)) /\ c.kind = "arr"
    BY <1>3, <1>5, TemporaryIsAllocated, TemporariesAreArrays, HeldAreLive
  <2>2. Cells(G) /\ G[t].kind = "arr" /\ \A a \in Addr \ {t} : G[a] = H[a]
    BY <1>3, <2>1
  <2> HIDE DEF G, Cells
  <2>3. QED
    BY <1>5, <2>1, <2>2 DEF G
<1>6. ASSUME NEW t \in free, NEW u \in free \ {t}, NEW k \in TempKeys, NEW c \in TempCells,
             Returned(WithCell(H, t, u, k, c), {t, u}, t)
      PROVE  Goal
  <2> DEFINE G == WithCell(H, t, u, k, c)
  <2>1. AllocatedIn(G, {t, u}, t, H, HeldWith(Z.v))
    BY <1>3, <1>6, PairIsAllocated
  <2> DEFINE h == Holding(k, [t |-> c.kind, v |-> u])
  <2>2. h.kind = "arr" /\ t \in Addr /\ u \in Addr /\ t # u
    BY DEF Holding, ArrCell
  <2> HIDE DEF h
  <2>3. G = [H EXCEPT ![t] = h, ![u] = c]
    BY DEF WithCell, h
  <2>4. G[t].kind = "arr" /\ G[u] = c /\ \A a \in Addr \ {t, u} : G[a] = H[a]
    BY <1>3, <2>2, <2>3
  <2> HIDE DEF G
  <2>5. Cells(G)
    BY <2>4
  <2> HIDE DEF Cells
  <2>6. QED
    BY <1>6, <2>1, <2>4, <2>5 DEF G
<1>7. QED
  BY <1>1, <1>4, <1>5, <1>6

LEMMA ObjectKeepsStrings ==
  ASSUME WalkInv, StringsInv, "assign" \notin RefWrites, SerializeObject
  PROVE  StringsInv'
<1> USE DEF StringsInv
<1>1. buffer \in Seq(Token)
  BY DEF WalkInv, TypeOK
<1>2. AtZval({"obj"}) => Cls \in Str /\ ClassName \in Str
  BY ObjectFacts
<1>3. CASE SerializeObjectAgain
  <2>1. ~IsText(BackRef(Z)) /\ Emit(<< BackRef(Z) >>)
    BY <1>3, NoTexts DEF SerializeObjectAgain
  <2>2. QED
    BY <1>1, <1>3, <2>1, StrStill DEF SerializeObjectAgain, tables
<1>4. CASE SerializeObjectPlain
  BY <1>2, <1>4, StrNamed, NoTexts DEF SerializeObjectPlain, NewObject
<1>5. CASE SerializeObjectEnum
  BY <1>2, <1>5, StrNamed, NoTexts DEF SerializeObjectEnum, NewNamedObject, NewObject
<1>6. CASE SerializeObjectMagic
  <2>1. AtZval({"obj"}) /\ FileName(Cls)
    BY <1>6 DEF SerializeObjectMagic, NewNamedObject, NewObject
  <2>2. PICK H, G, new, ret : Returned(G, new, ret)
    BY <1>6, WhatIsReturned
  <2>3. Emit(<< NameTok(Cls, Src(Z.v)), Header(G[ret], NoVal) >>)
    BY <2>2 DEF Returned
  <2>4. QED
    BY <1>2, <2>1, <2>3, StrNamed, NoTexts
<1>7. CASE SerializeObjectData
  BY <1>2, <1>7, StrNamed, NoTexts DEF SerializeObjectData, NewNamedObject, NewObject
<1>8. CASE SerializeObjectNull
  <2>1. PICK t : ~IsText(t) /\ Emit(<< t >>)
    BY <1>8, NoTexts DEF SerializeObjectNull
  <2>2. QED
    BY <1>1, <1>8, <2>1, StrStill DEF SerializeObjectNull
<1>9. CASE SerializeObjectSleep
  BY <1>2, <1>9, StrNamed, NoTexts DEF SerializeObjectSleep, NewNamedObject, NewObject
<1>10. CASE SerializeObjectThrows \/ TooManyStringsForName
  BY <1>10 DEF SerializeObjectThrows, TooManyStringsForName, Fail, tables
<1>11. QED
  BY <1>3, <1>4, <1>5, <1>6, <1>7, <1>8, <1>9, <1>10 DEF SerializeObject

LEMMA TableKeepsStrings ==
  ASSUME WalkInv, StringsInv, SerializeTable
  PROVE  StringsInv'
<1> USE DEF StringsInv
<1>1. buffer \in Seq(Token)
  BY DEF WalkInv, TypeOK
<1>2. \/ buffer' = buffer
      \/ \E t : ~IsText(t) /\ Emit(<< t >>)
  BY NoTexts DEF SerializeTable, SkipMagic, SkipDeleted, PadUnset, SerializeEntry, EndTable,
                 ReleaseReturned, SleepNotAString, SleepProperty, SleepUninitialized, Fail
<1>3. UNCHANGED << strings, string_count >>
  BY DEF SerializeTable, SkipMagic, SkipDeleted, PadUnset, SerializeEntry, EndTable,
         ReleaseReturned, SleepNotAString, SleepProperty, SleepUninitialized, Fail, tables
<1>4. QED
  BY <1>1, <1>2, <1>3, StrStill

LEMMA StringsAtStart == Init => StringsInv
<1> SUFFICES ASSUME Init PROVE StringsInv
  OBVIOUS
<1>1. StringNumbers(buffer) = {}
  BY DEF Init, StringNumbers
<1>2. \A s \in Str : strings[s] = NoId
  BY DEF Init
<1>3. QED
  BY <1>1, <1>2, FS_EmptySet DEF StringsInv, StrOk, Init

LEMMA StringsStep ==
  ASSUME "assign" \notin RefWrites, WalkInv, StringsInv, [Next]_vars
  PROVE  StringsInv'
<1>1. CASE SerializeZval
  BY <1>1, ZvalKeepsStrings
<1>2. CASE SerializeObject
  BY <1>2, ObjectKeepsStrings
<1>3. CASE SerializeTable
  BY <1>3, TableKeepsStrings
<1>4. CASE Deinit
  BY <1>4 DEF Deinit, StringsInv, StrOk
<1>5. CASE UNCHANGED vars
  BY <1>5 DEF vars, tables, StringsInv
<1>6. QED
  BY <1>1, <1>2, <1>3, <1>4, <1>5 DEF Next

\* The reader, which counts the strings and new class names it reads, gives
\* each the very id under which igsd->strings has it, compacting or not; ids that
\* were given to strings which are not filed for reuse included.
THEOREM StringNumbersAgree ==
  ASSUME "assign" \notin RefWrites
  PROVE  Spec => []StringsExact
<1>1. StringsInv => StringsExact
  BY DEF StringsInv, StrOk, StringsExact, Rank
<1>2. QED
  BY <1>1, StringsAtStart, StringsStep, WalkInvInductive, PTL DEF Spec

(***************************************************************************)
(* Arrays, objects and references.  The number of a token is a matter of   *)
(* what is before it, so it stays as the buffer grows.                     *)
(***************************************************************************)
NumSet(b) == {i \in DOMAIN b : Numbered(b, i)}
EndsWith(b, tags) == b # << >> /\ b[Len(b)].tag \in tags

\* `t' written after b takes a number
Counts(b, t) ==
    \/ t.tag \in {"obj", "objid"}
    \/ t.tag = "arr" /\ ~EndsWith(b, {"obj", "objid"})
    \/ t.tag \in ScalarTags /\ EndsWith(b, {"ref"})
SrcAfter(b, t) == IF EndsWith(b, {"ref"}) /\ t.tag \notin {"obj", "objid"}
                  THEN b[Len(b)].src ELSE t.src

LEMMA NumbersStay ==
  ASSUME NEW S, NEW b \in Seq(S), NEW t
  PROVE  LET c == b \o << t >>
             n == Len(b)
         IN  /\ n \in Nat /\ NumSet(b) \subseteq 1..n
             /\ NumSet(c) = NumSet(b) \cup (IF Counts(b, t) THEN {n + 1} ELSE {})
             /\ \A i \in 1..n : /\ c[i] = b[i] /\ NumberOf(c, i) = NumberOf(b, i)
                                /\ NumberedSrc(c, i) = NumberedSrc(b, i)
                                /\ Numbered(c, i) <=> Numbered(b, i)
             /\ NumberOf(c, n + 1) = Cardinality(NumSet(b))
             /\ NumberedSrc(c, n + 1) = SrcAfter(b, t)
<1> DEFINE c == b \o << t >>
           n == Len(b)
<1>1. /\ n \in Nat /\ DOMAIN b = 1..n /\ DOMAIN c = 1..(n + 1)
      /\ \A i \in 1..n : c[i] = b[i]
      /\ c[n + 1] = t
  BY PutOne
<1>2. b # << >> <=> n > 0
  BY <1>1, EmptySeq
<1> HIDE DEF c
<1>3. \A i \in 1..n : \A tags : After(c, i, tags) <=> After(b, i, tags)
  BY <1>1 DEF After
<1>4. \A tags : After(c, n + 1, tags) <=> EndsWith(b, tags)
  BY <1>1, <1>2 DEF After, EndsWith
<1>5. \A i \in 1..n : Numbered(c, i) <=> Numbered(b, i)
  BY <1>1, <1>3 DEF Numbered
<1>6. Numbered(c, n + 1) <=> Counts(b, t)
  BY <1>1, <1>4 DEF Numbered, Counts
<1>7. NumSet(b) = {i \in 1..n : Numbered(b, i)} /\ NumSet(c) = {i \in 1..(n + 1) : Numbered(c, i)}
  BY <1>1 DEF NumSet
<1>8. NumSet(c) = NumSet(b) \cup (IF Counts(b, t) THEN {n + 1} ELSE {})
  BY <1>1, <1>5, <1>6, <1>7
<1>9. \A i \in 1..(n + 1) : {j \in 1..(i - 1) : Numbered(c, j)} = {j \in 1..(i - 1) : Numbered(b, j)}
  BY <1>1, <1>5
<1>10. \A i \in 1..n : NumberOf(c, i) = NumberOf(b, i)
  <2> TAKE i \in 1..n
  <2>1. {j \in 1..(i - 1) : Numbered(c, j)} = {j \in 1..(i - 1) : Numbered(b, j)}
    BY <1>1, <1>9
  <2>2. QED
    BY ONLY <2>1 DEF NumberOf
<1>11. NumberOf(c, n + 1) = Cardinality(NumSet(b))
  <2>1. {j \in 1..((n + 1) - 1) : Numbered(c, j)} = NumSet(b)
    BY <1>1, <1>7, <1>9
  <2>2. QED
    BY ONLY <2>1 DEF NumberOf
<1>12. \A i \in 1..n : NumberedSrc(c, i) = NumberedSrc(b, i)
  <2> TAKE i \in 1..n
  <2>1. c[i] = b[i] /\ (i > 1 => c[i - 1] = b[i - 1])
    BY <1>1
  <2>2. After(c, i, {"ref"}) <=> After(b, i, {"ref"})
    BY <1>3
  <2>3. After(c, i, {"ref"}) => i > 1
    BY DEF After
  <2>4. QED
    BY <2>1, <2>2, <2>3 DEF NumberedSrc
<1>13. NumberedSrc(c, n + 1) = SrcAfter(b, t)
  <2>1. EndsWith(b, {"ref"}) => n \in 1..n /\ c[(n + 1) - 1] = b[n]
    BY <1>1, <1>2 DEF EndsWith
  <2>2. After(c, n + 1, {"ref"}) <=> EndsWith(b, {"ref"})
    BY <1>4
  <2>3. QED
    BY <1>1, <2>1, <2>2 DEF NumberedSrc, SrcAfter
<1>14. QED
  BY <1>1, <1>5, <1>7, <1>8, <1>10, <1>11, <1>12, <1>13 DEF c

\* the reader gives the id `n' to the cell `src'
Gives(b, n, src) == \E q \in NumSet(b) : NumberOf(b, q) = n /\ NumberedSrc(b, q) = src

BackOk(b) ==
    \A p \in DOMAIN b : b[p].tag \in {"refid", "objref"} =>
       \E q \in 1..(p - 1) :
          Numbered(b, q) /\ NumberOf(b, q) = b[p].v /\ NumberedSrc(b, q) = b[p].src

\* the two numberings agree: `id' ids are given, and those in the table are the
\* reader's
NumOk(b, refs, id, kd) ==
    /\ BackOk(b)
    /\ id = Cardinality(NumSet(b))
    /\ \A a \in Addr : refs[a] # NoId => Gives(b, refs[a], << a, kd[a] >>)

\* ... but for the id of a reference whose scalar is still to be written
WaitOk(b, refs, id, kd) ==
    /\ BackOk(b)
    /\ id = Cardinality(NumSet(b)) + 1
    /\ EndsWith(b, {"ref"})
    /\ \A a \in Addr : refs[a] # NoId =>
         \/ Gives(b, refs[a], << a, kd[a] >>)
         \/ refs[a] = Cardinality(NumSet(b)) /\ b[Len(b)].src = << a, kd[a] >>

LEMMA GivenStays ==
  ASSUME NEW S, NEW b \in Seq(S), NEW t, NEW n, NEW src, Gives(b, n, src)
  PROVE  Gives(b \o << t >>, n, src)
<1> DEFINE c == b \o << t >>
<1>1. /\ NumSet(b) \subseteq 1..Len(b) /\ NumSet(b) \subseteq NumSet(c)
      /\ \A i \in 1..Len(b) : NumberOf(c, i) = NumberOf(b, i) /\ NumberedSrc(c, i) = NumberedSrc(b, i)
  BY NumbersStay
<1> HIDE DEF c
<1>2. QED
  BY <1>1 DEF Gives, c

LEMMA BackStays ==
  ASSUME NEW S, NEW b \in Seq(S), NEW t, BackOk(b),
         t.tag \in {"refid", "objref"} => Gives(b, t.v, t.src)
  PROVE  BackOk(b \o << t >>)
<1> DEFINE c == b \o << t >>
           n == Len(b)
<1>1. /\ n \in Nat /\ NumSet(b) \subseteq 1..n
      /\ \A i \in 1..n : /\ c[i] = b[i] /\ NumberOf(c, i) = NumberOf(b, i)
                         /\ NumberedSrc(c, i) = NumberedSrc(b, i)
                         /\ Numbered(c, i) <=> Numbered(b, i)
      /\ DOMAIN b = 1..n /\ DOMAIN c = 1..(n + 1) /\ c[n + 1] = t
  BY NumbersStay, PutOne
<1> HIDE DEF c, n
<1>2. ASSUME NEW p \in 1..n, c[p].tag \in {"refid", "objref"}
      PROVE  \E q \in 1..(p - 1) :
               Numbered(c, q) /\ NumberOf(c, q) = c[p].v /\ NumberedSrc(c, q) = c[p].src
  <2>1. PICK q \in 1..(p - 1) :
          Numbered(b, q) /\ NumberOf(b, q) = b[p].v /\ NumberedSrc(b, q) = b[p].src
    BY <1>1, <1>2 DEF BackOk
  <2>2. q \in 1..n
    BY <1>1
  <2>3. QED
    BY <1>1, <2>1, <2>2
<1>3. ASSUME t.tag \in {"refid", "objref"}
      PROVE  \E q \in 1..n :
               Numbered(c, q) /\ NumberOf(c, q) = t.v /\ NumberedSrc(c, q) = t.src
  <2>1. PICK q \in NumSet(b) : NumberOf(b, q) = t.v /\ NumberedSrc(b, q) = t.src
    BY <1>3 DEF Gives
  <2>2. QED
    BY <1>1, <2>1 DEF NumSet
<1>4. QED
  BY <1>1, <1>2, <1>3 DEF BackOk, c

LEMMA GivenIsCounted ==
  ASSUME NEW S, NEW b \in Seq(S), NEW n, NEW src, Gives(b, n, src)
  PROVE  Cardinality(NumSet(b)) # 0
<1>1. NumSet(b) # {} /\ NumSet(b) \subseteq 1..Len(b) /\ Len(b) \in Nat
  BY PutOne DEF Gives, NumSet
<1>2. IsFiniteSet(NumSet(b))
  BY <1>1, OneMore
<1>3. QED
  BY <1>1, <1>2, FS_EmptySet

\* a token that takes no number
LEMMA QuietToken ==
  ASSUME NEW S, NEW b \in Seq(S), NEW t, ~Counts(b, t),
         t.tag \in {"refid", "objref"} => Gives(b, t.v, t.src),
         NEW refs, NEW id, NEW kd, NumOk(b, refs, id, kd)
  PROVE  NumOk(b \o << t >>, refs, id, kd)
<1> DEFINE c == b \o << t >>
<1>1. NumSet(c) = NumSet(b)
  BY NumbersStay
<1>2. BackOk(c)
  BY BackStays DEF NumOk
<1>3. \A a \in Addr : refs[a] # NoId => Gives(c, refs[a], << a, kd[a] >>)
  BY GivenStays DEF NumOk
<1> HIDE DEF c
<1>4. QED
  BY <1>1, <1>2, <1>3 DEF NumOk, c

\* the token under whose number a cell is filed
LEMMA FiledToken ==
  ASSUME NEW S, NEW b \in Seq(S), NEW t, Counts(b, t),
         NEW refs \in [Addr \cup {InvalidKey} -> Nat \cup {NoId}], NEW id, NEW kd \in [Addr -> Nat],
         NumOk(b, refs, id, kd),
         NEW a \in Addr, NEW k, SrcAfter(b, t) = << a, k >>,
         NEW key, key = a \/ (key = InvalidKey /\ refs[a] = NoId)
  PROVE  NumOk(b \o << t >>, [refs EXCEPT ![key] = id], id + 1, [kd EXCEPT ![a] = k])
<1> DEFINE c == b \o << t >>
           n == Len(b)
           refs2 == [refs EXCEPT ![key] = id]
           kd2   == [kd EXCEPT ![a] = k]
<1>1. /\ n \in Nat /\ NumSet(b) \subseteq 1..n
      /\ NumSet(c) = NumSet(b) \cup {n + 1}
      /\ NumberOf(c, n + 1) = Cardinality(NumSet(b))
      /\ NumberedSrc(c, n + 1) = << a, k >>
  BY NumbersStay
<1>2. t.tag \notin {"refid", "objref"}
  BY DEF Counts, ScalarTags
<1>3. BackOk(c)
  BY <1>2, BackStays DEF NumOk
<1>4. id = Cardinality(NumSet(b)) /\ id + 1 = Cardinality(NumSet(c))
  BY <1>1, OneMore DEF NumOk
<1>5. \A d \in Addr : refs[d] # NoId => Gives(c, refs[d], << d, kd[d] >>)
  BY GivenStays DEF NumOk
<1>6. Gives(c, id, << a, k >>)
  BY <1>1, <1>4 DEF Gives
<1> HIDE DEF c, n
<1>7. ASSUME NEW d \in Addr, refs2[d] # NoId
      PROVE  Gives(c, refs2[d], << d, kd2[d] >>)
  <2>1. CASE d = a /\ key = a
    <3>1. refs2[d] = id /\ kd2[d] = k
      BY <2>1
    <3>2. QED
      BY <1>6, <2>1, <3>1
  <2>2. CASE d = a /\ key # a
    BY <1>7, <2>2, SerializeAssumption
  <2>3. CASE d # a
    <3>1. d # key
      BY <2>3, SerializeAssumption
    <3>2. refs2[d] = refs[d] /\ kd2[d] = kd[d]
      BY <2>3, <3>1
    <3>3. QED
      BY <1>5, <1>7, <3>2
  <2>4. QED
    BY <2>1, <2>2, <2>3
<1>8. QED
  BY <1>3, <1>4, <1>7 DEF NumOk, c

\* `ref' before a scalar: filed now, numbered one token later
LEMMA WaitingToken ==
  ASSUME NEW S, NEW b \in Seq(S), NEW t, t.tag = "ref",
         NEW refs \in [Addr \cup {InvalidKey} -> Nat \cup {NoId}], NEW id, NEW kd \in [Addr -> Nat],
         NumOk(b, refs, id, kd),
         NEW a \in Addr, NEW k, t.src = << a, k >>,
         NEW key, key = a \/ (key = InvalidKey /\ refs[a] = NoId)
  PROVE  WaitOk(b \o << t >>, [refs EXCEPT ![key] = id], id + 1, [kd EXCEPT ![a] = k])
<1> DEFINE c == b \o << t >>
           refs2 == [refs EXCEPT ![key] = id]
           kd2   == [kd EXCEPT ![a] = k]
<1>1. NumSet(c) = NumSet(b) /\ c[Len(c)] = t /\ EndsWith(c, {"ref"})
  <2>1. ~Counts(b, t)
    BY DEF Counts, ScalarTags
  <2>2. NumSet(c) = NumSet(b)
    BY <2>1, NumbersStay
  <2>3. Len(c) = Len(b) + 1 /\ c[Len(b) + 1] = t /\ c # << >>
    BY PutOne
  <2> HIDE DEF c
  <2>4. QED
    BY <2>2, <2>3 DEF EndsWith
<1>2. BackOk(c)
  BY BackStays DEF NumOk
<1>3. id = Cardinality(NumSet(c))
  BY <1>1 DEF NumOk
<1>4. \A d \in Addr : refs[d] # NoId => Gives(c, refs[d], << d, kd[d] >>)
  BY GivenStays DEF NumOk
<1> HIDE DEF c
<1>5. ASSUME NEW d \in Addr, refs2[d] # NoId
      PROVE  \/ Gives(c, refs2[d], << d, kd2[d] >>)
             \/ refs2[d] = Cardinality(NumSet(c)) /\ c[Len(c)].src = << d, kd2[d] >>
  <2>1. CASE d = a /\ key = a
    BY <1>1, <1>3, <2>1
  <2>2. CASE d = a /\ key # a
    BY <1>5, <2>2, SerializeAssumption
  <2>3. CASE d # a
    <3>1. d # key
      BY <2>3, SerializeAssumption
    <3>2. refs2[d] = refs[d] /\ kd2[d] = kd[d]
      BY <2>3, <3>1
    <3>3. QED
      BY <1>4, <1>5, <3>2
  <2>4. QED
    BY <2>1, <2>2, <2>3
<1>6. QED
  BY <1>1, <1>2, <1>3, <1>5 DEF WaitOk, c

\* the scalar it waits for
LEMMA AwaitedToken ==
  ASSUME NEW S, NEW b \in Seq(S), NEW t, t.tag \in ScalarTags,
         NEW refs, NEW id, NEW kd, WaitOk(b, refs, id, kd)
  PROVE  NumOk(b \o << t >>, refs, id, kd)
<1> DEFINE c == b \o << t >>
           n == Len(b)
<1>1. Counts(b, t) /\ t.tag \notin {"refid", "objref"} /\ SrcAfter(b, t) = b[n].src
  BY DEF Counts, WaitOk, SrcAfter, ScalarTags
<1>2. /\ n \in Nat /\ NumSet(b) \subseteq 1..n
      /\ NumSet(c) = NumSet(b) \cup {n + 1}
      /\ NumberOf(c, n + 1) = Cardinality(NumSet(b))
      /\ NumberedSrc(c, n + 1) = b[n].src
  BY <1>1, NumbersStay
<1>3. BackOk(c)
  BY <1>1, BackStays DEF WaitOk
<1>4. id = Cardinality(NumSet(c))
  BY <1>2, OneMore DEF WaitOk
<1>5. Gives(c, Cardinality(NumSet(b)), b[n].src)
  BY <1>2 DEF Gives
<1>6. \A a \in Addr : Gives(b, refs[a], << a, kd[a] >>) => Gives(c, refs[a], << a, kd[a] >>)
  BY GivenStays
<1> HIDE DEF c
<1>7. \A a \in Addr : refs[a] # NoId => Gives(c, refs[a], << a, kd[a] >>)
  BY <1>5, <1>6 DEF WaitOk
<1>8. QED
  BY <1>3, <1>4, <1>7 DEF NumOk, c

(***************************************************************************)
(* The same along the walk.                                                *)
(***************************************************************************)
Waiting == EndsWith(buffer, {"ref"}) /\ At("zval") /\ Z.t \notin Counted

Agreed == NumOk(buffer, references, references_id, keyed)

NumbersInv ==
    /\ BackOk(buffer)
    /\ status = "running" =>
         /\ references[InvalidKey] # NoId => references_id # 0
         /\ ~EndsWith(buffer, {"obj", "objid"})
         /\ EndsWith(buffer, {"ref"}) => At("zval") /\ (Z.t = "obj" \/ Z.t \notin Counted)
         /\ IF Waiting THEN WaitOk(buffer, references, references_id, keyed) ELSE Agreed

LEMMA LastToken ==
  ASSUME NEW S, NEW b \in Seq(S), NEW t, NEW tags
  PROVE  EndsWith(b \o << t >>, tags) <=> t.tag \in tags
<1> DEFINE c == b \o << t >>
<1>1. Len(c) = Len(b) + 1 /\ c[Len(b) + 1] = t /\ c # << >>
  BY PutOne
<1> HIDE DEF c
<1>2. QED
  BY <1>1 DEF EndsWith, c

\* a step after which no scalar is awaited
LEMMA NumbersSettled ==
  ASSUME NumOk(buffer, references, references_id, keyed)',
         NEW S, NEW b \in Seq(S), NEW t, buffer' = b \o << t >>,
         t.tag \notin {"obj", "objid", "ref"},
         references'[InvalidKey] # NoId => references_id' # 0
  PROVE  NumbersInv'
<1>1. ~EndsWith(buffer', {"obj", "objid"}) /\ ~EndsWith(buffer', {"ref"})
  BY LastToken
<1>2. BackOk(buffer')
  BY DEF NumOk
<1>3. QED
  BY <1>1, <1>2 DEF NumbersInv, Waiting, Agreed

\* what the invariant says where no scalar is awaited
LEMMA NumbersNow ==
  ASSUME WalkInv, NumbersInv, NEW op, At(op), op # "zval" \/ Z.t \in Counted
  PROVE  /\ Agreed /\ buffer \in Seq(Token) /\ ~EndsWith(buffer, {"obj", "objid"})
         /\ references \in [Addr \cup {InvalidKey} -> Nat \cup {NoId}] /\ keyed \in [Addr -> Nat]
         /\ references[InvalidKey] # NoId => references_id # 0
         /\ op # "zval" \/ Z.t # "obj" => ~EndsWith(buffer, {"ref"})
<1>1. status = "running"
  BY DEF At
<1>2. At("zval") => op = "zval"
  BY DEF At
<1>3. ~Waiting
  BY <1>2 DEF Waiting
<1>4. Agreed
  BY <1>1, <1>3 DEF NumbersInv
<1>5. op # "zval" \/ Z.t # "obj" => ~EndsWith(buffer, {"ref"})
  BY <1>1, <1>2 DEF NumbersInv
<1>6. QED
  BY <1>1, <1>4, <1>5 DEF NumbersInv, WalkInv, TypeOK

\* steps that write nothing
LEMMA NothingWritten ==
  ASSUME WalkInv, NumbersInv, UNCHANGED << buffer, tables, status, keyed >>,
         NEW op, At(op), op # "zval" \/ Z.t \in Counted \ {"obj"}
  PROVE  NumbersInv'
<1>1. ~EndsWith(buffer, {"ref"}) /\ Agreed
  BY NumbersNow
<1>2. ~EndsWith(buffer', {"ref"}) /\ Agreed'
  BY <1>1 DEF Agreed, tables
<1>3. QED
  BY <1>2 DEF NumbersInv, Waiting, At, tables

\* steps after which the walk does not go on
LEMMA WalkStopped ==
  ASSUME NumbersInv, buffer' = buffer, status' # "running"
  PROVE  NumbersInv'
BY DEF NumbersInv

\* a scalar, awaited or not
LEMMA ScalarWritten ==
  ASSUME WalkInv, NumbersInv, NEW t, t.tag \in ScalarTags, Emit(<< t >>),
         UNCHANGED << references, references_id, keyed >>,
         NEW op, At(op), op # "zval" \/ Z.t \notin Counted
  PROVE  NumbersInv'
<1>1. buffer \in Seq(Token) /\ status = "running"
  BY DEF WalkInv, TypeOK, At
<1>2. t.tag \notin {"refid", "objref", "obj", "objid", "ref", "arr"}
  BY DEF ScalarTags
<1>3. NumOk(buffer \o << t >>, references, references_id, keyed)
  <2>1. CASE Waiting
    BY <1>1, <2>1, AwaitedToken DEF NumbersInv
  <2>2. CASE ~Waiting
    <3>1. ~EndsWith(buffer, {"ref"})
      BY <1>1, <2>2 DEF NumbersInv, Waiting, At
    <3>2. NumOk(buffer, references, references_id, keyed)
      BY <1>1, <2>2 DEF NumbersInv, Agreed
    <3>3. QED
      BY <1>1, <1>2, <3>1, <3>2, QuietToken DEF Counts
  <2>3. QED
    BY <2>1, <2>2
<1>4. references'[InvalidKey] # NoId => references_id' # 0
  BY <1>1 DEF NumbersInv
<1>5. QED
  BY <1>1, <1>2, <1>3, <1>4, NumbersSettled DEF Emit

\* where a cell is looked up, and filed when it is not found
LEMMA KeyFacts ==
  ASSUME WalkInv, NumbersInv, At("zval"), Z.t \in Counted
  PROVE  /\ Seen(Z) => KeyOf(Z) = Z.v /\ references[Z.v] # NoId
         /\ ~Seen(Z) => KeyOf(Z) = Z.v \/ (KeyOf(Z) = InvalidKey /\ references[Z.v] = NoId)
<1>1. /\ Agreed /\ buffer \in Seq(Token)
      /\ references[InvalidKey] # NoId => references_id # 0
  BY NumbersNow
<1>2. Z.v \in Addr
  BY AtZvalFacts
<1>3. references_id = 0 => references[Z.v] = NoId
  <2> SUFFICES ASSUME references_id = 0, references[Z.v] # NoId PROVE FALSE
    OBVIOUS
  <2>1. Gives(buffer, references[Z.v], << Z.v, keyed[Z.v] >>)
    BY <1>1, <1>2 DEF Agreed, NumOk
  <2>2. Cardinality(NumSet(buffer)) = 0
    BY <1>1 DEF Agreed, NumOk
  <2>3. QED
    BY <1>1, <2>1, <2>2, GivenIsCounted
<1>4. QED
  BY <1>1, <1>3 DEF Seen, KeyOf

LEMMA BackRefGiven ==
  ASSUME WalkInv, NumbersInv, At("zval"), Z.t \in Counted, Seen(Z)
  PROVE  Gives(buffer, BackRef(Z).v, BackRef(Z).src) /\ BackRef(Z).tag \in {"refid", "objref"}
<1>1. KeyOf(Z) = Z.v /\ references[Z.v] # NoId /\ Z.v \in Addr
  BY KeyFacts, AtZvalFacts
<1>2. Gives(buffer, references[Z.v], << Z.v, keyed[Z.v] >>)
  BY <1>1, NumbersNow DEF Agreed, NumOk
<1>3. keyed[Z.v] = birth[Z.v]
  BY <1>1 DEF WalkInv, FiledInv, NoStaleKey
<1>4. QED
  BY <1>1, <1>2, <1>3 DEF BackRef, Tok, Src

\* an array or an object met again
LEMMA BackRefWritten ==
  ASSUME WalkInv, NumbersInv, At("zval"), Z.t \in Counted, Seen(Z), Emit(<< BackRef(Z) >>),
         UNCHANGED << references, references_id, keyed >>
  PROVE  NumbersInv'
<1> DEFINE t == BackRef(Z)
<1>1. Gives(buffer, t.v, t.src) /\ t.tag \in {"refid", "objref"}
  BY BackRefGiven
<1>2. buffer' = buffer \o << t >>
  BY DEF Emit
<1> HIDE DEF t
<1>3. /\ Agreed /\ buffer \in Seq(Token)
      /\ references[InvalidKey] # NoId => references_id # 0
  BY NumbersNow
<1>4. ~Counts(buffer, t)
  BY <1>1 DEF Counts, ScalarTags
<1>5. NumOk(buffer, references, references_id, keyed)'
  BY <1>1, <1>2, <1>3, <1>4, QuietToken DEF Agreed
<1>6. QED
  BY <1>1, <1>2, <1>3, <1>5, NumbersSettled

\* a new cell under the number of the token that is written for it
LEMMA CellFiled ==
  ASSUME WalkInv, NumbersInv, At("zval"), Z.t \in Counted, ~Seen(Z), FileRef(Z),
         NEW S, NEW b \in Seq(S), NumOk(b, references, references_id, keyed),
         NEW t, Counts(b, t), SrcAfter(b, t) = Src(Z.v)
  PROVE  /\ NumOk(b \o << t >>, references', references_id', keyed')
         /\ references'[InvalidKey] # NoId => references_id' # 0
<1>1. references \in [Addr \cup {InvalidKey} -> Nat \cup {NoId}] /\ keyed \in [Addr -> Nat]
  BY NumbersNow
<1>2. Z.v \in Addr /\ references_id \in Nat
  BY AtZvalFacts DEF WalkInv, TypeOK
<1>3. KeyOf(Z) = Z.v \/ (KeyOf(Z) = InvalidKey /\ references[Z.v] = NoId)
  BY KeyFacts
<1>4. /\ references' = [references EXCEPT ![KeyOf(Z)] = references_id]
      /\ references_id' = references_id + 1
      /\ keyed' = [keyed EXCEPT ![Z.v] = birth[Z.v]]
  BY DEF FileRef
<1>5. NumOk(b \o << t >>, references', references_id', keyed')
  BY <1>1, <1>2, <1>3, <1>4, FiledToken DEF Src
<1>6. QED
  BY <1>2, <1>4, <1>5

\* a new array
LEMMA ArrayWritten ==
  ASSUME WalkInv, NumbersInv, At("zval"), Z.t = "arr", ~Seen(Z), FileRef(Z),
         NEW c, Emit(<< Header(c, Src(Z.v)) >>)
  PROVE  NumbersInv'
<1> DEFINE t == Header(c, Src(Z.v))
<1>1. t.tag = "arr" /\ t.src = Src(Z.v)
  BY DEF Header, Tok
<1>2. buffer' = buffer \o << t >>
  BY DEF Emit
<1> HIDE DEF t
<1>3. Z.t \in Counted
  BY DEF Counted
<1>4. ~EndsWith(buffer, {"obj", "objid"}) /\ ~EndsWith(buffer, {"ref"}) /\ buffer \in Seq(Token)
  BY <1>3, NumbersNow
<1>5. Counts(buffer, t) /\ SrcAfter(buffer, t) = Src(Z.v)
  BY <1>1, <1>4 DEF Counts, SrcAfter
<1>6. /\ NumOk(buffer \o << t >>, references', references_id', keyed')
      /\ references'[InvalidKey] # NoId => references_id' # 0
  BY <1>3, <1>4, <1>5, CellFiled, NumbersNow DEF Agreed
<1>7. QED
  BY <1>1, <1>2, <1>4, <1>6, NumbersSettled

\* a new object: its class name has the number, what follows has none
LEMMA ObjectWritten ==
  ASSUME WalkInv, NumbersInv, AtZval({"obj"}), ~Seen(Z), FileRef(Z),
         NEW t, NEW u, Emit(<< t, u >>), t.tag \in {"obj", "objid"}, t.src = Src(Z.v),
         u.tag \in {"arr", "enum", "objser"}
  PROVE  NumbersInv'
<1> DEFINE b == buffer \o << t >>
<1>1. At("zval") /\ Z.t \in Counted
  BY DEF AtZval, Counted, Z
<1>2. buffer \in Seq(Token)
  BY <1>1, NumbersNow
<1>3. buffer' = b \o << u >> /\ b \in Seq(Token \cup {t})
  BY <1>2, PutOne, PutTwo DEF Emit
<1>4. Counts(buffer, t) /\ SrcAfter(buffer, t) = Src(Z.v)
  BY DEF Counts, SrcAfter
<1>5. /\ NumOk(b, references', references_id', keyed')
      /\ references'[InvalidKey] # NoId => references_id' # 0
  BY <1>1, <1>2, <1>4, CellFiled, NumbersNow DEF Agreed
<1>6. EndsWith(b, {"obj", "objid"})
  BY <1>2, LastToken
<1> HIDE DEF b
<1>7. ~Counts(b, u)
  BY <1>6 DEF Counts, ScalarTags
<1>8. NumOk(b \o << u >>, references', references_id', keyed')
  BY <1>3, <1>5, <1>7, QuietToken
<1>9. QED
  BY <1>3, <1>5, <1>8, NumbersSettled

LEMMA ValueNext ==
  ASSUME WalkInv, todo # << >>, NEW z \in Zval, Do(<< Value(z) >>), status' = "running"
  PROVE  At("zval")' /\ Z' = z
<1> DEFINE s == << Value(z) >>
           r == Tail(todo)
<1>1. Value(z) \in Item /\ Value(z).op = "zval" /\ Value(z).z = z
  BY ItemShapes
<1>2. s \in Seq(Item) /\ Len(s) = 1 /\ s[1] = Value(z)
  BY <1>1
<1>3. r \in Seq(Item)
  BY DEF WalkInv, TypeOK
<1>4. todo' = s \o r
  BY DEF Do
<1> HIDE DEF s, r
<1>5. todo' # << >> /\ Head(todo') = Value(z)
  BY <1>2, <1>3, <1>4
<1>6. QED
  BY <1>1, <1>5 DEF At, Z

\* `ref', which itself takes no number
LEMMA RefMark ==
  ASSUME WalkInv, NumbersInv, At("zval"), Z.t = "ref"
  PROVE  LET b == buffer \o << RefTok(Z) >>
         IN  /\ NumOk(b, references, references_id, keyed)
             /\ b \in Seq(Token \cup {RefTok(Z)}) /\ EndsWith(b, {"ref"})
             /\ ~EndsWith(b, {"obj", "objid"})
             /\ b[Len(b)].src = Src(Z.v)
<1> DEFINE t == RefTok(Z)
           b == buffer \o << t >>
<1>1. t.tag = "ref" /\ t.src = Src(Z.v)
  BY DEF RefTok, Tok
<1> HIDE DEF t
<1>2. Agreed /\ buffer \in Seq(Token)
  BY NumbersNow DEF Counted
<1>3. ~Counts(buffer, t)
  BY <1>1 DEF Counts, ScalarTags
<1>4. NumOk(b, references, references_id, keyed)
  BY <1>1, <1>2, <1>3, QuietToken DEF Agreed
<1>5. EndsWith(b, {"ref"}) /\ ~EndsWith(b, {"obj", "objid"})
  BY <1>1, <1>2, LastToken
<1>6. b \in Seq(Token \cup {t}) /\ b[Len(b)] = t
  BY <1>2, PutOne
<1>7. QED
  BY <1>1, <1>4, <1>5, <1>6 DEF t

LEMMA ReferenceAgainKeepsNumbers ==
  ASSUME WalkInv, NumbersInv, SerializeReferenceAgain
  PROVE  NumbersInv'
<1>1. /\ At("zval") /\ Z.t = "ref" /\ Z.t \in Counted /\ Seen(Z)
      /\ Emit(<< RefTok(Z), BackRef(Z) >>) /\ UNCHANGED << references, references_id, keyed >>
  BY DEF SerializeReferenceAgain, AtZval, Counted, tables, ghosts, Z
<1> DEFINE b == buffer \o << RefTok(Z) >>
           t == BackRef(Z)
<1>2. buffer \in Seq(Token) /\ (references[InvalidKey] # NoId => references_id # 0)
  BY <1>1, NumbersNow
<1>3. buffer' = b \o << t >>
  BY <1>1, <1>2, PutTwo DEF Emit
<1>4. NumOk(b, references, references_id, keyed) /\ b \in Seq(Token \cup {RefTok(Z)})
  BY <1>1, RefMark
<1>5. Gives(b, t.v, t.src)
  BY <1>1, <1>2, BackRefGiven, GivenStays
<1>6. t.tag = "refid"
  BY <1>1 DEF BackRef, Tok
<1> HIDE DEF b, t
<1>7. ~Counts(b, t)
  BY <1>6 DEF Counts, ScalarTags
<1>8. NumOk(b \o << t >>, references, references_id, keyed)
  BY <1>4, <1>5, <1>7, QuietToken
<1>9. QED
  BY <1>1, <1>2, <1>3, <1>4, <1>6, <1>8, NumbersSettled

LEMMA ReferenceToObjectKeepsNumbers ==
  ASSUME WalkInv, NumbersInv, SerializeReferenceToObject
  PROVE  NumbersInv'
<1>1. /\ At("zval") /\ Z.t = "ref" /\ AtZval({"ref"}) /\ Boxed(Z).t = "obj"
      /\ Emit(<< RefTok(Z) >>) /\ Do(<< Value(Boxed(Z)) >>)
      /\ UNCHANGED << references, references_id, keyed, status >>
  BY DEF SerializeReferenceToObject, AtZval, tables, ghosts, Z
<1>2. references[InvalidKey] # NoId => references_id # 0
  BY <1>1, NumbersNow DEF Counted
<1>3. /\ NumOk(buffer', references, references_id, keyed)
      /\ EndsWith(buffer', {"ref"}) /\ ~EndsWith(buffer', {"obj", "objid"})
  BY <1>1, RefMark DEF Emit
<1>4. At("zval")' /\ Z' = Boxed(Z)
  <2>1. todo # << >> /\ status' = "running"
    BY <1>1 DEF At
  <2>2. QED
    BY <1>1, <2>1, BoxedIsLive, ValueNext
<1>5. ~Waiting'
  BY <1>1, <1>4 DEF Waiting, Counted
<1>6. QED
  BY <1>1, <1>2, <1>3, <1>4, <1>5 DEF NumbersInv, Agreed, NumOk

LEMMA ReferenceNewKeepsNumbers ==
  ASSUME WalkInv, NumbersInv, SerializeReferenceNew
  PROVE  NumbersInv'
<1>1. /\ At("zval") /\ Z.t = "ref" /\ Z.t \in Counted /\ AtZval({"ref"}) /\ ~Seen(Z) /\ FileRef(Z)
      /\ Boxed(Z).t # "obj" /\ status' = status
  BY DEF SerializeReferenceNew, AtZval, Counted, Z
<1>2. /\ buffer \in Seq(Token)
      /\ references \in [Addr \cup {InvalidKey} -> Nat \cup {NoId}] /\ keyed \in [Addr -> Nat]
  BY <1>1, NumbersNow
<1> DEFINE b == buffer \o << RefTok(Z) >>
<1>3. /\ NumOk(b, references, references_id, keyed)
      /\ b \in Seq(Token \cup {RefTok(Z)}) /\ EndsWith(b, {"ref"})
      /\ ~EndsWith(b, {"obj", "objid"}) /\ b[Len(b)].src = Src(Z.v)
  BY <1>1, RefMark
<1>4. CASE Boxed(Z).t = "arr"
  <2> DEFINE t == Header(heap[Boxed(Z).v], Src(Z.v))
  <2>1. Emit(<< RefTok(Z), t >>)
    BY <1>4 DEF SerializeReferenceNew
  <2>2. buffer' = b \o << t >>
    BY <1>2, <2>1, PutTwo DEF Emit
  <2>3. t.tag = "arr"
    BY DEF Header, Tok
  <2> HIDE DEF b, t
  <2>4. Counts(b, t) /\ SrcAfter(b, t) = Src(Z.v)
    BY <1>3, <2>3 DEF Counts, SrcAfter
  <2>5. /\ NumOk(b \o << t >>, references', references_id', keyed')
        /\ references'[InvalidKey] # NoId => references_id' # 0
    BY <1>1, <1>3, <2>4, CellFiled
  <2>6. QED
    BY <1>3, <2>2, <2>3, <2>5, NumbersSettled
<1>5. CASE Boxed(Z).t # "arr"
  <2>1. Emit(<< RefTok(Z) >>) /\ Do(<< Value(Boxed(Z)) >>)
    BY <1>5 DEF SerializeReferenceNew
  <2>2. Z.v \in Addr /\ references_id \in Nat
    BY <1>1, AtZvalFacts DEF WalkInv, TypeOK
  <2>3. Boxed(Z).t # "ref"
    BY <1>1, <2>2, BoxedIsLive DEF Boxed, WalkInv, HeapInv, CellsOK
  <2>4. At("zval")' /\ Z' = Boxed(Z)
    <3>1. todo # << >> /\ status' = "running"
      BY <1>1 DEF At
    <3>2. QED
      BY <1>1, <2>1, <3>1, BoxedIsLive, ValueNext
  <2>5. Boxed(Z).t \notin Counted
    BY <1>1, <1>5, <2>3 DEF Counted
  <2>6. /\ references' = [references EXCEPT ![KeyOf(Z)] = references_id]
        /\ references_id' = references_id + 1
        /\ keyed' = [keyed EXCEPT ![Z.v] = birth[Z.v]]
    BY <1>1 DEF FileRef
  <2>7. RefTok(Z).tag = "ref" /\ RefTok(Z).src = << Z.v, birth[Z.v] >>
    BY DEF RefTok, Tok, Src
  <2>8. KeyOf(Z) = Z.v \/ (KeyOf(Z) = InvalidKey /\ references[Z.v] = NoId)
    BY <1>1, KeyFacts
  <2>9. NumOk(buffer, references, references_id, keyed)
    BY <1>1, NumbersNow DEF Agreed
  <2>10. WaitOk(b, references', references_id', keyed')
    BY <1>2, <2>2, <2>6, <2>7, <2>8, <2>9, WaitingToken
  <2>11. buffer' = b
    BY <2>1 DEF Emit
  <2>12. Waiting'
    BY <1>3, <2>4, <2>5, <2>11 DEF Waiting
  <2>13. references'[InvalidKey] # NoId => references_id' # 0
    BY <2>2, <2>6
  <2>14. QED
    BY <1>3, <2>4, <2>5, <2>10, <2>11, <2>12, <2>13 DEF NumbersInv, WaitOk
<1>6. QED
  BY <1>4, <1>5

LEMMA ZvalKeepsNumbers ==
  ASSUME WalkInv, NumbersInv, SerializeZval
  PROVE  NumbersInv'
<1>1. CASE StackOverflows \/ TooManyStrings \/ TooManyReferences
  BY <1>1, WalkStopped DEF StackOverflows, TooManyStrings, TooManyReferences, Fail
<1>2. CASE SerializeScalar
  <2>1. PICK t : t.tag \in ScalarTags /\ Emit(<< t >>)
    BY <1>2 DEF SerializeScalar, Tok, ScalarTags
  <2>2. /\ At("zval") /\ Z.t \notin Counted
        /\ UNCHANGED << references, references_id, keyed >>
    BY <1>2 DEF SerializeScalar, AtZval, Z, Counted, tables, ghosts
  <2>3. QED
    BY <2>1, <2>2, ScalarWritten
<1>3. CASE SerializeStringAgain
  <2>1. PICK t : t.tag \in ScalarTags /\ Emit(<< t >>)
    BY <1>3 DEF SerializeStringAgain, Tok, ScalarTags
  <2>2. /\ At("zval") /\ Z.t \notin Counted
        /\ UNCHANGED << references, references_id, keyed >>
    BY <1>3 DEF SerializeStringAgain, AtZval, Z, Counted, tables, ghosts
  <2>3. QED
    BY <2>1, <2>2, ScalarWritten
<1>4. CASE SerializeStringNew
  <2>1. PICK t : t.tag \in ScalarTags /\ Emit(<< t >>)
    BY <1>4 DEF SerializeStringNew, Tok, ScalarTags
  <2>2. /\ At("zval") /\ Z.t \notin Counted
        /\ UNCHANGED << references, references_id, keyed >>
    BY <1>4 DEF SerializeStringNew, AtZval, Z, Counted, ghosts
  <2>3. QED
    BY <2>1, <2>2, ScalarWritten
<1>5. CASE SerializeArrayAgain
  <2>1. /\ At("zval") /\ Z.t \in Counted /\ Seen(Z) /\ Emit(<< BackRef(Z) >>)
        /\ UNCHANGED << references, references_id, keyed >>
    BY <1>5 DEF SerializeArrayAgain, AtZval, Z, Counted, tables, ghosts
  <2>2. QED
    BY <2>1, BackRefWritten
<1>6. CASE SerializeArrayNew
  <2>1. /\ At("zval") /\ Z.t = "arr" /\ ~Seen(Z) /\ FileRef(Z)
        /\ Emit(<< Header(heap[Z.v], Src(Z.v)) >>)
    BY <1>6 DEF SerializeArrayNew, AtZval, Z
  <2>2. QED
    BY <2>1, ArrayWritten
<1>7. CASE SerializeReferenceUnshared
  <2>1. At("zval") /\ Z.t \in Counted \ {"obj"}
    BY <1>7 DEF SerializeReferenceUnshared, AtZval, Z, Counted
  <2>2. UNCHANGED << buffer, tables, status, keyed >>
    BY <1>7 DEF SerializeReferenceUnshared, ghosts
  <2>3. QED
    BY <2>1, <2>2, NothingWritten
<1>8. QED
  BY <1>1, <1>2, <1>3, <1>4, <1>5, <1>6, <1>7, ReferenceToObjectKeepsNumbers,
     ReferenceAgainKeepsNumbers, ReferenceNewKeepsNumbers DEF SerializeZval

LEMMA ObjectKeepsNumbers ==
  ASSUME WalkInv, NumbersInv, "assign" \notin RefWrites, ~NullResult, SerializeObject
  PROVE  NumbersInv'
<1>1. \A c : /\ NameTok(c, Src(Z.v)).tag \in {"obj", "objid"}
             /\ NameTok(c, Src(Z.v)).src = Src(Z.v)
  BY DEF NameTok, Tok
<1>2. \A c, src : Header(c, src).tag = "arr"
  BY DEF Header, Tok
<1>3. CASE SerializeObjectAgain
  <2>1. /\ At("zval") /\ Z.t \in Counted /\ Seen(Z) /\ Emit(<< BackRef(Z) >>)
        /\ UNCHANGED << references, references_id, keyed >>
    BY <1>3 DEF SerializeObjectAgain, AtZval, Z, Counted, tables, ghosts
  <2>2. QED
    BY <2>1, BackRefWritten
<1>4. CASE SerializeObjectPlain
  BY <1>1, <1>2, <1>4, ObjectWritten DEF SerializeObjectPlain, NewObject
<1>5. CASE SerializeObjectEnum
  <2>1. Tok("enum", NoVal, NoVal).tag = "enum"
    BY DEF Tok
  <2>2. QED
    BY <1>1, <1>5, <2>1, ObjectWritten DEF SerializeObjectEnum, NewNamedObject, NewObject
<1>6. CASE SerializeObjectMagic
  <2>1. AtZval({"obj"}) /\ ~Seen(Z) /\ FileRef(Z)
    BY <1>6 DEF SerializeObjectMagic, NewNamedObject, NewObject
  <2>2. PICK H, G, new, ret : Returned(G, new, ret)
    BY <1>6, WhatIsReturned
  <2>3. Emit(<< NameTok(Cls, Src(Z.v)), Header(G[ret], NoVal) >>)
    BY <2>2 DEF Returned
  <2>4. QED
    BY <1>1, <1>2, <2>1, <2>3, ObjectWritten
<1>7. CASE SerializeObjectData
  <2>1. Tok("objser", NoVal, NoVal).tag = "objser"
    BY DEF Tok
  <2>2. QED
    BY <1>1, <1>7, <2>1, ObjectWritten DEF SerializeObjectData, NewNamedObject, NewObject
<1>8. CASE SerializeObjectNull
  BY <1>8 DEF SerializeObjectNull
<1>9. CASE SerializeObjectSleep
  <2>1. \A n : Tok("arr", n, NoVal).tag = "arr"
    BY DEF Tok
  <2>2. QED
    BY <1>1, <1>9, <2>1, ObjectWritten DEF SerializeObjectSleep, NewNamedObject, NewObject
<1>10. CASE SerializeObjectThrows \/ TooManyStringsForName
  BY <1>10, WalkStopped DEF SerializeObjectThrows, TooManyStringsForName, Fail
<1>11. QED
  BY <1>3, <1>4, <1>5, <1>6, <1>7, <1>8, <1>9, <1>10 DEF SerializeObject

LEMMA TableKeepsNumbers ==
  ASSUME WalkInv, NumbersInv, SerializeTable
  PROVE  NumbersInv'
<1>1. CASE PadUnset \/ SleepNotAString
  <2> DEFINE t == Tok("null", NoVal, NoVal)
  <2>1. t.tag \in ScalarTags
    BY DEF Tok, ScalarTags
  <2>2. Emit(<< t >>) /\ UNCHANGED << references, references_id, keyed >>
    BY <1>1 DEF PadUnset, SleepNotAString, tables, ghosts
  <2>3. At("table") \/ At("sleep")
    BY <1>1 DEF PadUnset, SleepNotAString, AtBucket
  <2>4. QED
    BY <2>1, <2>2, <2>3, ScalarWritten
<1>2. CASE SkipMagic \/ SkipDeleted \/ SerializeEntry \/ EndTable \/ ReleaseReturned \/ SleepProperty
  <2>1. UNCHANGED << buffer, tables, status, keyed >>
    BY <1>2 DEF SkipMagic, SkipDeleted, SerializeEntry, EndTable, ReleaseReturned, SleepProperty,
                ghosts
  <2>2. At("table") \/ At("sleep") \/ At("dtor")
    BY <1>2 DEF SkipMagic, SkipDeleted, SerializeEntry, EndTable, ReleaseReturned, SleepProperty,
                AtBucket
  <2>3. QED
    BY <2>1, <2>2, NothingWritten
<1>3. CASE SleepUninitialized
  BY <1>3, WalkStopped DEF SleepUninitialized, Fail
<1>4. QED
  BY <1>1, <1>2, <1>3 DEF SerializeTable

LEMMA NumbersAtStart == Init => NumbersInv
<1> SUFFICES ASSUME Init PROVE NumbersInv
  OBVIOUS
<1>1. buffer = << >> /\ references_id = 0 /\ \A k \in Addr \cup {InvalidKey} : references[k] = NoId
  BY DEF Init
<1>2. NumSet(buffer) = {} /\ BackOk(buffer) /\ \A tags : ~EndsWith(buffer, tags)
  BY <1>1 DEF NumSet, BackOk, EndsWith
<1>3. QED
  BY <1>1, <1>2, FS_EmptySet DEF NumbersInv, Waiting, Agreed, NumOk

LEMMA NumbersStep ==
  ASSUME "assign" \notin RefWrites, ~NullResult, WalkInv, NumbersInv, [Next]_vars
  PROVE  NumbersInv'
<1>1. CASE SerializeZval
  BY <1>1, ZvalKeepsNumbers
<1>2. CASE SerializeObject
  BY <1>2, ObjectKeepsNumbers
<1>3. CASE SerializeTable
  BY <1>3, TableKeepsNumbers
<1>4. CASE Deinit
  <2>1. buffer' = buffer /\ status' # "running"
    BY <1>4 DEF Deinit
  <2>2. QED
    BY <2>1, WalkStopped
<1>5. CASE UNCHANGED vars
  BY <1>5 DEF vars, tables, ghosts, NumbersInv, Waiting, Agreed, At, Z
<1>6. QED
  BY <1>1, <1>2, <1>3, <1>4, <1>5 DEF Next

LEMMA NumbersInvInductive ==
  ASSUME "assign" \notin RefWrites, ~NullResult
  PROVE  Spec => [](WalkInv /\ NumbersInv)
BY NumbersAtStart, NumbersStep, WalkInvInductive, PTL DEF Spec

\* references_id is at every step of the walk the number of ids that the
\* reader will have given, where Serializable::serialize never returns null
\* (igbinary_serialize_array_ref counts, igbinary_unserialize_* append).
THEOREM IdsCountedAsRead ==
  ASSUME "assign" \notin RefWrites, ~NullResult
  PROVE  Spec => []IdsCountWhatIsRead
<1>1. WalkInv /\ NumbersInv => IdsCountWhatIsRead
  <2> SUFFICES ASSUME WalkInv, NumbersInv, status = "running"
               PROVE  references_id = Cardinality(NumSet(buffer)) + Pending
    BY DEF IdsCountWhatIsRead, NumSet
  <2>1. Pending = IF Waiting THEN 1 ELSE 0
    BY DEF Pending, Waiting, EndsWith
  <2>2. CASE Waiting
    BY <2>1, <2>2 DEF NumbersInv, WaitOk
  <2>3. CASE ~Waiting
    <3>1. references_id = Cardinality(NumSet(buffer)) /\ references_id \in Nat
      BY <2>3 DEF NumbersInv, Agreed, NumOk, WalkInv, TypeOK
    <3>2. QED
      BY <2>1, <2>3, <3>1
  <2>4. QED
    BY <2>2, <2>3
<1>2. QED
  BY <1>1, NumbersInvInductive, PTL

\* A back-reference is read as the cell that the writer met again, whatever user
\* code did in between (igbinary_serialize_array_ref, igbinary_unserialize_ref).
THEOREM BackReferencesExact ==
  ASSUME "assign" \notin RefWrites, ~NullResult
  PROVE  Spec => []BackRefsExact
<1>1. NumbersInv => BackRefsExact
  BY DEF NumbersInv, BackOk, BackRefsExact
<1>2. QED
  BY <1>1, NumbersInvInductive, PTL

(***************************************************************************)
(* Tokens that mark a cell which may be met again with its identity: an    *)
(* object, or what follows `ref' and is numbered.  (An array that is not   *)
(* after `ref' is a value: it may be written twice under two numbers when  *)
(* it is the root.)  No two of them mark one cell.                         *)
(***************************************************************************)
MarkSet(b) == {q \in NumSet(b) : b[q].tag \in {"obj", "objid"} \/ After(b, q, {"ref"})}
Apart(b)   == \A p, q \in MarkSet(b) : NumberedSrc(b, p)[1] = NumberedSrc(b, q)[1] => p = q

\* `t' written after b marks a cell
Marking(b, t) == t.tag \in {"obj", "objid"} \/ (Counts(b, t) /\ EndsWith(b, {"ref"}))

\* the cells marked are among F
MarkedIn(b, F) == Apart(b) /\ \A q \in MarkSet(b) : NumberedSrc(b, q)[1] \in F

LEMMA MarkMore ==
  ASSUME NEW S, NEW b \in Seq(S), NEW t
  PROVE  LET c == b \o << t >>
             n == Len(b)
         IN  /\ n \in Nat /\ MarkSet(b) \subseteq 1..n
             /\ MarkSet(c) = MarkSet(b) \cup (IF Marking(b, t) THEN {n + 1} ELSE {})
             /\ \A i \in 1..n : NumberedSrc(c, i) = NumberedSrc(b, i)
             /\ NumberedSrc(c, n + 1) = SrcAfter(b, t)
<1> DEFINE c == b \o << t >>
           n == Len(b)
<1>1. /\ n \in Nat /\ NumSet(b) \subseteq 1..n
      /\ NumSet(c) = NumSet(b) \cup (IF Counts(b, t) THEN {n + 1} ELSE {})
      /\ \A i \in 1..n : c[i] = b[i] /\ NumberedSrc(c, i) = NumberedSrc(b, i)
      /\ NumberedSrc(c, n + 1) = SrcAfter(b, t)
  BY NumbersStay
<1>2. c[n + 1] = t /\ (b # << >> <=> n > 0)
  BY PutOne, EmptySeq
<1> HIDE DEF c, n
<1>3. \A i \in 1..n : After(c, i, {"ref"}) <=> After(b, i, {"ref"})
  BY <1>1 DEF After
<1>4. After(c, n + 1, {"ref"}) <=> EndsWith(b, {"ref"})
  BY <1>1, <1>2 DEF After, EndsWith, n
<1>5. Marking(b, t) => Counts(b, t)
  BY DEF Marking, Counts
<1>6. \A i \in 1..n : i # n + 1
  BY <1>1
<1>7. MarkSet(c) = MarkSet(b) \cup (IF Marking(b, t) THEN {n + 1} ELSE {})
  <2>1. ASSUME NEW q \in NumSet(b) PROVE q \in MarkSet(c) <=> q \in MarkSet(b)
    BY <1>1, <1>3 DEF MarkSet
  <2>2. Counts(b, t) => (n + 1 \in MarkSet(c) <=> Marking(b, t))
    BY <1>1, <1>2, <1>4 DEF MarkSet, Marking
  <2>3. MarkSet(c) \subseteq NumSet(c) /\ MarkSet(b) \subseteq NumSet(b)
    BY DEF MarkSet
  <2>4. QED
    BY <1>1, <1>5, <2>1, <2>2, <2>3
<1>8. QED
  BY <1>1, <1>7 DEF MarkSet, c, n

LEMMA MarkQuiet ==
  ASSUME NEW S, NEW b \in Seq(S), NEW t, ~Marking(b, t), NEW F, MarkedIn(b, F)
  PROVE  MarkedIn(b \o << t >>, F)
<1> DEFINE c == b \o << t >>
<1>1. /\ MarkSet(b) \subseteq 1..Len(b) /\ MarkSet(c) = MarkSet(b)
      /\ \A i \in 1..Len(b) : NumberedSrc(c, i) = NumberedSrc(b, i)
  BY MarkMore
<1> HIDE DEF c
<1>2. QED
  BY <1>1 DEF MarkedIn, Apart, c

LEMMA MarkNew ==
  ASSUME NEW S, NEW b \in Seq(S), NEW t, NEW F, MarkedIn(b, F),
         NEW a, a \notin F, SrcAfter(b, t)[1] = a
  PROVE  MarkedIn(b \o << t >>, F \cup {a})
<1> DEFINE c == b \o << t >>
           n == Len(b)
<1>1. /\ n \in Nat /\ MarkSet(b) \subseteq 1..n
      /\ MarkSet(c) \subseteq MarkSet(b) \cup {n + 1}
      /\ \A i \in 1..n : NumberedSrc(c, i) = NumberedSrc(b, i)
      /\ NumberedSrc(c, n + 1)[1] = a
  BY MarkMore
<1> HIDE DEF c, n
<1>2. \A q \in MarkSet(b) : NumberedSrc(c, q)[1] \in F /\ NumberedSrc(c, q)[1] # a
  BY <1>1 DEF MarkedIn
<1>3. \A p, q \in MarkSet(b) : NumberedSrc(c, p)[1] = NumberedSrc(c, q)[1] => p = q
  BY <1>1 DEF MarkedIn, Apart
<1>4. \A p, q \in MarkSet(c) : NumberedSrc(c, p)[1] = NumberedSrc(c, q)[1] => p = q
  BY <1>1, <1>2, <1>3
<1>5. \A q \in MarkSet(c) : NumberedSrc(c, q)[1] \in F \cup {a}
  BY <1>1, <1>2
<1>6. QED
  BY <1>4, <1>5 DEF MarkedIn, Apart, c

LEMMA MarkWider ==
  ASSUME NEW b, NEW F, NEW G, F \subseteq G, MarkedIn(b, F)
  PROVE  MarkedIn(b, G)
BY DEF MarkedIn

(***************************************************************************)
(* Along the walk: a marked cell is filed, so it is found when it is met   *)
(* again.  Only the root array is filed under another key than its own.    *)
(***************************************************************************)
Filed == {a \in Addr : references[a] # NoId}
LastSrc == buffer[Len(buffer)].src[1]

RootFirst == references_id = 0 => \A i \in DOMAIN todo : todo[i].op = "zval" /\ todo[i].z.t # "ref"

MarksInv ==
    /\ Apart(buffer)
    /\ status = "running" =>
         /\ RootFirst
         /\ IF Waiting THEN LastSrc \in Filed /\ MarkedIn(buffer, Filed \ {LastSrc})
            ELSE MarkedIn(buffer, Filed)

\* nothing is put on the agenda before the first id is given
LEMMA RootStep ==
  ASSUME RootFirst, references_id' # 0 \/ (references_id' = references_id /\ todo # << >> /\ Do(<< >>)),
         todo \in Seq(Item)
  PROVE  RootFirst'
<1> SUFFICES ASSUME references_id = 0, references_id' = references_id, todo # << >>, Do(<< >>)
             PROVE  \A i \in DOMAIN todo' : todo'[i].op = "zval" /\ todo'[i].z.t # "ref"
  BY DEF RootFirst
<1>1. todo' = Tail(todo)
  BY DEF Do
<1>2. \A i \in DOMAIN Tail(todo) : i + 1 \in DOMAIN todo /\ Tail(todo)[i] = todo[i + 1]
  OBVIOUS
<1>3. QED
  BY <1>1, <1>2 DEF RootFirst

\* an item that is no value, or is a reference, is met when ids have been given
LEMMA RootMet ==
  ASSUME WalkInv, MarksInv, NEW op, At(op), op # "zval" \/ Z.t = "ref"
  PROVE  references_id # 0
<1>1. todo # << >> /\ todo \in Seq(Item) /\ status = "running" /\ Head(todo).op = op
  BY DEF At, WalkInv, TypeOK
<1>2. 1 \in DOMAIN todo /\ todo[1] = Head(todo)
  BY <1>1
<1>3. QED
  BY <1>1, <1>2 DEF MarksInv, RootFirst, Z

\* where no scalar is awaited
LEMMA MarksNow ==
  ASSUME WalkInv, MarksInv, NEW op, At(op), op # "zval" \/ Z.t \in Counted
  PROVE  MarkedIn(buffer, Filed) /\ RootFirst /\ buffer \in Seq(Token) /\ todo \in Seq(Item)
BY DEF At, MarksInv, Waiting, WalkInv, TypeOK

LEMMA MarksSettled ==
  ASSUME RootFirst', MarkedIn(buffer', Filed'), ~Waiting'
  PROVE  MarksInv'
BY DEF MarksInv, MarkedIn

LEMMA MarksStopped ==
  ASSUME MarksInv, buffer' = buffer, status' # "running"
  PROVE  MarksInv'
BY DEF MarksInv

\* steps that write nothing
LEMMA NothingMarked ==
  ASSUME WalkInv, NumbersInv, MarksInv, UNCHANGED << buffer, references, references_id >>,
         NEW op, At(op), op # "zval" \/ Z.t = "ref"
  PROVE  MarksInv'
<1>1. op # "zval" \/ (Z.t \in Counted /\ Z.t # "obj")
  BY DEF Counted
<1>2. ~EndsWith(buffer, {"ref"}) /\ MarkedIn(buffer, Filed) /\ references_id # 0
  BY <1>1, NumbersNow, MarksNow, RootMet
<1>3. ~Waiting'
  BY <1>2 DEF Waiting, EndsWith
<1>4. QED
  BY <1>2, <1>3, MarksSettled DEF RootFirst, Filed

\* a token that marks nothing and awaits nothing
LEMMA QuietWritten ==
  ASSUME NEW S, NEW b \in Seq(S), NEW t, buffer' = b \o << t >>, t.tag # "ref", ~Marking(b, t),
         MarkedIn(b, Filed'), RootFirst'
  PROVE  MarksInv'
<1>1. ~Waiting'
  BY LastToken DEF Waiting
<1>2. MarkedIn(buffer', Filed')
  BY MarkQuiet
<1>3. QED
  BY <1>1, <1>2, MarksSettled

\* a scalar: awaited, it marks the reference filed before
LEMMA ScalarMarks ==
  ASSUME WalkInv, NumbersInv, MarksInv, NEW t, t.tag \in ScalarTags, Emit(<< t >>),
         UNCHANGED << references, references_id >>,
         \/ At("zval") /\ Z.t \notin Counted /\ Do(<< >>)
         \/ At("table") \/ At("sleep")
  PROVE  MarksInv'
<1>1. /\ buffer \in Seq(Token) /\ todo \in Seq(Item) /\ status = "running" /\ todo # << >>
      /\ t.tag \notin {"ref", "obj", "objid"}
  BY DEF WalkInv, TypeOK, At, ScalarTags
<1>2. RootFirst'
  <2>1. CASE At("zval")
    <3>1. Do(<< >>)
      BY <2>1 DEF At
    <3>2. RootFirst
      BY <1>1 DEF MarksInv
    <3>3. QED
      BY <1>1, <3>1, <3>2, RootStep
  <2>2. CASE At("table") \/ At("sleep")
    BY <2>2, RootMet DEF RootFirst
  <2>3. QED
    BY <2>1, <2>2
<1>3. Filed' = Filed /\ buffer' = buffer \o << t >>
  BY DEF Filed, Emit
<1>4. CASE Waiting
  <2>1. SrcAfter(buffer, t)[1] = LastSrc
    BY <1>1, <1>4 DEF Waiting, SrcAfter, LastSrc
  <2>2. LastSrc \in Filed /\ MarkedIn(buffer, Filed \ {LastSrc})
    BY <1>1, <1>4 DEF MarksInv
  <2>3. MarkedIn(buffer \o << t >>, (Filed \ {LastSrc}) \cup {LastSrc})
    BY <1>1, <2>1, <2>2, MarkNew
  <2>4. (Filed \ {LastSrc}) \cup {LastSrc} = Filed
    BY <2>2
  <2>5. ~Waiting'
    BY <1>1, <1>3, LastToken DEF Waiting
  <2>6. QED
    BY <1>2, <1>3, <2>3, <2>4, <2>5, MarksSettled
<1>5. CASE ~Waiting
  <2>1. MarkedIn(buffer, Filed)
    BY <1>1, <1>5 DEF MarksInv
  <2>2. ~EndsWith(buffer, {"ref"})
    BY <1>1, <1>5 DEF NumbersInv, Waiting, At
  <2>3. ~Marking(buffer, t)
    BY <1>1, <2>2 DEF Marking
  <2>4. QED
    BY <1>1, <1>2, <1>3, <2>1, <2>3, QuietWritten
<1>6. QED
  BY <1>4, <1>5

\* an array or an object met again
LEMMA BackRefMarks ==
  ASSUME WalkInv, NumbersInv, MarksInv, At("zval"), Z.t \in Counted, Emit(<< BackRef(Z) >>),
         Do(<< >>), UNCHANGED << references, references_id >>
  PROVE  MarksInv'
<1>1. /\ MarkedIn(buffer, Filed) /\ RootFirst /\ buffer \in Seq(Token) /\ todo \in Seq(Item)
      /\ todo # << >>
  BY MarksNow DEF At
<1>2. BackRef(Z).tag \in {"refid", "objref"}
  BY DEF BackRef, Tok
<1>3. ~Marking(buffer, BackRef(Z))
  BY <1>2 DEF Marking, Counts, ScalarTags
<1>4. RootFirst' /\ Filed' = Filed
  BY <1>1, RootStep DEF Filed
<1>5. QED
  BY <1>1, <1>2, <1>3, <1>4, QuietWritten DEF Emit

\* what filing a cell does, and where: only the root array has no key of its own
LEMMA CellKeyed ==
  ASSUME WalkInv, NumbersInv, MarksInv, At("zval"), Z.t \in Counted, ~Seen(Z), FileRef(Z)
  PROVE  /\ Filed \subseteq Filed' /\ RootFirst' /\ Z.v \in Addr
         /\ Z.t # "arr" => Z.v \notin Filed /\ Filed' = Filed \cup {Z.v}
<1>1. /\ references \in [Addr \cup {InvalidKey} -> Nat \cup {NoId}]
      /\ references_id \in Nat /\ Z.v \in Addr
  BY AtZvalFacts DEF WalkInv, TypeOK
<1>2. /\ references' = [references EXCEPT ![KeyOf(Z)] = references_id]
      /\ references_id' = references_id + 1
  BY DEF FileRef
<1>3. references_id # NoId /\ references_id' # 0
  BY <1>1, <1>2, SerializeAssumption
<1>4. KeyOf(Z) \in Addr \cup {InvalidKey}
  BY <1>1 DEF KeyOf
<1>5. \A a \in Addr : references'[a] = IF a = KeyOf(Z) THEN references_id ELSE references[a]
  BY <1>1, <1>2, <1>4
<1>6. Filed \subseteq Filed' /\ RootFirst'
  BY <1>3, <1>5 DEF Filed, RootFirst
<1>7. ASSUME Z.t # "arr" PROVE Z.v \notin Filed /\ Filed' = Filed \cup {Z.v}
  <2>1. KeyOf(Z) = Z.v
    BY <1>7, RootMet DEF KeyOf, Counted
  <2>2. references[Z.v] = NoId
    BY <2>1 DEF Seen
  <2>3. QED
    BY <1>1, <1>3, <1>5, <2>1, <2>2 DEF Filed
<1>8. QED
  BY <1>1, <1>6, <1>7

\* a new array marks nothing
LEMMA ArrayMarks ==
  ASSUME WalkInv, NumbersInv, MarksInv, At("zval"), Z.t = "arr", ~Seen(Z), FileRef(Z),
         NEW c, Emit(<< Header(c, Src(Z.v)) >>)
  PROVE  MarksInv'
<1> DEFINE t == Header(c, Src(Z.v))
<1>1. t.tag = "arr" /\ buffer' = buffer \o << t >> /\ Z.t \in Counted
  BY DEF Header, Tok, Emit, Counted
<1> HIDE DEF t
<1>2. MarkedIn(buffer, Filed) /\ buffer \in Seq(Token) /\ ~EndsWith(buffer, {"ref"})
  BY <1>1, MarksNow, NumbersNow
<1>3. MarkedIn(buffer, Filed') /\ RootFirst'
  BY <1>1, <1>2, CellKeyed, MarkWider
<1>4. ~Marking(buffer, t)
  BY <1>1, <1>2 DEF Marking
<1>5. QED
  BY <1>1, <1>2, <1>3, <1>4, QuietWritten

\* a new object marks itself
LEMMA ObjectMarks ==
  ASSUME WalkInv, NumbersInv, MarksInv, AtZval({"obj"}), ~Seen(Z), FileRef(Z),
         NEW t, NEW u, Emit(<< t, u >>), t.tag \in {"obj", "objid"}, t.src = Src(Z.v),
         u.tag \in {"arr", "enum", "objser"}
  PROVE  MarksInv'
<1> DEFINE b == buffer \o << t >>
<1>1. At("zval") /\ Z.t \in Counted /\ Z.t # "arr"
  BY DEF AtZval, Counted, Z
<1>2. buffer \in Seq(Token) /\ MarkedIn(buffer, Filed)
  BY <1>1, MarksNow
<1>3. buffer' = b \o << u >> /\ b \in Seq(Token \cup {t})
  BY <1>2, PutOne, PutTwo DEF Emit
<1>4. Z.v \notin Filed /\ Filed' = Filed \cup {Z.v} /\ RootFirst'
  BY <1>1, CellKeyed
<1>5. SrcAfter(buffer, t)[1] = Z.v
  BY DEF SrcAfter, Src
<1>6. MarkedIn(b, Filed')
  BY <1>2, <1>4, <1>5, MarkNew
<1>7. EndsWith(b, {"obj", "objid"}) /\ ~EndsWith(b, {"ref"})
  BY <1>2, LastToken
<1> HIDE DEF b
<1>8. ~Marking(b, u)
  BY <1>7 DEF Marking
<1>9. QED
  BY <1>3, <1>4, <1>6, <1>8, QuietWritten

\* `ref' itself marks nothing
LEMMA RefMarksNothing ==
  ASSUME WalkInv, MarksInv, At("zval"), Z.t = "ref"
  PROVE  LET b == buffer \o << RefTok(Z) >>
         IN  MarkedIn(b, Filed) /\ b[Len(b)].src[1] = Z.v
<1>1. RefTok(Z).tag = "ref" /\ RefTok(Z).src[1] = Z.v
  BY DEF RefTok, Tok, Src
<1>2. MarkedIn(buffer, Filed) /\ buffer \in Seq(Token)
  BY MarksNow DEF Counted
<1>3. ~Marking(buffer, RefTok(Z))
  BY <1>1 DEF Marking, Counts, ScalarTags
<1> DEFINE t == RefTok(Z)
           b == buffer \o << t >>
<1>4. MarkedIn(b, Filed)
  BY <1>2, <1>3, MarkQuiet
<1>5. b[Len(b)] = t
  BY <1>2, PutOne
<1>6. QED
  BY <1>1, <1>4, <1>5

LEMMA ReferenceAgainMarks ==
  ASSUME WalkInv, NumbersInv, MarksInv, SerializeReferenceAgain
  PROVE  MarksInv'
<1>1. /\ At("zval") /\ Z.t = "ref" /\ Z.t \in Counted /\ Do(<< >>) /\ todo # << >>
      /\ Emit(<< RefTok(Z), BackRef(Z) >>) /\ UNCHANGED << references, references_id >>
  BY DEF SerializeReferenceAgain, AtZval, Counted, tables, Z, At
<1> DEFINE b == buffer \o << RefTok(Z) >>
           t == BackRef(Z)
<1>2. buffer \in Seq(Token) /\ todo \in Seq(Item) /\ RootFirst
  BY <1>1, MarksNow
<1>3. buffer' = b \o << t >>
  BY <1>1, <1>2, PutTwo DEF Emit
<1>4. MarkedIn(b, Filed') /\ RootFirst' /\ b \in Seq(Token \cup {RefTok(Z)})
  BY <1>1, <1>2, RefMark, RefMarksNothing, RootStep DEF Filed
<1>5. t.tag = "refid"
  BY <1>1 DEF BackRef, Tok
<1> HIDE DEF b, t
<1>6. ~Marking(b, t)
  BY <1>5 DEF Marking, Counts, ScalarTags
<1>7. QED
  BY <1>3, <1>4, <1>5, <1>6, QuietWritten

LEMMA ReferenceToObjectMarks ==
  ASSUME WalkInv, NumbersInv, MarksInv, SerializeReferenceToObject
  PROVE  MarksInv'
<1>1. /\ At("zval") /\ Z.t = "ref" /\ AtZval({"ref"}) /\ Boxed(Z).t = "obj"
      /\ Emit(<< RefTok(Z) >>) /\ Do(<< Value(Boxed(Z)) >>) /\ todo # << >>
      /\ UNCHANGED << references, references_id >> /\ status' = "running"
  BY DEF SerializeReferenceToObject, AtZval, tables, ghosts, Z, At
<1>2. MarkedIn(buffer', Filed')
  BY <1>1, RefMarksNothing DEF Emit, Filed
<1>3. Z' = Boxed(Z)
  BY <1>1, BoxedIsLive, ValueNext
<1>4. ~Waiting'
  BY <1>1, <1>3 DEF Waiting, Counted
<1>5. RootFirst'
  BY <1>1, RootMet DEF RootFirst
<1>6. QED
  BY <1>2, <1>4, <1>5, MarksSettled

LEMMA ReferenceNewMarks ==
  ASSUME WalkInv, NumbersInv, MarksInv, SerializeReferenceNew
  PROVE  MarksInv'
<1>1. /\ At("zval") /\ Z.t = "ref" /\ Z.t \in Counted /\ AtZval({"ref"}) /\ ~Seen(Z) /\ FileRef(Z)
      /\ Boxed(Z).t # "obj" /\ status' = "running" /\ status = "running" /\ todo # << >>
  BY DEF SerializeReferenceNew, AtZval, Counted, Z, At
<1>2. buffer \in Seq(Token)
  BY <1>1, NumbersNow
<1> DEFINE b == buffer \o << RefTok(Z) >>
<1>3. /\ b \in Seq(Token \cup {RefTok(Z)}) /\ EndsWith(b, {"ref"})
      /\ MarkedIn(b, Filed) /\ b[Len(b)].src[1] = Z.v
  BY <1>1, RefMark, RefMarksNothing
<1>4. Z.v \notin Filed /\ Filed' = Filed \cup {Z.v} /\ RootFirst'
  BY <1>1, CellKeyed
<1>5. CASE Boxed(Z).t = "arr"
  <2> DEFINE t == Header(heap[Boxed(Z).v], Src(Z.v))
  <2>1. Emit(<< RefTok(Z), t >>)
    BY <1>5 DEF SerializeReferenceNew
  <2>2. buffer' = b \o << t >>
    BY <1>2, <2>1, PutTwo DEF Emit
  <2>3. t.tag = "arr"
    BY DEF Header, Tok
  <2> HIDE DEF b, t
  <2>4. SrcAfter(b, t)[1] = Z.v
    BY <1>3, <2>3 DEF SrcAfter
  <2>5. MarkedIn(buffer', Filed')
    BY <1>3, <1>4, <2>2, <2>4, MarkNew
  <2>6. ~Waiting'
    BY <1>3, <2>2, <2>3, LastToken DEF Waiting
  <2>7. QED
    BY <1>4, <2>5, <2>6, MarksSettled
<1>6. CASE Boxed(Z).t # "arr"
  <2>1. buffer' = b /\ Do(<< Value(Boxed(Z)) >>)
    BY <1>6 DEF SerializeReferenceNew, Emit
  <2>2. Z.v \in Addr
    BY <1>1, AtZvalFacts
  <2>3. Boxed(Z).t # "ref"
    BY <1>1, <2>2, BoxedIsLive DEF Boxed, WalkInv, HeapInv, CellsOK
  <2>4. At("zval")' /\ Z' = Boxed(Z)
    BY <1>1, <2>1, BoxedIsLive, ValueNext
  <2>5. Waiting'
    BY <1>1, <1>3, <1>6, <2>1, <2>3, <2>4 DEF Waiting, Counted
  <2>6. LastSrc' = Z.v /\ Filed' \ {Z.v} = Filed
    BY <1>3, <1>4, <2>1 DEF LastSrc
  <2> HIDE DEF b
  <2>7. QED
    BY <1>3, <1>4, <2>1, <2>5, <2>6 DEF MarksInv, MarkedIn
<1>7. QED
  BY <1>5, <1>6

LEMMA ZvalMarks ==
  ASSUME WalkInv, NumbersInv, MarksInv, SerializeZval
  PROVE  MarksInv'
<1>1. CASE StackOverflows \/ TooManyStrings \/ TooManyReferences
  BY <1>1, MarksStopped DEF StackOverflows, TooManyStrings, TooManyReferences, Fail
<1>2. CASE SerializeScalar \/ SerializeStringAgain \/ SerializeStringNew
  <2>1. \E t : t.tag \in ScalarTags /\ Emit(<< t >>)
    <3>1. CASE SerializeScalar
      BY <3>1 DEF SerializeScalar, Tok, ScalarTags
    <3>2. CASE SerializeStringAgain
      BY <3>2 DEF SerializeStringAgain, Tok, ScalarTags
    <3>3. CASE SerializeStringNew
      BY <3>3 DEF SerializeStringNew, Tok, ScalarTags
    <3>4. QED
      BY <1>2, <3>1, <3>2, <3>3
  <2>2. /\ At("zval") /\ Z.t \notin Counted /\ Do(<< >>)
        /\ UNCHANGED << references, references_id >>
    BY <1>2 DEF SerializeScalar, SerializeStringAgain, SerializeStringNew, AtZval, Z, Counted, tables
  <2>3. QED
    BY <2>1, <2>2, ScalarMarks
<1>3. CASE SerializeArrayAgain
  <2>1. /\ At("zval") /\ Z.t \in Counted /\ Emit(<< BackRef(Z) >>) /\ Do(<< >>)
        /\ UNCHANGED << references, references_id >>
    BY <1>3 DEF SerializeArrayAgain, AtZval, Z, Counted, tables
  <2>2. QED
    BY <2>1, BackRefMarks
<1>4. CASE SerializeArrayNew
  <2>1. /\ At("zval") /\ Z.t = "arr" /\ ~Seen(Z) /\ FileRef(Z)
        /\ Emit(<< Header(heap[Z.v], Src(Z.v)) >>)
    BY <1>4 DEF SerializeArrayNew, AtZval, Z
  <2>2. QED
    BY <2>1, ArrayMarks
<1>5. CASE SerializeReferenceUnshared
  <2>1. At("zval") /\ Z.t = "ref" /\ UNCHANGED << buffer, references, references_id >>
    BY <1>5 DEF SerializeReferenceUnshared, AtZval, Z, tables
  <2>2. QED
    BY <2>1, NothingMarked
<1>6. QED
  BY <1>1, <1>2, <1>3, <1>4, <1>5, ReferenceToObjectMarks, ReferenceAgainMarks, ReferenceNewMarks
     DEF SerializeZval

LEMMA ObjectStepMarks ==
  ASSUME WalkInv, NumbersInv, MarksInv, "assign" \notin RefWrites, ~NullResult, SerializeObject
  PROVE  MarksInv'
<1>1. \A c : /\ NameTok(c, Src(Z.v)).tag \in {"obj", "objid"}
             /\ NameTok(c, Src(Z.v)).src = Src(Z.v)
  BY DEF NameTok, Tok
<1>2. \A c, src : Header(c, src).tag = "arr"
  BY DEF Header, Tok
<1>3. CASE SerializeObjectAgain
  <2>1. /\ At("zval") /\ Z.t \in Counted /\ Emit(<< BackRef(Z) >>) /\ Do(<< >>)
        /\ UNCHANGED << references, references_id >>
    BY <1>3 DEF SerializeObjectAgain, AtZval, Z, Counted, tables
  <2>2. QED
    BY <2>1, BackRefMarks
<1>4. CASE SerializeObjectPlain
  BY <1>1, <1>2, <1>4, ObjectMarks DEF SerializeObjectPlain, NewObject
<1>5. CASE SerializeObjectEnum
  <2>1. Tok("enum", NoVal, NoVal).tag = "enum"
    BY DEF Tok
  <2>2. QED
    BY <1>1, <1>5, <2>1, ObjectMarks DEF SerializeObjectEnum, NewNamedObject, NewObject
<1>6. CASE SerializeObjectMagic
  <2>1. AtZval({"obj"}) /\ ~Seen(Z) /\ FileRef(Z)
    BY <1>6 DEF SerializeObjectMagic, NewNamedObject, NewObject
  <2>2. PICK H, G, new, ret : Returned(G, new, ret)
    BY <1>6, WhatIsReturned
  <2>3. Emit(<< NameTok(Cls, Src(Z.v)), Header(G[ret], NoVal) >>)
    BY <2>2 DEF Returned
  <2>4. QED
    BY <1>1, <1>2, <2>1, <2>3, ObjectMarks
<1>7. CASE SerializeObjectData
  <2>1. Tok("objser", NoVal, NoVal).tag = "objser"
    BY DEF Tok
  <2>2. QED
    BY <1>1, <1>7, <2>1, ObjectMarks DEF SerializeObjectData, NewNamedObject, NewObject
<1>8. CASE SerializeObjectNull
  BY <1>8 DEF SerializeObjectNull
<1>9. CASE SerializeObjectSleep
  <2>1. \A n : Tok("arr", n, NoVal).tag = "arr"
    BY DEF Tok
  <2>2. QED
    BY <1>1, <1>9, <2>1, ObjectMarks DEF SerializeObjectSleep, NewNamedObject, NewObject
<1>10. CASE SerializeObjectThrows \/ TooManyStringsForName
  BY <1>10, MarksStopped DEF SerializeObjectThrows, TooManyStringsForName, Fail
<1>11. QED
  BY <1>3, <1>4, <1>5, <1>6, <1>7, <1>8, <1>9, <1>10 DEF SerializeObject

LEMMA TableMarks ==
  ASSUME WalkInv, NumbersInv, MarksInv, SerializeTable
  PROVE  MarksInv'
<1>1. CASE PadUnset \/ SleepNotAString
  <2> DEFINE t == Tok("null", NoVal, NoVal)
  <2>1. t.tag \in ScalarTags
    BY DEF Tok, ScalarTags
  <2>2. Emit(<< t >>) /\ UNCHANGED << references, references_id >>
    BY <1>1 DEF PadUnset, SleepNotAString, tables
  <2>3. At("table") \/ At("sleep")
    BY <1>1 DEF PadUnset, SleepNotAString, AtBucket
  <2>4. QED
    BY <2>1, <2>2, <2>3, ScalarMarks
<1>2. CASE SkipMagic \/ SkipDeleted \/ SerializeEntry \/ EndTable \/ ReleaseReturned \/ SleepProperty
  <2>1. UNCHANGED << buffer, references, references_id >>
    BY <1>2 DEF SkipMagic, SkipDeleted, SerializeEntry, EndTable, ReleaseReturned, SleepProperty,
                tables
  <2>2. At("table") \/ At("sleep") \/ At("dtor")
    BY <1>2 DEF SkipMagic, SkipDeleted, SerializeEntry, EndTable, ReleaseReturned, SleepProperty,
                AtBucket
  <2>3. QED
    BY <2>1, <2>2, NothingMarked
<1>3. CASE SleepUninitialized
  BY <1>3, MarksStopped DEF SleepUninitialized, Fail
<1>4. QED
  BY <1>1, <1>2, <1>3 DEF SerializeTable

LEMMA MarksAtStart == Init => MarksInv
<1> SUFFICES ASSUME Init PROVE MarksInv
  OBVIOUS
<1>1. PICK g \in Graphs : root = g.root
  BY DEF Init
<1>2. /\ buffer = << >> /\ todo = << Value(root) >> /\ root.t # "ref"
      /\ \A k \in Addr \cup {InvalidKey} : references[k] = NoId
  BY <1>1, SerializeAssumption DEF Init
<1>3. MarkSet(buffer) = {} /\ Apart(buffer) /\ \A tags : ~EndsWith(buffer, tags)
  BY <1>2 DEF MarkSet, NumSet, EndsWith, Apart
<1>4. RootFirst
  BY <1>2 DEF RootFirst, Value
<1>5. QED
  BY <1>3, <1>4 DEF MarksInv, Waiting, MarkedIn

LEMMA MarksStep ==
  ASSUME "assign" \notin RefWrites, ~NullResult, WalkInv, NumbersInv, MarksInv, [Next]_vars
  PROVE  MarksInv'
<1>1. CASE SerializeZval
  BY <1>1, ZvalMarks
<1>2. CASE SerializeObject
  BY <1>2, ObjectStepMarks
<1>3. CASE SerializeTable
  BY <1>3, TableMarks
<1>4. CASE Deinit
  <2>1. buffer' = buffer /\ status' # "running"
    BY <1>4 DEF Deinit
  <2>2. QED
    BY <2>1, MarksStopped
<1>5. CASE UNCHANGED vars
  BY <1>5 DEF vars, tables, MarksInv, RootFirst, Waiting, Filed, LastSrc, At, Z
<1>6. QED
  BY <1>1, <1>2, <1>3, <1>4, <1>5 DEF Next

(***************************************************************************)
(* What a token stands for, said of the tokens before it: an array after   *)
(* `ref' is the reference, a string id is the number of that string, a     *)
(* name id that of the object's class name.                                *)
(***************************************************************************)
NamedBy(s, src, H, bt) ==
    /\ src \in Addr \X Nat /\ src[2] <= bt[src[1]]
    /\ bt[src[1]] = src[2] => s = WrittenName(H[src[1]])

StandsOk(b, H, bt) ==
    \A p \in DOMAIN b :
       /\ b[p].tag = "arr" /\ After(b, p, {"ref"}) => b[p].src = b[p - 1].src
       /\ b[p].tag = "strid" =>
            \E i \in StringNumbers(b) : i < p /\ b[i].v = b[p].src /\ Rank(b, i) = b[p].v
       /\ b[p].tag = "objid" =>
            \E i \in StringNumbers(b) : i < p /\ NamedBy(b[i].v, b[p].src, H, bt) /\ Rank(b, i) = b[p].v

Fits(b, t, H, bt) ==
    /\ t.tag = "arr" /\ EndsWith(b, {"ref"}) => t.src = b[Len(b)].src
    /\ t.tag = "strid" => \E i \in StringNumbers(b) : b[i].v = t.src /\ Rank(b, i) = t.v
    /\ t.tag = "objid" =>
         \E i \in StringNumbers(b) : NamedBy(b[i].v, t.src, H, bt) /\ Rank(b, i) = t.v

LEMMA StandsMore ==
  ASSUME NEW S, NEW b \in Seq(S), NEW t, NEW H, NEW bt, StandsOk(b, H, bt), Fits(b, t, H, bt)
  PROVE  StandsOk(b \o << t >>, H, bt)
<1> DEFINE c == b \o << t >>
           n == Len(b)
<1>1. /\ n \in Nat /\ DOMAIN b = 1..n /\ DOMAIN c = 1..(n + 1)
      /\ \A i \in 1..n : c[i] = b[i]
      /\ c[n + 1] = t
  BY PutOne
<1>2. /\ StringNumbers(b) \subseteq 1..n /\ StringNumbers(b) \subseteq StringNumbers(c)
      /\ \A i \in StringNumbers(b) : c[i] = b[i] /\ Rank(c, i) = Rank(b, i)
  BY RankStays
<1>3. b # << >> <=> n > 0
  BY <1>1, EmptySeq
<1> HIDE DEF c, n
<1>4. ASSUME NEW p \in DOMAIN c
      PROVE  /\ c[p].tag = "arr" /\ After(c, p, {"ref"}) => c[p].src = c[p - 1].src
             /\ c[p].tag = "strid" =>
                  \E i \in StringNumbers(c) : i < p /\ c[i].v = c[p].src /\ Rank(c, i) = c[p].v
             /\ c[p].tag = "objid" =>
                  \E i \in StringNumbers(c) : i < p /\ NamedBy(c[i].v, c[p].src, H, bt) /\ Rank(c, i) = c[p].v
  <2>1. CASE p \in 1..n
    <3>1. p \in DOMAIN b /\ c[p] = b[p] /\ (After(c, p, {"ref"}) => After(b, p, {"ref"}) /\ c[p - 1] = b[p - 1])
      BY <1>1, <2>1 DEF After
    <3>2. b[p].tag = "arr" /\ After(b, p, {"ref"}) => b[p].src = b[p - 1].src
      BY <3>1 DEF StandsOk
    <3>3. ASSUME b[p].tag = "strid"
          PROVE  \E i \in StringNumbers(c) : i < p /\ c[i].v = c[p].src /\ Rank(c, i) = c[p].v
      <4>1. PICK i \in StringNumbers(b) : i < p /\ b[i].v = b[p].src /\ Rank(b, i) = b[p].v
        BY <3>1, <3>3 DEF StandsOk
      <4> QED
        BY <1>2, <3>1, <4>1
    <3>4. ASSUME b[p].tag = "objid"
          PROVE  \E i \in StringNumbers(c) : i < p /\ NamedBy(c[i].v, c[p].src, H, bt) /\ Rank(c, i) = c[p].v
      <4>1. PICK i \in StringNumbers(b) : i < p /\ NamedBy(b[i].v, b[p].src, H, bt) /\ Rank(b, i) = b[p].v
        BY <3>1, <3>4 DEF StandsOk
      <4> QED
        BY <1>2, <3>1, <4>1
    <3> QED
      BY <3>1, <3>2, <3>3, <3>4
  <2>2. CASE p = n + 1
    <3>1. c[p] = t /\ p - 1 = n /\ \A i \in StringNumbers(b) : i < p
      BY <1>1, <1>2, <2>2
    <3>2. After(c, p, {"ref"}) => EndsWith(b, {"ref"}) /\ c[p - 1] = b[n]
      BY <1>1, <1>3, <2>2 DEF After, EndsWith, n
    <3>3. t.tag = "arr" /\ EndsWith(b, {"ref"}) => t.src = b[n].src
      BY DEF Fits, n
    <3> QED
      BY <1>2, <3>1, <3>2, <3>3 DEF Fits
  <2> QED
    BY <1>1, <1>4, <2>1, <2>2
<1> QED
  BY <1>4 DEF StandsOk, c

\* what user code leaves as it was: the names of cells that keep their address
LEMMA StandsStill ==
  ASSUME NEW b, NEW H, NEW bt \in [Addr -> Nat], NEW G, NEW ct \in [Addr -> Nat], StandsOk(b, H, bt),
         \A a \in Addr : \/ ct[a] > bt[a]
                         \/ ct[a] = bt[a] /\ WrittenName(G[a]) = WrittenName(H[a])
  PROVE  StandsOk(b, G, ct)
<1>1. ASSUME NEW s, NEW src, NamedBy(s, src, H, bt)
      PROVE  NamedBy(s, src, G, ct)
  <2>1. src[1] \in Addr /\ src[2] \in Nat /\ src[2] <= bt[src[1]] /\ bt[src[1]] \in Nat /\ ct[src[1]] \in Nat
    BY <1>1 DEF NamedBy
  <2> QED
    BY <1>1, <2>1 DEF NamedBy
<1> QED
  BY <1>1 DEF StandsOk

LEMMA UnsetNamed ==
  ASSUME heap \in [Addr -> Cell], NEW a \in Addr, NEW i, ~Incomplete(heap[a]), NEW b \in Addr
  PROVE  WrittenName(Unset(heap, a, i)[b]) = WrittenName(heap[b])
<1> DEFINE es == [heap[a].elems EXCEPT ![i] = [heap[a].elems[i] EXCEPT !.v = Undef]]
           c  == [heap[a] EXCEPT !.elems = es]
<1>1. Unset(heap, a, i) = [heap EXCEPT ![a] = c]
  BY DEF Unset
<1>2. c.kind = heap[a].kind /\ c.cls = heap[a].cls
  <2>1. heap[a] \in Cell
    OBVIOUS
  <2> HIDE DEF es
  <2> QED
    BY <2>1 DEF Cell
<1> HIDE DEF c
<1>3. CASE a = b
  <2>1. Unset(heap, a, i)[b] = c
    BY <1>1, <1>3
  <2> QED
    BY <1>2, <1>3, <2>1 DEF WrittenName, Incomplete
<1>4. CASE a # b
  BY <1>1, <1>4
<1> QED
  BY <1>3, <1>4

LEMMA UnsetsNamed ==
  ASSUME WalkInv, NEW z, z.v \in Live(heap, Held), "assign" \notin RefWrites,
         NEW H \in Unsets(HeldWith(z.v)), NEW b \in Addr
  PROVE  WrittenName(H[b]) = WrittenName(heap[b])
<1> DEFINE held == HeldWith(z.v)
<1>0. /\ heap \in [Addr -> Cell] /\ CellsOK(heap) /\ PointersOK(heap, Live(heap, held))
  BY HeldWithIsLive DEF WalkInv, TypeOK, HeapInv, PointersOK
<1> HIDE DEF held
<1>1. CASE H = heap
  BY <1>1
<1>2. ASSUME NEW a \in Writable(heap, held), NEW i \in DOMAIN heap[a].elems, H = Unset(heap, a, i)
      PROVE  WrittenName(H[b]) = WrittenName(heap[b])
  <2>1. a \in Addr /\ ~Incomplete(heap[a])
    BY HeldAreLive DEF Writable
  <2> QED
    BY <1>0, <1>2, <2>1, UnsetNamed
<1>3. ASSUME NEW a \in InPlace(heap, held), NEW i \in DOMAIN heap[a].elems, H = Unset(heap, a, i)
      PROVE  WrittenName(H[b]) = WrittenName(heap[b])
  <2>1. PICK r \in LiveRefs(heap, held) : heap[r].elems[1].v = Arr(a)
    BY DEF InPlace
  <2>2. r \in Live(heap, held) /\ r \in Addr /\ heap[r].kind = "ref" /\ a \in Addr
    BY HeldAreLive DEF LiveRefs, InPlace
  <2>3. Arr(a) \in Pointers(heap[r])
    <3>1. Len(heap[r].elems) = 1 /\ heap[r].elems \in Elems
      BY <1>0, <2>2 DEF CellsOK, Cell
    <3>2. 1 \in DOMAIN heap[r].elems
      BY <3>1, LenProperties DEF Elems
    <3> QED
      BY <2>1, <3>2 DEF Pointers, Arr, Counted
  <2>4. heap[a].kind = "arr"
    BY <1>0, <2>2, <2>3 DEF PointersOK, PointsAt, Arr, Counted
  <2> QED
    BY <1>0, <1>3, <2>2, <2>4, UnsetNamed DEF Incomplete
<1> QED
  BY <1>1, <1>2, <1>3 DEF Unsets, UnsetsIn, held

StandsInv == StandsOk(buffer, heap, birth)

\* tokens that say nothing of what is before them
Silent(t) == t.tag \notin {"arr", "strid", "objid"}
LEMMA SilentFits == ASSUME NEW t, Silent(t), NEW b, NEW H, NEW bt PROVE Fits(b, t, H, bt)
BY DEF Silent, Fits

LEMMA SilentTokens ==
  /\ \A v, src : /\ Silent(Tok("long", v, src)) /\ Silent(Tok("null", v, src))
                 /\ Silent(Tok("empty", v, src)) /\ Silent(Tok("str", v, src))
                 /\ Silent(Tok("enum", v, src)) /\ Silent(Tok("objser", v, src))
  /\ \A z : Silent(BackRef(z)) /\ Silent(RefTok(z))
BY DEF Silent, Tok, BackRef, RefTok

\* where the heap stays, what is written has to fit
LEMMA StandsOne ==
  ASSUME WalkInv, StandsInv, NEW t, Emit(<< t >>), Fits(buffer, t, heap, birth), UNCHANGED << heap, birth >>
  PROVE  StandsInv'
<1>1. buffer \in Seq(Token)
  BY DEF WalkInv, TypeOK
<1>2. StandsOk(buffer', heap, birth)
  BY <1>1, StandsMore DEF StandsInv, Emit
<1> QED
  BY <1>2 DEF StandsInv

LEMMA StandsTwo ==
  ASSUME WalkInv, StandsInv, NEW t, NEW u, Emit(<< t, u >>), Fits(buffer, t, heap, birth),
         Fits(buffer \o << t >>, u, heap, birth)
  PROVE  StandsOk(buffer', heap, birth)
<1> DEFINE b == buffer \o << t >>
<1>1. buffer \in Seq(Token)
  BY DEF WalkInv, TypeOK
<1>2. b \in Seq(Token \cup {t}) /\ buffer' = b \o << u >>
  BY <1>1, PutOne, PutTwo DEF Emit
<1>3. StandsOk(b, heap, birth)
  BY <1>1, StandsMore DEF StandsInv
<1>4. Fits(b, u, heap, birth)
  OBVIOUS
<1> HIDE DEF b
<1>5. StandsOk(b \o << u >>, heap, birth)
  BY <1>2, <1>3, <1>4, StandsMore
<1> QED
  BY <1>2, <1>5

LEMMA StandsSame ==
  ASSUME StandsInv, UNCHANGED << buffer, heap, birth >>
  PROVE  StandsInv'
BY DEF StandsInv

\* user code ran
LEMMA StandsUser ==
  ASSUME WalkInv, "assign" \notin RefWrites, NEW z, z.v \in Live(heap, Held),
         StandsOk(buffer', heap, birth), heap' \in Unsets(HeldWith(z.v)), birth' = birth
  PROVE  StandsInv'
<1>1. birth \in [Addr -> Nat]
  BY DEF WalkInv, TypeOK
<1>2. \A a \in Addr : WrittenName(heap'[a]) = WrittenName(heap[a])
  <2> DEFINE H == heap'
  <2>1. H \in Unsets(HeldWith(z.v))
    OBVIOUS
  <2> HIDE DEF H
  <2>2. \A a \in Addr : WrittenName(H[a]) = WrittenName(heap[a])
    BY <2>1, UnsetsNamed
  <2> QED
    BY <2>2 DEF H
<1>3. StandsOk(buffer', heap', birth)
  <2> DEFINE c == buffer'
             G == heap'
  <2>1. StandsOk(c, heap, birth) /\ \A a \in Addr : WrittenName(G[a]) = WrittenName(heap[a])
    BY <1>2
  <2> HIDE DEF c, G
  <2>2. StandsOk(c, G, birth)
    BY <1>1, <2>1, StandsStill
  <2> QED
    BY <2>2 DEF c, G
<1> QED
  BY <1>3 DEF StandsInv

LEMMA ZvalStands ==
  ASSUME WalkInv, StringsInv, NumbersInv, StandsInv, SerializeZval
  PROVE  StandsInv'
<1>1. CASE StackOverflows \/ TooManyStrings \/ TooManyReferences
  BY <1>1, StandsSame DEF StackOverflows, TooManyStrings, TooManyReferences, Fail, ghosts
<1>2. CASE SerializeScalar
  <2>1. PICK t : Silent(t) /\ Emit(<< t >>)
    BY <1>2, SilentTokens DEF SerializeScalar
  <2> QED
    BY <1>2, <2>1, SilentFits, StandsOne DEF SerializeScalar, ghosts
<1>3. CASE SerializeStringAgain
  <2>1. Z.v = EmptyStr \/ (strings[Z.v] # NoId /\ Z.v # EmptyStr)
    BY <1>3 DEF SerializeStringAgain, Known
  <2>2. Emit(<< IF Z.v = EmptyStr THEN Tok("empty", NoVal, NoVal) ELSE Tok("strid", strings[Z.v], Z.v) >>)
        /\ UNCHANGED << heap, birth >>
    BY <1>3 DEF SerializeStringAgain, ghosts
  <2>3. CASE Z.v = EmptyStr
    BY <2>2, <2>3, SilentTokens, SilentFits, StandsOne
  <2>4. CASE Z.v # EmptyStr
    <3> DEFINE t == Tok("strid", strings[Z.v], Z.v)
    <3>1. Z.v \in Str
      BY <1>3, AtZvalFacts, ScalarTyped DEF SerializeStringAgain, AtZval, Z, Counted
    <3>2. \E i \in StringNumbers(buffer) : buffer[i].v = Z.v /\ Rank(buffer, i) = strings[Z.v]
      BY <2>1, <2>4, <3>1 DEF StringsInv, StrOk
    <3>3. Fits(buffer, t, heap, birth)
      BY <3>2 DEF Fits, Tok
    <3> QED
      BY <2>2, <2>4, <3>3, StandsOne
  <2> QED
    BY <2>3, <2>4
<1>4. CASE SerializeStringNew
  BY <1>4, SilentTokens, SilentFits, StandsOne DEF SerializeStringNew, ghosts
<1>5. CASE SerializeArrayAgain
  BY <1>5, SilentTokens, SilentFits, StandsOne DEF SerializeArrayAgain, ghosts
<1>6. CASE SerializeArrayNew
  <2> DEFINE t == Header(heap[Z.v], Src(Z.v))
  <2>1. At("zval") /\ Z.t = "arr"
    BY <1>6 DEF SerializeArrayNew, AtZval, Z
  <2>2. ~EndsWith(buffer, {"ref"})
    BY <2>1, NumbersNow DEF Counted
  <2>3. Fits(buffer, t, heap, birth)
    BY <2>2 DEF Fits, Header, Tok
  <2> QED
    BY <1>6, <2>3, StandsOne DEF SerializeArrayNew
<1>7. CASE SerializeReferenceUnshared
  BY <1>7, StandsSame DEF SerializeReferenceUnshared, ghosts
<1>8. CASE SerializeReferenceToObject
  BY <1>8, SilentTokens, SilentFits, StandsOne DEF SerializeReferenceToObject, ghosts
<1>9. CASE SerializeReferenceAgain
  <2>1. Emit(<< RefTok(Z), BackRef(Z) >>) /\ UNCHANGED << heap, birth >>
    BY <1>9 DEF SerializeReferenceAgain, ghosts
  <2>2. Fits(buffer, RefTok(Z), heap, birth) /\ Fits(buffer \o << RefTok(Z) >>, BackRef(Z), heap, birth)
    BY SilentTokens, SilentFits
  <2>3. StandsOk(buffer', heap, birth)
    BY <2>1, <2>2, StandsTwo
  <2> QED
    BY <2>1, <2>3 DEF StandsInv
<1>10. CASE SerializeReferenceNew
  <2>1. UNCHANGED << heap, birth >> /\ At("zval") /\ Z.t = "ref"
    BY <1>10 DEF SerializeReferenceNew, AtZval, Z
  <2>2. CASE Boxed(Z).t = "arr"
    <3> DEFINE u == Header(heap[Boxed(Z).v], Src(Z.v))
               b == buffer \o << RefTok(Z) >>
    <3>1. Emit(<< RefTok(Z), u >>)
      BY <1>10, <2>2 DEF SerializeReferenceNew
    <3>2. b[Len(b)].src = Src(Z.v)
      BY <2>1, RefMark
    <3>3. u.tag = "arr" /\ u.src = Src(Z.v)
      BY DEF Header, Tok
    <3> HIDE DEF u, b
    <3>4. Fits(b, u, heap, birth)
      BY <3>2, <3>3 DEF Fits
    <3>5. StandsOk(buffer', heap, birth)
      BY <3>1, <3>4, SilentTokens, SilentFits, StandsTwo DEF b
    <3> QED
      BY <2>1, <3>5 DEF StandsInv
  <2>3. CASE Boxed(Z).t # "arr"
    <3>1. Emit(<< RefTok(Z) >>)
      BY <1>10, <2>3 DEF SerializeReferenceNew
    <3> QED
      BY <2>1, <3>1, SilentTokens, SilentFits, StandsOne
  <2> QED
    BY <2>2, <2>3
<1> QED
  BY <1>1, <1>2, <1>3, <1>4, <1>5, <1>6, <1>7, <1>8, <1>9, <1>10 DEF SerializeZval

\* the class name of an object, and what follows it
LEMMA NameStands ==
  ASSUME WalkInv, StringsInv, NumbersInv, StandsInv, AtZval({"obj"}),
         NEW c, c = ClassName, NEW u, Emit(<< NameTok(c, Src(Z.v)), u >>), u.tag \in {"arr", "enum", "objser"}
  PROVE  StandsOk(buffer', heap, birth)
<1> DEFINE t == NameTok(c, Src(Z.v))
           b == buffer \o << t >>
<1>1. buffer \in Seq(Token) /\ birth \in [Addr -> Nat] /\ Z.v \in Addr /\ c \in Str /\ c = WrittenName(heap[Z.v])
  BY ObjectFacts DEF WalkInv, TypeOK, ClassName
<1>2. t.tag \in {"obj", "objid"}
  BY DEF NameTok, Tok
<1>3. Fits(buffer, t, heap, birth)
  <2>1. CASE strings[c] # NoId
    <3>1. t.tag = "objid" /\ t.v = strings[c] /\ t.src = << Z.v, birth[Z.v] >>
      BY <2>1 DEF NameTok, Tok, Src
    <3>2. PICK i \in StringNumbers(buffer) : buffer[i].v = c /\ Rank(buffer, i) = strings[c]
      BY <1>1, <2>1 DEF StringsInv, StrOk
    <3>3. NamedBy(buffer[i].v, t.src, heap, birth)
      <4>1. birth[Z.v] \in Nat /\ birth[Z.v] <= birth[Z.v]
        BY <1>1
      <4> QED
        BY <1>1, <3>1, <3>2, <4>1 DEF NamedBy
    <3> HIDE DEF t
    <3> QED
      BY <3>1, <3>2, <3>3 DEF Fits
  <2>2. CASE strings[c] = NoId
    BY <2>2, SilentFits DEF NameTok, Tok, Silent
  <2> QED
    BY <2>1, <2>2
<1>4. ~EndsWith(b, {"ref"})
  <2> HIDE DEF t
  <2> QED
    BY <1>1, <1>2, LastToken
<1>5. Fits(b, u, heap, birth)
  BY <1>4 DEF Fits
<1> QED
  BY <1>3, <1>5, StandsTwo

\* only a plain class is that of the objects whose class does not exist
LEMMA OwnName ==
  ASSUME WalkInv, NEW kinds, NewObject(kinds), "plain" \notin kinds
  PROVE  AtZval({"obj"}) /\ Cls = ClassName /\ Z.v \in Live(heap, Held)
<1>1. AtZval({"obj"}) /\ Kind[Cls] \in kinds
  BY DEF NewObject
<1>2. Cls \in Class /\ Z.v \in Live(heap, Held)
  BY <1>1, ObjectFacts
<1>3. Cls # IncompleteClass
  BY <1>1, <1>2, ValuesAssumption
<1> QED
  BY <1>1, <1>2, <1>3 DEF ClassName, WrittenName, Incomplete, Cls

LEMMA ObjectStands ==
  ASSUME WalkInv, StringsInv, NumbersInv, StandsInv, "assign" \notin RefWrites, SerializeObject
  PROVE  StandsInv'
<1>1. CASE SerializeObjectAgain
  BY <1>1, SilentTokens, SilentFits, StandsOne DEF SerializeObjectAgain, ghosts
<1>2. CASE SerializeObjectPlain
  <2>1. /\ AtZval({"obj"}) /\ Emit(<< NameTok(ClassName, Src(Z.v)), Header(heap[Z.v], NoVal) >>)
        /\ UNCHANGED << heap, birth >>
    BY <1>2 DEF SerializeObjectPlain, NewObject
  <2>2. Header(heap[Z.v], NoVal).tag = "arr"
    BY DEF Header, Tok
  <2>3. StandsOk(buffer', heap, birth)
    BY <2>1, <2>2, NameStands
  <2> QED
    BY <2>1, <2>3 DEF StandsInv
<1>3. CASE SerializeObjectEnum
  <2>1. /\ NewObject({"enum"}) /\ Emit(<< NameTok(Cls, Src(Z.v)), Tok("enum", NoVal, NoVal) >>)
        /\ UNCHANGED << heap, birth >>
    BY <1>3 DEF SerializeObjectEnum, NewNamedObject
  <2>2. Tok("enum", NoVal, NoVal).tag = "enum" /\ AtZval({"obj"}) /\ Cls = ClassName
    BY <2>1, OwnName DEF Tok
  <2>3. StandsOk(buffer', heap, birth)
    BY <2>1, <2>2, NameStands
  <2> QED
    BY <2>1, <2>3 DEF StandsInv
<1>4. CASE SerializeObjectMagic
  <2>1. NewObject({"serialize"})
    BY <1>4 DEF SerializeObjectMagic, NewNamedObject
  <2>2. AtZval({"obj"}) /\ Cls = ClassName /\ Z.v \in Live(heap, Held)
    BY <2>1, OwnName
  <2>3. PICK H, G, new, ret :
          /\ H \in Unsets(HeldWith(Z.v)) /\ Returned(G, new, ret) /\ new \subseteq Addr
          /\ \A a \in Addr \ new : G[a] = H[a]
    BY <1>4, WhatIsReturned DEF AllocatedIn
  <2>4. /\ heap' = G /\ birth' = [a \in Addr |-> IF a \in new THEN birth[a] + 1 ELSE birth[a]]
        /\ Emit(<< NameTok(Cls, Src(Z.v)), Header(G[ret], NoVal) >>)
    BY <2>3 DEF Returned
  <2>5. Header(G[ret], NoVal).tag = "arr"
    BY DEF Header, Tok
  <2>6. StandsOk(buffer', heap, birth)
    BY <2>2, <2>4, <2>5, NameStands
  <2>7. birth \in [Addr -> Nat] /\ birth' \in [Addr -> Nat]
    BY <2>4 DEF WalkInv, TypeOK
  <2>8. \A a \in Addr : \/ birth'[a] > birth[a]
                        \/ birth'[a] = birth[a] /\ WrittenName(G[a]) = WrittenName(heap[a])
    <3> TAKE a \in Addr
    <3>1. WrittenName(H[a]) = WrittenName(heap[a])
      BY <2>2, <2>3, UnsetsNamed
    <3>2. a \notin new => G[a] = H[a]
      BY <2>3
    <3> QED
      BY <2>4, <2>7, <3>1, <3>2
  <2>9. StandsOk(buffer', G, birth')
    <3> DEFINE c == buffer'
               ct == birth'
    <3>1. StandsOk(c, heap, birth) /\ ct \in [Addr -> Nat]
          /\ \A a \in Addr : \/ ct[a] > birth[a]
                             \/ ct[a] = birth[a] /\ WrittenName(G[a]) = WrittenName(heap[a])
      BY <2>6, <2>7, <2>8
    <3> HIDE DEF c, ct
    <3>2. StandsOk(c, G, ct)
      BY <2>7, <3>1, StandsStill
    <3> QED
      BY <3>2 DEF c, ct
  <2> QED
    BY <2>4, <2>9 DEF StandsInv
<1>5. CASE SerializeObjectData
  <2>1. /\ NewObject({"serializable"}) /\ Emit(<< NameTok(Cls, Src(Z.v)), Tok("objser", NoVal, NoVal) >>)
        /\ heap' \in Unsets(HeldWith(Z.v)) /\ birth' = birth
    BY <1>5 DEF SerializeObjectData, NewNamedObject
  <2>2. Tok("objser", NoVal, NoVal).tag = "objser" /\ AtZval({"obj"}) /\ Cls = ClassName /\ Z.v \in Live(heap, Held)
    BY <2>1, OwnName DEF Tok
  <2>3. StandsOk(buffer', heap, birth)
    BY <2>1, <2>2, NameStands
  <2> QED
    BY <2>1, <2>2, <2>3, StandsUser
<1>6. CASE SerializeObjectNull
  <2>1. /\ NewObject({"serializable"}) /\ Emit(<< Tok("null", NoVal, NoVal) >>)
        /\ heap' \in Unsets(HeldWith(Z.v)) /\ birth' = birth
    BY <1>6 DEF SerializeObjectNull
  <2>2. AtZval({"obj"}) /\ Z.v \in Live(heap, Held) /\ buffer \in Seq(Token)
    BY <2>1, OwnName DEF WalkInv, TypeOK
  <2>3. StandsOk(buffer', heap, birth)
    BY <2>1, <2>2, SilentTokens, SilentFits, StandsMore DEF StandsInv, Emit
  <2> QED
    BY <2>1, <2>2, <2>3, StandsUser
<1>7. CASE SerializeObjectSleep
  <2>1. PICK n : /\ NewObject({"sleep"}) /\ Emit(<< NameTok(Cls, Src(Z.v)), Tok("arr", n, NoVal) >>)
                 /\ heap' \in Unsets(HeldWith(Z.v)) /\ birth' = birth
    BY <1>7 DEF SerializeObjectSleep, NewNamedObject
  <2>2. Tok("arr", n, NoVal).tag = "arr" /\ AtZval({"obj"}) /\ Cls = ClassName /\ Z.v \in Live(heap, Held)
    BY <2>1, OwnName DEF Tok
  <2>3. StandsOk(buffer', heap, birth)
    BY <2>1, <2>2, NameStands
  <2> QED
    BY <2>1, <2>2, <2>3, StandsUser
<1>8. CASE SerializeObjectThrows \/ TooManyStringsForName
  BY <1>8, StandsSame DEF SerializeObjectThrows, TooManyStringsForName, Fail, ghosts
<1> QED
  BY <1>1, <1>2, <1>3, <1>4, <1>5, <1>6, <1>7, <1>8 DEF SerializeObject

LEMMA TableStands ==
  ASSUME WalkInv, StandsInv, SerializeTable
  PROVE  StandsInv'
<1>1. CASE PadUnset \/ SleepNotAString
  <2>1. Emit(<< Tok("null", NoVal, NoVal) >>) /\ UNCHANGED << heap, birth >>
    BY <1>1 DEF PadUnset, SleepNotAString, ghosts
  <2> QED
    BY <2>1, SilentTokens, SilentFits, StandsOne
<1>2. CASE \/ SkipMagic \/ SkipDeleted \/ SerializeEntry \/ EndTable \/ ReleaseReturned \/ SleepProperty
           \/ SleepUninitialized
  BY <1>2, StandsSame DEF SkipMagic, SkipDeleted, SerializeEntry, EndTable, ReleaseReturned, SleepProperty,
                          SleepUninitialized, Fail, ghosts
<1> QED
  BY <1>1, <1>2 DEF SerializeTable

LEMMA StandsStep ==
  ASSUME "assign" \notin RefWrites, WalkInv, StringsInv, NumbersInv, StandsInv, [Next]_vars
  PROVE  StandsInv'
<1>1. CASE SerializeZval
  BY <1>1, ZvalStands
<1>2. CASE SerializeObject
  BY <1>2, ObjectStands
<1>3. CASE SerializeTable
  BY <1>3, TableStands
<1>4. CASE Deinit
  BY <1>4, StandsSame DEF Deinit, ghosts
<1>5. CASE UNCHANGED vars
  BY <1>5, StandsSame DEF vars, ghosts
<1>6. QED
  BY <1>1, <1>2, <1>3, <1>4, <1>5 DEF Next

(***************************************************************************)
(* The counts in the headers.  What a loop has still to write is what is   *)
(* left of its table, as long as user code can make no bucket come or go:  *)
(* it unsets properties, which still count, and an incomplete object keeps *)
(* its magic member.                                                       *)
(***************************************************************************)
Written(c, j) == IF c.kind = "obj" THEN ~(Incomplete(c) /\ IsMagicMember(c.elems[j]))
                                   ELSE c.elems[j].v # Undef
Left(c, i, n) == Cardinality({j \in i..n : Written(c, j)})

\* an incomplete object that has properties has its class's name among them, once
Named(c) == Incomplete(c) /\ c.elems # << >> =>
              \E i \in DOMAIN c.elems : \A j \in DOMAIN c.elems : IsMagicMember(c.elems[j]) <=> j = i
NamedOnce == /\ \A g \in Graphs : \A a \in Addr : Named(g.heap[a])
             /\ \A c \in TempCells : Named(c)

LoopOk(it, H) == it.op = "table" => H[it.h].kind # "ref" /\ it.left = Left(H[it.h], it.i, it.n)
LoopsInv == /\ \A a \in Addr : Named(heap[a])
            /\ \A k \in DOMAIN todo : LoopOk(todo[k], heap)

LEMMA SubIntervals ==
  ASSUME NEW i \in Int, NEW n \in Int, NEW S \in SUBSET (i..n)
  PROVE  IsFiniteSet(S) /\ Cardinality(S) \in Nat
<1>1. IsFiniteSet(i..n)
  BY FS_Interval
<1>2. IsFiniteSet(S)
  BY <1>1, FS_Subset
<1>3. QED
  BY <1>2, FS_CardinalityType

LEMMA LeftNone ==
  ASSUME NEW c, NEW i \in Int, NEW n \in Int, i > n
  PROVE  Left(c, i, n) = 0
<1>1. {j \in i..n : Written(c, j)} = {}
  OBVIOUS
<1>2. QED
  BY <1>1, FS_EmptySet DEF Left

LEMMA LeftStep ==
  ASSUME NEW c, NEW i \in Int, NEW n \in Int, i <= n
  PROVE  /\ Written(c, i) => Left(c, i, n) = Left(c, i + 1, n) + 1 /\ Left(c, i + 1, n) \in Nat
         /\ ~Written(c, i) => Left(c, i, n) = Left(c, i + 1, n)
<1> DEFINE S == {j \in i..n : Written(c, j)}
           T == {j \in (i + 1)..n : Written(c, j)}
<1>1. S = T \cup (IF Written(c, i) THEN {i} ELSE {})
  <2>1. i..n = (i + 1)..n \cup {i}
    OBVIOUS
  <2>2. QED
    BY <2>1
<1>2. IsFiniteSet(T) /\ Cardinality(T) \in Nat /\ i \notin T
  <2>1. T \in SUBSET ((i + 1)..n) /\ i + 1 \in Int /\ i \notin (i + 1)..n
    OBVIOUS
  <2>2. QED
    BY <2>1, SubIntervals
<1>3. Cardinality(T \cup {i}) = Cardinality(T) + 1
  BY <1>2, FS_AddElement
<1> HIDE DEF S, T
<1>4. QED
  BY <1>1, <1>2, <1>3 DEF Left, S, T

\* at its start a loop has to write what the header says
LEMMA LeftAll ==
  ASSUME NEW c \in Cell, Named(c)
  PROVE  Left(c, 1, Len(c.elems)) = Count(c)
<1> DEFINE n == Len(c.elems)
           S == {j \in 1..n : Written(c, j)}
<1>1. n \in Nat /\ DOMAIN c.elems = 1..n
  BY CellTyped
<1>2. IsFiniteSet(1..n) /\ Cardinality(1..n) = n
  BY <1>1, FS_Interval
<1>3. CASE Incomplete(c) /\ c.elems # << >>
  <2>1. PICK i \in DOMAIN c.elems :
               \A j \in DOMAIN c.elems : IsMagicMember(c.elems[j]) <=> j = i
    BY <1>3 DEF Named
  <2>2. S = (1..n) \ {i} /\ i \in 1..n
    <3>1. \A j \in DOMAIN c.elems : Written(c, j) <=> j # i
      BY <1>3, <2>1 DEF Written, Incomplete
    <3>2. QED
      BY <1>1, <3>1
  <2>3. Cardinality((1..n) \ {i}) = n - 1
    BY ZenonT(30), <1>1, <1>2, <2>2, FS_RemoveElement
  <2>4. QED
    BY <1>3, <2>2, <2>3 DEF Left, Count
<1>4. CASE c.kind = "obj" /\ ~(Incomplete(c) /\ c.elems # << >>)
  <2>1. S = 1..n
    <3>1. CASE Incomplete(c)
      <4>1. n = 0
        BY <1>4, <3>1
      <4>2. QED
        BY <4>1
    <3>2. CASE ~Incomplete(c)
      BY <1>4, <3>2 DEF Written
    <3>3. QED
      BY <3>1, <3>2
  <2>2. QED
    BY <1>2, <1>4, <2>1 DEF Left, Count
<1>5. CASE c.kind # "obj"
  <2>1. S = {i \in DOMAIN c.elems : c.elems[i].v # Undef}
    BY <1>1, <1>5 DEF Written
  <2>2. QED
    BY <1>5, <2>1 DEF Left, Count, Incomplete
<1>6. QED
  BY <1>3, <1>4, <1>5

\* what makes no difference to the loops over a cell
SameToLoops(c, d) == d.kind = c.kind /\ Len(d.elems) = Len(c.elems)
                     /\ \A j \in 1..Len(c.elems) : Written(d, j) <=> Written(c, j)

LEMMA LeftSame ==
  ASSUME NEW c, NEW d, SameToLoops(c, d), Len(c.elems) \in Nat,
         NEW i \in Nat, i >= 1, NEW n \in Nat, n <= Len(c.elems)
  PROVE  Left(d, i, n) = Left(c, i, n)
<1>1. \A j \in i..n : Written(d, j) <=> Written(c, j)
  BY DEF SameToLoops
<1>2. {j \in i..n : Written(d, j)} = {j \in i..n : Written(c, j)}
  BY <1>1
<1>3. QED
  BY ONLY <1>2 DEF Left

LEMMA UnsetsKeepLoops ==
  ASSUME heap \in [Addr -> Cell], RefWrites = {}, NEW held, NEW H \in Unsets(held), NEW b \in Addr
  PROVE  SameToLoops(heap[b], H[b]) /\ (Named(heap[b]) => Named(H[b]))
<1>1. CASE H = heap
  BY <1>1 DEF SameToLoops
<1>2. CASE H # heap
  <2>0. PICK a \in Writable(heap, held) : \E i \in DOMAIN heap[a].elems : H = Unset(heap, a, i)
    BY <1>2 DEF Unsets, UnsetsIn
  <2>1. PICK i \in DOMAIN heap[a].elems : H = Unset(heap, a, i)
    BY <2>0
  <2>2. a \in Addr /\ heap[a].kind = "obj" /\ ~Incomplete(heap[a])
    BY HeldAreLive DEF Writable
  <2> DEFINE es == heap[a].elems
             e  == [es[i] EXCEPT !.v = Undef]
             fs == [es EXCEPT ![i] = e]
             c  == [heap[a] EXCEPT !.elems = fs]
  <2>3. es \in Seq([k : Key \cup {Null}, v : Zval]) /\ i \in 1..Len(es)
    BY <2>2, CellTyped
  <2>4. e \in [k : Key \cup {Null}, v : Zval]
    <3>1. es[i] \in [k : Key \cup {Null}, v : Zval]
      BY <2>3, ElementOfSeq
    <3>2. Undef \in Zval
      BY DEF Zval
    <3>3. QED
      BY <3>1, <3>2
  <2>5. Len(fs) = Len(es)
    BY <2>3, <2>4, ExceptSeq
  <2>6. c.kind = "obj" /\ c.cls = heap[a].cls /\ c.elems = fs
    <3>1. heap[a] \in Cell
      BY <2>2
    <3>2. QED
      BY <2>2, <3>1 DEF Cell
  <2>7. H = [heap EXCEPT ![a] = c]
    BY <2>1 DEF Unset
  <2> HIDE DEF c, fs
  <2>8. ~Incomplete(c)
    BY <2>2, <2>6 DEF Incomplete
  <2>9. SameToLoops(heap[a], c) /\ Named(c)
    BY <2>2, <2>5, <2>6, <2>8 DEF SameToLoops, Written, Named
  <2>10. CASE b = a
    BY <2>7, <2>9, <2>10
  <2>11. CASE b # a
    BY <2>7, <2>11 DEF SameToLoops
  <2>12. QED
    BY <2>10, <2>11
<1>3. QED
  BY <1>1, <1>2

\* the tables that wait in the agenda stay as they are, and what a step puts in
\* front of them is a loop at its start, or one turn further on
LEMMA LoopsStep ==
  ASSUME WalkInv, LoopsInv, todo # << >>, NEW items \in Seq(Item), Do(items),
         \A h \in Addr : Anchored(h, 1) => SameToLoops(heap[h], heap'[h]),
         \A a \in Addr : Named(heap'[a]),
         \A k \in 1..Len(items) : LoopOk(items[k], heap')
  PROVE  LoopsInv'
<1>1. /\ DOMAIN todo' = 1..Len(todo')
      /\ Len(items) \in Nat /\ Len(todo') = Len(items) + Len(todo) - 1
      /\ \A k \in 1..Len(items) : todo'[k] = items[k]
      /\ \A k \in (Len(items) + 1)..Len(todo') : todo'[k] = todo[k - Len(items) + 1]
  BY DoTyped DEF WalkInv
<1>2. DOMAIN todo = 1..Len(todo) /\ Len(todo) \in Nat \ {0}
  BY TopIsItem DEF WalkInv, TypeOK
<1>3. ASSUME NEW k \in (Len(items) + 1)..Len(todo')
      PROVE  LoopOk(todo'[k], heap')
  <2> DEFINE i == k - Len(items) + 1
  <2>1. i \in DOMAIN todo /\ i # 1 /\ todo'[k] = todo[i]
    BY <1>1, <1>2
  <2> HIDE DEF i
  <2>2. PICK it \in Item : it = todo[i]
    BY <2>1, ElementOfSeq DEF WalkInv, TypeOK
  <2>3. SUFFICES ASSUME it.op = "table"
                 PROVE  heap'[it.h].kind # "ref" /\ it.left = Left(heap'[it.h], it.i, it.n)
    BY <2>1, <2>2 DEF LoopOk
  <2>4. heap[it.h].kind # "ref" /\ it.left = Left(heap[it.h], it.i, it.n)
    BY <2>1, <2>2, <2>3 DEF LoopsInv, LoopOk
  <2>5. it.h \in Addr /\ it.i \in Nat /\ it.n \in Nat
    BY <2>2, <2>3, ItemTypes
  <2>6. it.i >= 1 /\ it.n <= Len(heap[it.h].elems) /\ Anchored(it.h, i)
    BY <2>1, <2>2, <2>3 DEF WalkInv, AgendaInv, ItemInv
  <2>7. Anchored(it.h, 1)
    <3>1. \A j \in DOMAIN todo : j > i => j > 1
      BY <1>2, <2>1
    <3>2. QED
      BY <2>6, <3>1 DEF Anchored
  <2>8. Len(heap[it.h].elems) \in Nat
    BY <2>5, CellTyped DEF WalkInv, TypeOK
  <2>9. SameToLoops(heap[it.h], heap'[it.h])
    BY <2>5, <2>7
  <2>10. Left(heap'[it.h], it.i, it.n) = Left(heap[it.h], it.i, it.n)
    BY <2>5, <2>6, <2>8, <2>9, LeftSame
  <2>11. QED
    BY <2>4, <2>9, <2>10 DEF SameToLoops
<1>4. ASSUME NEW k \in DOMAIN todo'
      PROVE  LoopOk(todo'[k], heap')
  <2>1. k \in 1..Len(items) \/ k \in (Len(items) + 1)..Len(todo')
    BY <1>1
  <2>2. QED
    BY <1>1, <1>3, <2>1
<1>5. QED
  BY <1>4 DEF LoopsInv

LEMMA LoopsQuiet ==
  ASSUME WalkInv, LoopsInv, todo # << >>, NEW items \in Seq(Item), Do(items), heap' = heap,
         \A k \in 1..Len(items) : LoopOk(items[k], heap)
  PROVE  LoopsInv'
<1>1. \A h \in Addr : SameToLoops(heap[h], heap'[h])
  BY DEF SameToLoops
<1>2. QED
  BY <1>1, LoopsStep DEF LoopsInv

LEMMA OtherItemsOk ==
  /\ \A z, H : LoopOk(Value(z), H)
  /\ \A o, names, H : LoopOk(Sleep(o, names), H)
  /\ \A a, H : LoopOk(Dtor(a), H)
BY DEF LoopOk, Value, Sleep, Dtor

LEMMA NewLoopOk ==
  ASSUME NEW H \in [Addr -> Cell], NEW h \in Addr, Named(H[h]), H[h].kind # "ref"
  PROVE  /\ Loop(h, H[h]) \in Seq(Item)
         /\ \A k \in 1..Len(Loop(h, H[h])) : LoopOk(Loop(h, H[h])[k], H)
         /\ Loop(h, H[h]) \o << Dtor(h) >> \in Seq(Item)
         /\ \A k \in 1..Len(Loop(h, H[h]) \o << Dtor(h) >>) :
              LoopOk((Loop(h, H[h]) \o << Dtor(h) >>)[k], H)
<1>1. PICK c \in Cell : c = H[h]
  OBVIOUS
<1>2. Len(c.elems) \in Nat /\ Count(c) \in Nat
  BY CellTyped
<1> DEFINE it == Table(h, 1, Len(c.elems), Count(c))
           d  == Dtor(h)
<1>3. /\ it \in Item /\ it.op = "table" /\ it.h = h /\ it.i = 1 /\ it.n = Len(c.elems)
      /\ it.left = Count(c) /\ d \in Item
  BY <1>2, ItemShapes DEF Table
<1>4. LoopOk(it, H) /\ LoopOk(d, H)
  BY <1>1, <1>3, LeftAll, OtherItemsOk DEF LoopOk
<1>5. Loop(h, c) = IF Count(c) = 0 THEN << >> ELSE << it >>
  BY DEF Loop
<1> HIDE DEF it, d
<1>6. CASE Count(c) = 0
  <2>1. Loop(h, c) = << >> /\ Loop(h, c) \o << d >> = << d >>
    BY <1>3, <1>5, <1>6
  <2>2. << d >> \in Seq(Item) /\ Len(<< d >>) = 1 /\ << d >>[1] = d
    BY <1>3
  <2>3. QED
    BY <1>1, <1>4, <2>1, <2>2, NoItems DEF d
<1>7. CASE Count(c) # 0
  <2> DEFINE s == Loop(h, c) \o << d >>
  <2>1. Loop(h, c) = << it >>
    BY <1>5, <1>7
  <2>2. << it >> \in Seq(Item) /\ Len(<< it >>) = 1 /\ << it >>[1] = it
    BY <1>3
  <2>3. s \in Seq(Item) /\ Len(s) = 2 /\ s[1] = it /\ s[2] = d
    BY <1>3, <2>1
  <2> HIDE DEF s
  <2>4. \A k \in 1..Len(s) : LoopOk(s[k], H)
    BY <1>4, <2>3
  <2>5. \A k \in 1..Len(<< it >>) : LoopOk(<< it >>[k], H)
    BY <1>4, <2>2
  <2>6. QED
    BY <1>1, <2>1, <2>2, <2>3, <2>4, <2>5 DEF s, d
<1>8. QED
  BY <1>6, <1>7

\* what user code, which may unset properties, leaves of the tables
LEMMA UserKeepsLoops ==
  ASSUME WalkInv, LoopsInv, NamedOnce, RefWrites = {}, NEW z, z.v \in Live(heap, Held),
         NEW H, NEW new, NEW ret, UserCode(z, H, new, ret),
         \A a \in Addr : heap'[a] = H[a] \/ heap'[a].kind = "arr" \/ heap'[a] \in TempCells
  PROVE  /\ \A h \in Addr : Anchored(h, 1) => SameToLoops(heap[h], heap'[h])
         /\ \A a \in Addr : Named(heap'[a])
<1>1. heap \in [Addr -> Cell]
  BY DEF WalkInv, TypeOK
<1>2. H \in Unsets(HeldWith(z.v)) /\ AllocatedIn(heap', new, ret, H, HeldWith(z.v))
  BY DEF UserCode
<1>3. \A a \in Addr : SameToLoops(heap[a], H[a]) /\ Named(H[a])
  BY <1>1, <1>2, UnsetsKeepLoops DEF LoopsInv
<1>4. ASSUME NEW h \in Addr, Anchored(h, 1)
      PROVE  SameToLoops(heap[h], heap'[h])
  <2>1. h \in Live(H, HeldWith(z.v))
    BY <1>4, AnchoredIsLive
  <2>2. heap'[h] = H[h]
    BY <1>2, <2>1 DEF AllocatedIn
  <2>3. QED
    BY <1>3, <2>2
<1>5. ASSUME NEW a \in Addr
      PROVE  Named(heap'[a])
  <2>1. CASE heap'[a].kind = "arr"
    BY <2>1 DEF Named, Incomplete
  <2>2. CASE heap'[a] # H[a] /\ heap'[a].kind # "arr"
    BY <2>2 DEF NamedOnce
  <2>3. QED
    BY <1>3, <2>1, <2>2
<1>6. QED
  BY <1>4, <1>5

LEMMA OneItem ==
  ASSUME NEW it \in Item, NEW H, LoopOk(it, H)
  PROVE  /\ << it >> \in Seq(Item)
         /\ \A k \in 1..Len(<< it >>) : LoopOk(<< it >>[k], H)
<1>1. << it >> \in Seq(Item) /\ Len(<< it >>) = 1 /\ << it >>[1] = it
  OBVIOUS
<1>2. QED
  BY <1>1

LEMMA NoLoopQueued ==
  ASSUME WalkInv, LoopsInv, todo # << >>, heap' = heap,
         \/ Do(<< >>)
         \/ \E z \in Zval : Do(<< Value(z) >>)
  PROVE  LoopsInv'
<1>1. CASE Do(<< >>)
  BY <1>1, NoItems, LoopsQuiet
<1>2. ASSUME NEW z \in Zval, Do(<< Value(z) >>)
      PROVE  LoopsInv'
  <2>1. Value(z) \in Item /\ LoopOk(Value(z), heap)
    BY ItemShapes, OtherItemsOk
  <2>2. QED
    BY <1>2, <2>1, OneItem, LoopsQuiet
<1>3. QED
  BY <1>1, <1>2

LEMMA LoopQueued ==
  ASSUME WalkInv, LoopsInv, todo # << >>, heap' = heap,
         NEW h \in Addr, heap[h].kind # "ref", Do(Loop(h, heap[h]))
  PROVE  LoopsInv'
<1>1. heap \in [Addr -> Cell] /\ Named(heap[h])
  BY DEF WalkInv, TypeOK, LoopsInv
<1>2. QED
  BY <1>1, NewLoopOk, LoopsQuiet

LEMMA ZvalKeepsLoops ==
  ASSUME WalkInv, LoopsInv, SerializeZval
  PROVE  LoopsInv'
<1>1. CASE StackOverflows \/ TooManyStrings \/ TooManyReferences
  BY <1>1 DEF StackOverflows, TooManyStrings, TooManyReferences, Fail, LoopsInv
<1>2. CASE SerializeScalar \/ SerializeStringAgain \/ SerializeStringNew \/ SerializeArrayAgain
           \/ SerializeReferenceAgain
  <2>1. At("zval") /\ Do(<< >>) /\ heap' = heap
    BY <1>2 DEF SerializeScalar, SerializeStringAgain, SerializeStringNew, SerializeArrayAgain,
                SerializeReferenceAgain, AtZval
  <2>2. QED
    BY <2>1, NoLoopQueued DEF At
<1>3. CASE SerializeArrayNew
  <2>1. At("zval") /\ Z.t \in Counted /\ Z.t # "ref" /\ Do(Loop(Z.v, heap[Z.v])) /\ heap' = heap
    BY <1>3 DEF SerializeArrayNew, AtZval, Z, Counted
  <2>2. QED
    BY <2>1, AtZvalFacts, LoopQueued DEF At
<1>4. ASSUME AtZval({"ref"}), heap' = heap, Do(<< Value(Boxed(Z)) >>)
      PROVE  LoopsInv'
  BY <1>4, BoxedIsLive, NoLoopQueued DEF AtZval, At
<1>5. CASE SerializeReferenceUnshared \/ SerializeReferenceToObject
  BY <1>4, <1>5 DEF SerializeReferenceUnshared, SerializeReferenceToObject
<1>6. CASE SerializeReferenceNew
  <2>1. AtZval({"ref"}) /\ heap' = heap /\ todo # << >>
    BY <1>6 DEF SerializeReferenceNew, AtZval, At
  <2>2. CASE Boxed(Z).t = "arr"
    <3>1. Do(Loop(Boxed(Z).v, heap[Boxed(Z).v]))
      BY <1>6, <2>2 DEF SerializeReferenceNew
    <3>2. Boxed(Z).v \in Addr /\ heap[Boxed(Z).v].kind # "ref"
      BY <2>1, <2>2, BoxedIsLive, HeldAreLive DEF Counted, PointsAt
    <3>3. QED
      BY <2>1, <3>1, <3>2, LoopQueued
  <2>3. CASE Boxed(Z).t # "arr"
    BY <1>4, <1>6, <2>1, <2>3 DEF SerializeReferenceNew
  <2>4. QED
    BY <2>2, <2>3
<1>7. QED
  BY <1>1, <1>2, <1>3, <1>5, <1>6 DEF SerializeZval

LEMMA ObjectKeepsLoops ==
  ASSUME WalkInv, LoopsInv, NamedOnce, RefWrites = {}, SerializeObject
  PROVE  LoopsInv'
<1>1. CASE SerializeObjectThrows \/ TooManyStringsForName
  BY <1>1 DEF SerializeObjectThrows, TooManyStringsForName, Fail, LoopsInv
<1>2. SUFFICES ASSUME AtZval({"obj"}) PROVE LoopsInv'
  BY <1>1 DEF SerializeObject, SerializeObjectAgain, SerializeObjectPlain, SerializeObjectEnum,
     SerializeObjectMagic, SerializeObjectData, SerializeObjectNull, SerializeObjectSleep,
     NewNamedObject, NewObject
<1>3. /\ todo # << >> /\ Z.v \in Live(heap, Held) /\ Z.v \in Addr /\ heap[Z.v] \in Cell
      /\ heap[Z.v].kind = "obj"
  BY <1>2, ObjectFacts, AtZvalFacts DEF AtZval, Counted
<1>4. CASE SerializeObjectAgain
  BY <1>3, <1>4, NoLoopQueued DEF SerializeObjectAgain
<1>5. CASE SerializeObjectPlain
  BY <1>3, <1>5, LoopQueued DEF SerializeObjectPlain
<1>6. CASE SerializeObjectEnum
  <2>1. Fixed(heap[Z.v])
    BY <1>3, <1>6 DEF SerializeObjectEnum, NewNamedObject, NewObject, Fixed, Cls
  <2>2. 1 \in DOMAIN heap[Z.v].elems
    BY <1>3, <2>1, CellTyped DEF WalkInv, HeapInv, CellsOK
  <2>3. heap[Z.v].elems[1].v \in Zval
    BY <1>3, <2>2, CellTyped
  <2>4. QED
    BY <1>3, <1>6, <2>3, NoLoopQueued DEF SerializeObjectEnum
<1>7. CASE SerializeObjectMagic
  <2>0. PICK H \in Unsets(HeldWith(Z.v)) : \E G, new, ret :
            /\ AllocatedIn(G, new, ret, H, HeldWith(Z.v)) /\ Returned(G, new, ret)
            /\ \A a \in Addr : G[a] = H[a] \/ G[a].kind = "arr" \/ G[a] \in TempCells
            /\ G[ret].kind = "arr"
    BY <1>7, WhatIsReturned
  <2>1. PICK G, new, ret :
            /\ AllocatedIn(G, new, ret, H, HeldWith(Z.v)) /\ Returned(G, new, ret)
            /\ \A a \in Addr : G[a] = H[a] \/ G[a].kind = "arr" \/ G[a] \in TempCells
            /\ G[ret].kind = "arr"
    BY <2>0
  <2>2. /\ heap' = G /\ Do(Loop(ret, G[ret]) \o << Dtor(ret) >>)
        /\ birth' = [a \in Addr |-> IF a \in new THEN birth[a] + 1 ELSE birth[a]]
    BY <2>1 DEF Returned
  <2>3. UserCode(Z, H, new, ret)
    BY <2>1, <2>2 DEF UserCode, WalkInv, TypeOK
  <2>4. /\ \A h \in Addr : Anchored(h, 1) => SameToLoops(heap[h], heap'[h])
        /\ \A a \in Addr : Named(heap'[a])
    BY <1>3, <2>1, <2>2, <2>3, UserKeepsLoops
  <2>5. G \in [Addr -> Cell] /\ ret \in Addr
    BY <2>1, HeldAreLive DEF AllocatedIn
  <2> DEFINE items == Loop(ret, G[ret]) \o << Dtor(ret) >>
  <2>6. items \in Seq(Item) /\ \A k \in 1..Len(items) : LoopOk(items[k], heap')
    BY <2>1, <2>2, <2>4, <2>5, NewLoopOk
  <2>7. Do(items)
    BY <2>2
  <2> HIDE DEF items
  <2>8. QED
    BY <1>3, <2>4, <2>6, <2>7, LoopsStep
<1>8. ASSUME heap' \in Unsets(HeldWith(Z.v)), birth' = birth,
             NEW items \in Seq(Item), Do(items), \A k \in 1..Len(items) : LoopOk(items[k], heap')
      PROVE  LoopsInv'
  <2>1. UserCode(Z, heap', {}, Z.v)
    BY <1>3, <1>8, NothingAllocated
  <2>2. /\ \A h \in Addr : Anchored(h, 1) => SameToLoops(heap[h], heap'[h])
        /\ \A a \in Addr : Named(heap'[a])
    BY <1>3, <2>1, UserKeepsLoops
  <2>3. QED
    BY <1>3, <1>8, <2>2, LoopsStep
<1>9. CASE SerializeObjectData \/ SerializeObjectNull
  BY <1>8, <1>9, NoItems DEF SerializeObjectData, SerializeObjectNull
<1>10. CASE SerializeObjectSleep
  <2>1. heap' \in Unsets(HeldWith(Z.v)) /\ birth' = birth
    BY <1>10 DEF SerializeObjectSleep
  <2>2. PICK names \in SleepResults(Z.v) : Do(IF names = << >> THEN << >> ELSE << Sleep(Z.v, names) >>)
    BY <1>10 DEF SerializeObjectSleep
  <2>3. CASE names = << >>
    BY <1>8, <2>1, <2>2, <2>3, NoItems
  <2>4. CASE names # << >>
    <3>1. names \in Seq(Str \cup {NoVal})
      BY <1>3, SleepTyped
    <3>2. Sleep(Z.v, names) \in Item /\ LoopOk(Sleep(Z.v, names), heap')
      BY <1>3, <3>1, ItemShapes, OtherItemsOk
    <3>3. Do(<< Sleep(Z.v, names) >>)
      BY <2>2, <2>4
    <3>4. QED
      BY <1>8, <2>1, <3>2, <3>3, OneItem
  <2>5. QED
    BY <2>3, <2>4
<1>11. QED
  BY <1>1, <1>4, <1>5, <1>6, <1>7, <1>9, <1>10 DEF SerializeObject

LEMMA SleepItems ==
  ASSUME WalkInv, SleepNotAString \/ SleepProperty
  PROVE  \E s \in Seq(Item) : Do(s) /\ \A k \in 1..Len(s) : s[k].op # "table"
<1> DEFINE S == Str \cup {NoVal}
<1>1. /\ At("sleep") /\ Top = todo[1] /\ Top \in Item /\ Top.op = "sleep" /\ ItemInv(1)
  BY AtHead DEF SleepNotAString, SleepProperty, Top
<1>2. Top.o \in Addr /\ Top.names \in Seq(S) /\ Top.names # << >>
  BY <1>1, ItemTypes DEF ItemInv
<1>3. Head(Top.names) \in S /\ Tail(Top.names) \in Seq(S)
  BY <1>2, HeadTailProperties
<1>4. RestOfNames \in Seq(Item) /\ \A k \in 1..Len(RestOfNames) : RestOfNames[k].op # "table"
  <2>1. CASE Len(Top.names) = 1
    BY <2>1, NoItems DEF RestOfNames
  <2>2. CASE Len(Top.names) # 1
    <3>1. RestOfNames = << Sleep(Top.o, Tail(Top.names)) >>
      BY <2>2 DEF RestOfNames
    <3>2. PICK it \in Item : it = Sleep(Top.o, Tail(Top.names)) /\ it.op # "table"
      <4>1. PICK rest \in Seq(S) : rest = Tail(Top.names)
        BY <1>3
      <4>2. Sleep(Top.o, rest) \in Item /\ Sleep(Top.o, rest).op = "sleep"
        BY <1>2, ItemShapes
      <4>3. QED
        BY <4>1, <4>2
    <3>3. << it >> \in Seq(Item) /\ Len(<< it >>) = 1 /\ << it >>[1] = it
      OBVIOUS
    <3>4. QED
      BY <3>1, <3>2, <3>3
  <2>3. QED
    BY <2>1, <2>2
<1>5. CASE SleepNotAString
  BY <1>4, <1>5 DEF SleepNotAString
<1>6. CASE SleepProperty
  <2>1. PICK z : /\ z \in {heap[Top.o].elems[i].v : i \in Slots} \cup {Null}
                 /\ Do(<< Value(Text(Name)), Value(z) >> \o RestOfNames)
    BY <1>6 DEF SleepProperty
  <2>2. Top.o \in Live(heap, Held)
    BY <1>1, HeldAreLive DEF ItemInv, Held, WalkInv, TypeOK
  <2>3. z \in Zval
    <3>1. CASE z = Null
      BY <3>1 DEF Zval
    <3>2. CASE z \in {heap[Top.o].elems[i].v : i \in Slots}
      BY <2>2, <3>2, ElementIsLive DEF Slots
    <3>3. QED
      BY <2>1, <3>1, <3>2
  <2>4. Text(Name) \in Zval
    <3>1. Name \in Str
      BY <1>3, <1>6 DEF SleepProperty, Name
    <3>2. QED
      BY <3>1 DEF Text, Zval, Key
  <2>5. PICK a \in Item, b \in Item :
          a = Value(Text(Name)) /\ b = Value(z) /\ a.op # "table" /\ b.op # "table"
    BY <2>3, <2>4, ItemShapes
  <2> DEFINE p == << a, b >>
             r == RestOfNames
             s == p \o r
  <2>6. p \in Seq(Item) /\ Len(p) = 2 /\ p[1] = a /\ p[2] = b
    OBVIOUS
  <2> HIDE DEF p, r
  <2>7. /\ s \in Seq(Item) /\ Len(s) = Len(p) + Len(r)
        /\ \A i \in 1..(Len(p) + Len(r)) : s[i] = IF i <= Len(p) THEN p[i] ELSE r[i - Len(p)]
    BY <1>4, <2>6, ConcatProperties DEF r
  <2>8. Do(s)
    BY <2>1, <2>5 DEF p, r
  <2> HIDE DEF s
  <2>9. \A k \in 1..Len(s) : s[k].op # "table"
    <3> TAKE k \in 1..Len(s)
    <3>1. Len(r) \in Nat
      BY <1>4, LenProperties DEF r
    <3>2. CASE k <= 2
      <4>1. (k = 1 \/ k = 2) /\ s[k] = p[k]
        BY <2>6, <2>7, <3>1, <3>2
      <4>2. QED
        BY <2>5, <2>6, <4>1
    <3>3. CASE k > 2
      <4>1. k - 2 \in 1..Len(r) /\ s[k] = r[k - 2]
        BY <2>6, <2>7, <3>1, <3>3
      <4>2. QED
        BY <1>4, <4>1 DEF r
    <3>4. QED
      BY <3>2, <3>3
  <2>10. QED
    BY <2>7, <2>8, <2>9
<1>7. QED
  BY <1>5, <1>6

LEMMA TableKeepsLoops ==
  ASSUME WalkInv, LoopsInv, SerializeTable
  PROVE  LoopsInv'
<1>1. todo # << >> /\ heap' = heap /\ heap \in [Addr -> Cell]
  BY DEF SerializeTable, SkipMagic, SkipDeleted, PadUnset, SerializeEntry, EndTable,
         ReleaseReturned, SleepNotAString, SleepProperty, SleepUninitialized, Fail, AtBucket, At,
         WalkInv, TypeOK
<1>2. CASE EndTable \/ ReleaseReturned
  BY <1>1, <1>2, NoLoopQueued DEF EndTable, ReleaseReturned
<1>3. CASE SleepUninitialized
  BY <1>3 DEF SleepUninitialized, Fail, LoopsInv
<1>4. ASSUME AtBucket
      PROVE  /\ Top \in Item /\ Top.h \in Addr /\ Top.i \in Nat /\ Top.n \in Nat /\ Top.left \in Int
             /\ Top.h \in Live(heap, Held) /\ Top.i \in DOMAIN heap[Top.h].elems
             /\ Entry.v \in Zval /\ Entry.k \in Key \cup {Null}
             /\ \A left \in Int :
                  /\ Advance(left) \in Item
                  /\ LoopOk(Advance(left), heap) <=> left = Left(heap[Top.h], Top.i + 1, Top.n)
             /\ Written(heap[Top.h], Top.i) => LoopOk(Advance(Top.left - 1), heap)
             /\ ~Written(heap[Top.h], Top.i) => LoopOk(Advance(Top.left), heap)
  <2>1. At("table") /\ Top.i <= Top.n /\ Top = todo[1] /\ Top \in Item /\ Top.op = "table"
        /\ ItemInv(1) /\ 1 \in DOMAIN todo
    BY <1>4, AtHead DEF AtBucket, Top
  <2>2. Top.h \in Addr /\ Top.i \in Nat /\ Top.n \in Nat /\ Top.left \in Int
    BY <2>1 DEF Item
  <2>3. Top.i >= 1 /\ Top.n <= Len(heap[Top.h].elems) /\ Anchored(Top.h, 1)
    BY <2>1 DEF ItemInv
  <2>4. Top.h \in Live(heap, Held) /\ Top.i \in DOMAIN heap[Top.h].elems
    BY <1>1, <2>1, <2>2, <2>3, AnchoredNow, CellTyped
  <2>5. Entry.v \in Zval /\ Entry.k \in Key \cup {Null}
    BY <2>4, ElementIsLive DEF Entry
  <2>6. heap[Top.h].kind # "ref" /\ Top.left = Left(heap[Top.h], Top.i, Top.n)
    BY <2>1 DEF LoopsInv, LoopOk
  <2>7. \A left \in Int :
           /\ Advance(left) \in Item
           /\ LoopOk(Advance(left), heap) <=> left = Left(heap[Top.h], Top.i + 1, Top.n)
    <3> TAKE left \in Int
    <3>1. Top.i + 1 \in Nat
      BY <2>2
    <3>2. Advance(left) \in Item
      BY <2>2, <3>1, ItemShapes DEF Advance
    <3>3. QED
      BY <2>6, <3>2 DEF LoopOk, Advance, Table
  <2>8. /\ Written(heap[Top.h], Top.i) => Top.left - 1 = Left(heap[Top.h], Top.i + 1, Top.n)
        /\ ~Written(heap[Top.h], Top.i) => Top.left = Left(heap[Top.h], Top.i + 1, Top.n)
    BY <2>1, <2>2, <2>6, LeftStep
  <2>9. QED
    BY <2>1, <2>2, <2>4, <2>5, <2>7, <2>8
<1>5. CASE SkipMagic \/ SkipDeleted
  <2>1. AtBucket /\ Do(<< Advance(Top.left) >>) /\ ~Written(heap[Top.h], Top.i)
    BY <1>5 DEF SkipMagic, SkipDeleted, AtMagic, Entry, Written, Incomplete
  <2>2. QED
    BY <1>1, <1>4, <2>1, OneItem, LoopsQuiet
<1>6. CASE PadUnset
  <2>1. AtBucket /\ Do(<< Advance(Top.left - 1) >>) /\ Written(heap[Top.h], Top.i)
    BY <1>6 DEF PadUnset, AtMagic, Entry, Written
  <2>2. Top.left - 1 \in Int
    BY <1>4, <2>1
  <2>3. QED
    BY <1>1, <1>4, <2>1, <2>2, OneItem, LoopsQuiet
<1>7. CASE SerializeEntry
  <2> DEFINE it == Advance(Top.left - 1)
             a == Value(Entry.k)
             b == Value(Entry.v)
             s == << a, b, it >>
  <2>1. AtBucket /\ Do(s) /\ Written(heap[Top.h], Top.i)
    BY <1>7 DEF SerializeEntry, AtMagic, Entry, Written
  <2>2. Top.left - 1 \in Int /\ Entry.k \in Zval /\ Entry.v \in Zval
    BY <1>4, <2>1 DEF Zval
  <2>3. it \in Item /\ LoopOk(it, heap)
    BY <1>4, <2>1, <2>2
  <2>4. a \in Item /\ LoopOk(a, heap) /\ b \in Item /\ LoopOk(b, heap)
    BY <2>2, ItemShapes, OtherItemsOk
  <2> HIDE DEF it, a, b
  <2>5. s \in Seq(Item) /\ Len(s) = 3 /\ s[1] = a /\ s[2] = b /\ s[3] = it
    BY <2>3, <2>4
  <2> HIDE DEF s
  <2>6. \A k \in 1..Len(s) : LoopOk(s[k], heap)
    BY <2>3, <2>4, <2>5
  <2>7. QED
    BY <1>1, <2>1, <2>5, <2>6, LoopsQuiet
<1>8. CASE SleepNotAString \/ SleepProperty
  <2>1. /\ At("sleep") /\ Top = todo[1] /\ Top \in Item /\ Top.op = "sleep"
        /\ ItemInv(1) /\ todo \in Seq(Item)
    BY <1>8, AtHead DEF SleepNotAString, SleepProperty, Top, WalkInv, TypeOK
  <2>2. /\ Top.o \in Addr /\ Top.names \in Seq(Str \cup {NoVal}) /\ Top.names # << >>
    BY <2>1 DEF Item, ItemInv
  <2>3. PICK s \in Seq(Item) : Do(s) /\ \A k \in 1..Len(s) : s[k].op # "table"
    BY <1>8, <2>1, <2>2, SleepItems
  <2>4. \A k \in 1..Len(s) : LoopOk(s[k], heap)
    BY <2>3 DEF LoopOk
  <2>5. QED
    BY <1>1, <2>3, <2>4, LoopsQuiet
<1>9. QED
  BY <1>2, <1>3, <1>5, <1>6, <1>7, <1>8 DEF SerializeTable

LEMMA LoopsAtStart ==
  ASSUME NamedOnce, Init
  PROVE  LoopsInv
<1>1. \A a \in Addr : Named(heap[a])
  BY DEF Init, NamedOnce
<1>2. \A k \in DOMAIN todo : LoopOk(todo[k], heap)
  <2>1. todo = << Value(root) >>
    BY DEF Init
  <2>2. DOMAIN todo = {1} /\ todo[1] = Value(root)
    BY <2>1
  <2>3. QED
    BY <2>2, OtherItemsOk
<1>3. QED
  BY <1>1, <1>2 DEF LoopsInv

LEMMA LoopsKept ==
  ASSUME NamedOnce, RefWrites = {}, WalkInv, LoopsInv, [Next]_vars
  PROVE  LoopsInv'
<1>1. CASE SerializeZval
  BY <1>1, ZvalKeepsLoops
<1>2. CASE SerializeObject
  BY <1>2, ObjectKeepsLoops
<1>3. CASE SerializeTable
  BY <1>3, TableKeepsLoops
<1>4. CASE Deinit
  <2>1. heap' = heap /\ todo' = << >> /\ DOMAIN << >> = {}
    BY <1>4 DEF Deinit
  <2>2. QED
    BY <2>1 DEF LoopsInv
<1>5. CASE UNCHANGED vars
  BY <1>5 DEF vars, LoopsInv
<1>6. QED
  BY <1>1, <1>2, <1>3, <1>4, <1>5 DEF Next

\* Where an incomplete object keeps the name of its class once, and user code
\* writes through no reference of its own, a loop writes as many entries as its
\* header has announced (igbinary_serialize_array).
THEOREM LoopsWriteTheirCount ==
  ASSUME NamedOnce, RefWrites = {}
  PROVE  Spec => []HeadersHonoured
<1>1. "assign" \notin RefWrites
  OBVIOUS
<1>2. Init => LoopsInv
  BY LoopsAtStart
<1>3. WalkInv /\ LoopsInv /\ [Next]_vars => LoopsInv'
  BY LoopsKept
<1>4. WalkInv /\ LoopsInv => HeadersHonoured
  <2> SUFFICES ASSUME WalkInv, LoopsInv, At("table"), Top.i > Top.n PROVE Top.left = 0
    BY DEF HeadersHonoured
  <2>1. Top = todo[1] /\ Top \in Item /\ Top.op = "table" /\ 1 \in DOMAIN todo
    BY AtHead DEF Top
  <2>2. Top.i \in Int /\ Top.n \in Int
    BY <2>1 DEF Item
  <2>3. Top.left = Left(heap[Top.h], Top.i, Top.n)
    BY <2>1 DEF LoopsInv, LoopOk
  <2>4. QED
    BY <2>2, <2>3, LeftNone
<1>5. QED
  BY <1>1, <1>2, <1>3, <1>4, WalkInvInductive, PTL DEF Spec

(***************************************************************************)
(* Every token written has the operand that the reader takes from it.      *)
(***************************************************************************)
WellWritten == \A i \in DOMAIN buffer : WellFormed(buffer[i])

LEMMA OneWellWritten ==
  ASSUME WalkInv, WellWritten, NEW t, WellFormed(t), Emit(<< t >>)
  PROVE  WellWritten'
<1>1. buffer \in Seq(Token) /\ buffer' = buffer \o << t >>
  BY DEF WalkInv, TypeOK, Emit
<1>2. /\ Len(buffer) \in Nat /\ DOMAIN buffer = 1..Len(buffer)
      /\ DOMAIN buffer' = 1..(Len(buffer) + 1)
      /\ \A i \in 1..Len(buffer) : buffer'[i] = buffer[i]
      /\ buffer'[Len(buffer) + 1] = t
  BY <1>1, PutOne
<1>3. ASSUME NEW i \in DOMAIN buffer'
      PROVE  WellFormed(buffer'[i])
  <2>1. i \in 1..Len(buffer) \/ i = Len(buffer) + 1
    BY <1>2
  <2>2. CASE i \in 1..Len(buffer)
    <3>1. buffer'[i] = buffer[i] /\ WellFormed(buffer[i])
      BY <1>2, <2>2 DEF WellWritten
    <3>2. QED
      BY <3>1
  <2>3. CASE i = Len(buffer) + 1
    BY <1>2, <2>3
  <2>4. QED
    BY <2>1, <2>2, <2>3
<1>4. QED
  BY <1>3 DEF WellWritten

LEMMA TwoWellWritten ==
  ASSUME WalkInv, WellWritten, NEW t, NEW u, WellFormed(t), WellFormed(u), Emit(<< t, u >>)
  PROVE  WellWritten'
<1> DEFINE b == buffer \o << t >>
<1>1. buffer \in Seq(Token)
  BY DEF WalkInv, TypeOK
<1>2. buffer' = b \o << u >>
  BY <1>1, PutTwo DEF Emit
<1>3. /\ b \in Seq(Token \cup {t})
      /\ Len(buffer) \in Nat /\ DOMAIN buffer = 1..Len(buffer)
      /\ Len(b) = Len(buffer) + 1 /\ DOMAIN b = 1..(Len(buffer) + 1)
      /\ \A i \in 1..Len(buffer) : b[i] = buffer[i]
      /\ b[Len(buffer) + 1] = t
  BY <1>1, PutOne
<1> HIDE DEF b
<1>4. /\ DOMAIN buffer' = 1..(Len(b) + 1) /\ buffer'[Len(b) + 1] = u
      /\ \A i \in 1..Len(b) : buffer'[i] = b[i]
  BY <1>2, <1>3, PutOne
<1>5. ASSUME NEW i \in DOMAIN buffer'
      PROVE  WellFormed(buffer'[i])
  <2>1. i \in 1..Len(buffer) \/ i = Len(buffer) + 1 \/ i = Len(b) + 1
    BY <1>3, <1>4
  <2>2. CASE i \in 1..Len(buffer)
    <3>1. i \in 1..Len(b)
      BY <1>3, <2>2
    <3>2. buffer'[i] = buffer[i] /\ WellFormed(buffer[i])
      BY <1>3, <1>4, <2>2, <3>1 DEF WellWritten
    <3>3. QED
      BY <3>2
  <2>3. CASE i = Len(buffer) + 1
    BY <1>3, <1>4, <2>3
  <2>4. CASE i = Len(b) + 1
    BY <1>4, <2>4
  <2>5. QED
    BY <2>1, <2>2, <2>3, <2>4
<1>6. QED
  BY <1>5 DEF WellWritten

LEMMA NoneWritten ==
  ASSUME WellWritten, buffer' = buffer
  PROVE  WellWritten'
BY DEF WellWritten

\* the tokens whose operand is a number or a string
LEMMA OperandsOfTokens ==
  /\ \A v, src : /\ v \in Ints => WellFormed(Tok("long", v, src))
                 /\ v \in Str => WellFormed(Tok("str", v, src)) /\ WellFormed(Tok("obj", v, src))
                 /\ v \in Nat => /\ WellFormed(Tok("strid", v, src)) /\ WellFormed(Tok("objid", v, src))
                                 /\ WellFormed(Tok("arr", v, src)) /\ WellFormed(Tok("refid", v, src))
                                 /\ WellFormed(Tok("objref", v, src))
  /\ \A v, src : /\ WellFormed(Tok("null", v, src)) /\ WellFormed(Tok("empty", v, src))
                 /\ WellFormed(Tok("enum", v, src)) /\ WellFormed(Tok("objser", v, src))
                 /\ WellFormed(Tok("ref", v, src))
BY DEF WellFormed, Tok

LEMMA HeaderWellFormed ==
  ASSUME NEW c \in Cell, NEW src
  PROVE  WellFormed(Header(c, src))
BY CellTyped, OperandsOfTokens DEF Header

LEMMA NameWellFormed ==
  ASSUME WalkInv, NEW c \in Str, NEW src
  PROVE  WellFormed(NameTok(c, src))
<1>1. strings[c] # NoId => strings[c] \in Nat
  BY DEF WalkInv, TypeOK
<1>2. QED
  BY <1>1, OperandsOfTokens DEF NameTok

LEMMA BackRefWellFormed ==
  ASSUME WalkInv, NEW z \in Zval, z.t \in Counted, Seen(z)
  PROVE  WellFormed(BackRef(z))
<1>1. z.v \in Addr
  BY ScalarTyped
<1>2. references[KeyOf(z)] \in Nat
  BY <1>1 DEF Seen, KeyOf, WalkInv, TypeOK
<1>3. QED
  BY <1>2, OperandsOfTokens DEF BackRef

LEMMA ZvalWellWritten ==
  ASSUME WalkInv, WellWritten, SerializeZval
  PROVE  WellWritten'
<1>1. CASE StackOverflows \/ TooManyStrings \/ TooManyReferences \/ SerializeReferenceUnshared
  <2>1. buffer' = buffer
    BY <1>1 DEF StackOverflows, TooManyStrings, TooManyReferences, SerializeReferenceUnshared, Fail
  <2>2. QED
    BY <2>1, NoneWritten
<1>2. CASE SerializeScalar
  <2> DEFINE t == IF Z.t = "long" THEN Tok("long", Z.v, NoVal) ELSE Tok("null", NoVal, NoVal)
  <2>1. At("zval") /\ Emit(<< t >>)
    BY <1>2 DEF SerializeScalar, AtZval
  <2>2. Z \in Zval
    BY <2>1, AtZvalFacts
  <2>3. WellFormed(t)
    BY <2>2, ScalarTyped, OperandsOfTokens
  <2> HIDE DEF t
  <2>4. QED
    BY <2>1, <2>3, OneWellWritten
<1>3. CASE SerializeStringAgain
  <2> DEFINE t == IF Z.v = EmptyStr THEN Tok("empty", NoVal, NoVal)
                                    ELSE Tok("strid", strings[Z.v], Z.v)
  <2>1. At("zval") /\ Z.t = "str" /\ Emit(<< t >>) /\ (Z.v = EmptyStr \/ Known(Z.v))
    BY <1>3 DEF SerializeStringAgain, AtZval, Z
  <2>2. Z.v \in Str
    BY <2>1, AtZvalFacts, ScalarTyped
  <2>3. Z.v # EmptyStr => strings[Z.v] \in Nat
    BY <2>1, <2>2 DEF Known, WalkInv, TypeOK
  <2>4. WellFormed(t)
    BY <2>3, OperandsOfTokens
  <2> HIDE DEF t
  <2>5. QED
    BY <2>1, <2>4, OneWellWritten
<1>4. CASE SerializeStringNew
  <2>1. At("zval") /\ Z.t = "str" /\ Emit(<< Tok("str", Z.v, NoVal) >>)
    BY <1>4 DEF SerializeStringNew, AtZval, Z
  <2>2. WellFormed(Tok("str", Z.v, NoVal))
    BY <2>1, AtZvalFacts, ScalarTyped, OperandsOfTokens
  <2>3. QED
    BY <2>1, <2>2, OneWellWritten
<1>5. CASE SerializeArrayAgain
  <2>1. At("zval") /\ Z.t \in Counted /\ Seen(Z) /\ Emit(<< BackRef(Z) >>)
    BY <1>5 DEF SerializeArrayAgain, AtZval, Z, Counted
  <2>2. QED
    BY <2>1, AtZvalFacts, BackRefWellFormed, OneWellWritten
<1>6. CASE SerializeArrayNew
  <2>1. At("zval") /\ Z.t = "arr" /\ Z.t \in Counted /\ Emit(<< Header(heap[Z.v], Src(Z.v)) >>)
    BY <1>6 DEF SerializeArrayNew, AtZval, Z, Counted
  <2>2. heap[Z.v] \in Cell
    BY <2>1, AtZvalFacts
  <2>3. QED
    BY <2>1, <2>2, HeaderWellFormed, OneWellWritten
<1>7. CASE SerializeReferenceToObject
  <2>1. Emit(<< RefTok(Z) >>)
    BY <1>7 DEF SerializeReferenceToObject
  <2>2. QED
    BY <2>1, OperandsOfTokens, OneWellWritten DEF RefTok
<1>8. CASE SerializeReferenceAgain
  <2>1. /\ At("zval") /\ Z.t \in Counted /\ Seen(Z)
        /\ Emit(<< RefTok(Z), BackRef(Z) >>)
    BY <1>8 DEF SerializeReferenceAgain, AtZval, Z, Counted
  <2>2. WellFormed(RefTok(Z)) /\ WellFormed(BackRef(Z))
    BY <2>1, AtZvalFacts, BackRefWellFormed, OperandsOfTokens DEF RefTok
  <2>3. QED
    BY <2>1, <2>2, TwoWellWritten
<1>9. CASE SerializeReferenceNew
  <2>1. AtZval({"ref"}) /\ At("zval") /\ Z.t = "ref" /\ Z.t \in Counted
    BY <1>9 DEF SerializeReferenceNew, AtZval, Z, Counted
  <2>2. WellFormed(RefTok(Z))
    BY OperandsOfTokens DEF RefTok
  <2>3. CASE Boxed(Z).t = "arr"
    <3>1. Emit(<< RefTok(Z), Header(heap[Boxed(Z).v], Src(Z.v)) >>)
      BY <1>9, <2>3 DEF SerializeReferenceNew
    <3>2. Boxed(Z) \in Zval
      BY <2>1, BoxedIsLive
    <3>3. heap[Boxed(Z).v] \in Cell
      BY <2>3, <3>2, ScalarTyped DEF WalkInv, TypeOK, Counted
    <3>4. QED
      BY <2>2, <3>1, <3>3, HeaderWellFormed, TwoWellWritten
  <2>4. CASE Boxed(Z).t # "arr"
    <3>1. Emit(<< RefTok(Z) >>)
      BY <1>9, <2>4 DEF SerializeReferenceNew
    <3>2. QED
      BY <2>2, <3>1, OneWellWritten
  <2>5. QED
    BY <2>3, <2>4
<1>10. QED
  BY <1>1, <1>2, <1>3, <1>4, <1>5, <1>6, <1>7, <1>8, <1>9 DEF SerializeZval

LEMMA ObjectWellWritten ==
  ASSUME WalkInv, WellWritten, "assign" \notin RefWrites, SerializeObject
  PROVE  WellWritten'
<1>1. ASSUME AtZval({"obj"})
      PROVE  /\ heap[Z.v] \in Cell /\ Z \in Zval /\ Z.t \in Counted
             /\ WellFormed(NameTok(Cls, Src(Z.v))) /\ WellFormed(NameTok(ClassName, Src(Z.v)))
  BY <1>1, ObjectFacts, NameWellFormed DEF Counted
<1>2. CASE SerializeObjectAgain
  <2>1. AtZval({"obj"}) /\ Seen(Z) /\ Emit(<< BackRef(Z) >>)
    BY <1>2 DEF SerializeObjectAgain
  <2>2. QED
    BY <1>1, <2>1, BackRefWellFormed, OneWellWritten
<1>3. CASE SerializeObjectPlain
  <2>1. AtZval({"obj"}) /\ Emit(<< NameTok(ClassName, Src(Z.v)), Header(heap[Z.v], NoVal) >>)
    BY <1>3 DEF SerializeObjectPlain, NewObject
  <2>2. QED
    BY <1>1, <2>1, HeaderWellFormed, TwoWellWritten
<1>4. CASE SerializeObjectEnum
  <2>1. AtZval({"obj"}) /\ Emit(<< NameTok(Cls, Src(Z.v)), Tok("enum", NoVal, NoVal) >>)
    BY <1>4 DEF SerializeObjectEnum, NewNamedObject, NewObject
  <2>2. QED
    BY <1>1, <2>1, OperandsOfTokens, TwoWellWritten
<1>5. CASE SerializeObjectMagic
  <2>1. AtZval({"obj"})
    BY <1>5 DEF SerializeObjectMagic, NewNamedObject, NewObject
  <2>2. PICK H \in Unsets(HeldWith(Z.v)) : \E G, new, ret :
          AllocatedIn(G, new, ret, H, HeldWith(Z.v)) /\ Returned(G, new, ret)
    BY <1>5, WhatIsReturned
  <2>3. PICK G, new, ret : AllocatedIn(G, new, ret, H, HeldWith(Z.v)) /\ Returned(G, new, ret)
    BY <2>2
  <2>4. G[ret] \in Cell
    BY <2>3, HeldAreLive DEF AllocatedIn
  <2>5. Emit(<< NameTok(Cls, Src(Z.v)), Header(G[ret], NoVal) >>)
    BY <2>3 DEF Returned
  <2>6. QED
    BY <1>1, <2>1, <2>4, <2>5, HeaderWellFormed, TwoWellWritten
<1>6. CASE SerializeObjectData
  <2>1. AtZval({"obj"}) /\ Emit(<< NameTok(Cls, Src(Z.v)), Tok("objser", NoVal, NoVal) >>)
    BY <1>6 DEF SerializeObjectData, NewNamedObject, NewObject
  <2>2. QED
    BY <1>1, <2>1, OperandsOfTokens, TwoWellWritten
<1>7. CASE SerializeObjectNull
  <2>1. Emit(<< Tok("null", NoVal, NoVal) >>)
    BY <1>7 DEF SerializeObjectNull
  <2>2. QED
    BY <2>1, OperandsOfTokens, OneWellWritten
<1>8. CASE SerializeObjectSleep
  <2>1. AtZval({"obj"})
    BY <1>8 DEF SerializeObjectSleep, NewNamedObject, NewObject
  <2>2. PICK names \in SleepResults(Z.v) :
          Emit(<< NameTok(Cls, Src(Z.v)), Tok("arr", Len(names), NoVal) >>)
    BY <1>8 DEF SerializeObjectSleep
  <2>3. Len(names) \in Nat
    BY <2>2 DEF SleepResults
  <2>4. QED
    BY <1>1, <2>1, <2>2, <2>3, OperandsOfTokens, TwoWellWritten
<1>9. CASE SerializeObjectThrows \/ TooManyStringsForName
  BY <1>9, NoneWritten DEF SerializeObjectThrows, TooManyStringsForName, Fail
<1>10. QED
  BY <1>2, <1>3, <1>4, <1>5, <1>6, <1>7, <1>8, <1>9 DEF SerializeObject

LEMMA TableWellWritten ==
  ASSUME WellWritten, WalkInv, SerializeTable
  PROVE  WellWritten'
<1>1. CASE PadUnset \/ SleepNotAString
  <2>1. Emit(<< Tok("null", NoVal, NoVal) >>)
    BY <1>1 DEF PadUnset, SleepNotAString
  <2>2. QED
    BY <2>1, OperandsOfTokens, OneWellWritten
<1>2. CASE SkipMagic \/ SkipDeleted \/ SerializeEntry \/ EndTable \/ ReleaseReturned
           \/ SleepProperty \/ SleepUninitialized
  BY <1>2, NoneWritten DEF SkipMagic, SkipDeleted, SerializeEntry, EndTable, ReleaseReturned,
     SleepProperty, SleepUninitialized, Fail
<1>3. QED
  BY <1>1, <1>2 DEF SerializeTable

LEMMA WrittenTokens ==
  ASSUME WalkInv, WellWritten
  PROVE  buffer \in Seq({tok \in Token : WellFormed(tok)})
<1>1. buffer \in Seq(Token)
  BY DEF WalkInv, TypeOK
<1>2. /\ Len(buffer) \in Nat /\ DOMAIN buffer = 1..Len(buffer)
      /\ buffer = [i \in 1..Len(buffer) |-> buffer[i]]
      /\ \A i \in 1..Len(buffer) : buffer[i] \in Token
  BY <1>1
<1>3. \A i \in 1..Len(buffer) : buffer[i] \in {tok \in Token : WellFormed(tok)}
  BY <1>2 DEF WellWritten
<1>4. buffer \in [1..Len(buffer) -> {tok \in Token : WellFormed(tok)}]
  BY <1>2, <1>3
<1>5. QED
  BY <1>2, <1>4 DEF Seq

LEMMA WellWrittenStep ==
  ASSUME "assign" \notin RefWrites, WalkInv, WellWritten, [Next]_vars
  PROVE  WellWritten'
<1>1. CASE SerializeZval
  BY <1>1, ZvalWellWritten
<1>2. CASE SerializeObject
  BY <1>2, ObjectWellWritten
<1>3. CASE SerializeTable
  BY <1>3, TableWellWritten
<1>4. CASE Deinit \/ UNCHANGED vars
  BY <1>4, NoneWritten DEF Deinit, vars
<1>5. QED
  BY <1>1, <1>2, <1>3, <1>4 DEF Next

\* Every token in igsd->buffer has a well-formed operand: a string id, an object
\* id, a count or a back-reference is never the absence of one.
THEOREM TokensWellFormed ==
  ASSUME "assign" \notin RefWrites
  PROVE  Spec => [](buffer \in Seq({tok \in Token : WellFormed(tok)}))
<1>1. Init => WellWritten
  BY DEF Init, WellWritten
<1>2. WalkInv /\ WellWritten /\ [Next]_vars => WellWritten'
  BY WellWrittenStep
<1>3. WalkInv /\ WellWritten => buffer \in Seq({tok \in Token : WellFormed(tok)})
  BY WrittenTokens
<1>4. QED
  BY <1>1, <1>2, <1>3, WalkInvInductive, PTL DEF Spec

(***************************************************************************)
(* The output and the grammar of Format: what is due after a token.        *)
(***************************************************************************)
LEMMA StackEmpty == << >> \in Stack /\ Weight(<< >>) = 0
BY DEF Stack, Weight

\* what is asked for on top of a stack
LEMMA StackAsk ==
  ASSUME NEW s \in Stack, NEW n \in Int
  PROVE  /\ Ask(n, s) \in Stack /\ Ask(n, s) # << >> /\ Head(Ask(n, s)).due = n /\ Tail(Ask(n, s)) = s
         /\ Weight(s) \in Nat /\ Weight(Ask(n, s)) = AtLeast(n) + Weight(s)
         /\ Await(n, s) \in Stack
<1> DEFINE E == [due : Int, sum : Nat]
           e == [due |-> n, sum |-> AtLeast(n) + Weight(s)]
           one == << e >>
           p == one \o s
<1>0. s \in Seq(E)
  BY DEF Stack
<1>1. E = [due : Int, sum : Nat]
  OBVIOUS
<1> HIDE DEF E
<1>2. /\ Len(s) \in Nat /\ DOMAIN s = 1..Len(s) /\ (s = << >> <=> Len(s) = 0)
      /\ Weight(s) \in Nat /\ (Len(s) # 0 => Weight(s) = s[1].sum)
  <2>1. Len(s) \in Nat /\ DOMAIN s = 1..Len(s) /\ (s = << >> <=> Len(s) = 0)
    BY <1>0, LenProperties, EmptySeq
  <2>2. CASE s = << >>
    BY <2>1, <2>2 DEF Weight
  <2>3. CASE s # << >>
    <3>1. Len(s) # 0 /\ Head(s) = s[1] /\ s[1] \in E
      BY <1>0, <2>1, <2>3, HeadTailProperties, ElementOfSeq
    <3> QED
      BY <1>1, <2>3, <3>1 DEF Weight
  <2> QED
    BY <2>1, <2>2, <2>3
<1>3. AtLeast(n) \in Nat
  BY DEF AtLeast
<1>4. e \in E /\ e.due = n /\ e.sum = AtLeast(n) + Weight(s)
  BY <1>1, <1>2, <1>3
<1> HIDE DEF e
<1>5. one \in Seq(E) /\ Len(one) = 1 /\ one[1] = e
  BY <1>4
<1>6. /\ p \in Seq(E) /\ Len(p) = Len(s) + 1
      /\ p[1] = e /\ \A j \in 1..Len(s) : p[j + 1] = s[j]
  <2>1. /\ p \in Seq(E) /\ Len(p) = Len(one) + Len(s)
        /\ \A i \in 1..(Len(one) + Len(s)) : p[i] = IF i <= Len(one) THEN one[i] ELSE s[i - Len(one)]
    BY <1>0, <1>5, ConcatProperties
  <2>2. ASSUME NEW j \in 1..Len(s) PROVE p[j + 1] = s[j]
    <3>1. j + 1 \in 1..(Len(one) + Len(s)) /\ ~(j + 1 <= Len(one)) /\ (j + 1) - Len(one) = j
      BY <1>2, <1>5
    <3> QED
      BY <2>1, <3>1
  <2>3. 1 \in 1..(Len(one) + Len(s)) /\ 1 <= Len(one)
    BY <1>2, <1>5
  <2> QED
    BY <1>2, <1>5, <2>1, <2>2, <2>3
<1>7. p # << >> /\ Head(p) = e /\ Tail(p) = s
  BY <1>0, <1>4
<1> HIDE DEF one, p
<1>8. \A k \in DOMAIN p : p[k].sum = AtLeast(p[k].due) + (IF k = Len(p) THEN 0 ELSE p[k + 1].sum)
  <2> TAKE k \in DOMAIN p
  <2>0. k \in 1..(Len(s) + 1)
    BY <1>6, LenProperties
  <2>1. CASE k = 1
    <3>1. CASE Len(s) = 0
      <4>1. Weight(s) = 0 /\ k = Len(p)
        BY <1>2, <1>6, <2>1, <3>1 DEF Weight
      <4> QED
        BY <1>3, <1>4, <1>6, <2>1, <4>1
    <3>2. CASE Len(s) # 0
      <4>1. p[k + 1] = s[1] /\ Len(p) # 1
        BY <1>2, <1>6, <2>1, <3>2
      <4> QED
        BY <1>2, <1>4, <1>6, <2>1, <3>2, <4>1
    <3> QED
      BY <3>1, <3>2
  <2>2. CASE k # 1
    <3>1. PICK j \in 1..Len(s) : k = j + 1
      <4>1. k - 1 \in 1..Len(s) /\ k = (k - 1) + 1
        BY <1>2, <2>0, <2>2
      <4> QED
        BY <4>1
    <3>2. p[k] = s[j]
      BY <1>6, <3>1
    <3>3. s[j].sum = AtLeast(s[j].due) + (IF j = Len(s) THEN 0 ELSE s[j + 1].sum)
      BY <1>2 DEF Stack
    <3>4. CASE j = Len(s)
      BY <1>6, <3>1, <3>2, <3>3, <3>4
    <3>5. CASE j # Len(s)
      <4>1. j + 1 \in 1..Len(s) /\ k # Len(p)
        <5>1. Len(s) \in Nat /\ Len(p) = Len(s) + 1 /\ j \in Int /\ j <= Len(s) /\ j >= 1
          BY <1>2, <1>6
        <5> QED
          BY ONLY <5>1, <3>1, <3>5
      <4>2. p[k + 1] = s[j + 1]
        BY <1>6, <3>1, <4>1
      <4> QED
        BY <3>2, <3>3, <3>5, <4>1, <4>2
    <3> QED
      BY <3>4, <3>5
  <2> QED
    BY <2>1, <2>2
<1>9. p \in Stack
  BY <1>1, <1>6, <1>8 DEF Stack
<1>10. Ask(n, s) = p
  BY DEF Ask, p, one, e
<1> QED
  BY <1>2, <1>3, <1>4, <1>7, <1>9, <1>10 DEF Weight, Await

\* a stack that is not empty is what is asked for first, on top of the rest
LEMMA StackSplit ==
  ASSUME NEW s \in Stack, s # << >>
  PROVE  Tail(s) \in Stack /\ Head(s).due \in Int /\ s = Ask(Head(s).due, Tail(s))
<1> DEFINE E == [due : Int, sum : Nat]
           r == Tail(s)
           e == Head(s)
<1>0. s \in Seq(E)
  BY DEF Stack
<1>1. E = [due : Int, sum : Nat]
  OBVIOUS
<1> HIDE DEF E
<1>2. Len(s) \in Nat \ {0} /\ DOMAIN s = 1..Len(s) /\ e = s[1] /\ e \in E
  <2>1. Len(s) \in Nat /\ DOMAIN s = 1..Len(s) /\ Len(s) # 0
    BY <1>0, LenProperties, EmptySeq
  <2>2. e = s[1] /\ e \in E
    BY <1>0, <2>1, HeadTailProperties, ElementOfSeq
  <2> QED
    BY <2>1, <2>2
<1>3. /\ r \in Seq(E) /\ Len(r) = Len(s) - 1 /\ DOMAIN r = 1..(Len(s) - 1) /\ s = << e >> \o r
      /\ \A k \in 1..(Len(s) - 1) : r[k] = s[k + 1]
  <2>1. r \in Seq(E) /\ Len(r) = Len(s) - 1 /\ \A k \in 1..(Len(s) - 1) : r[k] = s[k + 1]
    BY <1>0, <1>2, HeadTailProperties
  <2>2. s = << e >> \o r
    BY <1>0
  <2> QED
    BY <2>1, <2>2, LenProperties
<1> HIDE DEF r, e
<1>4. \A k \in DOMAIN r : r[k].sum = AtLeast(r[k].due) + (IF k = Len(r) THEN 0 ELSE r[k + 1].sum)
  <2> TAKE k \in DOMAIN r
  <2>1. k \in 1..(Len(s) - 1)
    BY <1>3
  <2>2. k + 1 \in 1..Len(s) /\ r[k] = s[k + 1] /\ (k = Len(r) <=> k + 1 = Len(s))
    BY <1>2, <1>3, <2>1
  <2>3. PICK j \in 1..Len(s) : j = k + 1
    BY <2>2
  <2>4. s[j].sum = AtLeast(s[j].due) + (IF j = Len(s) THEN 0 ELSE s[j + 1].sum)
    BY <1>2 DEF Stack
  <2>5. CASE k = Len(r)
    BY <2>2, <2>3, <2>4, <2>5
  <2>6. CASE k # Len(r)
    <3>1. k + 1 \in 1..(Len(s) - 1)
      <4>1. Len(s) \in Nat /\ k \in Int /\ k >= 1 /\ k <= Len(s) - 1 /\ k # Len(s) - 1
        BY <1>2, <1>3, <2>1, <2>6
      <4> QED
        BY ONLY <4>1
    <3>2. r[k + 1] = s[j + 1]
      BY <1>3, <2>3, <3>1
    <3> QED
      BY <2>2, <2>3, <2>4, <2>6, <3>2
  <2> QED
    BY <2>5, <2>6
<1>5. e.sum = AtLeast(e.due) + Weight(r)
  <2>1. s[1].sum = AtLeast(s[1].due) + (IF 1 = Len(s) THEN 0 ELSE s[1 + 1].sum)
    <3>1. 1 \in 1..Len(s)
      BY <1>2
    <3> QED
      BY <1>2, <3>1 DEF Stack
  <2>2. CASE Len(s) = 1
    <3>1. r = << >>
      BY <1>3, <2>2, EmptySeq
    <3> QED
      BY <1>2, <2>1, <2>2, <3>1 DEF Weight
  <2>3. CASE Len(s) # 1
    <3>1. 1 \in 1..(Len(s) - 1)
      BY <1>2, <2>3
    <3>2. r # << >> /\ Head(r) = r[1] /\ r[1] = s[1 + 1]
      BY <1>2, <1>3, <2>3, <3>1, HeadTailProperties, EmptySeq
    <3> QED
      BY <1>2, <2>1, <2>3, <3>2 DEF Weight
  <2> QED
    BY <2>2, <2>3
<1>6. e = [due |-> e.due, sum |-> e.sum]
  BY <1>1, <1>2
<1>8. e.due \in Int
  BY <1>1, <1>2
<1>7. s = Ask(e.due, r)
  BY <1>3, <1>5, <1>6 DEF Ask
<1> QED
  BY <1>1, <1>3, <1>4, <1>7, <1>8 DEF Stack, r, e

\* a token that may come leaves a stack, with at most one token less to come
LEMMA TokenTurn ==
  ASSUME NEW s \in Stack, NEW t, Allows(s, t), t.tag = "arr" => t.v \in Nat
  PROVE  Leaves(s, t) \in Stack /\ Weight(s) <= Weight(Leaves(s, t)) + 1
<1> DEFINE n == Head(s).due
           r == Tail(s)
<1>1. s # << >>
  BY DEF Allows
<1>2. r \in Stack /\ n \in Int /\ s = Ask(n, r)
  BY <1>1, StackSplit
<1>3. Weight(r) \in Nat /\ Weight(s) = AtLeast(n) + Weight(r)
  BY <1>2, StackAsk
<1>4. \A m \in Int : /\ Await(m, r) \in Stack /\ Ask(m, r) \in Stack
                      /\ Weight(Await(m, r)) = (IF m = 0 THEN 0 ELSE AtLeast(m)) + Weight(r)
                      /\ Weight(Ask(m, r)) = AtLeast(m) + Weight(r)
  <2> TAKE m \in Int
  <2>1. /\ Await(m, r) \in Stack /\ Ask(m, r) \in Stack /\ Weight(Ask(m, r)) = AtLeast(m) + Weight(r)
        /\ Weight(r) \in Nat
    BY <1>2, StackAsk
  <2>2. Await(m, r) = IF m = 0 THEN r ELSE Ask(m, r)
    BY DEF Await
  <2> HIDE DEF r
  <2>3. CASE m = 0
    BY <2>1, <2>2, <2>3, <1>2
  <2>4. CASE m # 0
    BY <2>1, <2>2, <2>4
  <2> QED
    BY <2>3, <2>4
<1>5. CASE n > 0
  <2>1. n - 1 \in Nat /\ AtLeast(n) = n /\ AtLeast(n - 1) = n - 1
    BY <1>2, <1>5 DEF AtLeast
  <2> DEFINE q == Await(n - 1, r)
  <2>2. q \in Stack /\ Weight(q) = (n - 1) + Weight(r)
    BY <1>3, <1>4, <2>1
  <2> HIDE DEF q
  <2>3. ValueDue \in Int /\ AtLeast(ValueDue) = 1
    BY DEF ValueDue, AtLeast
  <2>4. Ask(ValueDue, q) \in Stack /\ Weight(Ask(ValueDue, q)) = 1 + Weight(q)
    BY <2>2, <2>3, StackAsk
  <2>5. Leaves(s, t) = IF t.tag = "null" THEN q ELSE Ask(ValueDue, q)
    BY <1>5 DEF Leaves, q
  <2>6. Weight(s) = Weight(q) + 1 /\ Weight(q) \in Int
    BY <1>2, <1>3, <2>1, <2>2
  <2> HIDE DEF n
  <2> QED
    BY <2>2, <2>4, <2>5, <2>6
<1>6. CASE n = ValueDue \/ n = BodyDue
  <2>1. ~(n > 0) /\ AtLeast(n) = 1
    BY <1>6 DEF ValueDue, BodyDue, AtLeast
  <2>2. Leaves(s, t) = IF t.tag = "arr" THEN Await(t.v, r)
                       ELSE IF t.tag \in {"obj", "objid"} THEN Ask(BodyDue, r)
                       ELSE IF t.tag \in {"ref", "enum"} THEN Ask(ValueDue, r)
                       ELSE r
    BY <2>1 DEF Leaves
  <2>3. ValueDue \in Int /\ BodyDue \in Int /\ AtLeast(ValueDue) = 1 /\ AtLeast(BodyDue) = 1
    BY DEF ValueDue, BodyDue, AtLeast
  <2>4. Weight(s) = 1 + Weight(r)
    BY <1>3, <2>1
  <2> HIDE DEF n, r
  <2>5. CASE t.tag = "arr"
    <3>1. t.v \in Int /\ AtLeast(t.v) \in Nat
      BY <2>5 DEF AtLeast
    <3> QED
      BY <1>3, <1>4, <2>2, <2>4, <2>5, <3>1
  <2>7. CASE t.tag \in {"obj", "objid"}
    BY <1>3, <1>4, <2>2, <2>3, <2>4, <2>7
  <2>8. CASE t.tag \in {"ref", "enum"}
    BY <1>3, <1>4, <2>2, <2>3, <2>4, <2>8
  <2>9. CASE t.tag \notin {"arr", "obj", "objid", "ref", "enum"}
    BY <1>2, <1>3, <2>2, <2>4, <2>9
  <2> QED
    BY <2>5, <2>7, <2>8, <2>9
<1> QED
  BY <1>5, <1>6 DEF Allows

\* b is the beginning of what igbinary_unserialize accepts, and s is still due
Formed(b, s) ==
    \E f : /\ Parses(b, f) /\ f[Len(b)] = s
           /\ \A i \in 0..Len(b) : Weight(f[i]) <= Weight(s) + (Len(b) - i)

LEMMA FormedMore ==
  ASSUME NEW S, NEW b \in Seq(S), NEW s, Formed(b, s),
         NEW t, Allows(s, t), t.tag = "arr" => t.v \in Nat
  PROVE  Formed(b \o << t >>, Leaves(s, t))
<1> DEFINE c == b \o << t >>
           n == Len(b)
           z == Leaves(s, t)
<1>1. /\ n \in Nat /\ Len(c) = n + 1 /\ \A i \in 1..n : c[i] = b[i]
      /\ c[n + 1] = t
  BY PutOne
<1>2. PICK f : /\ Parses(b, f) /\ f[n] = s
               /\ \A i \in 0..n : Weight(f[i]) <= Weight(s) + (n - i)
  BY DEF Formed
<1> HIDE DEF c, n
<1>3. /\ f \in [0..n -> Stack] /\ f[0] = Ask(ValueDue, << >>)
      /\ \A i \in 1..n : Allows(f[i - 1], b[i]) /\ f[i] = Leaves(f[i - 1], b[i])
  BY <1>2 DEF Parses, n
<1>4. s \in Stack
  BY <1>1, <1>2, <1>3
<1>5. z \in Stack /\ Weight(s) <= Weight(z) + 1
  BY <1>4, TokenTurn
<1>6. \A q \in Stack : Weight(q) \in Int
  BY StackAsk, 1 \in Int
<1> HIDE DEF z
<1> DEFINE g == [i \in 0..(n + 1) |-> IF i <= n THEN f[i] ELSE z]
<1>7. /\ g \in [0..(n + 1) -> Stack] /\ \A i \in 0..n : g[i] = f[i]
      /\ g[n + 1] = z
  BY <1>1, <1>3, <1>5
<1> HIDE DEF g
<1>8. ASSUME NEW i \in 1..(n + 1)
      PROVE  Allows(g[i - 1], c[i]) /\ g[i] = Leaves(g[i - 1], c[i])
  <2>1. CASE i = n + 1
    <3>1. i - 1 = n /\ n \in 0..n
      BY <1>1, <2>1
    <3>2. g[i - 1] = s /\ c[i] = t /\ g[i] = z
      BY <1>1, <1>2, <1>7, <2>1, <3>1
    <3> QED
      BY <3>2 DEF z
  <2>2. CASE i # n + 1
    <3>1. i \in 1..n /\ i - 1 \in 0..n /\ i \in 0..n
      BY <1>1, <2>2
    <3> QED
      BY <1>1, <1>3, <1>7, <3>1
  <2> QED
    BY <2>1, <2>2
<1>9. Parses(c, g)
  <2>1. 0 \in 0..n
    BY <1>1
  <2> QED
    BY <1>1, <1>3, <1>7, <1>8, <2>1 DEF Parses
<1>10. ASSUME NEW i \in 0..Len(c)
       PROVE  Weight(g[i]) <= Weight(z) + (Len(c) - i)
  <2>1. CASE i = n + 1
    <3>1. Weight(z) \in Int /\ g[i] = z /\ Len(c) - i = 0
      BY <1>1, <1>5, <1>6, <1>7, <2>1
    <3> QED
      BY <3>1
  <2>2. CASE i # n + 1
    <3>1. i \in 0..n
      BY <1>1, <2>2
    <3>2. Weight(g[i]) <= Weight(s) + (n - i) /\ g[i] \in Stack
      BY <1>2, <1>3, <1>7, <3>1
    <3>3. Weight(g[i]) \in Int /\ Weight(s) \in Int /\ Weight(z) \in Int /\ i \in Int
      BY <1>4, <1>5, <1>6, <3>1, <3>2
    <3> QED
      BY <1>1, <1>5, <3>2, <3>3
  <2> QED
    BY <2>1, <2>2
<1> QED
  BY <1>1, <1>7, <1>9, <1>10 DEF Formed, c, z

\* a token where a value is due
LEMMA ValueTaken ==
  ASSUME NEW S, NEW b \in Seq(S), NEW s \in Stack, Formed(b, Ask(ValueDue, s)),
         NEW t, t.tag = "arr" => t.v \in Nat
  PROVE  LET c == b \o << t >>
         IN  /\ t.tag \in ScalarTags \cup {"refid", "objref"} => Formed(c, s)
             /\ t.tag = "arr" => Formed(c, Await(t.v, s))
             /\ t.tag \in {"obj", "objid"} => Formed(c, Ask(BodyDue, s))
             /\ t.tag = "ref" => Formed(c, Ask(ValueDue, s))
<1> DEFINE q == Ask(ValueDue, s)
<1>1. q # << >> /\ Head(q).due = ValueDue /\ Tail(q) = s
  BY StackAsk DEF ValueDue
<1> HIDE DEF q
<1>2. t.tag \notin {"objser", "enum"} => Formed(b \o << t >>, Leaves(q, t))
  BY <1>1, FormedMore DEF Allows, q
<1>3. /\ t.tag \in ScalarTags \cup {"refid", "objref"} => Leaves(q, t) = s
      /\ t.tag = "arr" => Leaves(q, t) = Await(t.v, s)
      /\ t.tag \in {"obj", "objid"} => Leaves(q, t) = Ask(BodyDue, s)
      /\ t.tag = "ref" => Leaves(q, t) = q
  <2>1. ~(Head(q).due > 0)
    BY <1>1 DEF ValueDue
  <2>2. Leaves(q, t) = IF t.tag = "arr" THEN Await(t.v, s)
                       ELSE IF t.tag \in {"obj", "objid"} THEN Ask(BodyDue, s)
                       ELSE IF t.tag \in {"ref", "enum"} THEN Ask(ValueDue, s)
                       ELSE s
    BY <1>1, <2>1 DEF Leaves
  <2> QED
    BY <2>2 DEF ScalarTags, q
<1> QED
  BY <1>2, <1>3 DEF q, ScalarTags

\* a token where what follows a class name is due
LEMMA BodyTaken ==
  ASSUME NEW S, NEW b \in Seq(S), NEW s \in Stack, Formed(b, Ask(BodyDue, s)),
         NEW t, t.tag = "arr" => t.v \in Nat
  PROVE  LET c == b \o << t >>
         IN  /\ t.tag = "objser" => Formed(c, s)
             /\ t.tag = "arr" => Formed(c, Await(t.v, s))
             /\ t.tag = "enum" => Formed(c, Ask(ValueDue, s))
<1> DEFINE q == Ask(BodyDue, s)
<1>1. q # << >> /\ Head(q).due = BodyDue /\ Tail(q) = s
  BY StackAsk DEF BodyDue
<1> HIDE DEF q
<1>2. t.tag \in {"arr", "objser", "enum"} => Formed(b \o << t >>, Leaves(q, t))
  BY <1>1, FormedMore DEF Allows, q
<1>3. /\ t.tag = "objser" => Leaves(q, t) = s
      /\ t.tag = "arr" => Leaves(q, t) = Await(t.v, s)
      /\ t.tag = "enum" => Leaves(q, t) = Ask(ValueDue, s)
  <2>1. ~(Head(q).due > 0)
    BY <1>1 DEF BodyDue
  <2>2. Leaves(q, t) = IF t.tag = "arr" THEN Await(t.v, s)
                       ELSE IF t.tag \in {"obj", "objid"} THEN Ask(BodyDue, s)
                       ELSE IF t.tag \in {"ref", "enum"} THEN Ask(ValueDue, s)
                       ELSE s
    BY <1>1, <2>1 DEF Leaves
  <2> QED
    BY <2>2
<1> QED
  BY <1>2, <1>3

\* a token where an entry is due: a null that stands for all of it, or its key
LEMMA EntryTaken ==
  ASSUME NEW S, NEW b \in Seq(S), NEW s \in Stack, NEW n \in Nat, n > 0, Formed(b, Ask(n, s)),
         NEW t, t.tag \in ScalarTags
  PROVE  LET c == b \o << t >>
         IN  IF t.tag = "null" THEN Formed(c, Await(n - 1, s))
                               ELSE Formed(c, Ask(ValueDue, Await(n - 1, s)))
<1> DEFINE q == Ask(n, s)
<1>1. q # << >> /\ Head(q).due = n /\ Tail(q) = s
  BY StackAsk
<1> HIDE DEF q
<1>2. Formed(b \o << t >>, Leaves(q, t))
  BY <1>1, FormedMore DEF Allows, q, ScalarTags
<1>3. Leaves(q, t) = IF t.tag = "null" THEN Await(n - 1, s) ELSE Ask(ValueDue, Await(n - 1, s))
  BY <1>1 DEF Leaves
<1> QED
  BY <1>2, <1>3

(***************************************************************************)
(* What the agenda has still to write is what is due after the output.     *)
(***************************************************************************)
Need(it) == IF it.op = "zval" THEN ValueDue
            ELSE IF it.op = "table" THEN it.left
            ELSE IF it.op = "sleep" THEN Len(it.names) ELSE 0

\* g[k] is due when the items from the k-th on are all that is left
Asks(td, s) ==
    \E g \in [1..(Len(td) + 1) -> Stack] :
       /\ g[1] = s /\ g[Len(td) + 1] = << >>
       /\ \A k \in 1..Len(td) : g[k] = Await(Need(td[k]), g[k + 1])

\* between an entry's key and its value the entry still counts as due
AsksKey(td, s) ==
    /\ td # << >> /\ Head(td).op = "zval" /\ Head(td).z \in Key
    /\ s # << >> /\ Head(s).due > 0
    /\ Asks(Tail(td), Ask(ValueDue, Await(Head(s).due - 1, Tail(s))))

FormInv ==
    /\ status = "running" => \E s \in Stack : Formed(buffer, s) /\ (Asks(todo, s) \/ AsksKey(todo, s))
    /\ status = "done" => Formed(buffer, << >>)

LEMMA PairOfTwo ==
  ASSUME NEW S, NEW a \in S, NEW b \in S
  PROVE  << a, b >> = << a >> \o << b >>
<1> DEFINE p == << a, b >>
           q == << a >> \o << b >>
<1>1. p \in Seq(S) /\ Len(p) = 2 /\ p[1] = a /\ p[2] = b
  OBVIOUS
<1>2. q \in Seq(S) /\ Len(q) = 2 /\ q[1] = a /\ q[2] = b
  OBVIOUS
<1> HIDE DEF p, q
<1>3. \A i \in 1..Len(p) : p[i] = q[i]
  <2> TAKE i \in 1..Len(p)
  <2>1. i = 1 \/ i = 2
    BY <1>1
  <2> QED
    BY <1>1, <1>2, <2>1
<1>4. p = q
  BY <1>1, <1>2, <1>3, SeqEqual
<1> QED
  BY <1>4 DEF p, q

LEMMA NeedTyped == \A it \in Item : Need(it) \in Int
<1> TAKE it \in Item
<1>1. CASE it.op = "table"
  BY <1>1, ItemTypes DEF Need
<1>2. CASE it.op = "sleep"
  <2>1. Len(it.names) \in Nat
    BY <1>2, ItemTypes, LenProperties
  <2> QED
    BY <1>2, <2>1 DEF Need
<1>3. CASE it.op \notin {"table", "sleep"}
  BY <1>3 DEF Need, ValueDue
<1> QED
  BY <1>1, <1>2, <1>3

LEMMA NothingAsked ==
  ASSUME NEW s
  PROVE  Asks(<< >>, s) <=> s = << >>
<1>1. Len(<< >>) = 0 /\ 1..0 = {}
  OBVIOUS
<1>2. ASSUME Asks(<< >>, s) PROVE s = << >>
  BY <1>1, <1>2 DEF Asks
<1>3. ASSUME s = << >> PROVE Asks(<< >>, s)
  <2> DEFINE g == [k \in 1..(0 + 1) |-> << >>]
  <2>1. g \in [1..(0 + 1) -> Stack] /\ g[1] = << >> /\ g[0 + 1] = << >>
    BY StackEmpty
  <2> QED
    BY <1>1, <1>3, <2>1 DEF Asks
<1> QED
  BY <1>2, <1>3

LEMMA AsksFirst ==
  ASSUME NEW S, NEW td \in Seq(S), td # << >>, NEW s, Asks(td, s)
  PROVE  \E r \in Stack : s = Await(Need(Head(td)), r) /\ Asks(Tail(td), r)
<1> DEFINE n == Len(td)
           u == Tail(td)
<1>1. PICK g \in [1..(n + 1) -> Stack] :
         /\ g[1] = s /\ g[n + 1] = << >>
         /\ \A k \in 1..n : g[k] = Await(Need(td[k]), g[k + 1])
  BY DEF Asks
<1>2. n \in Nat \ {0} /\ Head(td) = td[1]
  BY EmptySeq, LenProperties, HeadTailProperties
<1>3. Len(u) = n - 1 /\ \A k \in 1..(n - 1) : u[k] = td[k + 1]
  BY HeadTailProperties
<1> HIDE DEF n, u
<1> DEFINE h == [k \in 1..n |-> g[k + 1]]
<1>4. \A k \in 1..n : h[k] = g[k + 1] /\ h[k] \in Stack
  BY <1>2
<1>5. h \in [1..((n - 1) + 1) -> Stack] /\ h[1] = g[2] /\ h[(n - 1) + 1] = << >>
  <2>1. (n - 1) + 1 = n /\ 1 \in 1..n /\ n \in 1..n
    BY <1>2
  <2> QED
    BY <1>1, <1>4, <2>1
<1> HIDE DEF h
<1>6. ASSUME NEW k \in 1..(n - 1)
      PROVE  h[k] = Await(Need(u[k]), h[k + 1])
  <2>1. k \in 1..n /\ k + 1 \in 1..n
    BY <1>2
  <2>2. g[k + 1] = Await(Need(td[k + 1]), g[(k + 1) + 1])
    BY <1>1, <2>1
  <2> QED
    BY <1>3, <1>4, <2>1, <2>2
<1>7. Asks(u, g[2])
  BY <1>3, <1>5, <1>6 DEF Asks
<1>8. g[1] = Await(Need(td[1]), g[2]) /\ g[2] \in Stack
  BY <1>1, <1>2
<1> QED
  BY <1>1, <1>2, <1>7, <1>8 DEF u

LEMMA AsksPut ==
  ASSUME NEW S, NEW td \in Seq(S), NEW r \in Stack, Asks(td, r), NEW it \in S, Need(it) \in Int
  PROVE  Asks(<< it >> \o td, Await(Need(it), r)) /\ Await(Need(it), r) \in Stack
<1> DEFINE n == Len(td)
           u == << it >> \o td
           s == Await(Need(it), r)
<1>1. PICK g \in [1..(n + 1) -> Stack] :
         /\ g[1] = r /\ g[n + 1] = << >>
         /\ \A k \in 1..n : g[k] = Await(Need(td[k]), g[k + 1])
  BY DEF Asks
<1>2. n \in Nat
  BY LenProperties
<1>3. Len(u) = n + 1 /\ u[1] = it /\ \A k \in 1..n : u[k + 1] = td[k]
  <2>1. << it >> \in Seq(S) /\ Len(<< it >>) = 1 /\ << it >>[1] = it
    OBVIOUS
  <2>2. /\ Len(u) = 1 + n
        /\ \A i \in 1..(1 + n) : u[i] = IF i <= 1 THEN << it >>[i] ELSE td[i - 1]
    BY <2>1, ConcatProperties
  <2>3. ASSUME NEW k \in 1..n PROVE u[k + 1] = td[k]
    <3>1. k + 1 \in 1..(1 + n) /\ ~(k + 1 <= 1) /\ (k + 1) - 1 = k
      BY <1>2
    <3> QED
      BY <2>2, <3>1
  <2> QED
    BY <1>2, <2>1, <2>2, <2>3
<1>4. s \in Stack
  BY StackAsk
<1> HIDE DEF n, u, s
<1> DEFINE h == [k \in 1..((n + 1) + 1) |-> IF k = 1 THEN s ELSE g[k - 1]]
<1>5. h[1] = s /\ \A k \in 1..(n + 1) : h[k + 1] = g[k] /\ g[k] \in Stack
  <2>1. 1 \in 1..((n + 1) + 1)
    BY <1>2
  <2>2. ASSUME NEW k \in 1..(n + 1) PROVE h[k + 1] = g[k] /\ g[k] \in Stack
    <3>1. k + 1 \in 1..((n + 1) + 1) /\ k + 1 # 1 /\ (k + 1) - 1 = k
      BY <1>2
    <3> QED
      BY <3>1
  <2> QED
    BY <2>1, <2>2
<1>6. h \in [1..((n + 1) + 1) -> Stack]
  <2>1. ASSUME NEW k \in 1..((n + 1) + 1) PROVE h[k] \in Stack
    <3>1. CASE k = 1
      BY <1>4, <1>5, <3>1
    <3>2. CASE k # 1
      <4>1. k - 1 \in 1..(n + 1) /\ (k - 1) + 1 = k
        BY <1>2, <3>2
      <4> HIDE DEF h
      <4> QED
        BY <1>5, <4>1
    <3> QED
      BY <3>1, <3>2
  <2> QED
    BY <2>1
<1> HIDE DEF h
<1>7. h[(n + 1) + 1] = << >>
  <2>1. n + 1 \in 1..(n + 1)
    BY <1>2
  <2> QED
    BY <1>1, <1>5, <2>1
<1>8. ASSUME NEW k \in 1..(n + 1)
      PROVE  h[k] = Await(Need(u[k]), h[k + 1])
  <2>1. h[k + 1] = g[k]
    BY <1>5
  <2>2. CASE k = 1
    BY <1>1, <1>3, <1>5, <2>1, <2>2 DEF s
  <2>3. CASE k # 1
    <3>1. PICK j \in 1..n : k = j + 1
      <4>1. k - 1 \in 1..n /\ k = (k - 1) + 1
        BY <1>2, <2>3
      <4> QED
        BY <4>1
    <3>2. j \in 1..(n + 1)
      BY <1>2
    <3>3. h[j + 1] = g[j] /\ u[j + 1] = td[j] /\ g[j] = Await(Need(td[j]), g[j + 1])
      BY <1>1, <1>3, <1>5, <3>2
    <3> QED
      BY <2>1, <3>1, <3>3
  <2> QED
    BY <2>2, <2>3
<1>9. Asks(u, s)
  BY <1>3, <1>5, <1>6, <1>7, <1>8 DEF Asks
<1> QED
  BY <1>4, <1>9 DEF u, s

LEMMA AsksItem ==
  \A q \in Seq(Item), r \in Stack : Asks(q, r) =>
    \A it \in Item : Asks(<< it >> \o q, Await(Need(it), r)) /\ Await(Need(it), r) \in Stack
<1> SUFFICES ASSUME NEW q \in Seq(Item), NEW r \in Stack, Asks(q, r), NEW it \in Item
             PROVE  Asks(<< it >> \o q, Await(Need(it), r)) /\ Await(Need(it), r) \in Stack
  OBVIOUS
<1>1. Need(it) \in Int
  BY NeedTyped
<1> QED
  BY <1>1, AsksPut

\* what a step that puts items on the agenda leaves to be written
LEMMA AsksAfter ==
  ASSUME WalkInv, todo # << >>, NEW r \in Stack, Asks(Tail(todo), r)
  PROVE  /\ Do(<< >>) => Asks(todo', r)
         /\ \A it \in Item : Do(<< it >>) => Asks(todo', Await(Need(it), r))
<1>1. Tail(todo) \in Seq(Item)
  BY TopIsItem DEF WalkInv
<1>2. << >> \o Tail(todo) = Tail(todo)
  BY <1>1, ConcatEmptySeq
<1> QED
  BY <1>1, <1>2, AsksItem DEF Do

LEMMA AsksAfterLoop ==
  ASSUME WalkInv, todo # << >>, NEW r \in Stack, Asks(Tail(todo), r),
         NEW h \in Addr, NEW c \in Cell,
         Do(Loop(h, c)) \/ Do(Loop(h, c) \o << Dtor(h) >>)
  PROVE  Asks(todo', Await(Count(c), r))
<1> DEFINE it == Table(h, 1, Len(c.elems), Count(c))
           d == Dtor(h)
           q == Tail(todo)
<1>1. q \in Seq(Item)
  BY TopIsItem DEF WalkInv
<1>2. Len(c.elems) \in Nat /\ Count(c) \in Nat
  BY CellTyped
<1>3. it \in Item /\ Need(it) = Count(c) /\ d \in Item /\ Need(d) = 0
  <2>1. it \in Item
    BY <1>2, ItemShapes
  <2>2. Need(it) = Count(c)
    BY DEF Table, Need
  <2>3. d \in Item
    BY ItemShapes
  <2>4. Need(d) = 0
    BY DEF Dtor, Need
  <2> QED
    BY <2>1, <2>2, <2>3, <2>4
<1>4. Loop(h, c) = IF Count(c) = 0 THEN << >> ELSE << it >>
  BY DEF Loop
<1> HIDE DEF it, d, q
<1>5. << d >> \in Seq(Item) /\ << it >> \in Seq(Item) /\ << d >> \o q \in Seq(Item)
      /\ << >> \in Seq(Item)
  BY <1>1, <1>3
<1>6. Asks(<< d >> \o q, r) /\ Asks(q, r)
  <2>1. Asks(<< d >> \o q, Await(0, r))
    BY <1>1, <1>3, AsksItem DEF q
  <2> QED
    BY <2>1 DEF Await, q
<1>7. CASE Count(c) = 0
  <2>1. Loop(h, c) = << >> /\ Await(Count(c), r) = r
    BY <1>4, <1>7 DEF Await
  <2>2. << >> \o q = q /\ << >> \o << d >> = << d >>
    BY <1>1, <1>5, ConcatEmptySeq
  <2> QED
    BY <1>6, <2>1, <2>2 DEF Do, q, d
<1>8. CASE Count(c) # 0
  <2>1. Loop(h, c) = << it >>
    BY <1>4, <1>8
  <2>2. (<< it >> \o << d >>) \o q = << it >> \o (<< d >> \o q)
    BY <1>1, <1>5, ConcatAssociative
  <2>3. /\ Asks(<< it >> \o q, Await(Count(c), r))
        /\ Asks(<< it >> \o (<< d >> \o q), Await(Count(c), r))
    BY <1>1, <1>3, <1>5, <1>6, AsksItem
  <2> QED
    BY <2>1, <2>2, <2>3 DEF Do, q, d
<1> QED
  BY <1>7, <1>8

\* a key and its value, in front of what is left of the table
LEMMA AsksAfterEntry ==
  ASSUME WalkInv, todo # << >>, NEW r \in Stack, Asks(Tail(todo), r),
         NEW n \in Nat, n > 0, NEW k \in Key, NEW z \in Zval, NEW rest,
         \/ rest = << >> /\ n = 1
         \/ \E it \in Item : rest = << it >> /\ Need(it) = n - 1,
         Do(<< Value(k), Value(z) >> \o rest)
  PROVE  AsksKey(todo', Await(n, r)) /\ Await(n, r) \in Stack
<1> DEFINE a == Value(k)
           b == Value(z)
           q == Tail(todo)
           p == rest \o q
           w == Await(n - 1, r)
<1>1. q \in Seq(Item)
  BY TopIsItem DEF WalkInv
<1>2. /\ a \in Item /\ a.op = "zval" /\ a.z = k
      /\ b \in Item /\ Need(b) = ValueDue
  <2>1. k \in Zval
    BY DEF Zval
  <2> QED
    BY <2>1, ItemShapes DEF Need
<1> HIDE DEF a, b, q
<1>3. rest \in Seq(Item) /\ p \in Seq(Item) /\ Asks(p, w) /\ w \in Stack
  <2>1. CASE rest = << >> /\ n = 1
    <3>1. p = q /\ w = r /\ rest \in Seq(Item)
      BY <1>1, <2>1, ConcatEmptySeq DEF Await
    <3> QED
      BY <1>1, <3>1 DEF q
  <2>2. ASSUME NEW it \in Item, rest = << it >>, Need(it) = n - 1
        PROVE  rest \in Seq(Item) /\ p \in Seq(Item) /\ Asks(p, w) /\ w \in Stack
    <3>1. rest \in Seq(Item) /\ p \in Seq(Item)
      BY <1>1, <2>2, ConcatProperties
    <3>2. Asks(<< it >> \o q, Await(Need(it), r)) /\ Await(Need(it), r) \in Stack
      BY <1>1, <2>2, AsksItem DEF q
    <3> QED
      BY <2>2, <3>1, <3>2
  <2> QED
    BY <2>1, <2>2
<1>4. << a, b >> \o rest = << a >> \o (<< b >> \o rest)
  <2>1. << a >> \in Seq(Item) /\ << b >> \in Seq(Item)
    BY <1>2
  <2>2. << a, b >> = << a >> \o << b >>
    BY <1>2, PairOfTwo
  <2> HIDE DEF p
  <2>3. (<< a >> \o << b >>) \o rest = << a >> \o (<< b >> \o rest)
    BY <1>3, <2>1, ConcatAssociative
  <2> QED
    BY <2>2, <2>3
<1>5. todo' = << a >> \o (<< b >> \o p)
  <2>1. << a >> \in Seq(Item) /\ << b >> \in Seq(Item) /\ << b >> \o rest \in Seq(Item)
    BY <1>2, <1>3, ConcatProperties
  <2>2. (<< a >> \o (<< b >> \o rest)) \o q = << a >> \o ((<< b >> \o rest) \o q)
    BY <1>1, <2>1, ConcatAssociative
  <2>3. (<< b >> \o rest) \o q = << b >> \o p
    BY <1>1, <1>3, <2>1, ConcatAssociative
  <2>4. todo' = (<< a, b >> \o rest) \o q
    BY DEF Do, a, b, q
  <2> QED
    BY <1>4, <2>2, <2>3, <2>4
<1> HIDE DEF p, w
<1>6. << b >> \o p \in Seq(Item) /\ Asks(<< b >> \o p, Ask(ValueDue, w))
  <2>1. << b >> \in Seq(Item)
    BY <1>2
  <2>2. Asks(<< b >> \o p, Await(ValueDue, w))
    BY <1>2, <1>3, AsksItem
  <2>3. Await(ValueDue, w) = Ask(ValueDue, w)
    BY DEF Await, ValueDue
  <2> QED
    BY <1>3, <2>1, <2>2, <2>3, ConcatProperties
<1>7. Head(todo') = a /\ Tail(todo') = << b >> \o p /\ todo' # << >>
  BY <1>2, <1>5, <1>6
<1>8. Await(n, r) = Ask(n, r)
  BY DEF Await
<1>9. /\ Ask(n, r) # << >> /\ Head(Ask(n, r)).due = n /\ Tail(Ask(n, r)) = r
      /\ Ask(n, r) \in Stack
  <2>1. n \in Int
    OBVIOUS
  <2> QED
    BY <2>1, StackAsk
<1> QED
  BY <1>2, <1>6, <1>7, <1>8, <1>9 DEF AsksKey, w

\* what the head of the agenda has due
LEMMA ValueAsked ==
  ASSUME WalkInv, FormInv, At("zval")
  PROVE  /\ todo # << >>
         /\ \/ \E r \in Stack : Formed(buffer, Ask(ValueDue, r)) /\ Asks(Tail(todo), r)
            \/ /\ Z \in Key
               /\ \E r \in Stack : \E n \in Nat :
                    /\ n > 0 /\ Formed(buffer, Ask(n, r))
                    /\ Asks(Tail(todo), Ask(ValueDue, Await(n - 1, r)))
<1>1. todo # << >> /\ status = "running" /\ Head(todo).op = "zval" /\ todo \in Seq(Item)
  BY DEF At, WalkInv, TypeOK
<1>2. PICK s \in Stack : Formed(buffer, s) /\ (Asks(todo, s) \/ AsksKey(todo, s))
  BY <1>1 DEF FormInv
<1>3. CASE Asks(todo, s)
  <2>1. PICK r \in Stack : s = Await(Need(Head(todo)), r) /\ Asks(Tail(todo), r)
    BY <1>1, <1>3, AsksFirst
  <2>2. Await(Need(Head(todo)), r) = Ask(ValueDue, r)
    BY <1>1 DEF Need, Await, ValueDue
  <2> QED
    BY <1>1, <1>2, <2>1, <2>2
<1>4. CASE AsksKey(todo, s)
  <2>1. Z \in Key /\ s # << >> /\ Head(s).due > 0
        /\ Asks(Tail(todo), Ask(ValueDue, Await(Head(s).due - 1, Tail(s))))
    BY <1>4 DEF AsksKey, Z
  <2>2. Tail(s) \in Stack /\ Head(s).due \in Int /\ s = Ask(Head(s).due, Tail(s))
    BY <2>1, StackSplit
  <2>3. PICK n \in Int : n = Head(s).due
    BY <2>2
  <2>4. n \in Nat
    BY <2>1, <2>3
  <2> QED
    BY <1>1, <1>2, <2>1, <2>2, <2>3, <2>4
<1> QED
  BY <1>2, <1>3, <1>4

LEMMA OtherAsked ==
  ASSUME WalkInv, FormInv, status = "running", todo # << >>, Head(todo).op # "zval"
  PROVE  \E r \in Stack : /\ Formed(buffer, Await(Need(Head(todo)), r))
                          /\ Asks(Tail(todo), r)
<1>1. todo \in Seq(Item)
  BY DEF WalkInv, TypeOK
<1>2. PICK s \in Stack : Formed(buffer, s) /\ Asks(todo, s)
  BY DEF FormInv, AsksKey
<1>3. PICK r \in Stack : s = Await(Need(Head(todo)), r) /\ Asks(Tail(todo), r)
  BY <1>1, <1>2, AsksFirst
<1> QED
  BY <1>2, <1>3

\* a step that is not the last
LEMMA FormGoesOn ==
  ASSUME status' = "running", NEW s \in Stack, Formed(buffer, s)', Asks(todo, s)' \/ AsksKey(todo, s)'
  PROVE  FormInv'
BY DEF FormInv

LEMMA FormStopped ==
  ASSUME FormInv, status' = "failed"
  PROVE  FormInv'
BY DEF FormInv

\* a scalar, a value or a key
LEMMA ScalarForm ==
  ASSUME WalkInv, FormInv, At("zval"), NEW t, t.tag \in ScalarTags, Z \in Key => t.tag # "null",
         Emit(<< t >>), Do(<< >>), status' = status
  PROVE  FormInv'
<1>1. buffer \in Seq(Token) /\ status' = "running" /\ buffer' = buffer \o << t >>
  BY DEF At, WalkInv, TypeOK, Emit
<1>2. t.tag # "arr"
  BY DEF ScalarTags
<1>3. ASSUME NEW r \in Stack, Formed(buffer, Ask(ValueDue, r)), Asks(Tail(todo), r)
      PROVE  FormInv'
  <2>1. Formed(buffer \o << t >>, r)
    BY <1>1, <1>2, <1>3, ValueTaken
  <2>2. Asks(todo', r)
    BY <1>3, AsksAfter DEF At
  <2> QED
    BY <1>1, <2>1, <2>2, FormGoesOn
<1>4. ASSUME Z \in Key, NEW r \in Stack, NEW n \in Nat, n > 0, Formed(buffer, Ask(n, r)),
             Asks(Tail(todo), Ask(ValueDue, Await(n - 1, r)))
      PROVE  FormInv'
  <2>1. Formed(buffer \o << t >>, Ask(ValueDue, Await(n - 1, r)))
    BY <1>1, <1>4, EntryTaken
  <2>2. Ask(ValueDue, Await(n - 1, r)) \in Stack
    <3>1. n - 1 \in Int /\ ValueDue \in Int
      BY DEF ValueDue
    <3>2. Await(n - 1, r) \in Stack
      BY <3>1, StackAsk
    <3> QED
      BY <3>1, <3>2, StackAsk
  <2>3. Asks(todo', Ask(ValueDue, Await(n - 1, r)))
    BY <1>4, <2>2, AsksAfter DEF At
  <2> QED
    BY <1>1, <2>1, <2>2, <2>3, FormGoesOn
<1> QED
  BY <1>3, <1>4, ValueAsked

\* where the head is no key, a value is due
LEMMA NoKeyAsked ==
  ASSUME WalkInv, FormInv, At("zval"), Z.t \in Counted \cup {"null", "undef"}
  PROVE  \E r \in Stack : Formed(buffer, Ask(ValueDue, r)) /\ Asks(Tail(todo), r)
<1>1. Z \notin Key
  BY DEF Key, Counted
<1> QED
  BY <1>1, ValueAsked

LEMMA AwaitStack ==
  ASSUME NEW n \in Int, NEW r \in Stack
  PROVE  Await(n, r) \in Stack /\ Ask(n, r) \in Stack
BY StackAsk

\* the token of a value, and what its items have still to write
LEMMA ValueForm ==
  ASSUME WalkInv, todo # << >>, status' = "running", NEW S, NEW b \in Seq(S), NEW r \in Stack,
         Formed(b, Ask(ValueDue, r)), Asks(Tail(todo), r), NEW t, buffer' = b \o << t >>,
         \/ t.tag \in ScalarTags \cup {"refid", "objref"} /\ Do(<< >>)
         \/ \E h \in Addr, c \in Cell : t.tag = "arr" /\ t.v = Count(c) /\ Do(Loop(h, c))
         \/ \E z \in Zval : t.tag = "ref" /\ Do(<< Value(z) >>)
  PROVE  FormInv'
<1>1. CASE t.tag \in ScalarTags \cup {"refid", "objref"} /\ Do(<< >>)
  <2>1. t.tag # "arr"
    BY <1>1 DEF ScalarTags
  <2>2. Formed(b \o << t >>, r)
    BY <1>1, <2>1, ValueTaken
  <2>3. Asks(todo', r)
    BY <1>1, AsksAfter
  <2> QED
    BY <2>2, <2>3, FormGoesOn
<1>2. ASSUME NEW h \in Addr, NEW c \in Cell, t.tag = "arr", t.v = Count(c), Do(Loop(h, c))
      PROVE  FormInv'
  <2>1. Count(c) \in Nat
    BY CellTyped
  <2>2. Formed(b \o << t >>, Await(Count(c), r)) /\ Await(Count(c), r) \in Stack
    <3>1. Count(c) \in Int
      BY <2>1
    <3> QED
      BY <1>2, <2>1, <3>1, ValueTaken, AwaitStack
  <2>3. Asks(todo', Await(Count(c), r))
    BY <1>2, AsksAfterLoop
  <2> QED
    BY <2>2, <2>3, FormGoesOn
<1>3. ASSUME NEW z \in Zval, t.tag = "ref", Do(<< Value(z) >>)
      PROVE  FormInv'
  <2>1. Formed(b \o << t >>, Ask(ValueDue, r)) /\ Ask(ValueDue, r) \in Stack
    BY <1>3, ValueTaken, AwaitStack DEF ValueDue
  <2>2. Value(z) \in Item /\ Await(Need(Value(z)), r) = Ask(ValueDue, r)
    BY ItemShapes DEF Need, Await, ValueDue
  <2>3. Asks(todo', Ask(ValueDue, r))
    BY <1>3, <2>2, AsksAfter
  <2> QED
    BY <2>1, <2>3, FormGoesOn
<1> QED
  BY <1>1, <1>2, <1>3

\* the token that follows a class name
LEMMA BodyForm ==
  ASSUME WalkInv, todo # << >>, status' = "running", NEW S, NEW b \in Seq(S), NEW r \in Stack,
         Formed(b, Ask(BodyDue, r)), Asks(Tail(todo), r), NEW t, buffer' = b \o << t >>,
         \/ t.tag = "objser" /\ Do(<< >>)
         \/ \E z \in Zval : t.tag = "enum" /\ Do(<< Value(z) >>)
         \/ \E h \in Addr, c \in Cell :
               /\ t.tag = "arr" /\ t.v = Count(c)
               /\ Do(Loop(h, c)) \/ Do(Loop(h, c) \o << Dtor(h) >>)
         \/ t.tag = "arr" /\ t.v = 0 /\ Do(<< >>)
         \/ \E it \in Item : t.tag = "arr" /\ t.v \in Nat /\ t.v = Need(it) /\ Do(<< it >>)
  PROVE  FormInv'
<1>1. CASE t.tag = "objser" /\ Do(<< >>)
  <2>1. Formed(b \o << t >>, r)
    BY <1>1, BodyTaken
  <2>2. Asks(todo', r)
    BY <1>1, AsksAfter
  <2> QED
    BY <2>1, <2>2, FormGoesOn
<1>2. ASSUME NEW z \in Zval, t.tag = "enum", Do(<< Value(z) >>)
      PROVE  FormInv'
  <2>1. Formed(b \o << t >>, Ask(ValueDue, r)) /\ Ask(ValueDue, r) \in Stack
    BY <1>2, BodyTaken, AwaitStack DEF ValueDue
  <2>2. Value(z) \in Item /\ Await(Need(Value(z)), r) = Ask(ValueDue, r)
    BY ItemShapes DEF Need, Await, ValueDue
  <2>3. Asks(todo', Ask(ValueDue, r))
    BY <1>2, <2>2, AsksAfter
  <2> QED
    BY <2>1, <2>3, FormGoesOn
<1>3. ASSUME t.tag = "arr", t.v \in Nat, Asks(todo', Await(t.v, r))
      PROVE  FormInv'
  <2>1. t.v \in Int
    BY <1>3
  <2>2. Formed(b \o << t >>, Await(t.v, r)) /\ Await(t.v, r) \in Stack
    BY <1>3, <2>1, BodyTaken, AwaitStack
  <2> QED
    BY <1>3, <2>2, FormGoesOn
<1>4. ASSUME NEW h \in Addr, NEW c \in Cell, t.tag = "arr", t.v = Count(c),
             Do(Loop(h, c)) \/ Do(Loop(h, c) \o << Dtor(h) >>)
      PROVE  FormInv'
  BY <1>3, <1>4, CellTyped, AsksAfterLoop
<1>5. CASE t.tag = "arr" /\ t.v = 0 /\ Do(<< >>)
  <2>1. Await(t.v, r) = r
    BY <1>5 DEF Await
  <2> QED
    BY <1>3, <1>5, <2>1, AsksAfter
<1>6. ASSUME NEW it \in Item, t.tag = "arr", t.v \in Nat, t.v = Need(it), Do(<< it >>)
      PROVE  FormInv'
  BY <1>3, <1>6, AsksAfter
<1> QED
  BY <1>1, <1>2, <1>4, <1>5, <1>6

\* the first of two tokens
LEMMA FirstOfTwo ==
  ASSUME WalkInv, NEW r \in Stack, Formed(buffer, Ask(ValueDue, r)), NEW t, NEW u, Emit(<< t, u >>)
  PROVE  /\ buffer' = (buffer \o << t >>) \o << u >> /\ buffer \o << t >> \in Seq(Token \cup {t})
         /\ t.tag \in {"obj", "objid"} => Formed(buffer \o << t >>, Ask(BodyDue, r))
         /\ t.tag = "ref" => Formed(buffer \o << t >>, Ask(ValueDue, r))
<1>1. buffer \in Seq(Token)
  BY DEF WalkInv, TypeOK
<1>2. /\ t.tag \in {"obj", "objid"} => Formed(buffer \o << t >>, Ask(BodyDue, r))
      /\ t.tag = "ref" => Formed(buffer \o << t >>, Ask(ValueDue, r))
  <2>1. CASE t.tag \in {"obj", "objid", "ref"}
    <3>1. t.tag # "arr"
      BY <2>1
    <3> QED
      BY <1>1, <3>1, ValueTaken
  <2> QED
    BY <2>1
<1> QED
  BY <1>1, <1>2, PutOne, PutTwo DEF Emit

LEMMA ZvalKeepsForm ==
  ASSUME WalkInv, FormInv, SerializeZval
  PROVE  FormInv'
<1>0. buffer \in Seq(Token) /\ (At("zval") => todo # << >> /\ status = "running")
  BY DEF WalkInv, TypeOK, At
<1>1. CASE StackOverflows \/ TooManyStrings \/ TooManyReferences
  BY <1>1, FormStopped DEF StackOverflows, TooManyStrings, TooManyReferences, Fail
<1>2. CASE SerializeScalar
  <2> DEFINE t == IF Z.t = "long" THEN Tok("long", Z.v, NoVal) ELSE Tok("null", NoVal, NoVal)
  <2>1. At("zval") /\ Z.t \in {"null", "undef", "long"} /\ Emit(<< t >>) /\ Do(<< >>) /\ status' = status
    BY <1>2 DEF SerializeScalar, AtZval, Z
  <2>2. t.tag \in ScalarTags /\ (Z \in Key => t.tag # "null")
    BY <2>1 DEF Tok, ScalarTags, Key
  <2> HIDE DEF t
  <2> QED
    BY <2>1, <2>2, ScalarForm
<1>3. CASE SerializeStringAgain
  <2> DEFINE t == IF Z.v = EmptyStr THEN Tok("empty", NoVal, NoVal) ELSE Tok("strid", strings[Z.v], Z.v)
  <2>1. At("zval") /\ Emit(<< t >>) /\ Do(<< >>) /\ status' = status
    BY <1>3 DEF SerializeStringAgain, AtZval
  <2>2. t.tag \in ScalarTags /\ t.tag # "null"
    BY DEF Tok, ScalarTags
  <2> HIDE DEF t
  <2> QED
    BY <2>1, <2>2, ScalarForm
<1>4. CASE SerializeStringNew
  <2> DEFINE t == Tok("str", Z.v, NoVal)
  <2>1. At("zval") /\ Emit(<< t >>) /\ Do(<< >>) /\ status' = status
    BY <1>4 DEF SerializeStringNew, AtZval
  <2>2. t.tag \in ScalarTags /\ t.tag # "null"
    BY DEF Tok, ScalarTags
  <2> HIDE DEF t
  <2> QED
    BY <2>1, <2>2, ScalarForm
<1>5. SUFFICES ASSUME AtZval({"arr", "ref"}) PROVE FormInv'
  BY <1>1, <1>2, <1>3, <1>4 DEF SerializeZval, SerializeArrayAgain, SerializeArrayNew,
     SerializeReferenceUnshared, SerializeReferenceToObject, SerializeReferenceAgain,
     SerializeReferenceNew, AtZval
<1>6. /\ At("zval") /\ Z.t \in Counted /\ Z.v \in Addr /\ heap[Z.v] \in Cell
      /\ heap[Z.v].kind = Z.t
  <2>1. At("zval") /\ Z.t \in Counted
    BY <1>5 DEF AtZval, Counted, Z
  <2> QED
    BY <2>1, AtZvalFacts
<1>7. PICK r \in Stack : Formed(buffer, Ask(ValueDue, r)) /\ Asks(Tail(todo), r)
  BY <1>6, NoKeyAsked
<1>8. BackRef(Z).tag \in {"refid", "objref"} /\ RefTok(Z).tag = "ref"
  BY DEF BackRef, RefTok, Tok
<1>9. \A a, src : Header(heap[a], src).tag = "arr" /\ Header(heap[a], src).v = Count(heap[a])
  BY DEF Header, Tok
<1>10. CASE SerializeArrayAgain
  BY <1>0, <1>6, <1>7, <1>8, <1>10, ValueForm DEF SerializeArrayAgain, Emit
<1>11. CASE SerializeArrayNew
  <2>1. /\ buffer' = buffer \o << Header(heap[Z.v], Src(Z.v)) >> /\ Do(Loop(Z.v, heap[Z.v]))
        /\ status' = status
    BY <1>11 DEF SerializeArrayNew, Emit
  <2> QED
    BY <1>0, <1>6, <1>7, <1>9, <2>1, ValueForm
<1>12. CASE SerializeReferenceUnshared
  <2>1. buffer' = buffer /\ status' = status /\ Do(<< Value(Boxed(Z)) >>)
    BY <1>12 DEF SerializeReferenceUnshared
  <2>2. Boxed(Z) \in Zval
    BY <1>12, BoxedIsLive DEF SerializeReferenceUnshared
  <2>3. Value(Boxed(Z)) \in Item /\ Await(Need(Value(Boxed(Z))), r) = Ask(ValueDue, r)
    BY <2>2, ItemShapes DEF Need, Await, ValueDue
  <2>4. Asks(todo', Ask(ValueDue, r))
    BY <1>0, <1>6, <1>7, <2>1, <2>3, AsksAfter
  <2>5. Ask(ValueDue, r) \in Stack
    BY AwaitStack DEF ValueDue
  <2> QED
    BY <1>0, <1>6, <1>7, <2>1, <2>4, <2>5, FormGoesOn
<1>13. CASE SerializeReferenceToObject
  <2>1. Boxed(Z) \in Zval
    BY <1>13, BoxedIsLive DEF SerializeReferenceToObject
  <2> QED
    BY <1>0, <1>6, <1>7, <1>8, <1>13, <2>1, ValueForm DEF SerializeReferenceToObject, Emit
<1>14. CASE SerializeReferenceAgain
  <2>1. Emit(<< RefTok(Z), BackRef(Z) >>) /\ Do(<< >>) /\ status' = status
    BY <1>14 DEF SerializeReferenceAgain
  <2>2. /\ buffer' = (buffer \o << RefTok(Z) >>) \o << BackRef(Z) >>
        /\ buffer \o << RefTok(Z) >> \in Seq(Token \cup {RefTok(Z)})
        /\ Formed(buffer \o << RefTok(Z) >>, Ask(ValueDue, r))
    BY <1>7, <1>8, <2>1, FirstOfTwo
  <2> QED
    BY <1>0, <1>6, <1>7, <1>8, <2>1, <2>2, ValueForm
<1>15. CASE SerializeReferenceNew
  <2>1. AtZval({"ref"}) /\ status' = status
    BY <1>15 DEF SerializeReferenceNew
  <2>2. Boxed(Z) \in Zval /\ (Boxed(Z).t = "arr" => Boxed(Z).v \in Addr)
    BY <2>1, BoxedIsLive, HeldAreLive DEF Counted
  <2>3. CASE Boxed(Z).t = "arr"
    <3> DEFINE u == Header(heap[Boxed(Z).v], Src(Z.v))
    <3>1. Emit(<< RefTok(Z), u >>) /\ Do(Loop(Boxed(Z).v, heap[Boxed(Z).v]))
      BY <1>15, <2>3 DEF SerializeReferenceNew
    <3>2. u.tag = "arr" /\ u.v = Count(heap[Boxed(Z).v]) /\ heap[Boxed(Z).v] \in Cell
      BY <1>9, <2>2, <2>3 DEF WalkInv, TypeOK
    <3> HIDE DEF u
    <3>3. /\ buffer' = (buffer \o << RefTok(Z) >>) \o << u >>
          /\ buffer \o << RefTok(Z) >> \in Seq(Token \cup {RefTok(Z)})
          /\ Formed(buffer \o << RefTok(Z) >>, Ask(ValueDue, r))
      BY <1>7, <1>8, <3>1, FirstOfTwo
    <3> QED
      BY <1>0, <1>6, <1>7, <2>1, <2>2, <2>3, <3>1, <3>2, <3>3, ValueForm
  <2>4. CASE Boxed(Z).t # "arr"
    <3>1. Emit(<< RefTok(Z) >>) /\ Do(<< Value(Boxed(Z)) >>)
      BY <1>15, <2>4 DEF SerializeReferenceNew
    <3> QED
      BY <1>0, <1>6, <1>7, <1>8, <2>1, <2>2, <3>1, ValueForm DEF Emit
  <2> QED
    BY <2>3, <2>4
<1> QED
  BY <1>1, <1>2, <1>3, <1>4, <1>10, <1>11, <1>12, <1>13, <1>14, <1>15 DEF SerializeZval


LEMMA ObjectKeepsForm ==
  ASSUME WalkInv, FormInv, "assign" \notin RefWrites, SerializeObject
  PROVE  FormInv'
<1>1. CASE SerializeObjectThrows \/ TooManyStringsForName
  BY <1>1, FormStopped DEF SerializeObjectThrows, TooManyStringsForName, Fail
<1>2. SUFFICES ASSUME AtZval({"obj"}) PROVE FormInv'
  BY <1>1 DEF SerializeObject, SerializeObjectAgain, SerializeObjectPlain, SerializeObjectEnum,
     SerializeObjectMagic, SerializeObjectData, SerializeObjectNull, SerializeObjectSleep,
     NewNamedObject, NewObject
<1>3. At("zval") /\ Z.t \in Counted /\ todo # << >> /\ status = "running"
      /\ buffer \in Seq(Token)
  BY <1>2 DEF AtZval, Counted, Z, At, WalkInv, TypeOK
<1>4. Z.v \in Addr /\ heap[Z.v] \in Cell /\ heap[Z.v].kind = "obj"
  BY <1>2, ObjectFacts, AtZvalFacts DEF AtZval, Counted
<1>5. PICK r \in Stack : Formed(buffer, Ask(ValueDue, r)) /\ Asks(Tail(todo), r)
  BY <1>3, NoKeyAsked
<1>6. /\ BackRef(Z).tag \in {"refid", "objref"}
      /\ \A c, src : NameTok(c, src).tag \in {"obj", "objid"}
      /\ \A c, src : Header(c, src).tag = "arr" /\ Header(c, src).v = Count(c)
  BY DEF BackRef, NameTok, Header, Tok
\* a class name and what follows it
<1>7. ASSUME NEW c, NEW u, Emit(<< NameTok(c, Src(Z.v)), u >>), status' = status,
             \/ u.tag = "objser" /\ Do(<< >>)
             \/ \E z \in Zval : u.tag = "enum" /\ Do(<< Value(z) >>)
             \/ \E h \in Addr, d \in Cell :
                   /\ u.tag = "arr" /\ u.v = Count(d)
                   /\ Do(Loop(h, d)) \/ Do(Loop(h, d) \o << Dtor(h) >>)
             \/ u.tag = "arr" /\ u.v = 0 /\ Do(<< >>)
             \/ \E it \in Item : u.tag = "arr" /\ u.v \in Nat /\ u.v = Need(it) /\ Do(<< it >>)
      PROVE  FormInv'
  <2>1. PICK t : t = NameTok(c, Src(Z.v)) /\ t.tag \in {"obj", "objid"}
    BY <1>6
  <2>2. PICK b : b = buffer \o << t >>
    OBVIOUS
  <2>3. buffer' = b \o << u >> /\ b \in Seq(Token \cup {t}) /\ Formed(b, Ask(BodyDue, r))
    BY <1>5, <1>7, <2>1, <2>2, FirstOfTwo
  <2>4. status' = "running"
    BY <1>3, <1>7
  <2> QED
    BY <1>3, <1>5, <1>7, <2>3, <2>4, BodyForm
<1>8. CASE SerializeObjectAgain
  BY <1>3, <1>5, <1>6, <1>8, ValueForm DEF SerializeObjectAgain, Emit
<1>9. CASE SerializeObjectPlain
  BY <1>4, <1>6, <1>7, <1>9 DEF SerializeObjectPlain
<1>10. CASE SerializeObjectEnum
  <2>1. Fixed(heap[Z.v])
    BY <1>4, <1>10 DEF SerializeObjectEnum, NewNamedObject, NewObject, Fixed, Cls
  <2>2. 1 \in DOMAIN heap[Z.v].elems
    BY <1>4, <2>1, CellTyped DEF WalkInv, HeapInv, CellsOK
  <2>3. heap[Z.v].elems[1].v \in Zval
    BY <1>4, <2>2, CellTyped
  <2>4. Tok("enum", NoVal, NoVal).tag = "enum"
    BY DEF Tok
  <2> QED
    BY <1>7, <1>10, <2>3, <2>4 DEF SerializeObjectEnum
<1>11. CASE SerializeObjectMagic
  <2>1. PICK H \in Unsets(HeldWith(Z.v)) : \E G, new, ret :
           AllocatedIn(G, new, ret, H, HeldWith(Z.v)) /\ Returned(G, new, ret)
    BY <1>11, WhatIsReturned
  <2>2. PICK G, new, ret : AllocatedIn(G, new, ret, H, HeldWith(Z.v)) /\ Returned(G, new, ret)
    BY <2>1
  <2>3. G[ret] \in Cell /\ ret \in Addr
    BY <2>2, HeldAreLive DEF AllocatedIn
  <2>4. /\ Emit(<< NameTok(Cls, Src(Z.v)), Header(G[ret], NoVal) >>)
        /\ Do(Loop(ret, G[ret]) \o << Dtor(ret) >>)
    BY <2>2 DEF Returned
  <2>5. status' = status
    BY <1>11 DEF SerializeObjectMagic
  <2> QED
    BY <1>6, <1>7, <2>3, <2>4, <2>5
<1>12. CASE SerializeObjectData
  <2>1. Tok("objser", NoVal, NoVal).tag = "objser"
    BY DEF Tok
  <2> QED
    BY <1>7, <1>12, <2>1 DEF SerializeObjectData
<1>13. CASE SerializeObjectNull
  <2>1. Tok("null", NoVal, NoVal).tag \in ScalarTags
    BY DEF Tok, ScalarTags
  <2>2. buffer' = buffer \o << Tok("null", NoVal, NoVal) >> /\ Do(<< >>) /\ status' = status
    BY <1>13 DEF SerializeObjectNull, Emit
  <2> QED
    BY <1>3, <1>5, <2>1, <2>2, ValueForm
<1>14. CASE SerializeObjectSleep
  <2>1. PICK names \in SleepResults(Z.v) :
           /\ Emit(<< NameTok(Cls, Src(Z.v)), Tok("arr", Len(names), NoVal) >>)
           /\ Do(IF names = << >> THEN << >> ELSE << Sleep(Z.v, names) >>)
    BY <1>14 DEF SerializeObjectSleep
  <2>2. status' = status
    BY <1>14 DEF SerializeObjectSleep
  <2>3. names \in Seq(Str \cup {NoVal}) /\ Len(names) \in Nat
    BY <1>4, SleepTyped, LenProperties
  <2>4. /\ Tok("arr", Len(names), NoVal).tag = "arr"
        /\ Tok("arr", Len(names), NoVal).v = Len(names)
    BY DEF Tok
  <2>5. CASE names = << >>
    <3>1. Len(names) = 0 /\ Do(<< >>)
      BY <2>1, <2>5
    <3> QED
      BY <1>7, <2>1, <2>2, <2>4, <3>1
  <2>6. CASE names # << >>
    <3>1. Sleep(Z.v, names) \in Item /\ Need(Sleep(Z.v, names)) = Len(names)
      BY <1>4, <2>3, ItemShapes DEF Need
    <3>2. Do(<< Sleep(Z.v, names) >>)
      BY <2>1, <2>6
    <3> QED
      BY <1>7, <2>1, <2>2, <2>3, <2>4, <3>1, <3>2
  <2> QED
    BY <2>5, <2>6
<1> QED
  BY <1>1, <1>8, <1>9, <1>10, <1>11, <1>12, <1>13, <1>14 DEF SerializeObject

\* a null without a key, for one of n entries
LEMMA NullForm ==
  ASSUME WalkInv, status' = "running", NEW r \in Stack, NEW n \in Nat, n > 0,
         Formed(buffer, Await(n, r)), Emit(<< Tok("null", NoVal, NoVal) >>),
         Asks(todo', Await(n - 1, r))
  PROVE  FormInv'
<1>1. Await(n, r) = Ask(n, r) /\ buffer \in Seq(Token)
  BY DEF Await, WalkInv, TypeOK
<1>2. Tok("null", NoVal, NoVal).tag = "null" /\ "null" \in ScalarTags
  BY DEF Tok, ScalarTags
<1>3. Formed(buffer \o << Tok("null", NoVal, NoVal) >>, Await(n - 1, r))
  BY <1>1, <1>2, EntryTaken
<1>4. n - 1 \in Int
  OBVIOUS
<1>5. Await(n - 1, r) \in Stack
  BY <1>4, AwaitStack
<1> QED
  BY <1>3, <1>5, FormGoesOn DEF Emit

LEMMA TableKeepsForm ==
  ASSUME WalkInv, LoopsInv, FormInv, SerializeTable
  PROVE  FormInv'
<1>1. CASE SleepUninitialized
  BY <1>1, FormStopped DEF SleepUninitialized, Fail
<1>2. SUFFICES ASSUME At("table") \/ At("sleep") \/ At("dtor"), status' = status PROVE FormInv'
  BY <1>1 DEF SerializeTable, SkipMagic, SkipDeleted, PadUnset, SerializeEntry, EndTable,
     ReleaseReturned, SleepNotAString, SleepProperty, AtBucket
<1>3. /\ todo # << >> /\ status' = "running" /\ Top = todo[1] /\ Top \in Item /\ Top.op # "zval"
      /\ Head(todo) = Top /\ 1 \in DOMAIN todo /\ ItemInv(1)
  <2>1. PICK op \in {"table", "sleep", "dtor"} : At(op)
    BY <1>2
  <2> QED
    BY <1>2, <2>1, AtHead DEF Top
<1>4. PICK r \in Stack : Formed(buffer, Await(Need(Top), r)) /\ Asks(Tail(todo), r)
  <2>1. status = "running"
    BY <1>2, <1>3
  <2> QED
    BY <1>3, <2>1, OtherAsked
<1>5. Need(Top) \in Int /\ Await(Need(Top), r) \in Stack
  BY <1>3, NeedTyped, AwaitStack
<1>6. CASE ReleaseReturned \/ EndTable
  <2>1. buffer' = buffer /\ Do(<< >>)
    BY <1>6 DEF ReleaseReturned, EndTable
  <2>2. Need(Top) = 0
    <3>1. CASE ReleaseReturned
      BY <3>1 DEF ReleaseReturned, At, Need, Top
    <3>2. CASE EndTable
      <4>1. Top.op = "table" /\ Top.i > Top.n
        BY <3>2 DEF EndTable, At, Top
      <4>2. Top.i \in Int /\ Top.n \in Int
        BY <1>3, <4>1, ItemTypes
      <4>3. Top.left = Left(heap[Top.h], Top.i, Top.n)
        BY <1>3, <4>1 DEF LoopsInv, LoopOk
      <4>4. Top.left = 0
        BY <4>1, <4>2, <4>3, LeftNone
      <4> QED
        BY <4>1, <4>4 DEF Need
    <3> QED
      BY <1>6, <3>1, <3>2
  <2>3. Await(Need(Top), r) = r
    BY <2>2 DEF Await
  <2> QED
    BY <1>3, <1>4, <2>1, <2>3, AsksAfter, FormGoesOn
<1>7. ASSUME AtBucket
      PROVE  /\ Top.op = "table" /\ Top.left \in Int /\ Need(Top) = Top.left
             /\ Written(heap[Top.h], Top.i) => Top.left \in Nat /\ Top.left > 0
             /\ \A left \in Int : Advance(left) \in Item /\ Need(Advance(left)) = left
             /\ Entry.v \in Zval /\ Entry.k \in Key
  <2>1. Top.op = "table" /\ Top.i <= Top.n /\ At("table")
    BY <1>7 DEF AtBucket, At, Top
  <2>2. Top.h \in Addr /\ Top.i \in Nat /\ Top.n \in Nat /\ Top.left \in Int
    BY <1>3, <2>1, ItemTypes
  <2>3. heap[Top.h].kind # "ref" /\ Top.left = Left(heap[Top.h], Top.i, Top.n)
    BY <1>3, <2>1 DEF LoopsInv, LoopOk
  <2>4. Top.i >= 1 /\ Top.n <= Len(heap[Top.h].elems) /\ Anchored(Top.h, 1)
    BY <1>3, <2>1 DEF ItemInv
  <2>5. Top.h \in Live(heap, Held) /\ Top.i \in DOMAIN heap[Top.h].elems
    <3>1. heap[Top.h] \in Cell
      BY <2>2 DEF WalkInv, TypeOK
    <3> QED
      BY <2>1, <2>2, <2>4, <3>1, AnchoredNow, CellTyped
  <2>6. Entry.v \in Zval
    BY <2>5, ElementIsLive DEF Entry
  <2>7. Entry.k \in Key
    BY <2>2, <2>3, <2>5 DEF Entry, WalkInv, HeapInv, CellsOK, Keyed
  <2>8. Written(heap[Top.h], Top.i) => Top.left \in Nat /\ Top.left > 0
    BY <2>1, <2>2, <2>3, LeftStep
  <2>9. ASSUME NEW left \in Int PROVE Advance(left) \in Item /\ Need(Advance(left)) = left
    <3>1. Top.i + 1 \in Nat
      BY <2>2
    <3> QED
      BY <2>2, <3>1, ItemShapes DEF Advance, Table, Need
  <2> QED
    BY <2>1, <2>2, <2>6, <2>7, <2>8, <2>9 DEF Need
<1>8. CASE SkipMagic \/ SkipDeleted
  <2>1. AtBucket /\ Do(<< Advance(Top.left) >>) /\ buffer' = buffer
    BY <1>8 DEF SkipMagic, SkipDeleted
  <2>2. Asks(todo', Await(Top.left, r))
    BY <1>3, <1>4, <1>7, <2>1, AsksAfter
  <2> QED
    BY <1>3, <1>4, <1>5, <1>7, <2>1, <2>2, FormGoesOn
<1>9. CASE PadUnset
  <2>1. /\ AtBucket /\ Do(<< Advance(Top.left - 1) >>) /\ Written(heap[Top.h], Top.i)
        /\ Emit(<< Tok("null", NoVal, NoVal) >>)
    BY <1>9 DEF PadUnset, AtMagic, Entry, Written
  <2>2. Top.left \in Nat /\ Top.left > 0 /\ Need(Top) = Top.left
    BY <1>7, <2>1
  <2>3. Top.left - 1 \in Int
    BY <2>2
  <2>4. Asks(todo', Await(Top.left - 1, r))
    BY <1>3, <1>4, <1>7, <2>1, <2>3, AsksAfter
  <2> QED
    BY <1>3, <1>4, <2>1, <2>2, <2>4, NullForm
<1>10. CASE SerializeEntry
  <2>1. /\ AtBucket /\ Do(<< Value(Entry.k), Value(Entry.v), Advance(Top.left - 1) >>)
        /\ Written(heap[Top.h], Top.i) /\ buffer' = buffer
    BY <1>10 DEF SerializeEntry, AtMagic, Entry, Written
  <2>2. Top.left \in Nat /\ Top.left > 0 /\ Need(Top) = Top.left
    BY <1>7, <2>1
  <2>3. Top.left - 1 \in Int
    BY <2>2
  <2>4. PICK it \in Item : it = Advance(Top.left - 1) /\ Need(it) = Top.left - 1
    BY <1>7, <2>1, <2>3
  <2>5. PICK k \in Key : k = Entry.k
    BY <1>7, <2>1
  <2>6. PICK z \in Zval : z = Entry.v
    BY <1>7, <2>1
  <2>7. << Value(k), Value(z), it >> = << Value(k), Value(z) >> \o << it >>
    OBVIOUS
  <2>8. AsksKey(todo', Await(Top.left, r)) /\ Await(Top.left, r) \in Stack
    <3>1. Do(<< Value(k), Value(z) >> \o << it >>)
      BY <2>1, <2>4, <2>5, <2>6, <2>7
    <3> QED
      BY <1>3, <1>4, <2>2, <2>4, <3>1, AsksAfterEntry
  <2> QED
    BY <1>3, <1>4, <2>1, <2>2, <2>8, FormGoesOn
<1>11. ASSUME At("sleep")
       PROVE  /\ Need(Top) = Len(Top.names) /\ Len(Top.names) \in Nat /\ Len(Top.names) > 0
              /\ Top.o \in Addr /\ Name \in Str \cup {NoVal}
              /\ Len(Top.names) = 1 => RestOfNames = << >>
              /\ Len(Top.names) # 1 => \E it \in Item : /\ RestOfNames = << it >>
                                                        /\ Need(it) = Len(Top.names) - 1
  <2>1. Top.op = "sleep"
    BY <1>11 DEF At, Top
  <2>2. Top.o \in Addr /\ Top.names \in Seq(Str \cup {NoVal}) /\ Top.names # << >>
    BY <1>3, <2>1, ItemTypes DEF ItemInv
  <2>3. Len(Top.names) \in Nat /\ Len(Top.names) > 0
    BY <2>2, LenProperties, EmptySeq
  <2>4. Name \in Str \cup {NoVal} /\ Tail(Top.names) \in Seq(Str \cup {NoVal})
        /\ Len(Tail(Top.names)) = Len(Top.names) - 1
    BY <2>2, HeadTailProperties DEF Name
  <2>5. /\ Sleep(Top.o, Tail(Top.names)) \in Item
        /\ Need(Sleep(Top.o, Tail(Top.names))) = Len(Top.names) - 1
    <3>1. PICK rest \in Seq(Str \cup {NoVal}) : rest = Tail(Top.names)
      BY <2>4
    <3>2. Sleep(Top.o, rest) \in Item /\ Need(Sleep(Top.o, rest)) = Len(rest)
      BY <2>2, ItemShapes DEF Need
    <3> QED
      BY <2>4, <3>1, <3>2
  <2> QED
    BY <2>1, <2>2, <2>3, <2>4, <2>5 DEF Need, RestOfNames
<1>12. CASE SleepNotAString
  <2>1. At("sleep") /\ Emit(<< Tok("null", NoVal, NoVal) >>) /\ Do(RestOfNames)
    BY <1>12 DEF SleepNotAString
  <2>2. Asks(todo', Await(Len(Top.names) - 1, r))
    <3>1. CASE Len(Top.names) = 1
      <4>1. Await(Len(Top.names) - 1, r) = r /\ Do(<< >>)
        BY <1>11, <2>1, <3>1 DEF Await
      <4> QED
        BY <1>3, <1>4, <4>1, AsksAfter
    <3>2. CASE Len(Top.names) # 1
      BY <1>3, <1>4, <1>11, <2>1, <3>2, AsksAfter
    <3> QED
      BY <3>1, <3>2
  <2> QED
    BY <1>3, <1>4, <1>11, <2>1, <2>2, NullForm
<1>13. CASE SleepProperty
  <2>1. PICK z : /\ z \in {heap[Top.o].elems[i].v : i \in Slots} \cup {Null}
                 /\ Do(<< Value(Text(Name)), Value(z) >> \o RestOfNames)
    BY <1>13 DEF SleepProperty
  <2>2. At("sleep") /\ Name # NoVal /\ buffer' = buffer
    BY <1>13 DEF SleepProperty
  <2>3. Top.o \in Live(heap, Held)
    BY <1>3, <2>2, HeldAreLive DEF At, Top, ItemInv, Held, WalkInv, TypeOK
  <2>4. z \in Zval
    <3>1. CASE z = Null
      BY <3>1 DEF Zval
    <3>2. CASE z \in {heap[Top.o].elems[i].v : i \in Slots}
      BY <2>3, <3>2, ElementIsLive DEF Slots
    <3> QED
      BY <2>1, <3>1, <3>2
  <2>5. Text(Name) \in Key
    BY <1>11, <2>2 DEF Text, Key
  <2>6. AsksKey(todo', Await(Len(Top.names), r)) /\ Await(Len(Top.names), r) \in Stack
    <3>1. CASE Len(Top.names) = 1
      BY <1>3, <1>4, <1>11, <2>1, <2>2, <2>4, <2>5, <3>1, AsksAfterEntry
    <3>2. CASE Len(Top.names) # 1
      BY <1>3, <1>4, <1>11, <2>1, <2>2, <2>4, <2>5, <3>2, AsksAfterEntry
    <3> QED
      BY <3>1, <3>2
  <2> QED
    BY <1>3, <1>4, <1>11, <2>2, <2>6, FormGoesOn
<1> QED
  BY <1>1, <1>6, <1>8, <1>9, <1>10, <1>12, <1>13 DEF SerializeTable

LEMMA FormAtStart == Init => FormInv
<1> SUFFICES ASSUME Init PROVE FormInv
  OBVIOUS
<1>1. todo = << Value(root) >> /\ buffer = << >> /\ status = "running"
  BY DEF Init
<1> DEFINE s == Ask(ValueDue, << >>)
<1>2. s \in Stack /\ ValueDue \in Int
  BY StackEmpty, AwaitStack DEF ValueDue
<1>3. Asks(todo, s)
  <2>1. Asks(<< >>, << >>)
    BY NothingAsked
  <2>2. << Value(root) >> \o << >> = << Value(root) >>
    OBVIOUS
  <2>3. Need(Value(root)) = ValueDue /\ Await(ValueDue, << >>) = s
    BY DEF Need, Value, Await, ValueDue
  <2>4. Asks(<< Value(root) >> \o << >>, Await(Need(Value(root)), << >>))
    <3>1. << >> \in Seq({Value(root)}) /\ Need(Value(root)) \in Int
      BY <1>2, <2>3
    <3> QED
      BY <2>1, <3>1, StackEmpty, AsksPut
  <2> QED
    BY <1>1, <2>2, <2>3, <2>4
<1> HIDE DEF s
<1>4. Formed(<< >>, s)
  <2> DEFINE f == [i \in 0..0 |-> s]
  <2>1. Len(<< >>) = 0 /\ f[0] = s /\ f \in [0..0 -> Stack] /\ 1..0 = {}
    BY <1>2
  <2>2. Parses(<< >>, f)
    BY <2>1 DEF Parses, s
  <2>3. Weight(s) \in Int
    BY <1>2, StackAsk
  <2>4. \A i \in 0..0 : Weight(f[i]) <= Weight(s) + (0 - i)
    BY <2>1, <2>3
  <2> HIDE DEF f
  <2> QED
    BY <2>1, <2>2, <2>4 DEF Formed
<1> QED
  BY <1>1, <1>2, <1>3, <1>4 DEF FormInv

LEMMA FormKept ==
  ASSUME "assign" \notin RefWrites, WalkInv, LoopsInv, FormInv, [Next]_vars
  PROVE  FormInv'
<1>1. CASE SerializeZval
  BY <1>1, ZvalKeepsForm
<1>2. CASE SerializeObject
  BY <1>2, ObjectKeepsForm
<1>3. CASE SerializeTable
  BY <1>3, TableKeepsForm
<1>4. CASE Deinit
  <2>1. CASE status = "failed"
    BY <1>4, <2>1 DEF Deinit, FormInv
  <2>2. CASE status # "failed"
    <3>1. status = "running" /\ todo = << >> /\ status' = "done" /\ buffer' = buffer
      BY <1>4, <2>2 DEF Deinit
    <3>2. PICK s \in Stack : Formed(buffer, s) /\ (Asks(todo, s) \/ AsksKey(todo, s))
      BY <3>1 DEF FormInv
    <3>3. s = << >>
      BY <3>1, <3>2, NothingAsked DEF AsksKey
    <3> QED
      BY <3>1, <3>2, <3>3 DEF FormInv
  <2> QED
    BY <2>1, <2>2
<1>5. CASE UNCHANGED vars
  BY <1>5 DEF vars, FormInv
<1> QED
  BY <1>1, <1>2, <1>3, <1>4, <1>5 DEF Next

LEMMA FormInvHolds ==
  ASSUME NamedOnce, RefWrites = {}
  PROVE  Spec => [](WalkInv /\ LoopsInv /\ FormInv)
<1>1. "assign" \notin RefWrites
  OBVIOUS
<1>2. Init => LoopsInv /\ FormInv
  BY LoopsAtStart, FormAtStart
<1>3. WalkInv /\ LoopsInv /\ FormInv /\ [Next]_vars => LoopsInv' /\ FormInv'
  BY <1>1, LoopsKept, FormKept
<1> QED
  BY <1>1, <1>2, <1>3, WalkInvInductive, PTL DEF Spec

\* What igbinary_serialize has written when it is done is one value of the format
\* (module Format), to the last token: nothing is due after it.  As for the counts
\* in the headers, incomplete objects keep the name of their class once, and user
\* code does not write through references.
THEOREM OutputIsOneValue ==
  ASSUME NamedOnce, RefWrites = {}
  PROVE  Spec => [](status = "done" => Formed(buffer, << >>))
<1>1. WalkInv /\ LoopsInv /\ FormInv => (status = "done" => Formed(buffer, << >>))
  BY DEF FormInv
<1> QED
  BY <1>1, FormInvHolds, PTL

(***************************************************************************)
(* What follows the name of a class.  The reader takes it only when the    *)
(* class goes with it: an enum's case has to be one that the enum has, the *)
(* class of a list of properties may not be an enum or one that is not     *)
(* serialized.  `cases' are the cases that enums have.                     *)
(***************************************************************************)
\* the string that a token carries or is the number of
TextOf(b, i, s) ==
    \/ b[i].tag \in {"str", "obj"} /\ s = b[i].v
    \/ b[i].tag \in {"strid", "objid"}
         /\ \E j \in StringNumbers(b) : j < i /\ Rank(b, j) = b[i].v /\ s = b[j].v

\* what the reader takes a class for
KindRead(c) == IF c \in Class THEN Kind[c] ELSE "plain"
BodyFits(c, t) == /\ t.tag = "arr" => KindRead(c) \notin {"enum", "banned"}
                  /\ t.tag = "objser" => KindRead(c) = "serializable"
                  /\ t.tag = "enum" => KindRead(c) = "enum"

Follows(b, i, c, t, cases) ==
    /\ b[i].tag \in {"obj", "objid"} => \E s \in Str : TextOf(b, i, s) /\ BodyFits(s, t)
    /\ b[i].tag = "enum" => t.tag \in {"str", "strid"} /\ \E s \in cases : TextOf(c, i + 1, s)
BodiesOk(b, cases) ==
    \A i \in DOMAIN b : i + 1 \in DOMAIN b => Follows(b, i, b, b[i + 1], cases)

\* an enum case is named as one, and the class that an incomplete object names
\* has become none that cannot have properties
Readable(c, cases) ==
    /\ Fixed(c) => \E s \in cases \ {EmptyStr} : c.elems[1].v = Text(s)
    /\ Incomplete(c) => KindRead(WrittenName(c)) \notin {"enum", "banned"}
ReadableCells(cases) == /\ \A g \in Graphs : \A a \in Addr : Readable(g.heap[a], cases)
                        /\ \A c \in TempCells : Readable(c, cases)

BodyInv(cases) ==
    /\ \A a \in Addr : Readable(heap[a], cases)
    /\ BodiesOk(buffer, cases)
    /\ status = "running" /\ EndsWith(buffer, {"enum"}) =>
         At("zval") /\ \E s \in cases \ {EmptyStr} : Z = Text(s)

\* a token keeps its string when another follows
LEMMA TextStays ==
  ASSUME NEW S, NEW b \in Seq(S), NEW t, NEW i \in 1..Len(b), NEW s, TextOf(b, i, s)
  PROVE  TextOf(b \o << t >>, i, s)
<1> DEFINE c == b \o << t >>
<1>1. /\ StringNumbers(b) \subseteq StringNumbers(c) /\ c[i] = b[i]
      /\ \A j \in StringNumbers(b) : c[j] = b[j] /\ Rank(c, j) = Rank(b, j)
  BY RankStays, PutOne
<1> HIDE DEF c
<1>2. TextOf(c, i, s)
  BY <1>1 DEF TextOf
<1> QED
  BY <1>2 DEF c

LEMMA BodiesMore ==
  ASSUME NEW S, NEW b \in Seq(S), NEW t, NEW cases, BodiesOk(b, cases),
         b # << >> => Follows(b, Len(b), b \o << t >>, t, cases)
  PROVE  BodiesOk(b \o << t >>, cases)
<1> DEFINE c == b \o << t >>
           n == Len(b)
<1>1. /\ n \in Nat /\ DOMAIN b = 1..n /\ DOMAIN c = 1..(n + 1)
      /\ \A i \in 1..n : c[i] = b[i]
      /\ c[n + 1] = t
  BY PutOne
<1>2. \A i \in 1..n : \A s : TextOf(b, i, s) => TextOf(c, i, s)
  BY TextStays
<1>3. n > 0 => b # << >> /\ Follows(b, n, c, t, cases)
  BY <1>1, EmptySeq
<1>4. BodiesOk(b, cases)
  OBVIOUS
<1> HIDE DEF c, n
<1>5. ASSUME NEW i \in DOMAIN c, i + 1 \in DOMAIN c PROVE Follows(c, i, c, c[i + 1], cases)
  <2>1. i \in 1..n /\ c[i] = b[i]
    BY <1>1, <1>5
  <2>2. CASE i + 1 \in 1..n
    <3>1. c[i + 1] = b[i + 1] /\ Follows(b, i, b, b[i + 1], cases)
      BY <1>1, <1>4, <2>1, <2>2 DEF BodiesOk
    <3> QED
      BY <1>2, <2>1, <2>2, <3>1 DEF Follows
  <2>3. CASE i = n
    <3>1. c[i + 1] = t /\ Follows(b, i, c, t, cases)
      BY <1>1, <1>3, <2>1, <2>3
    <3> QED
      BY <1>2, <2>1, <3>1 DEF Follows
  <2> QED
    BY <1>1, <1>5, <2>1, <2>2, <2>3
<1> QED
  BY <1>5 DEF BodiesOk, c

\* tokens that ask nothing of the next one
Asking == {"obj", "objid", "enum"}
LEMMA AnythingFollows ==
  ASSUME NEW b, ~EndsWith(b, Asking), b # << >>, NEW c, NEW t, NEW cases
  PROVE  Follows(b, Len(b), c, t, cases)
BY DEF EndsWith, Asking, Follows

\* where nothing is asked of what is written
LEMMA BodyOne ==
  ASSUME WalkInv, ~EndsWith(buffer, Asking), NEW cases, BodiesOk(buffer, cases), NEW t, Emit(<< t >>)
  PROVE  BodiesOk(buffer', cases)
<1>1. buffer \in Seq(Token)
  BY DEF WalkInv, TypeOK
<1> QED
  BY <1>1, AnythingFollows, BodiesMore DEF Emit

LEMMA BodyTwo ==
  ASSUME WalkInv, ~EndsWith(buffer, Asking), NEW cases, BodiesOk(buffer, cases),
         NEW t, NEW u, t.tag \notin Asking, Emit(<< t, u >>)
  PROVE  BodiesOk(buffer', cases)
<1> DEFINE b == buffer \o << t >>
<1>1. buffer \in Seq(Token)
  BY DEF WalkInv, TypeOK
<1>2. b \in Seq(Token \cup {t}) /\ buffer' = b \o << u >>
  BY <1>1, PutOne, PutTwo DEF Emit
<1>3. BodiesOk(b, cases)
  BY <1>1, AnythingFollows, BodiesMore
<1>4. ~EndsWith(b, Asking)
  BY <1>1, LastToken
<1> HIDE DEF b
<1> QED
  BY <1>2, <1>3, <1>4, AnythingFollows, BodiesMore

\* the name of a class and what goes with it
LEMMA BodyNamed ==
  ASSUME WalkInv, StringsInv, ~EndsWith(buffer, Asking), NEW cases, BodiesOk(buffer, cases),
         NEW c \in Str, NEW src, NEW u, BodyFits(c, u), Emit(<< NameTok(c, src), u >>)
  PROVE  BodiesOk(buffer', cases)
<1> DEFINE t == NameTok(c, src)
           b == buffer \o << t >>
           n == Len(buffer) + 1
<1>1. buffer \in Seq(Token)
  BY DEF WalkInv, TypeOK
<1>2. b \in Seq(Token \cup {t}) /\ buffer' = b \o << u >>
  BY <1>1, PutOne, PutTwo DEF Emit
<1>3. BodiesOk(b, cases)
  BY <1>1, AnythingFollows, BodiesMore
<1>4. /\ Len(b) = n /\ b[n] = t /\ Len(buffer) \in Nat
      /\ StringNumbers(buffer) \subseteq 1..Len(buffer) /\ StringNumbers(buffer) \subseteq StringNumbers(b)
      /\ \A i \in StringNumbers(buffer) : b[i] = buffer[i] /\ Rank(b, i) = Rank(buffer, i)
  BY <1>1, PutOne, RankStays
<1>5. TextOf(b, n, c)
  <2>1. CASE strings[c] # NoId
    <3>1. t.tag = "objid" /\ t.v = strings[c]
      BY <2>1 DEF NameTok, Tok
    <3>2. PICK i \in StringNumbers(buffer) : buffer[i].v = c /\ Rank(buffer, i) = strings[c]
      BY <2>1 DEF StringsInv, StrOk
    <3> HIDE DEF t, b
    <3>3. i \in StringNumbers(b) /\ i < n /\ Rank(b, i) = t.v /\ b[i].v = c
      BY <1>4, <3>1, <3>2
    <3> QED
      BY <1>4, <3>1, <3>3 DEF TextOf
  <2>2. CASE strings[c] = NoId
    <3>1. t.tag = "obj" /\ t.v = c
      BY <2>2 DEF NameTok, Tok
    <3> HIDE DEF t, b
    <3> QED
      BY <1>4, <3>1 DEF TextOf
  <2> QED
    BY <2>1, <2>2
<1>6. t.tag # "enum"
  BY DEF NameTok, Tok
<1> HIDE DEF b, t, n
<1>7. Follows(b, Len(b), b \o << u >>, u, cases)
  BY <1>4, <1>5, <1>6 DEF Follows
<1> QED
  BY <1>2, <1>3, <1>7, BodiesMore

\* the walk with no name of a class and no enum case begun
LEMMA NoneBegun ==
  ASSUME NumbersInv, NEW cases, BodyInv(cases), status = "running", ~(At("zval") /\ Z.t = "str")
  PROVE  ~EndsWith(buffer, Asking)
<1>1. ~EndsWith(buffer, {"obj", "objid"})
  BY DEF NumbersInv
<1>2. ~EndsWith(buffer, {"enum"})
  BY DEF BodyInv, Text
<1> QED
  BY <1>1, <1>2 DEF EndsWith, Asking

LEMMA BodyStopped ==
  ASSUME NEW cases, BodyInv(cases), UNCHANGED << heap, buffer >>, status' # "running"
  PROVE  BodyInv(cases)'
BY DEF BodyInv

\* one token, where nothing is asked
LEMMA BodyOneMore ==
  ASSUME WalkInv, NEW cases, BodyInv(cases), ~EndsWith(buffer, Asking),
         \A a \in Addr : Readable(heap'[a], cases),
         NEW t, t.tag # "enum", Emit(<< t >>)
  PROVE  BodyInv(cases)'
<1>1. BodiesOk(buffer', cases)
  BY BodyOne DEF BodyInv
<1>2. buffer \in Seq(Token)
  BY DEF WalkInv, TypeOK
<1>3. ~EndsWith(buffer', {"enum"})
  BY <1>2, LastToken DEF Emit
<1> QED
  BY <1>1, <1>3 DEF BodyInv

LEMMA LastOfTwo ==
  ASSUME WalkInv, NEW t, NEW u, Emit(<< t, u >>), NEW tags
  PROVE  EndsWith(buffer', tags) <=> u.tag \in tags
<1> DEFINE b == buffer \o << t >>
<1>1. buffer \in Seq(Token)
  BY DEF WalkInv, TypeOK
<1>2. b \in Seq(Token \cup {t}) /\ buffer' = b \o << u >>
  BY <1>1, PutOne, PutTwo DEF Emit
<1> HIDE DEF b
<1>3. EndsWith(b \o << u >>, tags) <=> u.tag \in tags
  BY <1>2, LastToken
<1> QED
  BY <1>2, <1>3

LEMMA BodyTwoMore ==
  ASSUME WalkInv, NEW cases, BodyInv(cases), ~EndsWith(buffer, Asking), heap' = heap,
         NEW t, NEW u, t.tag \notin Asking, u.tag # "enum", Emit(<< t, u >>)
  PROVE  BodyInv(cases)'
<1>1. BodiesOk(buffer', cases)
  BY BodyTwo DEF BodyInv
<1>2. ~EndsWith(buffer', {"enum"})
  BY LastOfTwo
<1> QED
  BY <1>1, <1>2 DEF BodyInv

LEMMA BodyNone ==
  ASSUME NEW cases, BodyInv(cases), ~EndsWith(buffer, Asking), UNCHANGED << heap, buffer >>
  PROVE  BodyInv(cases)'
BY DEF BodyInv, EndsWith, Asking

\* a class name and a body that is no enum case
LEMMA BodyNamedMore ==
  ASSUME WalkInv, StringsInv, NEW cases, BodyInv(cases), ~EndsWith(buffer, Asking),
         \A a \in Addr : Readable(heap'[a], cases),
         NEW c \in Str, NEW src, NEW u, BodyFits(c, u), u.tag # "enum", Emit(<< NameTok(c, src), u >>)
  PROVE  BodyInv(cases)'
<1>1. BodiesOk(buffer', cases)
  BY BodyNamed DEF BodyInv
<1>2. ~EndsWith(buffer', {"enum"})
  BY LastOfTwo
<1> QED
  BY <1>1, <1>2 DEF BodyInv

\* a string, which may be the name of an enum case
LEMMA StringBody ==
  ASSUME WalkInv, StringsInv, NumbersInv, NEW cases, BodyInv(cases),
         SerializeStringAgain \/ SerializeStringNew
  PROVE  BodyInv(cases)'
<1> DEFINE t == IF SerializeStringNew THEN Tok("str", Z.v, NoVal)
                ELSE IF Z.v = EmptyStr THEN Tok("empty", NoVal, NoVal) ELSE Tok("strid", strings[Z.v], Z.v)
<1>1. /\ At("zval") /\ Z.t = "str" /\ Emit(<< t >>) /\ heap' = heap
      /\ Z.v # EmptyStr => t.tag \in {"str", "strid"}
      /\ t.tag = "str" => t.v = Z.v
      /\ t.tag = "strid" => t.v = strings[Z.v] /\ strings[Z.v] # NoId
      /\ t.tag # "enum"
  BY DEF SerializeStringAgain, SerializeStringNew, AtZval, Z, Known, Tok
<1>2. Z.v \in Str
  BY <1>1, AtZvalFacts, ScalarTyped DEF AtZval, Z, Counted
<1> HIDE DEF t
<1> DEFINE b == buffer
           c == b \o << t >>
           n == Len(b)
<1>3. b \in Seq(Token) /\ status = "running"
  BY <1>1 DEF WalkInv, TypeOK, At
<1>4. /\ n \in Nat /\ c[n + 1] = t
      /\ StringNumbers(b) \subseteq 1..n /\ StringNumbers(b) \subseteq StringNumbers(c)
      /\ \A i \in StringNumbers(b) : c[i] = b[i] /\ Rank(c, i) = Rank(b, i)
  BY <1>3, PutOne, RankStays
<1>5. BodiesOk(b, cases) /\ StrOk(b, strings, string_count)
      /\ (EndsWith(b, {"enum"}) => \E s \in cases \ {EmptyStr} : Z = Text(s)) /\ ~EndsWith(b, {"obj", "objid"})
  BY <1>3 DEF BodyInv, StringsInv, NumbersInv
<1> HIDE DEF b, c, n
<1>6. ASSUME b # << >> PROVE Follows(b, n, c, t, cases)
  <2>1. b[n].tag \notin {"obj", "objid"}
    BY <1>5, <1>6 DEF EndsWith, n
  <2>2. ASSUME b[n].tag = "enum" PROVE t.tag \in {"str", "strid"} /\ \E s \in cases : TextOf(c, n + 1, s)
    <3>1. PICK s \in cases \ {EmptyStr} : Z = Text(s)
      BY <1>5, <1>6, <2>2 DEF EndsWith, n
    <3>2. s = Z.v /\ Z.v # EmptyStr
      BY <3>1 DEF Text
    <3>3. TextOf(c, n + 1, s)
      <4>1. CASE t.tag = "str"
        BY <1>1, <1>4, <3>2, <4>1 DEF TextOf
      <4>2. CASE t.tag = "strid"
        <5>1. PICK i \in StringNumbers(b) : b[i].v = s /\ Rank(b, i) = t.v
          BY <1>1, <1>2, <1>5, <3>2, <4>2 DEF StrOk
        <5>2. i \in StringNumbers(c) /\ i < n + 1 /\ Rank(c, i) = t.v /\ c[i].v = s
          BY <1>4, <5>1
        <5> QED
          BY <1>4, <4>2, <5>2 DEF TextOf
      <4> QED
        BY <1>1, <3>2, <4>1, <4>2
    <3> QED
      BY <1>1, <3>2, <3>3
  <2> QED
    BY <2>1, <2>2 DEF Follows
<1>7. BodiesOk(c, cases) /\ ~EndsWith(c, {"enum"})
  BY <1>1, <1>3, <1>5, <1>6, BodiesMore, LastToken DEF c, n
<1> QED
  BY <1>1, <1>7 DEF BodyInv, Emit, b, c

LEMMA ZvalKeepsBodies ==
  ASSUME WalkInv, StringsInv, NumbersInv, NEW cases, BodyInv(cases), SerializeZval
  PROVE  BodyInv(cases)'
<1>1. CASE StackOverflows \/ TooManyStrings \/ TooManyReferences
  BY <1>1, BodyStopped DEF StackOverflows, TooManyStrings, TooManyReferences, Fail
<1>2. CASE SerializeStringAgain \/ SerializeStringNew
  BY <1>2, StringBody
<1>3. ASSUME At("zval"), Z.t # "str" PROVE ~EndsWith(buffer, Asking)
  BY <1>3, NoneBegun DEF At
<1>4. ASSUME At("zval"), Z.t # "str", heap' = heap, NEW t, t.tag # "enum", Emit(<< t >>)
      PROVE  BodyInv(cases)'
  BY <1>3, <1>4, BodyOneMore DEF BodyInv
<1>5. CASE SerializeScalar
  <2>1. PICK t : t.tag # "enum" /\ Emit(<< t >>)
    BY <1>5 DEF SerializeScalar, Tok
  <2> QED
    BY <1>4, <1>5, <2>1 DEF SerializeScalar, AtZval, Z
<1>6. CASE SerializeArrayAgain
  BY <1>4, <1>6 DEF SerializeArrayAgain, AtZval, Z, BackRef, Tok
<1>7. CASE SerializeArrayNew
  BY <1>4, <1>7 DEF SerializeArrayNew, AtZval, Z, Header, Tok
<1>8. CASE SerializeReferenceUnshared
  BY <1>3, <1>8, BodyNone DEF SerializeReferenceUnshared, AtZval, Z
<1>9. CASE SerializeReferenceToObject
  BY <1>4, <1>9 DEF SerializeReferenceToObject, AtZval, Z, RefTok, Tok
<1>10. RefTok(Z).tag \notin Asking /\ BackRef(Z).tag # "enum" /\ \A x, src : Header(x, src).tag # "enum"
  BY DEF RefTok, BackRef, Header, Tok, Asking
<1>11. CASE SerializeReferenceAgain
  <2>1. At("zval") /\ Z.t # "str" /\ heap' = heap /\ Emit(<< RefTok(Z), BackRef(Z) >>)
    BY <1>11 DEF SerializeReferenceAgain, AtZval, Z
  <2> QED
    BY <1>3, <1>10, <2>1, BodyTwoMore
<1>12. CASE SerializeReferenceNew
  <2>1. At("zval") /\ Z.t # "str" /\ heap' = heap
    BY <1>12 DEF SerializeReferenceNew, AtZval, Z
  <2>2. CASE Boxed(Z).t = "arr"
    <3>1. Emit(<< RefTok(Z), Header(heap[Boxed(Z).v], Src(Z.v)) >>)
      BY <1>12, <2>2 DEF SerializeReferenceNew
    <3> QED
      BY <1>3, <1>10, <2>1, <3>1, BodyTwoMore
  <2>3. CASE Boxed(Z).t # "arr"
    <3>1. Emit(<< RefTok(Z) >>) /\ RefTok(Z).tag # "enum"
      BY <1>12, <2>3 DEF SerializeReferenceNew, RefTok, Tok
    <3> QED
      BY <1>4, <2>1, <3>1
  <2> QED
    BY <2>2, <2>3
<1> QED
  BY <1>1, <1>2, <1>5, <1>6, <1>7, <1>8, <1>9, <1>11, <1>12 DEF SerializeZval

\* user code takes no case from an enum and no name from an incomplete object
LEMMA UnsetsReadable ==
  ASSUME heap \in [Addr -> Cell], RefWrites = {}, NEW held, NEW H \in Unsets(held), NEW b \in Addr,
         NEW cases, Readable(heap[b], cases)
  PROVE  Readable(H[b], cases)
<1>1. CASE H = heap
  BY <1>1
<1>2. CASE H # heap
  <2>0. PICK a \in Writable(heap, held) : \E i \in DOMAIN heap[a].elems : H = Unset(heap, a, i)
    BY <1>2 DEF Unsets, UnsetsIn
  <2>1. PICK i \in DOMAIN heap[a].elems : H = Unset(heap, a, i)
    BY <2>0
  <2>2. a \in Addr /\ heap[a].kind = "obj" /\ ~Fixed(heap[a]) /\ ~Incomplete(heap[a])
    BY HeldAreLive DEF Writable
  <2> DEFINE fs == [heap[a].elems EXCEPT ![i] = [heap[a].elems[i] EXCEPT !.v = Undef]]
             c  == [heap[a] EXCEPT !.elems = fs]
  <2>3. c.kind = heap[a].kind /\ c.cls = heap[a].cls
    <3>1. heap[a] \in Cell
      BY <2>2
    <3> HIDE DEF fs
    <3> QED
      BY <3>1 DEF Cell
  <2>4. H = [heap EXCEPT ![a] = c]
    BY <2>1 DEF Unset
  <2> HIDE DEF c
  <2>5. Readable(c, cases)
    BY <2>2, <2>3 DEF Readable, Fixed, Incomplete
  <2> QED
    BY <2>2, <2>4, <2>5
<1> QED
  BY <1>1, <1>2

LEMMA ArraysReadable == ASSUME NEW c, c.kind = "arr", NEW cases PROVE Readable(c, cases)
BY DEF Readable, Fixed, Incomplete

LEMMA ObjectKeepsBodies ==
  ASSUME WalkInv, StringsInv, NumbersInv, ~NullResult, RefWrites = {}, NEW cases, ReadableCells(cases),
         BodyInv(cases), SerializeObject
  PROVE  BodyInv(cases)'
<1>1. CASE SerializeObjectThrows \/ TooManyStringsForName
  BY <1>1, BodyStopped DEF SerializeObjectThrows, TooManyStringsForName, Fail
<1>2. CASE SerializeObjectNull
  BY <1>2 DEF SerializeObjectNull
<1>3. SUFFICES ASSUME AtZval({"obj"}) PROVE BodyInv(cases)'
  BY <1>1, <1>2 DEF SerializeObject, SerializeObjectAgain, SerializeObjectPlain, SerializeObjectEnum,
     SerializeObjectMagic, SerializeObjectData, SerializeObjectSleep, NewNamedObject, NewObject
<1>4. /\ todo # << >> /\ Z.v \in Live(heap, Held) /\ Z.v \in Addr /\ heap[Z.v] \in Cell
      /\ heap[Z.v].kind = "obj" /\ Cls \in Class /\ Cls \in Str /\ ClassName \in Str
      /\ ~EndsWith(buffer, Asking) /\ heap \in [Addr -> Cell] /\ status = "running"
  BY <1>3, ObjectFacts, AtZvalFacts, NoneBegun DEF AtZval, At, Counted, Z, WalkInv, TypeOK
<1>5. \A a \in Addr : Readable(heap[a], cases)
  BY DEF BodyInv
<1>6. KindRead(Cls) = Kind[Cls]
  BY <1>4 DEF KindRead
<1>7. \A H \in Unsets(HeldWith(Z.v)) : \A a \in Addr : Readable(H[a], cases)
  BY <1>4, <1>5, UnsetsReadable
<1>8. CASE SerializeObjectAgain
  <2>1. BackRef(Z).tag # "enum" /\ Emit(<< BackRef(Z) >>) /\ heap' = heap
    BY <1>8 DEF SerializeObjectAgain, BackRef, Tok
  <2> QED
    BY <1>4, <1>5, <2>1, BodyOneMore
<1>9. CASE SerializeObjectPlain
  <2>1. /\ Kind[Cls] \in {"plain", "wakeup"} /\ heap' = heap
        /\ Emit(<< NameTok(ClassName, Src(Z.v)), Header(heap[Z.v], NoVal) >>)
    BY <1>9 DEF SerializeObjectPlain, NewObject
  <2>2. KindRead(ClassName) \notin {"enum", "banned"}
    <3>1. CASE Incomplete(heap[Z.v])
      BY <1>4, <1>5, <3>1 DEF Readable, ClassName
    <3>2. CASE ~Incomplete(heap[Z.v])
      BY <1>6, <2>1, <3>2 DEF ClassName, WrittenName, Cls
    <3> QED
      BY <3>1, <3>2
  <2>3. Header(heap[Z.v], NoVal).tag = "arr"
    BY DEF Header, Tok
  <2>4. BodyFits(ClassName, Header(heap[Z.v], NoVal))
    BY <2>2, <2>3 DEF BodyFits
  <2> QED
    BY <1>4, <1>5, <2>1, <2>3, <2>4, BodyNamedMore
<1>10. CASE SerializeObjectEnum
  <2> DEFINE u == Tok("enum", NoVal, NoVal)
             t == NameTok(Cls, Src(Z.v))
             z == heap[Z.v].elems[1].v
  <2>1. /\ Kind[Cls] = "enum" /\ heap' = heap /\ status' = status
        /\ Emit(<< t, u >>) /\ Do(<< Value(z) >>)
    BY <1>10 DEF SerializeObjectEnum, NewNamedObject, NewObject
  <2>2. Fixed(heap[Z.v])
    BY <1>4, <2>1 DEF Fixed, Cls
  <2>3. PICK s \in cases \ {EmptyStr} : z = Text(s)
    BY <1>4, <1>5, <2>2 DEF Readable
  <2>4. z \in Zval
    <3>1. 1 \in DOMAIN heap[Z.v].elems
      BY <1>4, <2>2, CellTyped DEF WalkInv, HeapInv, CellsOK
    <3> QED
      BY <1>4, <3>1, CellTyped
  <2>5. u.tag = "enum"
    BY DEF Tok
  <2> HIDE DEF u, z
  <2>6. BodyFits(Cls, u)
    BY <1>6, <2>1, <2>5 DEF BodyFits
  <2>7. BodiesOk(buffer', cases)
    BY <1>4, <2>1, <2>6, BodyNamed DEF BodyInv
  <2>8. At("zval")' /\ Z' = z
    BY <1>4, <2>1, <2>4, ValueNext
  <2> QED
    BY <1>5, <2>1, <2>3, <2>7, <2>8 DEF BodyInv
<1>11. CASE SerializeObjectMagic
  <2>1. PICK H, G, new, ret :
          /\ H \in Unsets(HeldWith(Z.v)) /\ Returned(G, new, ret)
          /\ \A a \in Addr : G[a] = H[a] \/ G[a].kind = "arr" \/ G[a] \in TempCells
    BY <1>11, WhatIsReturned
  <2>2. heap' = G /\ Emit(<< NameTok(Cls, Src(Z.v)), Header(G[ret], NoVal) >>)
    BY <2>1 DEF Returned
  <2>3. \A a \in Addr : Readable(heap'[a], cases)
    BY <1>7, <2>1, <2>2, ArraysReadable DEF ReadableCells
  <2>4. Header(G[ret], NoVal).tag = "arr" /\ Kind[Cls] = "serialize"
    BY <1>11 DEF Header, Tok, SerializeObjectMagic, NewNamedObject, NewObject
  <2>5. BodyFits(Cls, Header(G[ret], NoVal))
    BY <1>6, <2>4 DEF BodyFits
  <2> QED
    BY <1>4, <2>2, <2>3, <2>4, <2>5, BodyNamedMore
<1>12. CASE SerializeObjectData
  <2> DEFINE u == Tok("objser", NoVal, NoVal)
  <2>1. /\ Kind[Cls] = "serializable" /\ heap' \in Unsets(HeldWith(Z.v)) /\ Emit(<< NameTok(Cls, Src(Z.v)), u >>)
    BY <1>12 DEF SerializeObjectData, NewNamedObject, NewObject
  <2>2. u.tag = "objser"
    BY DEF Tok
  <2> HIDE DEF u
  <2>3. BodyFits(Cls, u) /\ \A a \in Addr : Readable(heap'[a], cases)
    BY <1>6, <1>7, <2>1, <2>2 DEF BodyFits
  <2> QED
    BY <1>4, <2>1, <2>2, <2>3, BodyNamedMore
<1>13. CASE SerializeObjectSleep
  <2>1. PICK n : /\ Kind[Cls] = "sleep" /\ heap' \in Unsets(HeldWith(Z.v))
                 /\ Emit(<< NameTok(Cls, Src(Z.v)), Tok("arr", n, NoVal) >>)
    BY <1>13 DEF SerializeObjectSleep, NewNamedObject, NewObject
  <2> DEFINE u == Tok("arr", n, NoVal)
  <2>2. u.tag = "arr" /\ Emit(<< NameTok(Cls, Src(Z.v)), u >>)
    BY <2>1 DEF Tok
  <2> HIDE DEF u
  <2>3. BodyFits(Cls, u) /\ \A a \in Addr : Readable(heap'[a], cases)
    BY <1>6, <1>7, <2>1, <2>2 DEF BodyFits
  <2> QED
    BY <1>4, <2>2, <2>3, BodyNamedMore
<1> QED
  BY <1>1, <1>2, <1>8, <1>9, <1>10, <1>11, <1>12, <1>13 DEF SerializeObject

LEMMA TableKeepsBodies ==
  ASSUME WalkInv, NumbersInv, NEW cases, BodyInv(cases), SerializeTable
  PROVE  BodyInv(cases)'
<1>1. CASE SleepUninitialized
  BY <1>1, BodyStopped DEF SleepUninitialized, Fail
<1>2. SerializeTable /\ ~SleepUninitialized => ~EndsWith(buffer, Asking)
  <2>1. ASSUME NEW op, op # "zval", At(op) PROVE ~EndsWith(buffer, Asking)
    BY <2>1, NoneBegun DEF At
  <2> QED
    BY <2>1 DEF SerializeTable, SkipMagic, SkipDeleted, PadUnset, SerializeEntry, EndTable,
         ReleaseReturned, SleepNotAString, SleepProperty, AtBucket
<1>3. CASE PadUnset \/ SleepNotAString
  <2>1. Emit(<< Tok("null", NoVal, NoVal) >>) /\ heap' = heap /\ Tok("null", NoVal, NoVal).tag # "enum"
        /\ ~SleepUninitialized
    BY <1>3 DEF PadUnset, SleepNotAString, Tok, SleepUninitialized, AtBucket, At
  <2> QED
    BY <1>2, <2>1, BodyOneMore DEF BodyInv
<1>4. CASE ~SleepUninitialized /\
           (SkipMagic \/ SkipDeleted \/ SerializeEntry \/ EndTable \/ ReleaseReturned \/ SleepProperty)
  <2>1. UNCHANGED << heap, buffer >>
    BY <1>4 DEF SkipMagic, SkipDeleted, SerializeEntry, EndTable, ReleaseReturned, SleepProperty
  <2> QED
    BY <1>2, <1>4, <2>1, BodyNone
<1> QED
  BY <1>1, <1>3, <1>4 DEF SerializeTable

LEMMA BodyAtStart ==
  ASSUME NEW cases, ReadableCells(cases), Init
  PROVE  BodyInv(cases)
<1>1. \A a \in Addr : Readable(heap[a], cases)
  BY DEF Init, ReadableCells
<1>2. buffer = << >>
  BY DEF Init
<1> QED
  BY <1>1, <1>2 DEF BodyInv, BodiesOk, EndsWith

LEMMA BodyStep ==
  ASSUME ~NullResult, RefWrites = {}, NEW cases, ReadableCells(cases),
         WalkInv, StringsInv, NumbersInv, BodyInv(cases), [Next]_vars
  PROVE  BodyInv(cases)'
<1>1. CASE SerializeZval
  BY <1>1, ZvalKeepsBodies
<1>2. CASE SerializeObject
  BY <1>2, ObjectKeepsBodies
<1>3. CASE SerializeTable
  BY <1>3, TableKeepsBodies
<1>4. CASE Deinit
  BY <1>4, BodyStopped DEF Deinit
<1>5. CASE UNCHANGED vars
  BY <1>5 DEF vars, BodyInv, At, Z
<1> QED
  BY <1>1, <1>2, <1>3, <1>4, <1>5 DEF Next
=============================================================================
