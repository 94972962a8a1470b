-------------------------- MODULE UnserializeProofs --------------------------
(***************************************************************************)
(* What holds of the reader and its callers for every value of the         *)
(* constants: any input, whoever wrote it, any limit, any user code.       *)
(***************************************************************************)
EXTENDS Callers, SequenceTheorems, FiniteSetTheorems, TLAPS

(***************************************************************************)
(* Cells.  A heap whose pointers stay below n; every table has distinct    *)
(* keys.  The reader only puts a value into a slot, appends an element     *)
(* with a new key, or appends a cell of at most one element.               *)
(***************************************************************************)
Vals(n)  == {Null, Undef} \cup Key \cup [t : Counted, v : 1..n]
Pairs(n) == [k : Key \cup {Null}, v : Vals(n)]
CellT(n) == [kind : Counted \cup {"hold"}, cls : Str \cup {NoVal}, shared : BOOLEAN,
             elems : Seq(Pairs(n))]
KeysDiffer(c) == \A i, j \in DOMAIN c.elems : c.elems[i].k = c.elems[j].k => i = j
Heap(H, n) == /\ H \in Seq(CellT(n))
              /\ \A a \in DOMAIN H : KeysDiffer(H[a])

SlotOK(H, s) == s[1] \in DOMAIN H /\ s[2] \in DOMAIN H[s[1]].elems
Grows(H, G)  == /\ Len(H) <= Len(G)
                /\ \A a \in DOMAIN H : Len(H[a].elems) <= Len(G[a].elems) /\ G[a].kind = H[a].kind

LEMMA CellWiden ==
  ASSUME NEW m \in Nat, NEW n \in Nat, m <= n, NEW c \in CellT(m)
  PROVE  c \in CellT(n)
<1>1. 1..m \subseteq 1..n
  OBVIOUS
<1>2. Vals(m) \subseteq Vals(n)
  BY <1>1 DEF Vals
<1>3. Pairs(m) \subseteq Pairs(n)
  BY <1>2 DEF Pairs
<1>4. Seq(Pairs(m)) \subseteq Seq(Pairs(n))
  BY <1>3
<1> QED
  BY <1>4 DEF CellT

LEMMA HeapWiden ==
  ASSUME NEW m \in Nat, NEW n \in Nat, m <= n, NEW H, Heap(H, m)
  PROVE  Heap(H, n)
<1>1. CellT(m) \subseteq CellT(n)
  BY CellWiden
<1>2. Seq(CellT(m)) \subseteq Seq(CellT(n))
  BY <1>1
<1> QED
  BY <1>2 DEF Heap

LEMMA PutFacts ==
  ASSUME NEW n \in Nat, NEW H, Heap(H, n), NEW s, SlotOK(H, s), NEW z
  PROVE  /\ DOMAIN Put(H, s, z) = DOMAIN H
         /\ Len(Put(H, s, z)) = Len(H)
         /\ \A a \in DOMAIN H : /\ Put(H, s, z)[a].kind = H[a].kind
                                /\ Put(H, s, z)[a].cls = H[a].cls
                                /\ Put(H, s, z)[a].shared = H[a].shared
                                /\ DOMAIN Put(H, s, z)[a].elems = DOMAIN H[a].elems
                                /\ Len(Put(H, s, z)[a].elems) = Len(H[a].elems)
                                /\ a # s[1] => Put(H, s, z)[a] = H[a]
                                /\ \A i \in DOMAIN H[a].elems :
                                     /\ Put(H, s, z)[a].elems[i].k = H[a].elems[i].k
                                     /\ Put(H, s, z)[a].elems[i].v =
                                          IF a = s[1] /\ i = s[2] THEN z ELSE H[a].elems[i].v
<1> DEFINE G == Put(H, s, z)
<1>1. H \in Seq(CellT(n)) /\ s[1] \in DOMAIN H /\ s[2] \in DOMAIN H[s[1]].elems
  BY DEF Heap, SlotOK
<1>2. H[s[1]] \in CellT(n) /\ \A a \in DOMAIN H : H[a] \in CellT(n)
  BY <1>1
<1>3. \A a \in DOMAIN H : H[a].elems \in Seq(Pairs(n))
  BY <1>2 DEF CellT
<1> DEFINE es == H[s[1]].elems
<1>4. G = [H EXCEPT ![s[1]] = [H[s[1]] EXCEPT !.elems = [es EXCEPT ![s[2]] = [es[s[2]] EXCEPT !.v = z]]]]
  BY DEF Put
<1>5. DOMAIN G = DOMAIN H /\ Len(G) = Len(H)
  BY <1>1, <1>4
<1>6. \A a \in DOMAIN H : a # s[1] => G[a] = H[a]
  BY <1>1, <1>4
<1>7. G[s[1]] = [H[s[1]] EXCEPT !.elems = [es EXCEPT ![s[2]] = [es[s[2]] EXCEPT !.v = z]]]
  BY <1>1, <1>4
<1>8. /\ G[s[1]].kind = H[s[1]].kind /\ G[s[1]].cls = H[s[1]].cls /\ G[s[1]].shared = H[s[1]].shared
      /\ G[s[1]].elems = [es EXCEPT ![s[2]] = [es[s[2]] EXCEPT !.v = z]]
  BY <1>2, <1>7 DEF CellT
<1>9. es \in Seq(Pairs(n)) /\ s[2] \in DOMAIN es
  BY <1>1, <1>3
<1>10. DOMAIN G[s[1]].elems = DOMAIN es /\ Len(G[s[1]].elems) = Len(es)
  BY <1>8, <1>9
<1>11. \A i \in DOMAIN es : /\ G[s[1]].elems[i].k = es[i].k
                            /\ G[s[1]].elems[i].v = IF i = s[2] THEN z ELSE es[i].v
  <2>1. \A i \in DOMAIN es : es[i] \in Pairs(n)
    BY <1>9
  <2> QED
    BY SMTT(30), <1>8, <1>9, <2>1 DEF Pairs
<1> HIDE DEF G, es
<1>12. \A a \in DOMAIN H : /\ G[a].kind = H[a].kind /\ G[a].cls = H[a].cls /\ G[a].shared = H[a].shared
                           /\ DOMAIN G[a].elems = DOMAIN H[a].elems
                           /\ Len(G[a].elems) = Len(H[a].elems)
                           /\ \A i \in DOMAIN H[a].elems :
                                /\ G[a].elems[i].k = H[a].elems[i].k
                                /\ G[a].elems[i].v = IF a = s[1] /\ i = s[2] THEN z ELSE H[a].elems[i].v
  <2>1. SUFFICES ASSUME NEW a \in DOMAIN H
                 PROVE  /\ G[a].kind = H[a].kind /\ G[a].cls = H[a].cls /\ G[a].shared = H[a].shared
                        /\ DOMAIN G[a].elems = DOMAIN H[a].elems
                        /\ Len(G[a].elems) = Len(H[a].elems)
                        /\ \A i \in DOMAIN H[a].elems :
                             /\ G[a].elems[i].k = H[a].elems[i].k
                             /\ G[a].elems[i].v = IF a = s[1] /\ i = s[2] THEN z ELSE H[a].elems[i].v
    OBVIOUS
  <2>2. CASE a = s[1]
    BY <2>2, <1>8, <1>10, <1>11 DEF es
  <2>3. CASE a # s[1]
    BY <2>3, <1>6
  <2> QED
    BY <2>2, <2>3
<1> QED
  BY <1>5, <1>6, <1>12 DEF G

LEMMA PutHeap ==
  ASSUME NEW n \in Nat, NEW H, Heap(H, n), NEW s, SlotOK(H, s), NEW z \in Vals(n)
  PROVE  Heap(Put(H, s, z), n) /\ Grows(H, Put(H, s, z)) /\ Len(Put(H, s, z)) = Len(H)
<1> DEFINE G == Put(H, s, z)
<1> HIDE DEF G
<1>1. /\ DOMAIN G = DOMAIN H /\ Len(G) = Len(H)
      /\ \A a \in DOMAIN H : Len(G[a].elems) = Len(H[a].elems) /\ G[a].kind = H[a].kind
      /\ \A a \in DOMAIN H : DOMAIN G[a].elems = DOMAIN H[a].elems
      /\ \A a \in DOMAIN H : \A i \in DOMAIN H[a].elems : G[a].elems[i].k = H[a].elems[i].k
  BY PutFacts DEF G
<1>2. H \in Seq(CellT(n)) /\ \A a \in DOMAIN H : H[a] \in CellT(n) /\ KeysDiffer(H[a])
  BY DEF Heap
<1>3. \A a \in DOMAIN H : KeysDiffer(G[a])
  BY <1>1, <1>2 DEF KeysDiffer
<1>4. G \in Seq(CellT(n))
  <2>1. [H[s[1]].elems[s[2]] EXCEPT !.v = z] \in Pairs(n)
    <3>1. H[s[1]].elems \in Seq(Pairs(n))
      BY <1>2 DEF SlotOK, CellT
    <3>2. H[s[1]].elems[s[2]] \in Pairs(n)
      BY <3>1 DEF SlotOK
    <3> QED
      BY <3>2 DEF Pairs
  <2>2. [H[s[1]].elems EXCEPT ![s[2]].v = z] \in Seq(Pairs(n))
    BY <2>1, <1>2 DEF SlotOK, CellT
  <2>3. [H[s[1]] EXCEPT !.elems[s[2]].v = z] \in CellT(n)
    BY <2>2, <1>2 DEF SlotOK, CellT
  <2> QED
    BY <2>3, <1>2 DEF SlotOK, G, Put
<1>5. Grows(H, G)
  <2>1. \A a \in DOMAIN H : Len(H[a].elems) \in Nat
    BY <1>2 DEF CellT
  <2>2. Len(H) \in Nat
    BY <1>2
  <2> QED
    BY <1>1, <2>1, <2>2 DEF Grows
<1> QED
  BY <1>1, <1>3, <1>4, <1>5 DEF Heap, G

LEMMA AppendHeap ==
  ASSUME NEW n \in Nat, NEW H, Heap(H, n), NEW c \in CellT(n), Len(c.elems) <= 1
  PROVE  /\ Heap(Append(H, c), n) /\ Grows(H, Append(H, c)) /\ Len(Append(H, c)) = Len(H) + 1
         /\ Append(H, c)[Len(H) + 1] = c
         /\ \A a \in DOMAIN H : Append(H, c)[a] = H[a]
<1> DEFINE G == Append(H, c)
<1>1. H \in Seq(CellT(n)) /\ Len(H) \in Nat /\ \A a \in DOMAIN H : KeysDiffer(H[a]) /\ H[a] \in CellT(n)
  BY DEF Heap
<1>2. /\ G \in Seq(CellT(n)) /\ Len(G) = Len(H) + 1 /\ G[Len(H) + 1] = c
      /\ \A a \in DOMAIN H : G[a] = H[a]
      /\ \A a \in DOMAIN G : a \in DOMAIN H \/ a = Len(H) + 1
  BY <1>1
<1> HIDE DEF G
<1>3. KeysDiffer(c)
  <2>1. c.elems \in Seq(Pairs(n))
    BY DEF CellT
  <2> QED
    BY <2>1 DEF KeysDiffer
<1>4. \A a \in DOMAIN H : Len(H[a].elems) \in Nat
  BY <1>1 DEF CellT
<1> QED
  BY <1>1, <1>2, <1>3, <1>4 DEF Heap, Grows, G

LEMMA GrowsTrans ==
  ASSUME NEW m \in Nat, NEW n \in Nat, NEW l \in Nat, NEW F, NEW H, NEW G, Heap(F, l), Heap(H, m), Heap(G, n),
         Grows(F, H), Grows(H, G)
  PROVE  Grows(F, G)
<1>1. /\ Len(F) \in Nat /\ Len(G) \in Nat /\ Len(H) \in Nat
      /\ DOMAIN F = 1..Len(F) /\ DOMAIN G = 1..Len(G) /\ DOMAIN H = 1..Len(H)
  BY DEF Heap
<1>2. DOMAIN F \subseteq DOMAIN H /\ DOMAIN H \subseteq DOMAIN G
  BY <1>1 DEF Grows
<1>3. /\ \A a \in DOMAIN F : Len(F[a].elems) \in Nat
      /\ \A a \in DOMAIN G : Len(G[a].elems) \in Nat
      /\ \A a \in DOMAIN H : Len(H[a].elems) \in Nat
  BY DEF Heap, CellT
<1> QED
  BY SMTT(30), <1>1, <1>2, <1>3 DEF Grows

\* growing keeps slots
LEMMA SlotStays ==
  ASSUME NEW m \in Nat, NEW n \in Nat, NEW H, NEW G, Heap(H, m), Heap(G, n), Grows(H, G),
         NEW s, SlotOK(H, s)
  PROVE  SlotOK(G, s)
<1>1. s[1] \in DOMAIN G
  BY DEF Heap, Grows, SlotOK
<1>2. H[s[1]] \in CellT(m) /\ G[s[1]] \in CellT(n)
  BY <1>1 DEF Heap, SlotOK
<1>3. H[s[1]].elems \in Seq(Pairs(m)) /\ G[s[1]].elems \in Seq(Pairs(n))
  BY <1>2 DEF CellT
<1> QED
  BY <1>1, <1>3 DEF Grows, SlotOK
\* a table takes an element whose key it does not have
AddElem(H, h, e) == [H EXCEPT ![h].elems = Append(@, e)]

LEMMA AddElemHeap ==
  ASSUME NEW n \in Nat, NEW H, Heap(H, n), NEW h \in DOMAIN H, NEW e \in Pairs(n),
         \A i \in DOMAIN H[h].elems : H[h].elems[i].k # e.k
  PROVE  /\ Heap(AddElem(H, h, e), n) /\ Grows(H, AddElem(H, h, e))
         /\ Len(AddElem(H, h, e)) = Len(H)
         /\ \A a \in DOMAIN H : a # h => AddElem(H, h, e)[a] = H[a]
         /\ Len(AddElem(H, h, e)[h].elems) = Len(H[h].elems) + 1
         /\ AddElem(H, h, e)[h].elems[Len(H[h].elems) + 1] = e
         /\ \A i \in DOMAIN H[h].elems : AddElem(H, h, e)[h].elems[i] = H[h].elems[i]
<1> DEFINE G  == AddElem(H, h, e)
           es == H[h].elems
           c  == [H[h] EXCEPT !.elems = Append(es, e)]
<1>1. H \in Seq(CellT(n)) /\ Len(H) \in Nat /\ \A a \in DOMAIN H : H[a] \in CellT(n) /\ KeysDiffer(H[a])
  BY DEF Heap
<1>2. G = [H EXCEPT ![h] = c]
  BY DEF AddElem
<1>3. es \in Seq(Pairs(n)) /\ Len(es) \in Nat
  BY <1>1 DEF CellT
<1>4. /\ Append(es, e) \in Seq(Pairs(n)) /\ Len(Append(es, e)) = Len(es) + 1
      /\ Append(es, e)[Len(es) + 1] = e
      /\ \A i \in DOMAIN es : Append(es, e)[i] = es[i]
      /\ DOMAIN Append(es, e) = 1..(Len(es) + 1)
      /\ DOMAIN es = 1..Len(es)
  BY <1>3
<1>5. c \in CellT(n) /\ c.elems = Append(es, e) /\ c.kind = H[h].kind
  BY <1>1, <1>4 DEF CellT
<1>6. KeysDiffer(c)
  <2>1. SUFFICES ASSUME NEW i \in DOMAIN c.elems, NEW j \in DOMAIN c.elems,
                        c.elems[i].k = c.elems[j].k
                 PROVE  i = j
    BY DEF KeysDiffer
  <2>2. \A m \in DOMAIN c.elems : m \in DOMAIN es \/ (m = Len(es) + 1 /\ c.elems[m] = e)
    BY <1>3, <1>4, <1>5
  <2>3. \A m \in DOMAIN es : c.elems[m] = es[m] /\ es[m].k # e.k
    BY <1>4, <1>5
  <2>4. \A l, m \in DOMAIN es : es[l].k = es[m].k => l = m
    BY <1>1 DEF KeysDiffer
  <2> HIDE DEF c, es
  <2> QED
    BY <2>1, <2>2, <2>3, <2>4
<1> HIDE DEF c, es
<1>7. /\ G \in Seq(CellT(n)) /\ DOMAIN G = DOMAIN H /\ Len(G) = Len(H) /\ G[h] = c
      /\ \A a \in DOMAIN H : a # h => G[a] = H[a]
  BY <1>1, <1>2, <1>5
<1> HIDE DEF G
<1>8. \A a \in DOMAIN H : KeysDiffer(G[a])
  BY <1>1, <1>6, <1>7
<1>9. \A a \in DOMAIN H : Len(H[a].elems) \in Nat
  BY <1>1 DEF CellT
<1>10. Len(G[h].elems) = Len(es) + 1
  BY <1>4, <1>5, <1>7
<1>11. Grows(H, G)
  <2>1. \A a \in DOMAIN H : Len(H[a].elems) <= Len(G[a].elems) /\ G[a].kind = H[a].kind
    <3>1. SUFFICES ASSUME NEW a \in DOMAIN H
                   PROVE  Len(H[a].elems) <= Len(G[a].elems) /\ G[a].kind = H[a].kind
      OBVIOUS
    <3>2. CASE a = h
      BY <3>2, <1>3, <1>5, <1>7, <1>10 DEF es
    <3>3. CASE a # h
      BY <3>3, <1>7, <1>9
    <3> QED
      BY <3>2, <3>3
  <2> QED
    BY <2>1, <1>1, <1>7 DEF Grows
<1> QED
  BY <1>4, <1>5, <1>7, <1>8, <1>10, <1>11 DEF Heap, G, es

(***************************************************************************)
(* Everything built is live: the cells of H are the only closed set of     *)
(* cells that holds S.                                                     *)
(***************************************************************************)
AllLive(H, S) == /\ S \subseteq DOMAIN H
                 /\ \A C \in SUBSET DOMAIN H : S \subseteq C /\ Closed(H, C) => C = DOMAIN H

LEMMA PointsTo ==
  ASSUME NEW H, NEW a, NEW i \in DOMAIN H[a].elems, H[a].elems[i].v.t \in Counted
  PROVE  H[a].elems[i].v.v \in Targets(H, a)
BY DEF Targets, Pointers

LEMMA TargetOf ==
  ASSUME NEW H, NEW a, NEW b \in Targets(H, a)
  PROVE  \E i \in DOMAIN H[a].elems : H[a].elems[i].v.t \in Counted /\ H[a].elems[i].v.v = b
BY DEF Targets, Pointers

LEMMA TargetsTyped ==
  ASSUME NEW n \in Nat, NEW H, Heap(H, n), NEW a \in DOMAIN H
  PROVE  Targets(H, a) \subseteq 1..n
<1>1. H[a] \in CellT(n)
  BY DEF Heap
<1>2. H[a].elems \in Seq(Pairs(n))
  BY <1>1 DEF CellT
<1>5. \A i \in DOMAIN H[a].elems : H[a].elems[i] \in Pairs(n)
  BY <1>2
<1>3. \A i \in DOMAIN H[a].elems : H[a].elems[i].v \in Vals(n)
  BY <1>5 DEF Pairs
<1>4. \A z \in Vals(n) : z.t \in Counted => z.v \in 1..n
  BY DEF Vals, Key, Null, Undef, Counted
<1> QED
  BY <1>3, <1>4, TargetOf

LEMMA LiveGrows ==
  ASSUME NEW H, NEW G, NEW S, NEW S2, Heap(H, Len(H)), AllLive(H, S),
         DOMAIN H \subseteq DOMAIN G, S \subseteq S2, S2 \subseteq DOMAIN G,
         \A C \in SUBSET DOMAIN G : S2 \subseteq C /\ Closed(G, C) =>
            /\ \A a \in C \cap DOMAIN H : Targets(H, a) \subseteq C
            /\ DOMAIN H \subseteq C => C = DOMAIN G
  PROVE  AllLive(G, S2)
<1>1. SUFFICES ASSUME NEW C \in SUBSET DOMAIN G, S2 \subseteq C, Closed(G, C)
               PROVE  C = DOMAIN G
  BY DEF AllLive
<1> DEFINE D == C \cap DOMAIN H
<1>2. Closed(H, D)
  <2>0. Len(H) \in Nat /\ DOMAIN H = 1..Len(H)
    BY DEF Heap
  <2>1. \A a \in D : Targets(H, a) \subseteq DOMAIN H
    BY <2>0, TargetsTyped
  <2> QED
    BY <2>1, <1>1 DEF Closed
<1>3. S \subseteq D
  BY <1>1 DEF AllLive
<1>4. D = DOMAIN H
  BY <1>2, <1>3 DEF AllLive
<1> QED
  BY <1>1, <1>4

\* a slot is written: what it held before is held otherwise
Renewed(H, G, s, z) == DOMAIN H \subseteq DOMAIN G /\ \A a \in DOMAIN H : G[a] = Put(H, s, z)[a]
Covers(H, G, s, S)  ==
    \A C \in SUBSET DOMAIN G : S \subseteq C /\ Closed(G, C) =>
       /\ s[1] \in C /\ In(H, s).t \in Counted => In(H, s).v \in C
       /\ DOMAIN H \subseteq C => C = DOMAIN G

LEMMA PutLive ==
  ASSUME NEW H, NEW G, NEW S, NEW S2, Heap(H, Len(H)), AllLive(H, S),
         NEW s, SlotOK(H, s), NEW z, Renewed(H, G, s, z),
         S \subseteq S2, S2 \subseteq DOMAIN G, Covers(H, G, s, S2)
  PROVE  AllLive(G, S2)
<1>1. SUFFICES ASSUME NEW C \in SUBSET DOMAIN G, S2 \subseteq C, Closed(G, C), NEW a \in C \cap DOMAIN H
               PROVE  Targets(H, a) \subseteq C
  BY LiveGrows DEF Renewed, Covers
<1>2. SUFFICES ASSUME NEW b \in Targets(H, a) PROVE b \in C
  OBVIOUS
<1>3. PICK i \in DOMAIN H[a].elems : H[a].elems[i].v.t \in Counted /\ H[a].elems[i].v.v = b
  BY TargetOf
<1>4. CASE a = s[1] /\ i = s[2]
  BY <1>1, <1>3, <1>4 DEF In, Covers
<1>5. CASE ~(a = s[1] /\ i = s[2])
  <2>1. i \in DOMAIN G[a].elems /\ G[a].elems[i].v = H[a].elems[i].v
    <3>0. Len(H) \in Nat
      BY DEF Heap
    <3>1. /\ DOMAIN Put(H, s, z)[a].elems = DOMAIN H[a].elems
          /\ Put(H, s, z)[a].elems[i].v = H[a].elems[i].v
      BY <1>5, <1>3, <3>0, PutFacts
    <3> QED
      BY <3>1 DEF Renewed
  <2>2. b \in Targets(G, a)
    BY <2>1, <1>3, PointsTo
  <2> QED
    BY <2>2, <1>1 DEF Closed
<1> QED
  BY <1>4, <1>5

\* what is written into a slot can be followed
LEMMA SlotPoints ==
  ASSUME NEW H, Heap(H, Len(H)), NEW s, SlotOK(H, s), NEW z, z.t \in Counted,
         NEW G, \A a \in DOMAIN H : G[a] = Put(H, s, z)[a],
         NEW C, Closed(G, C), s[1] \in C
  PROVE  z.v \in C
<1>0. Len(H) \in Nat /\ s[1] \in DOMAIN H /\ s[2] \in DOMAIN H[s[1]].elems
  BY DEF Heap, SlotOK
<1>1. s[2] \in DOMAIN G[s[1]].elems /\ G[s[1]].elems[s[2]].v = z
  BY SMTT(30), <1>0, PutFacts
<1>2. z.v \in Targets(G, s[1])
  BY <1>1, PointsTo
<1> QED
  BY <1>2 DEF Closed

\* what every closed set with the held cells has in it is reachable from them
LEMMA ReachHas ==
  ASSUME NEW H, Heap(H, Len(H)), NEW S, S \subseteq DOMAIN H, NEW a \in DOMAIN H,
         \A C \in SUBSET DOMAIN H : Closed(H, C) /\ S \subseteq C => a \in C
  PROVE  a \in Reach(H, S)
<1>0. Len(H) \in Nat /\ DOMAIN H = 1..Len(H)
  BY DEF Heap
<1>1. \A U \in SUBSET DOMAIN H : OneStep(H, U) \in SUBSET DOMAIN H /\ U \subseteq OneStep(H, U)
  BY <1>0, TargetsTyped DEF OneStep
<1>2. Near(H, S) \in SUBSET DOMAIN H /\ S \subseteq Near(H, S)
  <2> DEFINE S1 == OneStep(H, S)
             S2 == OneStep(H, S1)
             S3 == OneStep(H, S2)
             S4 == OneStep(H, S3)
  <2>1. S1 \in SUBSET DOMAIN H /\ S \subseteq S1
    BY <1>1
  <2> HIDE DEF S1
  <2>2. S2 \in SUBSET DOMAIN H /\ S1 \subseteq S2
    BY <2>1, <1>1
  <2> HIDE DEF S2
  <2>3. S3 \in SUBSET DOMAIN H /\ S2 \subseteq S3
    BY <2>2, <1>1
  <2> HIDE DEF S3
  <2>4. S4 \in SUBSET DOMAIN H /\ S3 \subseteq S4
    BY <2>3, <1>1
  <2> QED
    BY <2>1, <2>2, <2>3, <2>4 DEF Near, S1, S2, S3, S4
<1> DEFINE far == DOMAIN H \ Near(H, S)
<1>3. SUFFICES ASSUME a \notin Near(H, S),
                      NEW D \in SUBSET far, Closed(H, Near(H, S) \cup D)
               PROVE  a \in D
  BY DEF Reach
<1>4. Near(H, S) \cup D \in SUBSET DOMAIN H /\ S \subseteq Near(H, S) \cup D
  BY <1>2
<1> QED
  BY <1>3, <1>4

\* the set that Reach computes holds every cell
LEMMA ReachIsAll ==
  ASSUME NEW H, NEW S, Heap(H, Len(H)), AllLive(H, S)
  PROVE  DOMAIN H \subseteq Reach(H, S)
BY ReachHas DEF AllLive

\* nothing else is held by a cell that holds no pointer
LEMMA ReachOfScalar ==
  ASSUME NEW H, NEW a, Targets(H, a) = {}
  PROVE  Reach(H, {a}) = {a}
<1>1. OneStep(H, {a}) = {a}
  BY DEF OneStep
<1>2. Near(H, {a}) = {a}
  BY <1>1 DEF Near
<1>3. Closed(H, Near(H, {a}) \cup {})
  BY <1>2 DEF Closed
<1>4. {} \subseteq DOMAIN H \ Near(H, {a})
  OBVIOUS
<1> QED
  BY <1>2, <1>3, <1>4 DEF Reach
(***************************************************************************)
(* What the reader does to the heap: cell 1 keeps its one element, and     *)
(* every pointer leads to a cell there is.                                 *)
(***************************************************************************)
HeapInv(H) == Heap(H, Len(H)) /\ 1 \in DOMAIN H /\ Len(H[1].elems) = 1

\* what may be put into a slot, or at the end of the heap
Dropped(H, s, S) == In(H, s).t \in Counted => In(H, s).v \in S
SmallCell(c, n)  == c \in CellT(n) /\ Len(c.elems) <= 1

LEMMA HeapBasics ==
  ASSUME NEW H, HeapInv(H)
  PROVE  /\ Len(H) \in Nat /\ Len(H) >= 1 /\ DOMAIN H = 1..Len(H)
         /\ \A a \in DOMAIN H : /\ H[a] \in CellT(Len(H)) /\ KeysDiffer(H[a])
                                /\ H[a].elems \in Seq(Pairs(Len(H))) /\ Len(H[a].elems) \in Nat
                                /\ DOMAIN H[a].elems = 1..Len(H[a].elems)
                                /\ \A i \in DOMAIN H[a].elems : H[a].elems[i] \in Pairs(Len(H))
                                /\ \A i \in DOMAIN H[a].elems : H[a].elems[i].v \in Vals(Len(H))
<1>1. Len(H) \in Nat /\ Len(H) >= 1 /\ DOMAIN H = 1..Len(H)
  BY DEF HeapInv, Heap
<1>2. SUFFICES ASSUME NEW a \in DOMAIN H
               PROVE  /\ H[a] \in CellT(Len(H)) /\ KeysDiffer(H[a])
                      /\ H[a].elems \in Seq(Pairs(Len(H))) /\ Len(H[a].elems) \in Nat
                      /\ DOMAIN H[a].elems = 1..Len(H[a].elems)
                      /\ \A i \in DOMAIN H[a].elems : H[a].elems[i] \in Pairs(Len(H))
                      /\ \A i \in DOMAIN H[a].elems : H[a].elems[i].v \in Vals(Len(H))
  BY <1>1
<1>3. H[a] \in CellT(Len(H)) /\ KeysDiffer(H[a])
  BY DEF HeapInv, Heap
<1>4. H[a].elems \in Seq(Pairs(Len(H)))
  BY <1>3 DEF CellT
<1>5. \A i \in DOMAIN H[a].elems : H[a].elems[i] \in Pairs(Len(H))
  BY <1>4
<1>6. \A i \in DOMAIN H[a].elems : H[a].elems[i].v \in Vals(Len(H))
  BY <1>5 DEF Pairs
<1> QED
  BY <1>3, <1>4, <1>5, <1>6

LEMMA PutOne ==
  ASSUME NEW H, HeapInv(H), NEW s, SlotOK(H, s), NEW z \in Vals(Len(H))
  PROVE  /\ HeapInv(Put(H, s, z)) /\ Grows(H, Put(H, s, z)) /\ Len(Put(H, s, z)) = Len(H)
         /\ DOMAIN Put(H, s, z) = DOMAIN H
<1>1. Len(H) \in Nat /\ Heap(H, Len(H)) /\ 1 \in DOMAIN H
  BY HeapBasics DEF HeapInv
<1>2. Heap(Put(H, s, z), Len(H)) /\ Grows(H, Put(H, s, z)) /\ Len(Put(H, s, z)) = Len(H)
  BY <1>1, PutHeap
<1>3. Len(Put(H, s, z)[1].elems) = Len(H[1].elems) /\ DOMAIN Put(H, s, z) = DOMAIN H
  BY <1>1, PutFacts
<1> QED
  BY <1>1, <1>2, <1>3 DEF HeapInv

\* a value is put into a slot and a cell at the end
LEMMA PutAppend ==
  ASSUME NEW H, HeapInv(H), NEW s, SlotOK(H, s), NEW n \in Nat, Len(H) <= n,
         NEW z \in Vals(n), NEW c, SmallCell(c, n)
  PROVE  LET G == Append(Put(H, s, z), c)
         IN  /\ Heap(G, n) /\ Grows(H, G) /\ Len(G) = Len(H) + 1
             /\ G[Len(H) + 1] = c
             /\ \A a \in DOMAIN H : G[a] = Put(H, s, z)[a]
             /\ Len(G[1].elems) = 1
<1> DEFINE P == Put(H, s, z)
           G == Append(P, c)
<1>1. Len(H) \in Nat /\ Heap(H, Len(H)) /\ 1 \in DOMAIN H /\ Len(H[1].elems) = 1
  BY HeapBasics DEF HeapInv
<1>2. Heap(H, n)
  BY <1>1, HeapWiden
<1>3. Heap(P, n) /\ Grows(H, P) /\ Len(P) = Len(H)
  BY <1>2, PutHeap
<1>4. Len(P[1].elems) = Len(H[1].elems) /\ DOMAIN P = DOMAIN H
  BY <1>1, <1>2, PutFacts
<1> HIDE DEF P
<1>5. /\ Heap(G, n) /\ Grows(P, G) /\ Len(G) = Len(P) + 1
      /\ G[Len(P) + 1] = c
      /\ \A a \in DOMAIN P : G[a] = P[a]
  BY <1>3, AppendHeap DEF SmallCell
<1> HIDE DEF G
<1>6. Grows(H, G)
  BY <1>1, <1>2, <1>3, <1>5, GrowsTrans
<1> QED
  BY <1>1, <1>3, <1>4, <1>5, <1>6 DEF P, G

\* and a second cell
LEMMA PutAppendTwo ==
  ASSUME NEW H, HeapInv(H), NEW s, SlotOK(H, s), NEW n \in Nat, Len(H) <= n,
         NEW z \in Vals(n), NEW c, SmallCell(c, n), NEW d, SmallCell(d, n)
  PROVE  LET G == Append(Append(Put(H, s, z), c), d)
         IN  /\ Heap(G, n) /\ Grows(H, G) /\ Len(G) = Len(H) + 2
             /\ G[Len(H) + 1] = c /\ G[Len(H) + 2] = d
             /\ \A a \in DOMAIN H : G[a] = Put(H, s, z)[a]
             /\ Len(G[1].elems) = 1
<1> DEFINE P == Append(Put(H, s, z), c)
           G == Append(P, d)
<1>1. /\ Heap(P, n) /\ Grows(H, P) /\ Len(P) = Len(H) + 1
      /\ P[Len(H) + 1] = c
      /\ \A a \in DOMAIN H : P[a] = Put(H, s, z)[a]
      /\ Len(P[1].elems) = 1
  BY PutAppend
<1> HIDE DEF P
<1>2. /\ Heap(G, n) /\ Grows(P, G) /\ Len(G) = Len(P) + 1
      /\ G[Len(P) + 1] = d
      /\ \A a \in DOMAIN P : G[a] = P[a]
  BY <1>1, AppendHeap DEF SmallCell
<1> HIDE DEF G
<1>3. Len(H) \in Nat /\ Heap(H, Len(H)) /\ DOMAIN H = 1..Len(H) /\ 1 \in DOMAIN H
  BY HeapBasics DEF HeapInv
<1>4. DOMAIN P = 1..Len(P)
  BY <1>1 DEF Heap
<1>5. Grows(H, G)
  BY <1>1, <1>2, <1>3, HeapWiden, GrowsTrans
<1>6. G[Len(H) + 1] = c /\ G[1] = P[1] /\ \A a \in DOMAIN H : G[a] = P[a]
  BY <1>1, <1>2, <1>3, <1>4
<1>7. Len(G) = Len(H) + 2 /\ G[Len(H) + 2] = d
  BY <1>1, <1>2, <1>3
<1> QED
  BY <1>1, <1>2, <1>3, <1>5, <1>6, <1>7 DEF P, G

\* the slot leads to the first cell, or to the second and the second to the first
LEMMA OneCellLive ==
  ASSUME NEW H, HeapInv(H), NEW s, SlotOK(H, s), NEW z, z.t \in Counted, z.v = Len(H) + 1,
         NEW G, DOMAIN G = 1..(Len(H) + 1), \A a \in DOMAIN H : G[a] = Put(H, s, z)[a],
         NEW S, NEW S2, AllLive(H, S), S \subseteq S2, S2 \subseteq DOMAIN G,
         \/ Dropped(H, s, S2)
         \/ \E i \in DOMAIN G[Len(H) + 1].elems : G[Len(H) + 1].elems[i].v = In(H, s)
  PROVE  AllLive(G, S2)
<1>1. Len(H) \in Nat /\ DOMAIN H = 1..Len(H) /\ Heap(H, Len(H)) /\ s[1] \in DOMAIN H
  BY HeapBasics DEF HeapInv, SlotOK
<1>2. ASSUME NEW C, Closed(G, C), s[1] \in C
      PROVE  Len(H) + 1 \in C
  <2>1. z.v \in C
    BY <1>1, <1>2, SlotPoints
  <2> QED
    BY <2>1
<1>3. DOMAIN H \subseteq DOMAIN G
  BY <1>1
<1>4. ASSUME NEW C \in SUBSET DOMAIN G, S2 \subseteq C, Closed(G, C), s[1] \in C, In(H, s).t \in Counted
      PROVE  In(H, s).v \in C
  <2>1. CASE Dropped(H, s, S2)
    BY <2>1, <1>4 DEF Dropped
  <2>2. CASE \E i \in DOMAIN G[Len(H) + 1].elems : G[Len(H) + 1].elems[i].v = In(H, s)
    <3>1. In(H, s).v \in Targets(G, Len(H) + 1)
      BY <2>2, <1>4, PointsTo
    <3> QED
      BY <3>1, <1>2, <1>4 DEF Closed
  <2> QED
    BY <2>1, <2>2
<1>5. ASSUME NEW C \in SUBSET DOMAIN G, S2 \subseteq C, Closed(G, C), DOMAIN H \subseteq C
      PROVE  C = DOMAIN G
  <2>1. Len(H) + 1 \in C
    BY <1>1, <1>2, <1>5
  <2>2. \A a \in DOMAIN G : a \in DOMAIN H \/ a = Len(H) + 1
    BY <1>1
  <2> QED
    BY <2>1, <2>2, <1>5
<1>6. Covers(H, G, s, S2)
  BY <1>4, <1>5 DEF Covers
<1>7. Renewed(H, G, s, z)
  BY <1>3 DEF Renewed
<1> QED
  BY <1>1, <1>6, <1>7, PutLive

LEMMA TwoCellsLive ==
  ASSUME NEW H, HeapInv(H), NEW s, SlotOK(H, s), NEW z, z.t \in Counted, z.v = Len(H) + 2,
         NEW G, DOMAIN G = 1..(Len(H) + 2), \A a \in DOMAIN H : G[a] = Put(H, s, z)[a],
         NEW i \in DOMAIN G[Len(H) + 2].elems, G[Len(H) + 2].elems[i].v.t \in Counted,
         G[Len(H) + 2].elems[i].v.v = Len(H) + 1,
         NEW S, NEW S2, AllLive(H, S), S \subseteq S2, S2 \subseteq DOMAIN G, Dropped(H, s, S2)
  PROVE  AllLive(G, S2)
<1>1. Len(H) \in Nat /\ DOMAIN H = 1..Len(H) /\ Heap(H, Len(H)) /\ s[1] \in DOMAIN H
  BY HeapBasics DEF HeapInv, SlotOK
<1>2. ASSUME NEW C, Closed(G, C), s[1] \in C
      PROVE  Len(H) + 2 \in C /\ Len(H) + 1 \in C
  <2>0. z.v \in C
    BY <1>1, <1>2, SlotPoints
  <2>1. Len(H) + 2 \in C
    BY <2>0
  <2>2. Len(H) + 1 \in Targets(G, Len(H) + 2)
    BY PointsTo
  <2> QED
    BY <2>1, <2>2, <1>2 DEF Closed
<1>3. DOMAIN H \subseteq DOMAIN G
  BY <1>1
<1>4. ASSUME NEW C \in SUBSET DOMAIN G, S2 \subseteq C, Closed(G, C), s[1] \in C, In(H, s).t \in Counted
      PROVE  In(H, s).v \in C
  BY <1>4 DEF Dropped
<1>5. ASSUME NEW C \in SUBSET DOMAIN G, S2 \subseteq C, Closed(G, C), DOMAIN H \subseteq C
      PROVE  C = DOMAIN G
  <2>1. Len(H) + 2 \in C /\ Len(H) + 1 \in C
    BY <1>1, <1>2, <1>5
  <2>2. \A a \in DOMAIN G : a \in DOMAIN H \/ a = Len(H) + 1 \/ a = Len(H) + 2
    BY <1>1
  <2> QED
    BY <2>1, <2>2, <1>5
<1>6. Covers(H, G, s, S2)
  BY <1>4, <1>5 DEF Covers
<1>7. Renewed(H, G, s, z)
  BY <1>3 DEF Renewed
<1> QED
  BY <1>1, <1>6, <1>7, PutLive

\* what is live stays live when slot s is overwritten
KeepsLive(H, G, s) ==
    \A S, S2 : AllLive(H, S) /\ S \subseteq S2 /\ S2 \subseteq DOMAIN G /\ Dropped(H, s, S2)
                  => AllLive(G, S2)

\* PutCell, for arrays and objects that hold no pointer yet
LEMMA PutCellOK ==
  ASSUME NEW H, HeapInv(H), NEW s, SlotOK(H, s), NEW c, SmallCell(c, Len(H)), c.kind \in Counted,
         NEW want \in BOOLEAN
  PROVE  LET G == PutCell(H, s, c, want)
         IN  /\ HeapInv(G) /\ Grows(H, G) /\ Len(G) = Len(H) + (IF want THEN 2 ELSE 1)
             /\ G[Len(H) + 1] = c
             /\ Len(G) = Len(H) + 2 => Len(G[Len(H) + 2].elems) = 1 /\ G[Len(H) + 2].kind = "ref"
             /\ KeepsLive(H, G, s)
<1> DEFINE G == PutCell(H, s, c, want)
           m == Len(H)
           p == [t |-> c.kind, v |-> m + 1]
           box == RefCell(p, TRUE)
<1>1. m \in Nat /\ m >= 1
  BY HeapBasics
<1>2. CASE ~want
  <2>1. G = Append(Put(H, s, p), c)
    BY <1>2 DEF PutCell
  <2>2. p \in Vals(m + 1) /\ p.t \in Counted /\ p.v = m + 1
    BY <1>1 DEF Vals
  <2>3. SmallCell(c, m + 1)
    BY <1>1, CellWiden DEF SmallCell
  <2> HIDE DEF p, G
  <2>4. /\ Heap(G, m + 1) /\ Grows(H, G) /\ Len(G) = m + 1
        /\ G[m + 1] = c /\ \A a \in DOMAIN H : G[a] = Put(H, s, p)[a]
        /\ Len(G[1].elems) = 1
    BY <1>1, <2>1, <2>2, <2>3, PutAppend
  <2>5. DOMAIN G = 1..(m + 1)
    BY <2>4 DEF Heap
  <2>6. HeapInv(G)
    BY <2>4, <2>5, <1>1 DEF HeapInv
  <2>7. KeepsLive(H, G, s)
    BY <2>2, <2>4, <2>5, OneCellLive DEF KeepsLive
  <2> QED
    BY <1>1, <1>2, <2>4, <2>6, <2>7 DEF G
<1>3. CASE want
  <2>1. G = Append(Append(Put(H, s, Ref(m + 2)), c), box)
    BY <1>1, <1>3 DEF PutCell
  <2>2. Ref(m + 2) \in Vals(m + 2) /\ Ref(m + 2).t \in Counted /\ Ref(m + 2).v = m + 2
    BY <1>1 DEF Vals, Ref, Counted
  <2>3. SmallCell(c, m + 2)
    BY <1>1, CellWiden DEF SmallCell
  <2>4. p \in Vals(m + 2) /\ p.t \in Counted /\ p.v = m + 1
    BY <1>1 DEF Vals
  <2> HIDE DEF p
  <2>5. /\ SmallCell(box, m + 2) /\ Len(box.elems) = 1 /\ box.elems[1].v = p /\ 1 \in DOMAIN box.elems
        /\ box.kind = "ref"
    <3>1. Elem(Null, p) \in Pairs(m + 2)
      BY <2>4 DEF Elem, Pairs
    <3>2. << Elem(Null, p) >> \in Seq(Pairs(m + 2))
      BY <3>1
    <3> QED
      BY <3>2 DEF RefCell, SmallCell, CellT, Counted, Elem
  <2> HIDE DEF G, box
  <2>6. /\ Heap(G, m + 2) /\ Grows(H, G) /\ Len(G) = m + 2
        /\ G[m + 1] = c /\ G[m + 2] = box
        /\ \A a \in DOMAIN H : G[a] = Put(H, s, Ref(m + 2))[a]
        /\ Len(G[1].elems) = 1
    BY <1>1, <2>1, <2>2, <2>3, <2>5, PutAppendTwo
  <2>7. DOMAIN G = 1..(m + 2)
    BY <2>6 DEF Heap
  <2>8. HeapInv(G)
    BY <2>6, <2>7, <1>1 DEF HeapInv
  <2>9. KeepsLive(H, G, s)
    <3>1. 1 \in DOMAIN G[m + 2].elems /\ G[m + 2].elems[1].v.t \in Counted /\ G[m + 2].elems[1].v.v = m + 1
      BY <2>4, <2>5, <2>6
    <3>2. SUFFICES ASSUME NEW S, NEW S2, AllLive(H, S), S \subseteq S2, S2 \subseteq DOMAIN G, Dropped(H, s, S2)
                   PROVE  AllLive(G, S2)
      BY DEF KeepsLive
    <3> DEFINE r == Ref(m + 2)
    <3>3. r.t \in Counted /\ r.v = m + 2 /\ \A a \in DOMAIN H : G[a] = Put(H, s, r)[a]
      BY <2>2, <2>6
    <3> HIDE DEF r
    <3> QED
      BY <3>1, <3>2, <3>3, <2>7, TwoCellsLive
  <2>10. Len(G) = m + 2 /\ G[m + 1] = c /\ Len(G[m + 2].elems) = 1 /\ G[m + 2].kind = "ref"
    BY <2>5, <2>6
  <2> HIDE DEF m
  <2> QED
    BY <1>3, <2>6, <2>8, <2>9, <2>10 DEF G, m
<1> QED
  BY <1>2, <1>3
LEMMA BoxOK ==
  ASSUME NEW n \in Nat, NEW z \in Vals(n)
  PROVE  /\ SmallCell(RefCell(z, TRUE), n) /\ Len(RefCell(z, TRUE).elems) = 1
         /\ 1 \in DOMAIN RefCell(z, TRUE).elems /\ RefCell(z, TRUE).elems[1].v = z
         /\ RefCell(z, TRUE).kind = "ref"
<1>1. Elem(Null, z) \in Pairs(n)
  BY DEF Elem, Pairs
<1>2. << Elem(Null, z) >> \in Seq(Pairs(n))
  BY <1>1
<1> QED
  BY <1>2 DEF RefCell, SmallCell, CellT, Counted, Elem

\* WrapReference and BoxTarget: the slot leads to a box for what it held, or
\* for a value there is
LEMMA PutBoxOK ==
  ASSUME NEW H, HeapInv(H), NEW s, SlotOK(H, s), NEW z \in Vals(Len(H))
  PROVE  LET G == Append(Put(H, s, Ref(Len(H) + 1)), RefCell(z, TRUE))
         IN  /\ HeapInv(G) /\ Grows(H, G) /\ Len(G) = Len(H) + 1
             /\ Len(G[Len(H) + 1].elems) = 1 /\ G[Len(H) + 1].kind = "ref"
             /\ \A S, S2 : AllLive(H, S) /\ S \subseteq S2 /\ S2 \subseteq DOMAIN G
                             /\ (z = In(H, s) \/ Dropped(H, s, S2))
                             => AllLive(G, S2)
<1> DEFINE m == Len(H)
           box == RefCell(z, TRUE)
           G == Append(Put(H, s, Ref(m + 1)), box)
<1>1. m \in Nat /\ m >= 1
  BY HeapBasics
<1>2. z \in Vals(m + 1) /\ Ref(m + 1) \in Vals(m + 1) /\ Ref(m + 1).t \in Counted /\ Ref(m + 1).v = m + 1
  <2>1. 1..m \subseteq 1..(m + 1) /\ m + 1 \in 1..(m + 1)
    BY <1>1
  <2> QED
    BY <2>1 DEF Vals, Ref, Counted
<1>3. /\ SmallCell(box, m + 1) /\ Len(box.elems) = 1 /\ 1 \in DOMAIN box.elems /\ box.elems[1].v = z
      /\ box.kind = "ref"
  <2>1. m + 1 \in Nat
    BY <1>1
  <2> QED
    BY <2>1, <1>2, BoxOK
<1> HIDE DEF box, G
<1>4. /\ Heap(G, m + 1) /\ Grows(H, G) /\ Len(G) = m + 1
      /\ G[m + 1] = box /\ \A a \in DOMAIN H : G[a] = Put(H, s, Ref(m + 1))[a]
      /\ Len(G[1].elems) = 1
  BY <1>1, <1>2, <1>3, PutAppend DEF G
<1>5. DOMAIN G = 1..(m + 1)
  BY <1>4 DEF Heap
<1>6. HeapInv(G)
  BY <1>1, <1>4, <1>5 DEF HeapInv
<1>7. ASSUME NEW S, NEW S2, AllLive(H, S), S \subseteq S2, S2 \subseteq DOMAIN G,
             z = In(H, s) \/ Dropped(H, s, S2)
      PROVE  AllLive(G, S2)
  <2>1. \/ Dropped(H, s, S2)
        \/ \E i \in DOMAIN G[m + 1].elems : G[m + 1].elems[i].v = In(H, s)
    BY <1>3, <1>4, <1>7
  <2> QED
    BY <2>1, <1>2, <1>4, <1>5, <1>7, OneCellLive
<1> QED
  BY <1>3, <1>4, <1>6, <1>7 DEF G, box

\* a scalar, or a pointer to a cell there is
LEMMA PutValueOK ==
  ASSUME NEW H, HeapInv(H), NEW s, SlotOK(H, s), NEW z \in Vals(Len(H)),
         NEW S, NEW S2, AllLive(H, S), S \subseteq S2, S2 \subseteq DOMAIN H, Dropped(H, s, S2)
  PROVE  AllLive(Put(H, s, z), S2)
<1> DEFINE G == Put(H, s, z)
<1>1. DOMAIN G = DOMAIN H
  BY PutOne
<1> HIDE DEF G
<1>2. Renewed(H, G, s, z)
  BY <1>1 DEF Renewed, G
<1>3. Covers(H, G, s, S2)
  BY <1>1 DEF Covers, Dropped
<1>4. Heap(H, Len(H))
  BY DEF HeapInv
<1> QED
  BY <1>1, <1>2, <1>3, <1>4, PutLive DEF G

\* a new element that holds no pointer
LEMMA AddElemOK ==
  ASSUME NEW H, HeapInv(H), NEW h \in DOMAIN H, h >= 2, NEW k \in Key,
         \A i \in DOMAIN H[h].elems : H[h].elems[i].k # k
  PROVE  LET G == AddElem(H, h, Elem(k, Null))
         IN  /\ HeapInv(G) /\ Grows(H, G) /\ Len(G) = Len(H)
             /\ SlotOK(G, << h, Len(H[h].elems) + 1 >>)
             /\ In(G, << h, Len(H[h].elems) + 1 >>) = Null
             /\ \A S : AllLive(H, S) => AllLive(G, S)
<1> DEFINE e == Elem(k, Null)
           G == AddElem(H, h, e)
<1>1. /\ Len(H) \in Nat /\ DOMAIN H = 1..Len(H) /\ 1 \in DOMAIN H /\ Heap(H, Len(H)) /\ Len(H[1].elems) = 1
      /\ \A a \in DOMAIN H : DOMAIN H[a].elems = 1..Len(H[a].elems) /\ Len(H[a].elems) \in Nat
  BY HeapBasics DEF HeapInv
<1>2. e \in Pairs(Len(H)) /\ e.k = k /\ e.v = Null
  BY DEF Elem, Pairs, Vals
<1> HIDE DEF e, G
<1>3. /\ Heap(G, Len(H)) /\ Grows(H, G)
      /\ Len(G) = Len(H)
      /\ \A a \in DOMAIN H : a # h => G[a] = H[a]
      /\ Len(G[h].elems) = Len(H[h].elems) + 1
      /\ G[h].elems[Len(H[h].elems) + 1] = e
      /\ \A i \in DOMAIN H[h].elems : G[h].elems[i] = H[h].elems[i]
  <2>1. \A i \in DOMAIN H[h].elems : H[h].elems[i].k # e.k
    BY <1>2
  <2>2. Len(H) \in Nat /\ Heap(H, Len(H)) /\ e \in Pairs(Len(H))
    BY <1>1, <1>2
  <2> QED
    BY <2>1, <2>2, AddElemHeap DEF G
<1>4. DOMAIN G = DOMAIN H
  <2>1. G \in Seq(CellT(Len(H)))
    BY <1>3 DEF Heap
  <2>2. DOMAIN G = 1..Len(G)
    BY <2>1
  <2> QED
    BY <2>2, <1>1, <1>3, Zenon
<1>5. HeapInv(G)
  BY <1>1, <1>3, <1>4 DEF HeapInv
<1>6. DOMAIN G[h].elems = 1..(Len(H[h].elems) + 1)
  BY <1>3, <1>4, <1>5, HeapBasics
<1>7. SlotOK(G, << h, Len(H[h].elems) + 1 >>) /\ In(G, << h, Len(H[h].elems) + 1 >>) = Null
  BY <1>1, <1>2, <1>3, <1>4, <1>6 DEF SlotOK, In
<1>8. \A a \in DOMAIN H : Targets(H, a) \subseteq Targets(G, a)
  <2>1. SUFFICES ASSUME NEW a \in DOMAIN H, NEW b \in Targets(H, a) PROVE b \in Targets(G, a)
    OBVIOUS
  <2>2. CASE a # h
    BY <2>1, <2>2, <1>3 DEF Targets
  <2>3. CASE a = h
    <3>1. PICK i \in DOMAIN H[h].elems : H[h].elems[i].v.t \in Counted /\ H[h].elems[i].v.v = b
      BY <2>1, <2>3, TargetOf
    <3>2. i \in DOMAIN G[h].elems /\ G[h].elems[i] = H[h].elems[i]
      BY <1>1, <1>3, <1>6
    <3> QED
      BY <2>3, <3>1, <3>2, PointsTo
  <2> QED
    BY <2>2, <2>3
<1>9. ASSUME NEW S, AllLive(H, S) PROVE AllLive(G, S)
  BY <1>4, <1>8, <1>9 DEF AllLive, Closed
<1> QED
  BY <1>3, <1>5, <1>7, <1>9 DEF G, e

\* the holder of an __unserialize parameter, and the parameter
LEMMA ParameterOK ==
  ASSUME NEW H, HeapInv(H)
  PROVE  LET G == Append(Append(H, HoldCell(Arr(Len(H) + 2))), ArrCell(<< >>))
         IN  /\ HeapInv(G) /\ Grows(H, G) /\ Len(G) = Len(H) + 2
             /\ SlotOK(G, << Len(H) + 1, 1 >>)
             /\ \A a \in DOMAIN H : G[a] = H[a]
             /\ G[Len(H) + 1].kind = "hold" /\ G[Len(H) + 1].elems[1].v = Arr(Len(H) + 2)
             /\ G[Len(H) + 2] = ArrCell(<< >>)
             /\ \A S, S2 : AllLive(H, S) /\ S \subseteq S2 /\ S2 \subseteq DOMAIN G /\ Len(H) + 1 \in S2
                             => AllLive(G, S2)
<1> DEFINE m == Len(H)
           z == Arr(m + 2)
           hold == HoldCell(z)
           P == Append(H, hold)
           G == Append(P, ArrCell(<< >>))
<1>1. m \in Nat /\ m >= 1 /\ DOMAIN H = 1..m /\ 1 \in DOMAIN H /\ Len(H[1].elems) = 1
  BY HeapBasics DEF HeapInv
<1>2. z \in Vals(m + 2) /\ z.t \in Counted /\ z.v = m + 2
  BY <1>1 DEF Vals, Arr, Counted
<1> HIDE DEF z
<1>3. /\ hold \in CellT(m + 2) /\ Len(hold.elems) = 1 /\ 1 \in DOMAIN hold.elems
      /\ hold.elems[1].v = z /\ hold.kind = "hold"
  <2>1. hold = [kind |-> "hold", cls |-> NoVal, shared |-> FALSE, elems |-> << Elem(Null, z) >>]
    BY DEF HoldCell
  <2>2. Elem(Null, z) \in Pairs(m + 2) /\ Elem(Null, z).v = z
    BY <1>2 DEF Elem, Pairs
  <2>3. << Elem(Null, z) >> \in Seq(Pairs(m + 2))
    BY <2>2
  <2>4. Len(<< Elem(Null, z) >>) = 1 /\ 1 \in DOMAIN << Elem(Null, z) >>
    OBVIOUS
  <2> HIDE DEF hold
  <2> QED
    BY <2>1, <2>2, <2>3, <2>4 DEF CellT
<1>4. ArrCell(<< >>) \in CellT(m + 2) /\ Len(ArrCell(<< >>).elems) = 0
  BY DEF ArrCell, CellT, Counted
<1>5. Heap(H, m + 2)
  BY <1>1, HeapWiden DEF HeapInv
<1> HIDE DEF hold, P, G
<1>6. /\ Heap(P, m + 2) /\ Grows(H, P) /\ Len(P) = m + 1 /\ P[m + 1] = hold
      /\ \A a \in DOMAIN H : P[a] = H[a]
  <2>1. m + 2 \in Nat /\ Len(hold.elems) <= 1
    BY <1>1, <1>3
  <2>2. \A n \in Nat : Heap(H, n) /\ hold \in CellT(n) /\ Len(hold.elems) <= 1
           => /\ Heap(P, n) /\ Grows(H, P) /\ Len(P) = Len(H) + 1 /\ P[Len(H) + 1] = hold
              /\ \A a \in DOMAIN H : P[a] = H[a]
    BY AppendHeap DEF P
  <2> QED
    BY <2>1, <2>2, <1>3, <1>5
<1>7. DOMAIN P = 1..(m + 1)
  BY <1>6 DEF Heap
<1>8. /\ Heap(G, m + 2) /\ Grows(P, G) /\ Len(G) = m + 2
      /\ \A a \in DOMAIN P : G[a] = P[a]
      /\ G[m + 2] = ArrCell(<< >>)
  <2>1. m + 2 \in Nat /\ Len(ArrCell(<< >>).elems) <= 1 /\ Len(P) + 1 = m + 2
    BY <1>1, <1>4, <1>6
  <2>2. /\ Heap(G, m + 2) /\ Grows(P, G) /\ Len(G) = Len(P) + 1
        /\ \A a \in DOMAIN P : G[a] = P[a]
        /\ G[Len(P) + 1] = ArrCell(<< >>)
    BY <2>1, <1>4, <1>6, AppendHeap DEF G
  <2> QED
    BY <2>1, <2>2, <1>1, <1>6
<1>9. DOMAIN G = 1..(m + 2)
  BY <1>8 DEF Heap
<1>10. Grows(H, G)
  BY <1>1, <1>5, <1>6, <1>8, GrowsTrans
<1>11. G[m + 1] = hold /\ \A a \in DOMAIN H : G[a] = H[a]
  BY <1>1, <1>6, <1>7, <1>8
<1>12. HeapInv(G)
  BY <1>1, <1>8, <1>9, <1>11 DEF HeapInv
<1>13. SlotOK(G, << m + 1, 1 >>)
  BY <1>1, <1>3, <1>9, <1>11 DEF SlotOK
<1>14. ASSUME NEW S, NEW S2, AllLive(H, S), S \subseteq S2, S2 \subseteq DOMAIN G, m + 1 \in S2
       PROVE  AllLive(G, S2)
  <2>1. ASSUME NEW C \in SUBSET DOMAIN G, S2 \subseteq C, Closed(G, C)
        PROVE  /\ \A a \in C \cap DOMAIN H : Targets(H, a) \subseteq C
               /\ DOMAIN H \subseteq C => C = DOMAIN G
    <3>1. m + 2 \in Targets(G, m + 1)
      <4>1. 1 \in DOMAIN G[m + 1].elems /\ G[m + 1].elems[1].v = z
        BY <1>3, <1>11
      <4> QED
        BY <4>1, <1>2, PointsTo
    <3>2. m + 1 \in C /\ m + 2 \in C
      BY <1>14, <2>1, <3>1 DEF Closed
    <3>3. \A a \in DOMAIN G : a \in DOMAIN H \/ a = m + 1 \/ a = m + 2
      BY <1>1, <1>9
    <3>4. \A a \in DOMAIN H : Targets(H, a) = Targets(G, a)
      BY <1>11 DEF Targets
    <3>5. \A a \in C \cap DOMAIN H : Targets(H, a) \subseteq C
      BY <3>4, <2>1 DEF Closed
    <3>6. DOMAIN H \subseteq C => C = DOMAIN G
      BY <3>2, <3>3, <2>1
    <3> QED
      BY <3>5, <3>6
  <2>2. DOMAIN H \subseteq DOMAIN G /\ Heap(H, Len(H))
    BY <1>1, <1>9 DEF HeapInv
  <2> QED
    BY <2>1, <2>2, <1>14, LiveGrows
<1> QED
  BY <1>3, <1>8, <1>10, <1>11, <1>12, <1>13, <1>14 DEF G, P, hold, z
(***************************************************************************)
(* The inductive invariant.  HeapInv holds always; while there is input to *)
(* read, everything built is live, what the slot to be read next has held  *)
(* is kept, and only the innermost item reads a value.                     *)
(***************************************************************************)
Srcs  == (Addr \X Nat) \cup Str \cup {NoVal}
Slots == Nat \X Nat
ItemT == [op : {"zval"}, slot : Slots, want : BOOLEAN]
         \cup [op : {"wrap"}, slot : Slots, src : Srcs]
         \cup [op : {"fill"}, h : Nat, left : Int, slot : Slots]
         \cup [op : {"defer"}, o : Nat, param : Nat]
RefT  == [ty : {"obj", "arr", "empty", "ref"}, a : Nat, src : Srcs]
CallT == [o : Nat, param : Nat]

ItemOK(H, i) == /\ i.op \in {"zval", "wrap", "fill"} => SlotOK(H, i.slot)
                /\ i.op = "fill" => i.h \in DOMAIN H /\ i.h >= 2
                /\ i.op = "defer" => i.o \in DOMAIN H /\ i.param \in 0..Len(H)
AgendaInv(H, items) == /\ items \in Seq(ItemT)
                       /\ \A i \in DOMAIN items : ItemOK(H, items[i])
ZvalFirst(items)    == \A i \in DOMAIN items : items[i].op = "zval" => i = 1
RefOK(H, r)         == /\ r.a \in DOMAIN H
                       /\ r.ty \in {"obj", "arr"} => H[r.a].kind = r.ty
                       /\ r.ty = "ref" => \/ H[r.a].kind = "ref" /\ Len(H[r.a].elems) >= 1
                                          \/ H[r.a].kind = "arr"
RefsInv(H, refs)    == refs \in Seq(RefT) /\ \A i \in DOMAIN refs : RefOK(H, refs[i])
CallOK(H, c)        == c.o \in DOMAIN H /\ c.param \in 0..Len(H)
CallsInv(H, d)      == d \in Seq(CallT) /\ \A i \in DOMAIN d : CallOK(H, d[i])

InputInv == /\ input \in Seq({tok \in Token : WellFormed(tok)})
            /\ pos \in 1..(Len(input) + 1)
MadeInv  == made \in Seq(Srcs) /\ Len(made) = Len(out)
Within(items) == MaxDepth > 0 => Depth(items) <= MaxDepth
Holders  == ({1} \cup dtors \cup Params) \ {0}
HeadDropped == At("zval") => Dropped(out, Top.slot, dtors)

ReadInv == /\ AgendaInv(out, agenda) /\ ZvalFirst(agenda) /\ Within(agenda)
           /\ HeadDropped
           /\ AllLive(out, Holders)
           /\ called = 0 /\ ~throws /\ flagged = {}
Phases  == /\ result = "reading" => ReadInv
           /\ result # "reading" => agenda = << >>
           /\ result = "failed" => called = 0 /\ ~throws /\ flagged = {}
           /\ result = "calling" /\ ~throws => flagged = {}
           /\ result = "done" => ~throws /\ flagged = {}
           /\ result \in {"done", "error"} => dtors = {} /\ called = Len(deferred)
Inv == /\ HeapInv(out) /\ InputInv
       /\ dstrings \in Seq(Str) /\ RefsInv(out, drefs) /\ CallsInv(out, deferred)
       /\ result \in {"reading", "calling", "done"} => MadeInv
       /\ dtors \cup flagged \subseteq DOMAIN out
       /\ called \in 0..Len(deferred) /\ throws \in BOOLEAN
       /\ result \in {"reading", "calling", "failed", "done", "error", "crashed"}
       /\ MarkedFromThrower
       /\ Phases

LEMMA TypeOKFromInv == Inv => TypeOK
<1> SUFFICES ASSUME Inv PROVE TypeOK
  OBVIOUS
<1>1. out \in Seq([kind : Counted \cup {"hold"}, cls : Str \cup {NoVal}, shared : BOOLEAN,
                   elems : Seq([k : Key \cup {Null}, v : Built])])
  <2>1. DOMAIN out = 1..Len(out) /\ out \in Seq(CellT(Len(out)))
    BY HeapBasics DEF Inv, HeapInv, Heap
  <2>2. Vals(Len(out)) = Built
    BY <2>1 DEF Vals, Built
  <2> QED
    BY <2>1, <2>2 DEF CellT, Pairs
<1>2. \A i \in DOMAIN agenda : agenda[i].op \in {"zval", "wrap", "fill", "defer"}
  <2>1. agenda \in Seq(ItemT)
    <3>1. CASE result = "reading"
      BY <3>1 DEF Inv, Phases, ReadInv, AgendaInv
    <3>2. CASE result # "reading"
      <4>1. agenda = << >>
        BY <3>2 DEF Inv, Phases
      <4> QED
        BY <4>1
    <3> QED
      BY <3>1, <3>2
  <2>2. \A i \in DOMAIN agenda : agenda[i] \in ItemT
    BY <2>1
  <2> QED
    BY <2>2 DEF ItemT
<1>3. \A i \in DOMAIN drefs : drefs[i].ty \in {"obj", "arr", "empty", "ref"} /\ drefs[i].a \in DOMAIN out
  <2>1. \A i \in DOMAIN drefs : drefs[i] \in RefT /\ drefs[i].a \in DOMAIN out
    BY DEF Inv, RefsInv, RefOK
  <2> QED
    BY <2>1 DEF RefT
<1>4. \A i \in DOMAIN deferred : deferred[i].o \in DOMAIN out /\ deferred[i].param \in 0..Len(out)
  BY DEF Inv, CallsInv, CallOK
<1> QED
  BY <1>1, <1>2, <1>3, <1>4 DEF TypeOK, Inv, InputInv, MadeInv

(***************************************************************************)
(* Sequences grow with the heap.                                           *)
(***************************************************************************)
LEMMA ItemStays ==
  ASSUME NEW H, HeapInv(H), NEW G, HeapInv(G), Grows(H, G), NEW i, ItemOK(H, i)
  PROVE  ItemOK(G, i)
<1>1. /\ Len(H) \in Nat /\ Len(G) \in Nat /\ DOMAIN H = 1..Len(H) /\ DOMAIN G = 1..Len(G)
      /\ Heap(H, Len(H)) /\ Heap(G, Len(G)) /\ Len(H) <= Len(G)
  BY HeapBasics DEF HeapInv, Grows
<1>2. DOMAIN H \subseteq DOMAIN G /\ 0..Len(H) \subseteq 0..Len(G)
  BY <1>1
<1>3. i.op \in {"zval", "wrap", "fill"} => SlotOK(G, i.slot)
  BY <1>1, SlotStays DEF ItemOK
<1> QED
  BY <1>2, <1>3 DEF ItemOK

LEMMA TablesStay ==
  ASSUME NEW H, HeapInv(H), NEW G, HeapInv(G), Grows(H, G)
  PROVE  /\ \A refs : RefsInv(H, refs) => RefsInv(G, refs)
         /\ \A d : CallsInv(H, d) => CallsInv(G, d)
         /\ DOMAIN H \subseteq DOMAIN G
         /\ \A items : AgendaInv(H, items) => AgendaInv(G, items)
<1>1. /\ Len(H) \in Nat /\ Len(G) \in Nat /\ DOMAIN H = 1..Len(H) /\ DOMAIN G = 1..Len(G) /\ Len(H) <= Len(G)
      /\ \A a \in DOMAIN H : /\ Len(H[a].elems) \in Nat /\ Len(H[a].elems) <= Len(G[a].elems)
                             /\ G[a].kind = H[a].kind
      /\ \A a \in DOMAIN G : Len(G[a].elems) \in Nat
  BY HeapBasics DEF Grows
<1>2. DOMAIN H \subseteq DOMAIN G /\ 0..Len(H) \subseteq 0..Len(G)
  BY <1>1
<1>3. \A r : RefOK(H, r) => RefOK(G, r)
  BY <1>1, <1>2 DEF RefOK
<1>4. \A c : CallOK(H, c) => CallOK(G, c)
  BY <1>2 DEF CallOK
<1>5. \A i : ItemOK(H, i) => ItemOK(G, i)
  BY ItemStays
<1> QED
  BY <1>2, <1>3, <1>4, <1>5 DEF RefsInv, CallsInv, AgendaInv

(***************************************************************************)
(* The depth of an agenda.                                                 *)
(***************************************************************************)
Deep(i) == i.op \in {"fill", "wrap"}

LEMMA DepthCat ==
  ASSUME NEW s \in Seq(ItemT), NEW t \in Seq(ItemT)
  PROVE  Depth(s \o t) = Depth(s) + Depth(t) /\ Depth(s) \in Nat /\ Depth(t) \in Nat
<1> DEFINE A == {i \in DOMAIN s : Deep(s[i])}
           B == {i \in DOMAIN t : Deep(t[i])}
           C == {i \in DOMAIN (s \o t) : Deep((s \o t)[i])}
           B1 == {i + Len(s) : i \in B}
<1>1. /\ Len(s) \in Nat /\ Len(t) \in Nat /\ DOMAIN s = 1..Len(s) /\ DOMAIN t = 1..Len(t)
      /\ DOMAIN (s \o t) = 1..(Len(s) + Len(t))
      /\ \A i \in DOMAIN s : (s \o t)[i] = s[i]
      /\ \A i \in DOMAIN t : (s \o t)[i + Len(s)] = t[i]
  OBVIOUS
<1>2. IsFiniteSet(A) /\ IsFiniteSet(B)
  <2>1. IsFiniteSet(1..Len(s)) /\ IsFiniteSet(1..Len(t))
    BY <1>1, FS_Interval
  <2> QED
    BY <2>1, <1>1, FS_Subset
<1>3. IsFiniteSet(B1) /\ Cardinality(B1) = Cardinality(B)
  <2> DEFINE f == [i \in B |-> i + Len(s)]
  <2>1. f \in Bijection(B, B1)
    BY <1>1 DEF Bijection, Injection, Surjection, IsInjective
  <2> QED
    BY <2>1, <1>2, FS_Bijection DEF ExistsBijection
<1>4. C = A \cup B1
  <2>1. \A i \in C : i \in A \cup B1
    <3>1. SUFFICES ASSUME NEW i \in C PROVE i \in A \cup B1
      OBVIOUS
    <3>2. CASE i \in DOMAIN s
      BY <3>1, <3>2, <1>1
    <3>3. CASE i \notin DOMAIN s
      <4>1. i - Len(s) \in DOMAIN t /\ i = (i - Len(s)) + Len(s)
        BY <3>1, <3>3, <1>1
      <4>2. (s \o t)[i] = t[i - Len(s)]
        BY <4>1, <1>1
      <4>3. i - Len(s) \in B
        BY <3>1, <4>1, <4>2
      <4> QED
        BY <4>1, <4>3
    <3> QED
      BY <3>2, <3>3
  <2>2. \A i \in A : i \in C
    BY <1>1
  <2>3. \A i \in B : i + Len(s) \in C
    BY <1>1
  <2> QED
    BY <2>1, <2>2, <2>3
<1>5. A \cap B1 = {}
  BY <1>1
<1>6. Cardinality(C) = Cardinality(A) + Cardinality(B)
  <2> HIDE DEF A, B, C, B1
  <2>1. Cardinality(A \cup B1) = Cardinality(A) + Cardinality(B1) - Cardinality(A \cap B1)
    BY <1>2, <1>3, FS_Union
  <2>2. Cardinality({}) = 0
    BY FS_EmptySet
  <2>3. Cardinality(A) \in Nat /\ Cardinality(B) \in Nat
    BY <1>2, FS_CardinalityType
  <2>4. Cardinality(A \cap B1) = 0
    BY <1>5, <2>2
  <2>5. Cardinality(C) = Cardinality(A) + Cardinality(B) - 0
    BY <2>1, <2>4, <1>3, <1>4
  <2> QED
    BY <2>3, <2>5
<1>7. Depth(s \o t) = Cardinality(C) /\ Depth(s) = Cardinality(A) /\ Depth(t) = Cardinality(B)
  BY DEF Depth, Deep
<1>8. Cardinality(A) \in Nat /\ Cardinality(B) \in Nat
  BY <1>2, FS_CardinalityType
<1> QED
  BY <1>6, <1>7, <1>8

LEMMA DepthOfOne ==
  ASSUME NEW x \in ItemT
  PROVE  Depth(<< x >>) = IF Deep(x) THEN 1 ELSE 0
<1>1. CASE Deep(x)
  <2>1. {i \in DOMAIN << x >> : << x >>[i].op \in {"fill", "wrap"}} = {1}
    BY <1>1 DEF Deep
  <2>2. Cardinality({1}) = 1
    BY FS_Singleton
  <2> QED
    BY <1>1, <2>1, <2>2 DEF Depth
<1>2. CASE ~Deep(x)
  <2>1. {i \in DOMAIN << x >> : << x >>[i].op \in {"fill", "wrap"}} = {}
    BY <1>2 DEF Deep
  <2> QED
    BY <1>2, <2>1, FS_EmptySet DEF Depth
<1> QED
  BY <1>1, <1>2

LEMMA DepthOfNone == Depth(<< >>) = 0
<1>1. {i \in DOMAIN << >> : << >>[i].op \in {"fill", "wrap"}} = {}
  OBVIOUS
<1> QED
  BY <1>1, FS_EmptySet DEF Depth
(***************************************************************************)
(* An agenda whose innermost item is replaced.                             *)
(***************************************************************************)
HoldersOf(dt, d, n, items) ==
    ({1} \cup dt \cup {d[i].param : i \in {j \in DOMAIN d : j > n}}
         \cup {items[i].param : i \in {j \in DOMAIN items : items[j].op = "defer"}}) \ {0}

LEMMA CatTail ==
  ASSUME NEW ag \in Seq(ItemT), ag # << >>, NEW items \in Seq(ItemT)
  PROVE  LET new == items \o Tail(ag)
         IN  /\ new \in Seq(ItemT)
             /\ \A k \in DOMAIN new : \/ k \in DOMAIN items /\ new[k] = items[k]
                                      \/ \E j \in DOMAIN ag : j >= 2 /\ k = Len(items) + j - 1 /\ new[k] = ag[j]
             /\ \A i \in DOMAIN items : i \in DOMAIN new /\ new[i] = items[i]
             /\ \A j \in DOMAIN ag : j >= 2 => /\ Len(items) + j - 1 \in DOMAIN new
                                               /\ new[Len(items) + j - 1] = ag[j]
<1> DEFINE t == Tail(ag)
           new == items \o t
<1>1. /\ t \in Seq(ItemT) /\ Len(t) = Len(ag) - 1 /\ Len(ag) \in Nat /\ Len(items) \in Nat /\ Len(ag) >= 1
      /\ DOMAIN ag = 1..Len(ag) /\ DOMAIN t = 1..(Len(ag) - 1) /\ DOMAIN items = 1..Len(items)
      /\ \A j \in DOMAIN t : t[j] = ag[j + 1]
  OBVIOUS
<1> HIDE DEF t
<1>2. /\ new \in Seq(ItemT) /\ DOMAIN new = 1..(Len(items) + Len(ag) - 1)
      /\ \A i \in DOMAIN items : new[i] = items[i]
      /\ \A j \in DOMAIN t : new[Len(items) + j] = t[j]
  <2>1. /\ new \in Seq(ItemT) /\ Len(new) = Len(items) + Len(t)
        /\ \A i \in 1..(Len(items) + Len(t)) : new[i] = IF i <= Len(items) THEN items[i] ELSE t[i - Len(items)]
    BY <1>1, ConcatProperties
  <2> HIDE DEF new
  <2>2. DOMAIN new = 1..(Len(items) + Len(ag) - 1)
    BY <1>1, <2>1
  <2>3. ASSUME NEW j \in DOMAIN t PROVE new[Len(items) + j] = t[j]
    <3>1. Len(items) + j \in 1..(Len(items) + Len(t)) /\ ~(Len(items) + j <= Len(items))
          /\ (Len(items) + j) - Len(items) = j
      BY <1>1
    <3> QED
      BY <2>1, <3>1
  <2>4. \A i \in DOMAIN items : new[i] = items[i]
    BY <1>1, <2>1
  <2> QED
    BY <2>1, <2>2, <2>3, <2>4
<1> HIDE DEF new
<1>3. ASSUME NEW j \in DOMAIN ag, j >= 2
      PROVE  Len(items) + j - 1 \in DOMAIN new /\ new[Len(items) + j - 1] = ag[j]
  <2>1. j - 1 \in DOMAIN t /\ (j - 1) + 1 = j /\ Len(items) + (j - 1) = Len(items) + j - 1
    BY <1>1, <1>3
  <2>2. new[Len(items) + (j - 1)] = ag[(j - 1) + 1]
    BY <1>1, <1>2, <2>1
  <2> QED
    BY <1>1, <1>2, <2>1, <2>2
<1>4. ASSUME NEW k \in DOMAIN new, k \notin DOMAIN items
      PROVE  \E j \in DOMAIN ag : j >= 2 /\ k = Len(items) + j - 1 /\ new[k] = ag[j]
  <2> DEFINE j == k - Len(items) + 1
  <2>1. j \in DOMAIN ag /\ j >= 2 /\ k = Len(items) + j - 1
    BY <1>1, <1>2, <1>4
  <2> QED
    BY <1>3, <2>1
<1> QED
  BY SMTT(30), <1>1, <1>2, <1>3, <1>4 DEF new, t

LEMMA HoldersGrow ==
  ASSUME NEW ag \in Seq(ItemT), ag # << >>, Head(ag).op # "defer", NEW items \in Seq(ItemT),
         NEW dt, NEW dt2, dt \subseteq dt2, NEW d, NEW n
  PROVE  LET S == HoldersOf(dt2, d, n, items \o Tail(ag))
         IN  /\ HoldersOf(dt, d, n, ag) \subseteq S
             /\ dt2 \ {0} \subseteq S
             /\ \A i \in DOMAIN items : items[i].op = "defer" /\ items[i].param # 0 => items[i].param \in S
<1> DEFINE new == items \o Tail(ag)
<1>1. /\ \A i \in DOMAIN items : i \in DOMAIN new /\ new[i] = items[i]
      /\ \A j \in DOMAIN ag : j >= 2 => /\ Len(items) + j - 1 \in DOMAIN new
                                        /\ new[Len(items) + j - 1] = ag[j]
  BY CatTail
<1>2. Head(ag) = ag[1] /\ \A j \in DOMAIN ag : j # 1 => j >= 2
  OBVIOUS
<1> HIDE DEF new
<1>3. ASSUME NEW j \in DOMAIN ag, ag[j].op = "defer"
      PROVE  \E k \in DOMAIN new : new[k].op = "defer" /\ new[k].param = ag[j].param
  <2>1. j >= 2
    BY <1>2, <1>3
  <2>2. Len(items) + j - 1 \in DOMAIN new /\ new[Len(items) + j - 1] = ag[j]
    BY <1>1, <2>1
  <2> DEFINE k == Len(items) + j - 1
  <2> HIDE DEF k
  <2>3. k \in DOMAIN new /\ new[k] = ag[j]
    BY <2>2 DEF k
  <2> QED
    BY <2>3, <1>3, Zenon
<1> DEFINE ParamsIn(its) == {its[i].param : i \in {j \in DOMAIN its : its[j].op = "defer"}}
<1>4. ParamsIn(ag) \subseteq ParamsIn(new)
  BY <1>3
<1>5. ASSUME NEW i \in DOMAIN items, items[i].op = "defer" PROVE items[i].param \in ParamsIn(new)
  BY <1>1, <1>5
<1>6. \A e, its : HoldersOf(e, d, n, its) =
          ({1} \cup e \cup {d[i].param : i \in {j \in DOMAIN d : j > n}} \cup ParamsIn(its)) \ {0}
  BY DEF HoldersOf
<1> HIDE DEF ParamsIn
<1> QED
  BY <1>4, <1>5, <1>6 DEF new

LEMMA HoldersTyped ==
  ASSUME NEW H, HeapInv(H), NEW items, AgendaInv(H, items), NEW d, CallsInv(H, d),
         NEW dt, dt \subseteq DOMAIN H, NEW n
  PROVE  HoldersOf(dt, d, n, items) \subseteq DOMAIN H
<1>1. DOMAIN H = 1..Len(H) /\ Len(H) \in Nat /\ 1 \in DOMAIN H
  BY HeapBasics DEF HeapInv
<1>2. \A i \in DOMAIN items : items[i].op = "defer" => items[i].param \in 0..Len(H)
  BY DEF AgendaInv, ItemOK
<1>3. \A i \in DOMAIN d : d[i].param \in 0..Len(H)
  BY DEF CallsInv, CallOK
<1>4. \A x \in 0..Len(H) : x # 0 => x \in DOMAIN H
  BY <1>1
<1> QED
  BY <1>1, <1>2, <1>3, <1>4 DEF HoldersOf

LEMMA HoldersNow == Holders = HoldersOf(dtors, deferred, called, agenda)
BY DEF Holders, HoldersOf, Params

(***************************************************************************)
(* One step of reading.                                                    *)
(***************************************************************************)
LEMMA Advance ==
  ASSUME Inv, result = "reading", agenda # << >>, Top.op # "defer",
         NEW items \in Seq(ItemT), Do(items), UNCHANGED << input, deferred, calls, result >>,
         pos' \in 1..(Len(input) + 1), dstrings' \in Seq(Str),
         HeapInv(out'), Grows(out, out'), MadeInv', RefsInv(out', drefs'),
         dtors \subseteq dtors', dtors' \subseteq DOMAIN out',
         \A i \in DOMAIN items : /\ ItemOK(out', items[i])
                                 /\ items[i].op = "zval" => i = 1 /\ Dropped(out', items[1].slot, dtors'),
         Within(agenda'),
         \A S, S2 : /\ AllLive(out, S) /\ S \subseteq S2 /\ S2 \subseteq DOMAIN out' /\ dtors' \subseteq S2
                    /\ \A i \in DOMAIN items : items[i].op = "defer" /\ items[i].param # 0 => items[i].param \in S2
                    => AllLive(out', S2)
  PROVE  Inv'
<1>1. /\ AgendaInv(out, agenda) /\ ZvalFirst(agenda) /\ AllLive(out, Holders)
      /\ called = 0 /\ ~throws /\ flagged = {}
      /\ HeapInv(out) /\ CallsInv(out, deferred) /\ InputInv
  BY DEF Inv, Phases, ReadInv
<1>2. agenda \in Seq(ItemT) /\ \A i \in DOMAIN agenda : ItemOK(out, agenda[i])
  BY <1>1 DEF AgendaInv
<1>3. agenda' = items \o Tail(agenda) /\ deferred' = deferred /\ called' = called /\ input' = input
      /\ throws' = throws /\ flagged' = flagged /\ result' = result
  BY DEF Do, calls
<1>4. /\ agenda' \in Seq(ItemT)
      /\ \A k \in DOMAIN agenda' : \/ k \in DOMAIN items /\ agenda'[k] = items[k]
                                   \/ \E j \in DOMAIN agenda : j >= 2 /\ k = Len(items) + j - 1 /\ agenda'[k] = agenda[j]
  <2> DEFINE new == items \o Tail(agenda)
  <2>1. /\ new \in Seq(ItemT)
        /\ \A k \in DOMAIN new : \/ k \in DOMAIN items /\ new[k] = items[k]
                                 \/ \E j \in DOMAIN agenda : j >= 2 /\ k = Len(items) + j - 1 /\ new[k] = agenda[j]
    BY <1>2, CatTail
  <2>2. agenda' = new
    BY <1>3
  <2> HIDE DEF new
  <2> QED
    BY <2>1, <2>2
<1>5. CallsInv(out', deferred')
  BY <1>1, <1>3, TablesStay
<1>6. AgendaInv(out', agenda')
  <2>1. \A j \in DOMAIN agenda : ItemOK(out', agenda[j])
    BY <1>1, <1>2, ItemStays
  <2> QED
    BY <1>4, <2>1 DEF AgendaInv
<1>7. ZvalFirst(agenda')
  <2>1. \A j \in DOMAIN agenda : j >= 2 => agenda[j].op # "zval"
    BY <1>1, <1>2 DEF ZvalFirst
  <2> QED
    BY <1>4, <2>1 DEF ZvalFirst
<1>8. HeadDropped'
  <2>1. SUFFICES ASSUME At("zval")' PROVE Dropped(out', Top.slot', dtors')
    BY DEF HeadDropped
  <2>2. agenda' # << >> /\ Top' = agenda'[1] /\ agenda'[1].op = "zval" /\ 1 \in DOMAIN agenda'
    BY <1>4, <2>1 DEF At, Top
  <2>3. \A j \in DOMAIN agenda : j >= 2 => agenda[j].op # "zval"
    BY <1>1, <1>2 DEF ZvalFirst
  <2>4. 1 \in DOMAIN items /\ agenda'[1] = items[1]
    BY <1>4, <2>2, <2>3
  <2> QED
    BY <2>2, <2>4
<1>9. AllLive(out', Holders')
  <2>1. Holders' = HoldersOf(dtors', deferred, called, items \o Tail(agenda))
    BY <1>3, HoldersNow DEF Holders, HoldersOf, Params
  <2>2. Holders = HoldersOf(dtors, deferred, called, agenda)
    BY HoldersNow
  <2>3. Head(agenda).op # "defer"
    BY DEF Top
  <2>4. /\ Holders \subseteq Holders' /\ dtors' \ {0} \subseteq Holders'
        /\ \A i \in DOMAIN items : items[i].op = "defer" /\ items[i].param # 0 => items[i].param \in Holders'
    BY <2>1, <2>2, <2>3, <1>2, HoldersGrow
  <2>5. 0 \notin dtors'
    BY HeapBasics
  <2>6. Holders' \subseteq DOMAIN out'
    <3>1. Holders' = HoldersOf(dtors', deferred', called', agenda')
      BY <2>1, <1>3
    <3> QED
      BY <3>1, <1>5, <1>6, HoldersTyped
  <2>7. dtors' \subseteq Holders'
    BY <2>4, <2>5
  <2> QED
    BY <2>4, <2>6, <2>7, <1>1
<1>10. Phases'
  BY <1>1, <1>3, <1>6, <1>7, <1>8, <1>9 DEF Phases, ReadInv
<1>11. MarkedFromThrower'
  BY <1>1, <1>3 DEF MarkedFromThrower
<1>12. InputInv'
  BY <1>1, <1>3 DEF InputInv
<1> QED
  BY <1>1, <1>3, <1>5, <1>10, <1>11, <1>12 DEF Inv

(***************************************************************************)
(* Failing.                                                                *)
(***************************************************************************)
LEMMA DeferPendingOK ==
  ASSUME NEW H, HeapInv(H), Grows(out, H), HeapInv(out), AgendaInv(out, agenda),
         NEW first, CallsInv(H, first), DeferPending(first)
  PROVE  CallsInv(H, deferred') /\ Len(first) <= Len(deferred')
<1>1. PICK p \in InOrder :
        deferred' = first \o [i \in DOMAIN p |-> [o |-> agenda[p[i]].o, param |-> agenda[p[i]].param]]
  BY DEF DeferPending
<1> DEFINE n == Cardinality(MagicItems)
           call(i) == [o |-> agenda[p[i]].o, param |-> agenda[p[i]].param]
           more == [i \in DOMAIN p |-> call(i)]
<1>2. n \in Nat
  <2>1. MagicItems \subseteq 1..Len(agenda) /\ Len(agenda) \in Nat
    BY DEF MagicItems, AgendaInv
  <2>2. IsFiniteSet(1..Len(agenda))
    BY <2>1, FS_Interval
  <2> QED
    BY <2>1, <2>2, FS_Subset, FS_CardinalityType
<1>3. p \in [1..n -> MagicItems] /\ DOMAIN p = 1..n
  BY DEF InOrder
<1>4. ASSUME NEW i \in 1..n PROVE call(i) \in CallT /\ CallOK(H, call(i))
  <2>1. p[i] \in DOMAIN agenda /\ agenda[p[i]].op = "defer"
    BY <1>3 DEF MagicItems
  <2>2. agenda[p[i]] \in ItemT /\ ItemOK(out, agenda[p[i]])
    BY <2>1 DEF AgendaInv
  <2>3. ItemOK(H, agenda[p[i]])
    BY <2>2, ItemStays
  <2> QED
    BY <2>1, <2>2, <2>3 DEF ItemT, CallT, CallOK, ItemOK
<1> HIDE DEF call, n
<1>5. more \in Seq(CallT) /\ DOMAIN more = 1..n /\ \A i \in 1..n : more[i] = call(i)
  BY <1>2, <1>3, <1>4
<1>6. deferred' = first \o more
  BY <1>1 DEF call
<1> HIDE DEF more
<1>7. first \in Seq(CallT) /\ \A i \in DOMAIN first : CallOK(H, first[i])
  BY DEF CallsInv
<1>8. \A i \in DOMAIN more : CallOK(H, more[i])
  BY <1>4, <1>5
<1>9. /\ first \o more \in Seq(CallT) /\ Len(first) <= Len(first \o more)
      /\ \A i \in DOMAIN (first \o more) : \/ i \in DOMAIN first /\ (first \o more)[i] = first[i]
                                           \/ i - Len(first) \in DOMAIN more /\ (first \o more)[i] = more[i - Len(first)]
  <2>1. Len(first) \in Nat /\ DOMAIN first = 1..Len(first) /\ Len(more) = n /\ n \in Nat
    BY <1>2, <1>5, <1>7
  <2>2. /\ first \o more \in Seq(CallT) /\ Len(first \o more) = Len(first) + Len(more)
        /\ DOMAIN (first \o more) = 1..(Len(first) + n)
    BY <1>5, <1>7, <2>1
  <2>3. ASSUME NEW i \in 1..(Len(first) + n), i > Len(first)
        PROVE  i - Len(first) \in DOMAIN more /\ (first \o more)[i] = more[i - Len(first)]
    BY <1>5, <1>7, <2>1, <2>3
  <2>4. ASSUME NEW i \in 1..(Len(first) + n), i <= Len(first)
        PROVE  i \in DOMAIN first /\ (first \o more)[i] = first[i]
    BY <1>5, <1>7, <2>1, <2>4
  <2>5. \A i \in 1..(Len(first) + n) : i > Len(first) \/ i <= Len(first)
    BY <2>1
  <2> QED
    BY <2>1, <2>2, <2>3, <2>4, <2>5
<1> QED
  BY <1>6, <1>7, <1>8, <1>9 DEF CallsInv

LEMMA FailedOK ==
  ASSUME Inv, result = "reading", result' = "failed", agenda' = << >>,
         HeapInv(out'), Grows(out, out'), CallsInv(out', deferred'),
         UNCHANGED << input, pos, dstrings, drefs, dtors, calls >>
  PROVE  Inv'
<1>1. /\ called = 0 /\ ~throws /\ flagged = {}
      /\ HeapInv(out) /\ RefsInv(out, drefs) /\ InputInv /\ dtors \subseteq DOMAIN out
  BY DEF Inv, Phases, ReadInv
<1>2. RefsInv(out', drefs) /\ dtors \subseteq DOMAIN out'
  BY <1>1, TablesStay
<1>3. Phases' /\ MarkedFromThrower' /\ InputInv'
  BY <1>1 DEF Phases, MarkedFromThrower, InputInv, calls
<1>4. Len(deferred') \in Nat
  BY DEF CallsInv
<1> QED
  BY <1>1, <1>2, <1>3, <1>4 DEF Inv, calls

LEMMA FailWithOK ==
  ASSUME Inv, result = "reading", NEW H, HeapInv(H), Grows(out, H), FailWith(H)
  PROVE  Inv'
<1>1. HeapInv(out) /\ AgendaInv(out, agenda) /\ CallsInv(out, deferred)
  BY DEF Inv, Phases, ReadInv
<1>2. CallsInv(H, deferred)
  BY <1>1, TablesStay
<1>3. CallsInv(H, deferred')
  BY <1>1, <1>2, DeferPendingOK DEF FailWith
<1> QED
  BY <1>3, FailedOK DEF FailWith

LEMMA GrowsRefl ==
  ASSUME NEW H, HeapInv(H)
  PROVE  Grows(H, H)
BY HeapBasics DEF Grows

LEMMA FailOK == ASSUME Inv, result = "reading", Fail PROVE Inv'
<1>1. HeapInv(out)
  BY DEF Inv
<1> QED
  BY <1>1, GrowsRefl, FailWithOK DEF Fail
(***************************************************************************)
(* Tokens.                                                                 *)
(***************************************************************************)
GoodTok(tok) == tok \in Token /\ WellFormed(tok)

LEMMA TokensGood ==
  ASSUME InputInv
  PROVE  \A i \in DOMAIN input : GoodTok(input[i])
BY DEF InputInv, GoodTok

LEMMA AtPos ==
  ASSUME InputInv
  PROVE  /\ pos \in Nat /\ pos >= 1 /\ Len(input) \in Nat /\ DOMAIN input = 1..Len(input)
         /\ More => pos \in DOMAIN input /\ GoodTok(T)
         /\ pos < Len(input) => pos \in DOMAIN input /\ pos + 1 \in DOMAIN input /\ GoodTok(T) /\ GoodTok(T2)
         /\ pos + 1 < Len(input) => pos + 2 \in DOMAIN input /\ GoodTok(input[pos + 2])
<1>1. pos \in Nat /\ pos >= 1 /\ Len(input) \in Nat /\ DOMAIN input = 1..Len(input)
  BY DEF InputInv
<1> QED
  BY <1>1, TokensGood DEF More, T, T2

LEMMA TokFacts ==
  ASSUME NEW tok, GoodTok(tok), dstrings \in Seq(Str)
  PROVE  /\ tok.src \in Srcs
         /\ tok.tag \in {"arr", "refid", "objref", "strid", "objid"} => tok.v \in Nat
         /\ tok.tag \in {"str", "obj"} => tok.v \in Str
         /\ tok.tag = "long" => tok.v \in Ints
         /\ Strings1(tok) \in Seq(Str)
         /\ tok.tag \in ScalarTags /\ StringKnown(tok) => /\ Scalar(tok) \in {Null} \cup Key
                                                          /\ tok.tag # "null" => Scalar(tok) \in Key
         /\ tok.tag \in {"obj", "objid"} /\ StringKnown(tok) => ClassAt(tok) \in Str
<1>1. tok \in Token
  BY DEF GoodTok
<1>2. tok.src \in Srcs
  BY <1>1 DEF Token, Srcs
<1>3. /\ tok.tag \in {"arr", "refid", "objref", "strid", "objid"} => tok.v \in Nat
      /\ tok.tag \in {"str", "obj"} => tok.v \in Str
      /\ tok.tag = "long" => tok.v \in Ints
  BY DEF GoodTok, WellFormed
<1>4. Strings1(tok) \in Seq(Str)
  BY <1>3 DEF Strings1
<1>5. tok.tag \in {"strid", "objid"} /\ StringKnown(tok) => dstrings[tok.v + 1] \in Str
  <2>1. SUFFICES ASSUME tok.tag \in {"strid", "objid"}, StringKnown(tok)
                 PROVE  dstrings[tok.v + 1] \in Str
    OBVIOUS
  <2>2. tok.v \in Nat /\ tok.v < Len(dstrings) /\ Len(dstrings) \in Nat
    BY <2>1, <1>3 DEF StringKnown
  <2>3. tok.v + 1 \in DOMAIN dstrings
    BY <2>2
  <2> QED
    BY <2>3
<1>6. tok.tag \in {"obj", "objid"} /\ StringKnown(tok) => ClassAt(tok) \in Str
  BY <1>3, <1>5 DEF ClassAt
<1>7. ASSUME tok.tag \in ScalarTags, StringKnown(tok)
      PROVE  /\ Scalar(tok) \in {Null} \cup Key
             /\ tok.tag # "null" => Scalar(tok) \in Key
  <2>1. tok.tag \in {"null", "long", "str", "strid", "empty"}
    BY <1>7 DEF ScalarTags
  <2>2. \A n \in Ints : Long(n) \in Key
    BY DEF Long, Key
  <2>3. \A s \in Str : Text(s) \in Key
    BY DEF Text, Key
  <2>4. EmptyStr \in Str
    BY ValuesAssumption
  <2>5. tok.tag = "null" => Scalar(tok) = Null
    BY DEF Scalar
  <2>6. tok.tag = "long" => Scalar(tok) = Long(tok.v)
    BY DEF Scalar
  <2>7. tok.tag = "empty" => Scalar(tok) = Text(EmptyStr)
    BY DEF Scalar
  <2>8. tok.tag = "str" => Scalar(tok) = Text(tok.v)
    BY DEF Scalar, StringAt
  <2>9. tok.tag = "strid" => Scalar(tok) = Text(dstrings[tok.v + 1])
    BY DEF Scalar, StringAt
  <2> QED
    BY <2>1, <2>2, <2>3, <2>4, <2>5, <2>6, <2>7, <2>8, <2>9, <1>3, <1>5, <1>7
<1> QED
  BY <1>2, <1>3, <1>4, <1>6, <1>7

LEMMA ScalarFits ==
  ASSUME NEW n, NEW z \in {Null} \cup Key
  PROVE  z \in Vals(n) /\ z.t \notin Counted
BY DEF Vals, Null, Key, Counted

(***************************************************************************)
(* What is known of the innermost item.                                    *)
(***************************************************************************)
LEMMA TopFacts ==
  ASSUME Inv, result = "reading", agenda # << >>
  PROVE  /\ agenda \in Seq(ItemT) /\ Top \in ItemT /\ ItemOK(out, Top)
         /\ Tail(agenda) \in Seq(ItemT) /\ agenda = << Top >> \o Tail(agenda)
         /\ HeapInv(out) /\ RefsInv(out, drefs) /\ InputInv /\ MadeInv /\ dtors \subseteq DOMAIN out
         /\ dstrings \in Seq(Str)
<1>1. AgendaInv(out, agenda)
  BY DEF Inv, Phases, ReadInv
<1>2. agenda \in Seq(ItemT) /\ 1 \in DOMAIN agenda /\ Top = agenda[1]
  BY <1>1 DEF AgendaInv, Top
<1>3. Top \in ItemT /\ ItemOK(out, Top)
  BY <1>1, <1>2 DEF AgendaInv
<1>4. Tail(agenda) \in Seq(ItemT) /\ agenda = << Head(agenda) >> \o Tail(agenda)
  BY <1>2
<1> QED
  BY <1>2, <1>3, <1>4 DEF Inv, Top

LEMMA ZvalFacts ==
  ASSUME Inv, At("zval")
  PROVE  /\ result = "reading" /\ agenda # << >> /\ Top.op = "zval"
         /\ Top.slot \in Slots /\ Top.want \in BOOLEAN
         /\ SlotOK(out, Top.slot) /\ Dropped(out, Top.slot, dtors)
<1>1. result = "reading" /\ agenda # << >> /\ Top.op = "zval"
  BY DEF At, Top
<1>2. Top \in ItemT /\ ItemOK(out, Top)
  BY <1>1, TopFacts
<1>3. Top.slot \in Slots /\ Top.want \in BOOLEAN
  BY <1>1, <1>2 DEF ItemT
<1>4. SlotOK(out, Top.slot)
  BY <1>1, <1>2 DEF ItemOK
<1>5. HeadDropped
  BY <1>1 DEF Inv, Phases, ReadInv
<1> QED
  BY <1>1, <1>3, <1>4, <1>5 DEF HeadDropped

LEMMA FillFacts ==
  ASSUME Inv, At("fill")
  PROVE  /\ result = "reading" /\ agenda # << >> /\ Top.op = "fill"
         /\ Top.slot \in Slots /\ Top.left \in Int /\ Top.h \in DOMAIN out /\ Top.h >= 2
         /\ SlotOK(out, Top.slot)
         /\ OneLess \in ItemT /\ OneLess.op = "fill" /\ OneLess.h = Top.h /\ OneLess.slot = Top.slot
<1>1. result = "reading" /\ agenda # << >> /\ Top.op = "fill"
  BY DEF At, Top
<1>2. Top \in ItemT /\ ItemOK(out, Top)
  BY <1>1, TopFacts
<1>3. Top \in [op : {"fill"}, h : Nat, left : Int, slot : Slots]
  BY <1>1, <1>2 DEF ItemT
<1>4. OneLess = [Top EXCEPT !.left = Top.left - 1]
  BY DEF OneLess
<1>5. OneLess \in [op : {"fill"}, h : Nat, left : Int, slot : Slots] /\ OneLess.h = Top.h /\ OneLess.slot = Top.slot
  BY <1>3, <1>4
<1> QED
  BY <1>1, <1>2, <1>3, <1>5 DEF ItemT, ItemOK

\* the limit: a value read may open one level, other steps open none
LEMMA ZvalWithin ==
  ASSUME Inv, At("zval"), ~TooDeep, NEW items \in Seq(ItemT), Depth(items) <= 1
  PROVE  Within(items \o Tail(agenda))
<1>1. result = "reading" /\ agenda # << >>
  BY ZvalFacts
<1>2. Tail(agenda) \in Seq(ItemT)
  BY <1>1, TopFacts
<1>3. /\ Depth(items \o Tail(agenda)) = Depth(items) + Depth(Tail(agenda))
      /\ Depth(items) \in Nat /\ Depth(Tail(agenda)) \in Nat
  BY <1>2, DepthCat
<1> QED
  BY <1>3, UnserializeAssumption DEF Within, TooDeep

LEMMA SameWithin ==
  ASSUME Inv, result = "reading", agenda # << >>, NEW items \in Seq(ItemT), Depth(items) <= Depth(<< Top >>)
  PROVE  Within(items \o Tail(agenda))
<1>1. Tail(agenda) \in Seq(ItemT) /\ Top \in ItemT /\ agenda = << Top >> \o Tail(agenda)
  BY TopFacts
<1>2. << Top >> \in Seq(ItemT)
  BY <1>1
<1>3. /\ Depth(items \o Tail(agenda)) = Depth(items) + Depth(Tail(agenda))
      /\ Depth(items) \in Nat /\ Depth(Tail(agenda)) \in Nat
  BY <1>1, DepthCat
<1>4. /\ Depth(<< Top >> \o Tail(agenda)) = Depth(<< Top >>) + Depth(Tail(agenda))
      /\ Depth(<< Top >>) \in Nat
  BY <1>1, <1>2, DepthCat
<1>5. Within(agenda)
  BY DEF Inv, Phases, ReadInv
<1>6. Depth(agenda) = Depth(<< Top >>) + Depth(Tail(agenda))
  BY <1>1, <1>4
<1> QED
  BY <1>3, <1>4, <1>5, <1>6, UnserializeAssumption DEF Within

LEMMA DepthOfTwo ==
  ASSUME NEW x \in ItemT, NEW y \in ItemT
  PROVE  Depth(<< x, y >>) = (IF Deep(x) THEN 1 ELSE 0) + (IF Deep(y) THEN 1 ELSE 0)
<1>1. << x, y >> = << x >> \o << y >> /\ << x >> \in Seq(ItemT) /\ << y >> \in Seq(ItemT)
  <2> DEFINE s == << x >> \o << y >>
             t == << x, y >>
  <2>1. << x >> \in Seq(ItemT) /\ << y >> \in Seq(ItemT) /\ t \in Seq(ItemT)
    OBVIOUS
  <2>2. s \in Seq(ItemT) /\ Len(s) = 2 /\ s[1] = x /\ s[2] = y
    OBVIOUS
  <2>3. Len(t) = 2 /\ t[1] = x /\ t[2] = y
    OBVIOUS
  <2> HIDE DEF s, t
  <2>4. \A i \in 1..Len(s) : s[i] = t[i]
    BY <2>2, <2>3
  <2>5. s = t
    BY <2>1, <2>2, <2>3, <2>4, SeqEqual
  <2> QED
    BY <2>1, <2>5 DEF s, t
<1>2. Depth(<< x >> \o << y >>) = Depth(<< x >>) + Depth(<< y >>)
  BY <1>1, DepthCat
<1> QED
  BY <1>1, <1>2, DepthOfOne

(***************************************************************************)
(* Reading a value that opens no table.                                    *)
(***************************************************************************)
LEMMA TakeOffZval ==
  ASSUME Inv, At("zval"), ~TooDeep, Do(<< >>), UNCHANGED << input, deferred, dtors, calls, result >>,
         pos' \in 1..(Len(input) + 1), dstrings' \in Seq(Str),
         HeapInv(out'), Grows(out, out'), MadeInv', RefsInv(out', drefs'),
         KeepsLive(out, out', Top.slot)
  PROVE  Inv'
<1>1. /\ result = "reading" /\ agenda # << >> /\ Top.op # "defer"
      /\ Dropped(out, Top.slot, dtors)
  BY ZvalFacts
<1>2. << >> \in Seq(ItemT) /\ DOMAIN << >> = {}
  OBVIOUS
<1>3. Within(agenda')
  <2>1. Depth(<< >>) <= 1
    BY DepthOfNone
  <2>2. Within(<< >> \o Tail(agenda))
    BY <1>2, <2>1, ZvalWithin
  <2> QED
    BY <2>2 DEF Do
<1>4. dtors' = dtors /\ dtors \subseteq DOMAIN out'
  <2>1. HeapInv(out) /\ dtors \subseteq DOMAIN out
    BY DEF Inv
  <2> QED
    BY <2>1, TablesStay
<1>5. ASSUME NEW S, NEW S2, AllLive(out, S), S \subseteq S2, S2 \subseteq DOMAIN out', dtors' \subseteq S2
      PROVE  AllLive(out', S2)
  BY <1>1, <1>4, <1>5 DEF Dropped, KeepsLive
<1> DEFINE none == << >>
<1>6. none \in Seq(ItemT) /\ Do(none) /\ DOMAIN none = {}
  BY <1>2
<1> HIDE DEF none
<1> QED
  BY <1>1, <1>3, <1>4, <1>5, <1>6, Advance

LEMMA PosNext ==
  ASSUME Inv, More
  PROVE  pos + 1 \in 1..(Len(input) + 1)
BY AtPos DEF Inv, More

LEMMA ReadScalarOK == ASSUME Inv, ReadScalar PROVE Inv'
<1>1. At("zval") /\ ~TooDeep /\ More /\ T.tag \in ScalarTags /\ StringKnown(T)
  BY DEF ReadScalar, AtToken
<1>2. /\ result = "reading" /\ agenda # << >> /\ SlotOK(out, Top.slot)
      /\ HeapInv(out) /\ RefsInv(out, drefs) /\ InputInv /\ MadeInv /\ dstrings \in Seq(Str)
  BY <1>1, ZvalFacts, TopFacts
<1>3. GoodTok(T)
  BY <1>1, <1>2, AtPos
<1>4. Strings1(T) \in Seq(Str) /\ Scalar(T) \in {Null} \cup Key
  BY <1>1, <1>2, <1>3, TokFacts
<1>5. Scalar(T) \in Vals(Len(out))
  BY <1>4, ScalarFits
<1>6. out' = Put(out, Top.slot, Scalar(T)) /\ drefs' = drefs /\ made' = made /\ dstrings' = Strings1(T)
      /\ pos' = pos + 1 /\ Do(<< >>) /\ UNCHANGED << input, deferred, dtors, calls, result >>
  BY DEF ReadScalar
<1>7. HeapInv(out') /\ Grows(out, out') /\ Len(out') = Len(out) /\ DOMAIN out' = DOMAIN out
  BY <1>2, <1>5, <1>6, PutOne
<1>8. RefsInv(out', drefs')
  BY <1>2, <1>6, <1>7, TablesStay
<1>9. MadeInv'
  BY <1>2, <1>6, <1>7 DEF MadeInv
<1>10. KeepsLive(out, out', Top.slot)
  BY <1>2, <1>5, <1>6, <1>7, PutValueOK DEF KeepsLive
<1>11. pos' \in 1..(Len(input) + 1)
  BY <1>1, <1>6, PosNext
<1> QED
  BY <1>1, <1>4, <1>6, <1>7, <1>8, <1>9, <1>10, <1>11, TakeOffZval

\* new entries of the tables
LEMMA RefsAppend ==
  ASSUME NEW H, HeapInv(H), NEW G, HeapInv(G), Grows(H, G), NEW refs, RefsInv(H, refs),
         NEW e \in RefT, RefOK(G, e)
  PROVE  RefsInv(G, Append(refs, e))
<1>1. RefsInv(G, refs)
  BY TablesStay
<1>2. refs \in Seq(RefT) /\ \A i \in DOMAIN refs : RefOK(G, refs[i])
  BY <1>1 DEF RefsInv
<1>3. /\ Append(refs, e) \in Seq(RefT)
      /\ \A i \in DOMAIN Append(refs, e) : \/ i \in DOMAIN refs /\ Append(refs, e)[i] = refs[i]
                                           \/ Append(refs, e)[i] = e
  BY <1>2
<1> QED
  BY <1>2, <1>3 DEF RefsInv

LEMMA EntryFits ==
  ASSUME NEW ty \in {"obj", "arr", "empty", "ref"}, NEW a \in Nat, NEW src \in Srcs
  PROVE  Entry(ty, a, src) \in RefT /\ Entry(ty, a, src).ty = ty /\ Entry(ty, a, src).a = a
BY DEF Entry, RefT

LEMMA MadeAppendOne ==
  ASSUME MadeInv, NEW x \in Srcs
  PROVE  /\ made \o << x >> \in Seq(Srcs) /\ Len(made \o << x >>) = Len(out) + 1
         /\ Append(made, x) \in Seq(Srcs) /\ Len(Append(made, x)) = Len(out) + 1
BY DEF MadeInv

LEMMA MadeAppendTwo ==
  ASSUME MadeInv, NEW x \in Srcs, NEW y \in Srcs
  PROVE  made \o << x, y >> \in Seq(Srcs) /\ Len(made \o << x, y >>) = Len(out) + 2
BY DEF MadeInv

LEMMA NoValSrc == NoVal \in Srcs
BY DEF Srcs

(***************************************************************************)
(* Back-references.                                                        *)
(***************************************************************************)
LEMMA TargetFacts ==
  ASSUME Inv, AtBackRef, T.v < Len(drefs)
  PROVE  /\ At("zval") /\ ~TooDeep /\ More /\ GoodTok(T)
         /\ T.v + 1 \in DOMAIN drefs /\ Target \in RefT /\ RefOK(out, Target)
         /\ Target.a \in DOMAIN out /\ Target.ty \in {"obj", "arr", "empty", "ref"} /\ Target.src \in Srcs
         /\ Target.ty = "ref" => Ref(Target.a) \in Vals(Len(out))
         /\ Target.ty = "ref" /\ ~Mistaken => In(out, << Target.a, 1 >>) \in Vals(Len(out))
         /\ Target.ty = "obj" => Obj(Target.a) \in Vals(Len(out))
         /\ Target.ty = "arr" => Arr(Target.a) \in Vals(Len(out))
<1>1. At("zval") /\ ~TooDeep /\ More /\ T.tag \in {"refid", "objref"}
  BY DEF AtBackRef, AtToken
<1>2. InputInv /\ HeapInv(out) /\ RefsInv(out, drefs) /\ dstrings \in Seq(Str)
  BY DEF Inv
<1>3. GoodTok(T) /\ T.v \in Nat
  BY <1>1, <1>2, AtPos, TokFacts
<1>4. drefs \in Seq(RefT) /\ \A i \in DOMAIN drefs : RefOK(out, drefs[i])
  BY <1>2 DEF RefsInv
<1>5. T.v + 1 \in DOMAIN drefs
  BY <1>3, <1>4
<1>6. Target \in RefT /\ RefOK(out, Target)
  BY <1>4, <1>5 DEF Target
<1>7. /\ Target.a \in DOMAIN out /\ Target.ty \in {"obj", "arr", "empty", "ref"} /\ Target.src \in Srcs
      /\ Target.ty = "ref" /\ ~Mistaken => Len(out[Target.a].elems) >= 1
  BY <1>6 DEF RefT, RefOK, Mistaken
<1>8. DOMAIN out = 1..Len(out)
  BY <1>2, HeapBasics
<1>9. Target.ty = "ref" /\ ~Mistaken => In(out, << Target.a, 1 >>) \in Vals(Len(out))
  <2>1. SUFFICES ASSUME Target.ty = "ref", ~Mistaken PROVE In(out, << Target.a, 1 >>) \in Vals(Len(out))
    OBVIOUS
  <2>2. 1 \in DOMAIN out[Target.a].elems
    BY <2>1, <1>2, <1>7, HeapBasics
  <2>3. out[Target.a].elems[1].v \in Vals(Len(out))
    BY <2>2, <1>2, <1>7, HeapBasics
  <2> QED
    BY <2>3 DEF In
<1>10. \A a \in DOMAIN out : Ref(a) \in Vals(Len(out)) /\ Obj(a) \in Vals(Len(out)) /\ Arr(a) \in Vals(Len(out))
  BY <1>8 DEF Vals, Ref, Obj, Arr, Counted
<1> QED
  BY <1>1, <1>3, <1>5, <1>6, <1>7, <1>9, <1>10

LEMMA ShareReferenceOK == ASSUME Inv, ShareReference PROVE Inv'
<1>1. AtBackRef /\ T.v < Len(drefs) /\ Target.ty = "ref"
  BY DEF ShareReference
<1>2. At("zval") /\ ~TooDeep /\ More /\ Ref(Target.a) \in Vals(Len(out))
  BY <1>1, TargetFacts
<1>3. /\ SlotOK(out, Top.slot) /\ HeapInv(out) /\ RefsInv(out, drefs) /\ MadeInv /\ dstrings \in Seq(Str)
  BY <1>2, ZvalFacts, TopFacts
<1>4. out' = Put(out, Top.slot, Ref(Target.a)) /\ drefs' = drefs /\ made' = made /\ dstrings' = dstrings
      /\ pos' = pos + 1 /\ Do(<< >>) /\ UNCHANGED << input, deferred, dtors, calls, result >>
  BY DEF ShareReference
<1>5. HeapInv(out') /\ Grows(out, out') /\ Len(out') = Len(out) /\ DOMAIN out' = DOMAIN out
  BY <1>2, <1>3, <1>4, PutOne
<1>6. RefsInv(out', drefs')
  BY <1>3, <1>4, <1>5, TablesStay
<1>7. MadeInv'
  BY <1>3, <1>4, <1>5 DEF MadeInv
<1>8. KeepsLive(out, out', Top.slot)
  BY <1>2, <1>3, <1>4, <1>5, PutValueOK DEF KeepsLive
<1>9. pos' \in 1..(Len(input) + 1)
  BY <1>2, <1>4, PosNext
<1> QED
  BY <1>2, <1>3, <1>4, <1>5, <1>6, <1>7, <1>8, <1>9, TakeOffZval

EmptyArr == ArrCell(<< >>)
LEMMA EmptyArrSmall ==
  ASSUME NEW n
  PROVE  SmallCell(EmptyArr, n) /\ EmptyArr.kind \in Counted /\ EmptyArr.kind = "arr"
BY DEF EmptyArr, ArrCell, SmallCell, CellT, Counted

LEMMA ShareValueOK == ASSUME Inv, ShareValue PROVE Inv'
<1>1. AtBackRef /\ T.v < Len(drefs) /\ ~Mistaken
  BY DEF ShareValue
<1>2. At("zval") /\ ~TooDeep /\ More
  BY <1>1, TargetFacts
<1>3. /\ SlotOK(out, Top.slot) /\ HeapInv(out) /\ RefsInv(out, drefs) /\ MadeInv /\ dstrings \in Seq(Str)
  BY <1>2, ZvalFacts, TopFacts
<1>4. drefs' = drefs /\ dstrings' = dstrings
      /\ pos' = pos + 1 /\ Do(<< >>) /\ UNCHANGED << input, deferred, dtors, calls, result >>
  BY DEF ShareValue
<1>5. pos' \in 1..(Len(input) + 1)
  BY <1>2, <1>4, PosNext
<1>6. CASE Target.ty = "empty"
  <2>1. out' = Append(Put(out, Top.slot, Arr(Next1)), EmptyArr) /\ made' = Append(made, Target.src)
    BY <1>6 DEF ShareValue, Shared, EmptyArr
  <2>2. out' = PutCell(out, Top.slot, EmptyArr, FALSE)
    BY <2>1 DEF PutCell, Arr, Next1, EmptyArr, ArrCell
  <2>3. /\ HeapInv(out') /\ Grows(out, out') /\ Len(out') = Len(out) + 1
        /\ KeepsLive(out, out', Top.slot)
    <3> DEFINE c == EmptyArr
               w == FALSE
    <3>1. SmallCell(c, Len(out)) /\ c.kind \in Counted /\ w \in BOOLEAN /\ ~w
      BY EmptyArrSmall
    <3> HIDE DEF c, w
    <3>2. out' = PutCell(out, Top.slot, c, w)
      BY <2>2 DEF c, w
    <3> QED
      BY <3>1, <3>2, <1>3, PutCellOK
  <2>4. RefsInv(out', drefs')
    BY <2>3, <1>3, <1>4, TablesStay
  <2>5. MadeInv'
    BY <2>1, <2>3, <1>1, <1>3, TargetFacts, MadeAppendOne DEF MadeInv
  <2> QED
    BY <1>2, <1>3, <1>4, <1>5, <2>3, <2>4, <2>5, TakeOffZval
<1>7. CASE Target.ty # "empty"
  <2>1. out' = Put(out, Top.slot, Shared(Target, Next1)) /\ made' = made
    BY <1>7 DEF ShareValue
  <2>2. Shared(Target, Next1) \in Vals(Len(out))
    BY <1>1, <1>7, TargetFacts DEF Shared
  <2>3. HeapInv(out') /\ Grows(out, out') /\ Len(out') = Len(out) /\ DOMAIN out' = DOMAIN out
    BY <2>1, <2>2, <1>3, PutOne
  <2>4. RefsInv(out', drefs')
    BY <2>3, <1>3, <1>4, TablesStay
  <2>5. MadeInv'
    BY <2>1, <2>3, <1>3 DEF MadeInv
  <2>6. KeepsLive(out, out', Top.slot)
    BY <2>1, <2>2, <2>3, <1>3, PutValueOK DEF KeepsLive
  <2> QED
    BY <1>2, <1>3, <1>4, <1>5, <2>3, <2>4, <2>5, <2>6, TakeOffZval
<1> QED
  BY <1>6, <1>7

\* an array read as a zend_reference
LEMMA MisreadValueOK == ASSUME Inv, MisreadValue PROVE Inv'
<1>1. AtBackRef /\ T.v < Len(drefs)
  BY DEF MisreadValue
<1>2. At("zval") /\ ~TooDeep /\ More
  BY <1>1, TargetFacts
<1>3. /\ SlotOK(out, Top.slot) /\ HeapInv(out) /\ RefsInv(out, drefs) /\ MadeInv /\ dstrings \in Seq(Str)
  BY <1>2, ZvalFacts, TopFacts
<1>4. drefs' = drefs /\ made' = made /\ dstrings' = dstrings
      /\ pos' = pos + 1 /\ Do(<< >>) /\ UNCHANGED << input, deferred, dtors, calls, result >>
  BY DEF MisreadValue
<1>5. PICK z \in {Null, Undef} \cup Key : out' = Put(out, Top.slot, z)
  BY DEF MisreadValue
<1>6. z \in Vals(Len(out))
  BY DEF Vals
<1>7. HeapInv(out') /\ Grows(out, out') /\ Len(out') = Len(out) /\ DOMAIN out' = DOMAIN out
  BY <1>3, <1>5, <1>6, PutOne
<1>8. RefsInv(out', drefs')
  BY <1>3, <1>4, <1>7, TablesStay
<1>9. MadeInv'
  BY <1>3, <1>4, <1>7 DEF MadeInv
<1>10. KeepsLive(out, out', Top.slot)
  BY <1>3, <1>5, <1>6, <1>7, PutValueOK DEF KeepsLive
<1>11. pos' \in 1..(Len(input) + 1)
  BY <1>2, <1>4, PosNext
<1> QED
  BY <1>2, <1>3, <1>4, <1>7, <1>8, <1>9, <1>10, <1>11, TakeOffZval

LEMMA MisreadCrashOK == ASSUME Inv, MisreadCrash PROVE Inv'
<1>1. /\ At("zval") /\ result' = "crashed" /\ agenda' = << >>
      /\ UNCHANGED << input, pos, out, made, dstrings, drefs, deferred, dtors, calls >>
  BY DEF MisreadCrash, AtBackRef, AtToken
<1>2. called = 0 /\ ~throws /\ flagged = {}
  BY <1>1, ZvalFacts DEF Inv, Phases, ReadInv
<1>3. Phases' /\ MarkedFromThrower' /\ InputInv'
  BY <1>1, <1>2 DEF Inv, Phases, MarkedFromThrower, InputInv, calls
<1> QED
  BY <1>1, <1>3 DEF Inv, calls

\* the box for a target, with the empty array it holds or with what the entry stands for
LEMMA BoxOfNew ==
  ASSUME HeapInv(out), SlotOK(out, Top.slot)
  PROVE  Append(Put(out, Top.slot, Ref(Next1 + 1)), EmptyArr) \o << RefCell(Arr(Next1), TRUE) >>
            = PutCell(out, Top.slot, EmptyArr, TRUE)
<1> DEFINE P == Append(Put(out, Top.slot, Ref(Next1 + 1)), EmptyArr)
           box == RefCell(Arr(Next1), TRUE)
<1>1. Len(out) \in Nat /\ SmallCell(EmptyArr, Len(out) + 2) /\ Ref(Next1 + 1) \in Vals(Len(out) + 2)
  BY HeapBasics, EmptyArrSmall DEF Ref, Vals, Counted, Next1
<1>2. Heap(P, Len(out) + 2)
  BY <1>1, PutAppend
<1> HIDE DEF P, box
<1>3. P \o << box >> = Append(P, box)
  BY <1>2 DEF Heap
<1> QED
  BY <1>3 DEF P, box, PutCell, Arr, Next1, EmptyArr, ArrCell

LEMMA BoxOfOld ==
  ASSUME HeapInv(out), SlotOK(out, Top.slot), NEW z
  PROVE  Put(out, Top.slot, Ref(Next1)) \o << RefCell(z, TRUE) >>
            = Append(Put(out, Top.slot, Ref(Len(out) + 1)), RefCell(z, TRUE))
<1> DEFINE P == Put(out, Top.slot, Ref(Next1))
           box == RefCell(z, TRUE)
<1>1. Len(out) \in Nat /\ Len(out) + 1 \in Nat /\ Ref(Next1) \in Vals(Len(out) + 1) /\ Heap(out, Len(out))
  BY HeapBasics DEF Ref, Vals, Counted, Next1, HeapInv
<1>2. Heap(out, Len(out) + 1)
  BY <1>1, HeapWiden
<1>3. Heap(P, Len(out) + 1)
  BY <1>1, <1>2, PutHeap
<1> HIDE DEF P, box
<1>4. P \o << box >> = Append(P, box)
  BY <1>3 DEF Heap
<1> QED
  BY <1>4 DEF P, box, Next1

LEMMA BoxTargetOK == ASSUME Inv, BoxTarget PROVE Inv'
<1>1. AtBackRef /\ T.v < Len(drefs) /\ Target.ty # "ref"
  BY DEF BoxTarget
<1>2. At("zval") /\ ~TooDeep /\ More
  BY <1>1, TargetFacts
<1>3. /\ SlotOK(out, Top.slot) /\ HeapInv(out) /\ RefsInv(out, drefs) /\ MadeInv /\ dstrings \in Seq(Str)
  BY <1>2, ZvalFacts, TopFacts
<1>4. dstrings' = dstrings
      /\ pos' = pos + 1 /\ Do(<< >>) /\ UNCHANGED << input, deferred, dtors, calls, result >>
  BY DEF BoxTarget
<1>5. pos' \in 1..(Len(input) + 1)
  BY <1>2, <1>4, PosNext
<1>6. ASSUME NEW r \in DOMAIN out', drefs' = [drefs EXCEPT ![T.v + 1] = Entry("ref", r, Target.src)],
             HeapInv(out'), Grows(out, out'), Len(out'[r].elems) = 1, out'[r].kind = "ref"
      PROVE  RefsInv(out', drefs')
  <2>1. drefs \in Seq(RefT) /\ T.v + 1 \in DOMAIN drefs /\ Target.src \in Srcs
    BY <1>1, <1>3, TargetFacts DEF RefsInv
  <2>2. r \in Nat
    BY <1>6, HeapBasics
  <2>3. Entry("ref", r, Target.src) \in RefT /\ RefOK(out', Entry("ref", r, Target.src))
    <3> DEFINE e == Entry("ref", r, Target.src)
    <3>1. e \in RefT /\ e.a = r /\ e.ty = "ref"
      BY <2>1, <2>2, EntryFits
    <3>2. Len(out'[r].elems) >= 1
      BY <1>6
    <3> HIDE DEF e
    <3> QED
      BY <3>1, <3>2, <1>6 DEF RefOK, e
  <2>4. \A i \in DOMAIN drefs : RefOK(out', drefs[i])
    BY <1>3, <1>6, TablesStay DEF RefsInv
  <2> QED
    BY <2>1, <2>3, <2>4, <1>6 DEF RefsInv
<1>7. CASE Target.ty = "empty"
  <2>1. out' = Append(Put(out, Top.slot, Ref(Next1 + 1)), EmptyArr) \o << RefCell(Arr(Next1), TRUE) >>
        /\ made' = made \o << NoVal, NoVal >> /\ drefs' = [drefs EXCEPT ![T.v + 1] = Entry("ref", Next1 + 1, Target.src)]
    BY <1>7 DEF BoxTarget, Shared, EmptyArr, Target
  <2>2. out' = PutCell(out, Top.slot, EmptyArr, TRUE)
    BY <2>1, <1>3, BoxOfNew
  <2>3. /\ HeapInv(out') /\ Grows(out, out') /\ Len(out') = Len(out) + 2
        /\ Len(out'[Len(out) + 2].elems) = 1 /\ out'[Len(out) + 2].kind = "ref"
        /\ KeepsLive(out, out', Top.slot)
    <3>1. SmallCell(EmptyArr, Len(out)) /\ EmptyArr.kind \in Counted /\ TRUE \in BOOLEAN
      BY EmptyArrSmall
    <3> HIDE DEF EmptyArr
    <3>2. PICK w \in BOOLEAN : w
      OBVIOUS
    <3>3. out' = PutCell(out, Top.slot, EmptyArr, w)
      BY <2>2, <3>2 DEF PutCell
    <3>4. HeapInv(out') /\ Grows(out, out') /\ KeepsLive(out, out', Top.slot)
      BY <3>1, <3>3, <1>3, PutCellOK
    <3>5. Len(out') = Len(out) + (IF w THEN 2 ELSE 1)
      BY <3>1, <3>3, <1>3, PutCellOK
    <3>6. Len(out') = Len(out) + 2 => Len(out'[Len(out) + 2].elems) = 1 /\ out'[Len(out) + 2].kind = "ref"
      BY <3>1, <3>3, <1>3, PutCellOK
    <3> QED
      BY <3>2, <3>4, <3>5, <3>6
  <2>4. Next1 + 1 = Len(out) + 2 /\ Next1 + 1 \in DOMAIN out'
    BY <2>3, <1>3, HeapBasics DEF Next1
  <2>5. RefsInv(out', drefs')
    BY <2>1, <2>3, <2>4, <1>6
  <2>6. MadeInv'
    BY <2>1, <2>3, <1>3, NoValSrc, MadeAppendTwo DEF MadeInv
  <2> QED
    BY <1>2, <1>3, <1>4, <1>5, <2>3, <2>5, <2>6, TakeOffZval
<1>8. CASE Target.ty # "empty"
  <2> DEFINE z == Shared(Target, Next1)
  <2>1. out' = Put(out, Top.slot, Ref(Next1)) \o << RefCell(z, TRUE) >>
        /\ made' = made \o << NoVal >> /\ drefs' = [drefs EXCEPT ![T.v + 1] = Entry("ref", Next1, Target.src)]
    BY <1>8 DEF BoxTarget, Target
  <2>2. z \in Vals(Len(out))
    BY <1>1, <1>8, TargetFacts DEF Shared
  <2> HIDE DEF z
  <2>3. out' = Append(Put(out, Top.slot, Ref(Len(out) + 1)), RefCell(z, TRUE))
    BY <2>1, <1>3, BoxOfOld
  <2>4. /\ HeapInv(out') /\ Grows(out, out') /\ Len(out') = Len(out) + 1
        /\ Len(out'[Len(out) + 1].elems) = 1 /\ out'[Len(out) + 1].kind = "ref"
        /\ KeepsLive(out, out', Top.slot)
    BY <2>2, <2>3, <1>3, PutBoxOK DEF KeepsLive
  <2>5. Next1 = Len(out) + 1 /\ Next1 \in DOMAIN out'
    BY <2>4, <1>3, HeapBasics DEF Next1
  <2>6. RefsInv(out', drefs')
    BY <2>1, <2>4, <2>5, <1>6
  <2>7. MadeInv'
    BY <2>1, <2>4, <1>3, NoValSrc, MadeAppendOne DEF MadeInv
  <2> QED
    BY <1>2, <1>3, <1>4, <1>5, <2>4, <2>6, <2>7, TakeOffZval
<1> QED
  BY <1>7, <1>8
(***************************************************************************)
(* References, and arrays.                                                 *)
(***************************************************************************)
LEMMA ItemsFit ==
  ASSUME NEW slot \in Slots
  PROVE  /\ \A w \in BOOLEAN : Read(slot, w) \in ItemT
         /\ \A src \in Srcs : Wrap(slot, src) \in ItemT
         /\ \A h \in Nat, n \in Int : Fill(h, n, slot) \in ItemT
         /\ \A o \in Nat, p \in Nat : Defer(o, p) \in ItemT
BY DEF Read, Wrap, Fill, Defer, ItemT

LEMMA SlotFits ==
  ASSUME NEW H, HeapInv(H), NEW a, NEW i, SlotOK(H, << a, i >>)
  PROVE  << a, i >> \in Slots
<1>1. a \in DOMAIN H /\ i \in DOMAIN H[a].elems
  BY DEF SlotOK
<1>2. a \in Nat /\ i \in Nat
  BY <1>1, HeapBasics
<1> QED
  BY <1>2 DEF Slots

LEMMA LiveMore ==
  ASSUME NEW H, NEW S, NEW S2, AllLive(H, S), S \subseteq S2, S2 \subseteq DOMAIN H
  PROVE  AllLive(H, S2)
BY DEF AllLive

LEMMA ReadReferenceOK == ASSUME Inv, ReadReference PROVE Inv'
<1>1. At("zval") /\ ~TooDeep /\ More
  BY DEF ReadReference, AtToken
<1>2. /\ result = "reading" /\ agenda # << >> /\ Top.op # "defer" /\ SlotOK(out, Top.slot) /\ Top.slot \in Slots
      /\ Dropped(out, Top.slot, dtors)
      /\ HeapInv(out) /\ RefsInv(out, drefs) /\ InputInv /\ MadeInv /\ dstrings \in Seq(Str)
      /\ dtors \subseteq DOMAIN out
  BY <1>1, ZvalFacts, TopFacts
<1>3. T.src \in Srcs
  BY <1>1, <1>2, AtPos, TokFacts
<1> DEFINE x == Read(Top.slot, TRUE)
           y == Wrap(Top.slot, T.src)
           items == << x, y >>
<1>4. x \in ItemT /\ y \in ItemT /\ x.op = "zval" /\ y.op = "wrap" /\ x.slot = Top.slot /\ y.slot = Top.slot
  BY <1>2, <1>3, ItemsFit DEF Read, Wrap
<1>5. /\ Do(items) /\ pos' = pos + 1
      /\ UNCHANGED << input, out, made, dstrings, drefs, deferred, dtors, calls, result >>
  BY DEF ReadReference
<1> HIDE DEF x, y
<1>6. items \in Seq(ItemT) /\ DOMAIN items = {1, 2} /\ items[1] = x /\ items[2] = y
  BY <1>4
<1>7. Depth(items) <= 1
  BY <1>4, DepthOfTwo DEF Deep
<1> HIDE DEF items
<1>8. Within(agenda')
  BY <1>1, <1>5, <1>6, <1>7, ZvalWithin DEF Do
<1>9. \A i \in DOMAIN items : /\ ItemOK(out', items[i])
                              /\ items[i].op = "zval" => i = 1 /\ Dropped(out', items[1].slot, dtors')
  BY <1>2, <1>4, <1>5, <1>6 DEF ItemOK
<1>10. pos' \in 1..(Len(input) + 1)
  BY <1>1, <1>5, PosNext
<1>11. HeapInv(out') /\ Grows(out, out') /\ MadeInv' /\ RefsInv(out', drefs')
  BY <1>2, <1>5, GrowsRefl DEF MadeInv
<1> QED
  BY <1>2, <1>5, <1>6, <1>8, <1>9, <1>10, <1>11, LiveMore, Advance

\* steps that take off an item which is no value to read
LEMMA TakeOffOther ==
  ASSUME Inv, result = "reading", agenda # << >>, Top.op # "defer", Do(<< >>),
         UNCHANGED << input, pos, dstrings, deferred, dtors, calls, result >>,
         HeapInv(out'), Grows(out, out'), MadeInv', RefsInv(out', drefs'),
         \A S, S2 : AllLive(out, S) /\ S \subseteq S2 /\ S2 \subseteq DOMAIN out' => AllLive(out', S2)
  PROVE  Inv'
<1> DEFINE none == << >>
<1>1. none \in Seq(ItemT) /\ DOMAIN none = {} /\ Do(none)
  OBVIOUS
<1>2. Top \in ItemT /\ dtors \subseteq DOMAIN out /\ HeapInv(out) /\ InputInv /\ dstrings \in Seq(Str)
  BY TopFacts
<1>3. Depth(none) <= Depth(<< Top >>)
  BY <1>2, DepthOfNone, DepthOfOne
<1> HIDE DEF none
<1>4. Within(agenda')
  BY <1>1, <1>3, SameWithin DEF Do
<1>5. dtors \subseteq DOMAIN out'
  BY <1>2, TablesStay
<1>6. pos' \in 1..(Len(input) + 1) /\ dstrings' \in Seq(Str) /\ dtors' = dtors
  BY <1>2 DEF InputInv
<1> QED
  BY <1>1, <1>4, <1>5, <1>6, Advance

LEMMA WrapReferenceOK == ASSUME Inv, WrapReference PROVE Inv'
<1>1. result = "reading" /\ agenda # << >> /\ Top.op = "wrap"
  BY DEF WrapReference, At, Top
<1>2. /\ Top \in ItemT /\ ItemOK(out, Top) /\ HeapInv(out) /\ RefsInv(out, drefs) /\ MadeInv
  BY <1>1, TopFacts
<1>3. SlotOK(out, Top.slot) /\ Top.src \in Srcs
  BY <1>1, <1>2 DEF ItemOK, ItemT
<1>4. Do(<< >>) /\ UNCHANGED << input, pos, dstrings, deferred, dtors, calls, result >>
  BY DEF WrapReference
<1> DEFINE z == In(out, Top.slot)
<1>5. z \in Vals(Len(out))
  BY <1>2, <1>3, HeapBasics DEF SlotOK, In
<1>6. CASE z.t = "ref"
  <2>1. out' = out /\ made' = made /\ drefs' = drefs
    BY <1>6 DEF WrapReference
  <2>2. HeapInv(out') /\ Grows(out, out') /\ MadeInv' /\ RefsInv(out', drefs')
    BY <2>1, <1>2, GrowsRefl DEF MadeInv
  <2>3. \A S, S2 : AllLive(out, S) /\ S \subseteq S2 /\ S2 \subseteq DOMAIN out' => AllLive(out', S2)
    BY <2>1, LiveMore, Zenon
  <2>4. result = "reading" /\ agenda # << >> /\ Top.op # "defer"
    BY <1>1 DEF At, Top
  <2> QED
    BY <1>4, <2>2, <2>3, <2>4, TakeOffOther, Zenon
<1>7. CASE z.t # "ref"
  <2>1. out' = Append(Put(out, Top.slot, Ref(Next1)), RefCell(z, TRUE))
        /\ (made' = Append(made, Top.src) \/ made' = Append(made, NoVal))
        /\ (drefs' = drefs \/ drefs' = Append(drefs, Entry("ref", Next1, Top.src)))
    BY <1>7 DEF WrapReference
  <2> HIDE DEF z
  <2>2. out' = Append(Put(out, Top.slot, Ref(Len(out) + 1)), RefCell(z, TRUE))
    BY <2>1 DEF Next1
  <2>3. /\ HeapInv(out') /\ Grows(out, out') /\ Len(out') = Len(out) + 1
        /\ Len(out'[Len(out) + 1].elems) = 1 /\ out'[Len(out) + 1].kind = "ref"
        /\ \A S, S2 : AllLive(out, S) /\ S \subseteq S2 /\ S2 \subseteq DOMAIN out' => AllLive(out', S2)
    BY <2>2, <1>2, <1>3, <1>5, PutBoxOK DEF z
  <2>4. Next1 = Len(out) + 1 /\ Next1 \in DOMAIN out' /\ Next1 \in Nat
    BY <2>3, <1>2, HeapBasics DEF Next1
  <2>5. RefsInv(out', drefs')
    <3> DEFINE e == Entry("ref", Next1, Top.src)
    <3>1. e \in RefT /\ e.a = Next1 /\ e.ty = "ref"
      BY <2>4, <1>3, EntryFits
    <3>2. Len(out'[Next1].elems) = 1 /\ out'[Next1].kind = "ref"
      BY <2>3, <2>4, Zenon
    <3> HIDE DEF e
    <3>3. RefOK(out', e)
      BY <2>4, <3>1, <3>2 DEF RefOK
    <3>4. RefsInv(out', Append(drefs, e))
      BY <2>3, <3>1, <3>3, <1>2, RefsAppend
    <3>5. RefsInv(out', drefs)
      BY <2>3, <1>2, TablesStay
    <3> QED
      BY <2>1, <3>4, <3>5 DEF e
  <2>6. MadeInv'
    BY <2>1, <2>3, <1>2, <1>3, NoValSrc, MadeAppendOne DEF MadeInv
  <2> QED
    BY <1>1, <1>4, <2>3, <2>5, <2>6, TakeOffOther
<1> QED
  BY <1>6, <1>7

\* a new array or object, boxed or not, and the entry for it
Suits(ty, kind) == ty \in {kind, "empty"} \/ (ty = "ref" /\ kind = "arr")
LEMMA NewCell ==
  ASSUME Inv, At("zval"), NEW c, SmallCell(c, Len(out)), c.kind \in Counted, NEW w \in BOOLEAN,
         NEW ty \in {"obj", "arr", "empty", "ref"}, w => ty = "ref", ~w => Suits(ty, c.kind) /\ c.kind # "ref",
         NEW src \in Srcs
  PROVE  LET G == PutCell(out, Top.slot, c, w)
             e == Entry(ty, IF w THEN Next1 + 1 ELSE Next1, src)
         IN  /\ HeapInv(G) /\ Grows(out, G) /\ Len(G) = Len(out) + (IF w THEN 2 ELSE 1)
             /\ KeepsLive(out, G, Top.slot)
             /\ RefsInv(G, Append(drefs, e))
             /\ Next1 \in DOMAIN G /\ Next1 >= 2 /\ Next1 \in Nat /\ SlotOK(G, Top.slot) /\ Next1 = Len(out) + 1
<1> DEFINE G == PutCell(out, Top.slot, c, w)
           a == IF w THEN Next1 + 1 ELSE Next1
           e == Entry(ty, a, src)
<1>1. /\ result = "reading" /\ agenda # << >> /\ SlotOK(out, Top.slot)
      /\ HeapInv(out) /\ RefsInv(out, drefs)
  BY ZvalFacts, TopFacts
<1> HIDE DEF G
<1>2. HeapInv(G) /\ Grows(out, G) /\ Len(G) = Len(out) + (IF w THEN 2 ELSE 1) /\ KeepsLive(out, G, Top.slot)
  BY <1>1, PutCellOK DEF G
<1>3. /\ Len(G) = Len(out) + 2 => Len(G[Len(out) + 2].elems) = 1 /\ G[Len(out) + 2].kind = "ref"
      /\ G[Len(out) + 1] = c
  BY <1>1, PutCellOK DEF G
<1>4. Len(out) \in Nat /\ Len(out) >= 1 /\ DOMAIN G = 1..Len(G) /\ DOMAIN out = 1..Len(out) /\ Next1 = Len(out) + 1
  BY <1>1, <1>2, HeapBasics DEF Next1
<1>5. Next1 \in DOMAIN G /\ Next1 >= 2 /\ Next1 \in Nat /\ a \in DOMAIN G /\ a \in Nat
  BY <1>2, <1>4
<1>6. SlotOK(G, Top.slot)
  <2>1. Heap(out, Len(out)) /\ Heap(G, Len(G)) /\ Len(G) \in Nat
    BY <1>1, <1>2, <1>4 DEF HeapInv
  <2> QED
    BY <2>1, <1>1, <1>2, <1>4, SlotStays
<1>7. e \in RefT /\ e.ty = ty /\ e.a = a
  <2> HIDE DEF a
  <2> QED
    BY <1>5, EntryFits
<1>8. RefOK(G, e)
  <2>1. CASE w
    <3>1. a = Len(out) + 2 /\ Len(G) = Len(out) + 2
      BY <2>1, <1>2, <1>4
    <3> HIDE DEF e, a
    <3>2. Len(G[a].elems) = 1 /\ G[a].kind = "ref"
      BY <3>1, <1>3
    <3>3. ty = "ref"
      BY <2>1, Zenon
    <3>4. e.ty = "ref" /\ e.a = a /\ a \in DOMAIN G
      BY <3>3, <1>5, <1>7
    <3> QED
      BY <3>2, <3>4 DEF RefOK
  <2>2. CASE ~w
    <3>1. a = Len(out) + 1
      BY <2>2, <1>4
    <3> HIDE DEF e, a
    <3>2. G[a].kind = c.kind
      BY <3>1, <1>3
    <3> QED
      BY <3>2, <2>2, <1>5, <1>7 DEF RefOK, Suits
  <2> QED
    BY <2>1, <2>2
<1>9. RefsInv(G, Append(drefs, e))
  <2> HIDE DEF e, a
  <2> QED
    BY <1>8, <1>1, <1>2, <1>7, RefsAppend
<1> QED
  BY <1>2, <1>4, <1>5, <1>6, <1>9 DEF G

\* made grows with the cells
LEMMA MakeFits ==
  ASSUME MadeInv, NEW want \in BOOLEAN, NEW x \in Srcs, NEW y \in Srcs, NEW m,
         m = made \o (IF want THEN << x, y >> ELSE << y >>) \/ m = made \o (IF want THEN << y, x >> ELSE << y >>)
  PROVE  m \in Seq(Srcs) /\ Len(m) = Len(out) + (IF want THEN 2 ELSE 1)
<1>1. CASE want
  BY <1>1, MadeAppendTwo
<1>2. CASE ~want
  BY <1>2, MadeAppendOne
<1> QED
  BY <1>1, <1>2

LEMMA ReadArrayOK == ASSUME Inv, ReadArray PROVE Inv'
<1>1. At("zval") /\ ~TooDeep /\ More /\ T.tag = "arr"
  BY DEF ReadArray, AtToken
<1>2. /\ result = "reading" /\ agenda # << >> /\ Top.op # "defer" /\ Top.slot \in Slots
      /\ Top.want \in BOOLEAN /\ Dropped(out, Top.slot, dtors)
      /\ HeapInv(out) /\ InputInv /\ MadeInv /\ dstrings \in Seq(Str) /\ dtors \subseteq DOMAIN out
  BY <1>1, ZvalFacts, TopFacts
<1>3. T.src \in Srcs /\ T.v \in Nat
  BY <1>1, <1>2, AtPos, TokFacts
<1> DEFINE ty == IF Top.want THEN "ref" ELSE IF T.v = 0 THEN "empty" ELSE "arr"
           e == Entry(ty, IF Boxed THEN Next1 + 1 ELSE Next1, T.src)
           items == IF T.v = 0 THEN << >> ELSE << Fill(Next1, T.v, Top.slot) >>
<1>4. /\ out' = PutCell(out, Top.slot, EmptyArr, Boxed) /\ made' = Make(T.src, Boxed)
      /\ drefs' = Append(drefs, e) /\ Do(items) /\ pos' = pos + 1
      /\ UNCHANGED << input, dstrings, deferred, dtors, calls, result >>
  BY DEF ReadArray, EmptyArr
<1>5. SmallCell(EmptyArr, Len(out)) /\ EmptyArr.kind \in Counted /\ EmptyArr.kind = "arr"
  BY EmptyArrSmall
<1>6. /\ ty \in {"obj", "arr", "empty", "ref"} /\ Boxed \in BOOLEAN
      /\ Boxed => ty = "ref"
      /\ Suits(ty, "arr")
  BY <1>2 DEF Boxed, Suits
<1> HIDE DEF ty
<1>7. /\ HeapInv(out') /\ Grows(out, out') /\ Len(out') = Len(out) + (IF Boxed THEN 2 ELSE 1)
      /\ KeepsLive(out, out', Top.slot)
      /\ RefsInv(out', drefs')
      /\ Next1 \in DOMAIN out' /\ Next1 >= 2 /\ Next1 \in Nat /\ SlotOK(out', Top.slot)
  <2> DEFINE w == Boxed
  <2> HIDE DEF w, e
  <2>1. \A v \in BOOLEAN : v = Boxed =>
           LET G == PutCell(out, Top.slot, EmptyArr, v)
               f == Entry(ty, IF v THEN Next1 + 1 ELSE Next1, T.src)
           IN  /\ HeapInv(G) /\ Grows(out, G) /\ Len(G) = Len(out) + (IF v THEN 2 ELSE 1)
               /\ KeepsLive(out, G, Top.slot)
               /\ RefsInv(G, Append(drefs, f))
               /\ Next1 \in DOMAIN G /\ Next1 >= 2 /\ Next1 \in Nat /\ SlotOK(G, Top.slot)
    BY <1>1, <1>3, <1>5, <1>6, NewCell
  <2> QED
    BY <2>1, <1>4, <1>6 DEF e
<1>8. MadeInv'
  BY <1>2, <1>3, <1>4, <1>7, NoValSrc, MakeFits DEF MadeInv, Make
<1>9. /\ items \in Seq(ItemT) /\ Depth(items) <= 1
      /\ \A i \in DOMAIN items : items[i] = Fill(Next1, T.v, Top.slot)
  <2>1. CASE T.v = 0
    BY <2>1, DepthOfNone
  <2>2. CASE T.v # 0
    <3>1. Fill(Next1, T.v, Top.slot) \in ItemT
      BY <1>2, <1>3, <1>7, ItemsFit
    <3> QED
      BY <2>2, <3>1, DepthOfOne
  <2> QED
    BY <2>1, <2>2
<1> HIDE DEF items
<1>10. Within(agenda')
  BY <1>1, <1>4, <1>9, ZvalWithin DEF Do
<1>11. \A i \in DOMAIN items : items[i].op = "fill" /\ ItemOK(out', items[i])
  BY <1>7, <1>9 DEF Fill, ItemOK
<1>12. dtors' = dtors /\ dtors \subseteq DOMAIN out' /\ pos' \in 1..(Len(input) + 1)
  BY <1>1, <1>2, <1>4, <1>7, PosNext, TablesStay
<1>13. \A S, S2 : AllLive(out, S) /\ S \subseteq S2 /\ S2 \subseteq DOMAIN out' /\ dtors' \subseteq S2
                  => AllLive(out', S2)
  BY <1>2, <1>7, <1>12 DEF KeepsLive, Dropped
<1> QED
  BY <1>2, <1>4, <1>7, <1>8, <1>9, <1>10, <1>11, <1>12, <1>13, Advance

\* the failures that leave the heap as it is, and the one that clears a slot
LEMMA FailuresOK ==
  ASSUME Inv, CannotRead \/ UnknownString \/ ShortArray \/ CannotReadObject \/ UnknownId \/ TrailingData
  PROVE  Inv'
<1>1. result = "reading" /\ Fail
  BY DEF CannotRead, UnknownString, ShortArray, CannotReadObject, UnknownId, TrailingData, AtBackRef, AtToken, At
<1> QED
  BY <1>1, FailOK

LEMMA NullFits ==
  ASSUME NEW n
  PROVE  Null \in Vals(n) /\ Null.t \notin Counted
BY DEF Vals, Null, Counted

LEMMA CannotReadKeyOK == ASSUME Inv, CannotReadKey PROVE Inv'
<1>1. At("fill") /\ FailAndClear
  BY DEF CannotReadKey
<1>2. result = "reading" /\ SlotOK(out, Top.slot) /\ HeapInv(out)
  BY <1>1, FillFacts, TopFacts
<1>3. HeapInv(Put(out, Top.slot, Null)) /\ Grows(out, Put(out, Top.slot, Null))
  BY <1>2, NullFits, PutOne
<1> QED
  BY <1>1, <1>2, <1>3, FailWithOK DEF FailAndClear

\* the loop goes on: what is left of it stays on the agenda
LEMMA LoopWithin ==
  ASSUME Inv, At("fill")
  PROVE  /\ << OneLess >> \in Seq(ItemT) /\ Within(<< OneLess >> \o Tail(agenda))
         /\ \A x \in ItemT : ~Deep(x) => /\ << x, OneLess >> \in Seq(ItemT)
                                         /\ Within(<< x, OneLess >> \o Tail(agenda))
<1>1. /\ result = "reading" /\ agenda # << >> /\ Top.op = "fill" /\ OneLess \in ItemT /\ OneLess.op = "fill"
      /\ Top \in ItemT
  BY FillFacts, TopFacts
<1>2. Depth(<< Top >>) = 1 /\ Depth(<< OneLess >>) = 1
  BY <1>1, DepthOfOne DEF Deep
<1>3. ASSUME NEW x \in ItemT, ~Deep(x)
      PROVE  << x, OneLess >> \in Seq(ItemT) /\ Depth(<< x, OneLess >>) = 1
  <2>1. Deep(OneLess)
    BY <1>1 DEF Deep
  <2>2. Depth(<< x, OneLess >>) = 0 + 1
    BY <1>1, <1>3, <2>1, DepthOfTwo
  <2> QED
    BY <1>1, <2>2
<1>4. << OneLess >> \in Seq(ItemT) /\ Within(<< OneLess >> \o Tail(agenda))
  <2>1. << OneLess >> \in Seq(ItemT)
    BY <1>1
  <2>2. Depth(<< OneLess >>) <= Depth(<< Top >>)
    BY <1>2
  <2> QED
    BY <1>1, <2>1, <2>2, SameWithin
<1>5. ASSUME NEW x \in ItemT, ~Deep(x)
      PROVE  Within(<< x, OneLess >> \o Tail(agenda))
  <2> DEFINE items == << x, OneLess >>
  <2>1. items \in Seq(ItemT) /\ Depth(items) = 1
    BY <1>3, <1>5
  <2>2. Depth(items) <= Depth(<< Top >>)
    BY <1>2, <2>1
  <2> HIDE DEF items
  <2>3. Within(items \o Tail(agenda))
    BY <1>1, <2>1, <2>2, SameWithin
  <2> QED
    BY <2>3 DEF items
<1> QED
  BY <1>3, <1>4, <1>5

LEMMA SkipKeylessOK == ASSUME Inv, SkipKeyless PROVE Inv'
<1>1. At("fill") /\ More
  BY DEF SkipKeyless, AtKey
<1>2. /\ result = "reading" /\ agenda # << >> /\ Top.op = "fill" /\ SlotOK(out, Top.slot)
      /\ Top.h \in DOMAIN out /\ Top.h >= 2
      /\ OneLess \in ItemT /\ OneLess.op = "fill" /\ OneLess.h = Top.h /\ OneLess.slot = Top.slot
      /\ HeapInv(out) /\ RefsInv(out, drefs) /\ MadeInv /\ dstrings \in Seq(Str) /\ dtors \subseteq DOMAIN out
  BY <1>1, FillFacts, TopFacts
<1> DEFINE items == << OneLess >>
<1>3. /\ Do(items) /\ pos' = pos + 1
      /\ UNCHANGED << input, out, made, dstrings, drefs, deferred, dtors, calls, result >>
  BY DEF SkipKeyless
<1>4. items \in Seq(ItemT) /\ Within(items \o Tail(agenda))
  BY <1>1, LoopWithin
<1>5. \A i \in DOMAIN items : items[i] = OneLess
  OBVIOUS
<1> HIDE DEF items
<1>6. \A i \in DOMAIN items : items[i].op = "fill" /\ ItemOK(out', items[i])
  BY <1>2, <1>3, <1>5 DEF ItemOK
<1>7. pos' \in 1..(Len(input) + 1) /\ Within(agenda')
  BY <1>1, <1>3, <1>4, PosNext DEF Do
<1>8. HeapInv(out') /\ Grows(out, out') /\ MadeInv' /\ RefsInv(out', drefs')
  BY <1>2, <1>3, GrowsRefl DEF MadeInv
<1> QED
  BY <1>2, <1>3, <1>4, <1>6, <1>7, <1>8, LiveMore, Advance

LEMMA EndFillOK == ASSUME Inv, EndFill PROVE Inv'
<1>1. At("fill") /\ Do(<< >>)
      /\ UNCHANGED << input, pos, out, made, dstrings, drefs, deferred, dtors, calls, result >>
  BY DEF EndFill
<1>2. result = "reading" /\ agenda # << >> /\ Top.op # "defer" /\ HeapInv(out) /\ RefsInv(out, drefs) /\ MadeInv
  BY <1>1, FillFacts, TopFacts
<1>3. HeapInv(out') /\ Grows(out, out') /\ MadeInv' /\ RefsInv(out', drefs')
  BY <1>1, <1>2, GrowsRefl DEF MadeInv
<1> QED
  BY <1>1, <1>2, <1>3, LiveMore, TakeOffOther

LEMMA KeyFits ==
  ASSUME Inv, AtKey(KeyTags), StringKnown(T)
  PROVE  KeyIn(Top.h, T) \in Key /\ Strings1(T) \in Seq(Str)
<1>1. GoodTok(T) /\ dstrings \in Seq(Str) /\ T.tag \in KeyTags
  BY AtPos DEF AtKey, Inv
<1>2. Strings1(T) \in Seq(Str) /\ Scalar(T) \in Key /\ (T.tag = "long" => T.v \in Ints)
  BY <1>1, TokFacts DEF KeyTags, ScalarTags
<1>3. T.tag = "long" => Text(Decimal[T.v]) \in Key
  BY <1>2, UnserializeAssumption DEF Text, Key
<1> QED
  BY <1>2, <1>3 DEF KeyIn

\* a loop that reads one more value, into a slot that holds nothing but what is kept
LEMMA OneMore ==
  ASSUME Inv, At("fill"), More, NEW s, s \in Slots, SlotOK(out', s),
         Do(<< Read(s, FALSE), OneLess >>), UNCHANGED << input, made, drefs, deferred, calls, result >>,
         pos' = pos + 1, dstrings' \in Seq(Str), HeapInv(out'), Grows(out, out'), Len(out') = Len(out),
         dtors \subseteq dtors', dtors' \subseteq DOMAIN out', Dropped(out', s, dtors'),
         \A S, S2 : AllLive(out, S) /\ S \subseteq S2 /\ S2 \subseteq DOMAIN out' /\ dtors' \subseteq S2
                       => AllLive(out', S2)
  PROVE  Inv'
<1>1. /\ result = "reading" /\ agenda # << >> /\ Top.op = "fill" /\ SlotOK(out, Top.slot)
      /\ Top.h \in DOMAIN out /\ Top.h >= 2
      /\ OneLess \in ItemT /\ OneLess.op = "fill" /\ OneLess.h = Top.h /\ OneLess.slot = Top.slot
      /\ HeapInv(out) /\ RefsInv(out, drefs) /\ MadeInv
  BY FillFacts, TopFacts
<1> DEFINE x == Read(s, FALSE)
           items == << x, OneLess >>
<1>2. x \in ItemT /\ x.op = "zval" /\ x.slot = s
  BY ItemsFit DEF Read
<1>3. Do(items)
  OBVIOUS
<1> HIDE DEF x
<1>4. ~Deep(x)
  BY <1>2 DEF Deep
<1>5. items \in Seq(ItemT) /\ Within(items \o Tail(agenda))
  BY <1>2, <1>4, LoopWithin
<1>6. items[1] = x /\ items[2] = OneLess /\ DOMAIN items = {1, 2}
  OBVIOUS
<1> HIDE DEF items
<1>7. ItemOK(out', OneLess)
  <2>1. ItemOK(out, OneLess)
    BY <1>1 DEF ItemOK
  <2> QED
    BY <1>1, <2>1, ItemStays
<1>8. ItemOK(out', x)
  BY <1>2 DEF ItemOK
<1>9. \A i \in DOMAIN items : /\ ItemOK(out', items[i])
                              /\ items[i].op = "zval" => i = 1 /\ Dropped(out', items[1].slot, dtors')
  BY <1>1, <1>2, <1>6, <1>7, <1>8
<1>10. pos' \in 1..(Len(input) + 1) /\ Within(agenda')
  BY <1>3, <1>5, PosNext DEF Do
<1>11. MadeInv' /\ RefsInv(out', drefs')
  <2>1. RefsInv(out', drefs)
    BY <1>1, TablesStay
  <2> QED
    BY <1>1, <2>1 DEF MadeInv
<1>12. \A S, S2 : /\ AllLive(out, S) /\ S \subseteq S2 /\ S2 \subseteq DOMAIN out' /\ dtors' \subseteq S2
                  /\ \A i \in DOMAIN items : items[i].op = "defer" /\ items[i].param # 0 => items[i].param \in S2
                  => AllLive(out', S2)
  OBVIOUS
<1> QED
  BY <1>1, <1>3, <1>5, <1>9, <1>10, <1>11, <1>12, Advance

LEMMA ReadNewKeyOK == ASSUME Inv, ReadNewKey PROVE Inv'
<1> DEFINE k == KeyIn(Top.h, T)
           s == << Top.h, Len(out[Top.h].elems) + 1 >>
<1>1. At("fill") /\ More /\ AtKey(KeyTags) /\ StringKnown(T) /\ Indexes(Top.h, k) = {}
  BY DEF ReadNewKey, AtKey
<1>2. /\ Top.h \in DOMAIN out /\ Top.h >= 2 /\ HeapInv(out) /\ dtors \subseteq DOMAIN out
  BY <1>1, FillFacts, TopFacts
<1>3. k \in Key /\ Strings1(T) \in Seq(Str)
  BY <1>1, KeyFits
<1>4. \A i \in DOMAIN out[Top.h].elems : out[Top.h].elems[i].k # k
  BY <1>1 DEF Indexes
<1>5. /\ out' = AddElem(out, Top.h, Elem(k, Null)) /\ dstrings' = Strings1(T) /\ pos' = pos + 1
      /\ Do(<< Read(s, FALSE), OneLess >>)
      /\ UNCHANGED << input, made, drefs, deferred, dtors, calls, result >>
  BY DEF ReadNewKey, AddElem
<1> HIDE DEF k
<1>6. /\ HeapInv(out') /\ Grows(out, out') /\ Len(out') = Len(out)
      /\ SlotOK(out', s) /\ In(out', s) = Null
      /\ \A S : AllLive(out, S) => AllLive(out', S)
  BY <1>2, <1>3, <1>4, <1>5, AddElemOK
<1>7. s \in Slots
  BY <1>6, SlotFits
<1>8. DOMAIN out' = DOMAIN out
  BY <1>2, <1>6, HeapBasics
<1>9. \A S, S2 : AllLive(out, S) /\ S \subseteq S2 /\ S2 \subseteq DOMAIN out' => AllLive(out', S2)
  BY <1>6, LiveMore
<1>10. Dropped(out', s, dtors')
  BY <1>6, NullFits DEF Dropped
<1> HIDE DEF s
<1> QED
  BY <1>1, <1>2, <1>3, <1>5, <1>6, <1>7, <1>8, <1>9, <1>10, OneMore

LEMMA ReadOldKeyOK == ASSUME Inv, ReadOldKey PROVE Inv'
<1> DEFINE k == KeyIn(Top.h, T)
<1>1. At("fill") /\ More /\ AtKey(KeyTags) /\ StringKnown(T)
  BY DEF ReadOldKey, AtKey
<1>2. Top.h \in DOMAIN out /\ Top.h >= 2 /\ HeapInv(out) /\ dtors \subseteq DOMAIN out
  BY <1>1, FillFacts, TopFacts
<1>3. Strings1(T) \in Seq(Str)
  BY <1>1, KeyFits
<1>4. PICK i \in Indexes(Top.h, k) :
         /\ dtors' = KeepOld(out[Top.h].elems[i].v)
         /\ out' = IF out[Top.h].kind = "obj" THEN Put(out, << Top.h, i >>, Null) ELSE out
         /\ Do(<< Read(<< Top.h, i >>, FALSE), OneLess >>)
  BY DEF ReadOldKey
<1>5. /\ dstrings' = Strings1(T) /\ pos' = pos + 1
      /\ UNCHANGED << input, made, drefs, deferred, calls, result >>
  BY DEF ReadOldKey
<1> DEFINE s == << Top.h, i >>
<1>6. SlotOK(out, s) /\ s \in Slots /\ In(out, s) = out[Top.h].elems[i].v
  <2>1. SlotOK(out, s)
    BY <1>2, <1>4 DEF Indexes, SlotOK
  <2> QED
    BY <1>2, <2>1, SlotFits DEF In
<1>7. In(out, s) \in Vals(Len(out)) /\ DOMAIN out = 1..Len(out)
  <2>1. i \in DOMAIN out[Top.h].elems
    BY <1>4 DEF Indexes
  <2> QED
    BY <1>2, <1>6, <2>1, HeapBasics
<1>8. dtors' = KeepOld(In(out, s))
  BY <1>4, <1>6
<1> HIDE DEF k
<1>9. out' = (IF out[Top.h].kind = "obj" THEN Put(out, s, Null) ELSE out)
      /\ Do(<< Read(s, FALSE), OneLess >>)
  BY <1>4
<1>10. s[1] = Top.h
  OBVIOUS
<1> HIDE DEF s
<1>11. dtors \subseteq dtors' /\ dtors' \subseteq DOMAIN out /\ Dropped(out, s, dtors')
  <2>1. CASE In(out, s).t \in Counted
    <3>1. In(out, s).v \in 1..Len(out)
      BY <2>1, <1>7 DEF Vals, Key, Null, Undef, Counted
    <3> QED
      BY <2>1, <3>1, <1>2, <1>7, <1>8 DEF KeepOld, Dropped
  <2>2. CASE In(out, s).t \notin Counted
    BY <2>2, <1>2, <1>8 DEF KeepOld, Dropped
  <2> QED
    BY <2>1, <2>2
<1>12. /\ HeapInv(out') /\ Grows(out, out') /\ Len(out') = Len(out) /\ DOMAIN out' = DOMAIN out
       /\ SlotOK(out', s) /\ Dropped(out', s, dtors')
       /\ \A S, S2 : AllLive(out, S) /\ S \subseteq S2 /\ S2 \subseteq DOMAIN out' /\ dtors' \subseteq S2
                        => AllLive(out', S2)
  <2>1. CASE out' = out
    BY <2>1, <1>2, <1>6, <1>11, GrowsRefl, LiveMore
  <2>2. CASE out' = Put(out, s, Null)
    <3>1. HeapInv(out') /\ Grows(out, out') /\ Len(out') = Len(out) /\ DOMAIN out' = DOMAIN out
      BY <2>2, <1>2, <1>6, NullFits, PutOne
    <3>2. SlotOK(out', s) /\ Dropped(out', s, dtors')
      <4>1. Heap(out, Len(out)) /\ Len(out) \in Nat
        BY <1>2, HeapBasics DEF HeapInv
      <4>2. DOMAIN out'[s[1]].elems = DOMAIN out[s[1]].elems /\ out'[s[1]].elems[s[2]].v = Null
        BY <4>1, <2>2, <1>6, PutFacts DEF SlotOK
      <4> QED
        BY <4>2, <3>1, <1>6, NullFits DEF SlotOK, Dropped, In
    <3>3. ASSUME NEW S, NEW S2, AllLive(out, S), S \subseteq S2, S2 \subseteq DOMAIN out', dtors' \subseteq S2
          PROVE  AllLive(out', S2)
      <4>1. Dropped(out, s, S2)
        BY <3>3, <1>11 DEF Dropped
      <4> QED
        BY <4>1, <3>1, <3>3, <2>2, <1>2, <1>6, NullFits, PutValueOK
    <3> QED
      BY <3>1, <3>2, <3>3
  <2> QED
    BY <2>1, <2>2, <1>9
<1>13. dtors' \subseteq DOMAIN out' /\ dstrings' \in Seq(Str)
  BY <1>3, <1>5, <1>11, <1>12
<1> QED
  BY <1>1, <1>5, <1>6, <1>9, <1>11, <1>12, <1>13, OneMore

LEMMA ObjectCells ==
  ASSUME NEW c \in Str, NEW n \in Nat
  PROVE  /\ SmallCell(ObjCell(c, << >>), n) /\ ObjCell(c, << >>).kind = "obj"
         /\ SmallCell(Created(c), n) /\ Created(c).kind = "obj"
<1>1. SmallCell(ObjCell(c, << >>), n) /\ ObjCell(c, << >>).kind = "obj"
  BY DEF SmallCell, CellT, ObjCell, Counted
<1>2. SmallCell(Created(c), n) /\ Created(c).kind = "obj"
  <2>1. CASE c \in Class
    BY <2>1, <1>1 DEF Created
  <2>2. CASE c \notin Class
    <3>1. MagicMember \in Str /\ IncompleteClass \in Str
      BY ValuesAssumption
    <3> DEFINE e == Elem(Text(MagicMember), Text(c))
    <3>2. e \in Pairs(n)
      BY <3>1 DEF Pairs, Elem, Text, Key, Vals
    <3>3. Created(c) = ObjCell(IncompleteClass, << e >>)
      BY <2>2 DEF Created
    <3> HIDE DEF e
    <3>4. << e >> \in Seq(Pairs(n)) /\ Len(<< e >>) <= 1
      BY <3>2
    <3> QED
      BY <3>1, <3>3, <3>4 DEF SmallCell, CellT, ObjCell, Counted
  <2> QED
    BY <2>1, <2>2
<1> QED
  BY <1>1, <1>2

\* what an object token is read with
LEMMA ObjectFacts ==
  ASSUME Inv, NEW tags, AtObject(tags)
  PROVE  /\ At("zval") /\ ~TooDeep /\ More /\ T.src \in Srcs /\ ClassName \in Str /\ Strings1(T) \in Seq(Str)
         /\ pos + 1 \in 1..(Len(input) + 1) /\ pos + 2 \in 1..(Len(input) + 1)
         /\ GoodTok(T2) /\ pos < Len(input) /\ T2.tag \in tags
<1>1. At("zval") /\ ~TooDeep /\ More /\ T.tag \in {"obj", "objid"} /\ StringKnown(T) /\ pos < Len(input)
      /\ T2.tag \in tags
  BY DEF AtObject, AtToken
<1>2. InputInv /\ dstrings \in Seq(Str)
  BY DEF Inv
<1>3. GoodTok(T) /\ GoodTok(T2) /\ pos \in Nat /\ pos >= 1 /\ Len(input) \in Nat
  BY <1>1, <1>2, AtPos
<1>4. T.src \in Srcs /\ ClassName \in Str /\ Strings1(T) \in Seq(Str)
  BY <1>1, <1>2, <1>3, TokFacts DEF ClassName
<1> QED
  BY <1>1, <1>3, <1>4

LEMMA BuildOK ==
  ASSUME Inv, At("zval"), ~TooDeep, T.src \in Srcs, NEW c, SmallCell(c, Len(out)), c.kind = "obj",
         BuildObject(c), NEW items \in Seq(ItemT), Do(items), Depth(items) <= 1,
         \A i \in DOMAIN items : \/ items[i].op = "fill" /\ items[i].h = Next1 /\ items[i].slot = Top.slot
                                 \/ items[i].op = "defer" /\ items[i].o = Next1 /\ items[i].param = 0,
         pos' \in 1..(Len(input) + 1), dstrings' \in Seq(Str),
         UNCHANGED << input, deferred, dtors, calls, result >>
  PROVE  Inv'
<1>1. /\ result = "reading" /\ agenda # << >> /\ Top.op # "defer"
      /\ Top.want \in BOOLEAN /\ Dropped(out, Top.slot, dtors)
      /\ HeapInv(out) /\ MadeInv /\ dtors \subseteq DOMAIN out
  BY ZvalFacts, TopFacts
<1> DEFINE ty == IF Top.want THEN "ref" ELSE "obj"
           e == Entry(ty, IF Top.want THEN Next1 + 1 ELSE Next1, T.src)
<1>2. /\ out' = PutCell(out, Top.slot, c, Top.want) /\ drefs' = Append(drefs, e)
      /\ made' = made \o (IF Top.want THEN << T.src, NoVal >> ELSE << T.src >>)
  BY DEF BuildObject
<1>3. /\ ty \in {"obj", "arr", "empty", "ref"} /\ c.kind \in Counted
      /\ Top.want => ty = "ref"
      /\ ~Top.want => Suits(ty, c.kind) /\ c.kind # "ref"
  BY DEF Suits, Counted
<1> HIDE DEF ty
<1>4. /\ HeapInv(out') /\ Grows(out, out') /\ Len(out') = Len(out) + (IF Top.want THEN 2 ELSE 1)
      /\ KeepsLive(out, out', Top.slot)
      /\ RefsInv(out', drefs')
      /\ Next1 \in DOMAIN out' /\ Next1 >= 2 /\ Next1 \in Nat /\ SlotOK(out', Top.slot)
  BY <1>1, <1>2, <1>3, NewCell
<1>5. MadeInv'
  BY <1>1, <1>2, <1>4, NoValSrc, MakeFits DEF MadeInv
<1>6. Within(agenda')
  BY ZvalWithin DEF Do
<1>7. 0 \in 0..Len(out')
  BY <1>4, HeapBasics
<1>8. \A i \in DOMAIN items : items[i].op # "zval" /\ ItemOK(out', items[i])
  BY <1>4, <1>7 DEF ItemOK
<1>9. dtors' = dtors /\ dtors \subseteq DOMAIN out'
  BY <1>1, <1>4, TablesStay
<1>10. \A S, S2 : AllLive(out, S) /\ S \subseteq S2 /\ S2 \subseteq DOMAIN out' /\ dtors' \subseteq S2
                  => AllLive(out', S2)
  BY <1>1, <1>4, <1>9 DEF KeepsLive, Dropped
<1> QED
  BY <1>1, <1>4, <1>5, <1>6, <1>8, <1>9, <1>10, Advance

LEMMA ReadSerializableOK == ASSUME Inv, ReadSerializable PROVE Inv'
<1>1. AtObject({"objser"}) /\ pos' = pos + 2 /\ dstrings' = Strings1(T) /\ BuildObject(ObjCell(ClassName, << >>))
      /\ Do(<< >>) /\ UNCHANGED << input, deferred, dtors, calls, result >>
  BY DEF ReadSerializable
<1>2. /\ At("zval") /\ ~TooDeep /\ T.src \in Srcs /\ ClassName \in Str /\ Strings1(T) \in Seq(Str)
      /\ pos + 2 \in 1..(Len(input) + 1)
  BY <1>1, ObjectFacts
<1> DEFINE c == ObjCell(ClassName, << >>)
           items == << >>
<1>3. Len(out) \in Nat
  BY HeapBasics DEF Inv
<1>4. SmallCell(c, Len(out)) /\ c.kind = "obj"
  BY <1>2, <1>3, ObjectCells
<1>5. items \in Seq(ItemT) /\ DOMAIN items = {} /\ Depth(items) <= 1
  BY DepthOfNone
<1>6. BuildObject(c) /\ Do(items)
  BY <1>1
<1> HIDE DEF c, items
<1> QED
  BY <1>1, <1>2, <1>4, <1>5, <1>6, BuildOK

LEMMA ReadEnumCaseOK == ASSUME Inv, ReadEnumCase PROVE Inv'
<1> DEFINE name == input[pos + 2]
<1>1. /\ AtObject({"enum"}) /\ pos + 1 < Len(input) /\ CaseKnown(name)
      /\ dstrings' = Strings1(T) \o (IF name.tag = "str" THEN << name.v >> ELSE << >>)
      /\ pos' = pos + 3 /\ BuildObject(ObjCell(ClassName, << >>))
      /\ Do(<< >>) /\ UNCHANGED << input, deferred, dtors, calls, result >>
  BY DEF ReadEnumCase
<1>2. /\ At("zval") /\ ~TooDeep /\ T.src \in Srcs /\ ClassName \in Str /\ Strings1(T) \in Seq(Str)
  BY <1>1, ObjectFacts
<1> DEFINE c == ObjCell(ClassName, << >>)
           items == << >>
<1>3. Len(out) \in Nat
  BY HeapBasics DEF Inv
<1>4. SmallCell(c, Len(out)) /\ c.kind = "obj"
  BY <1>2, <1>3, ObjectCells
<1>5. items \in Seq(ItemT) /\ DOMAIN items = {} /\ Depth(items) <= 1
  BY DepthOfNone
<1>6. BuildObject(c) /\ Do(items)
  BY <1>1
<1>7. InputInv /\ dstrings \in Seq(Str)
  BY DEF Inv
<1>8. GoodTok(name) /\ pos \in Nat /\ pos >= 1 /\ Len(input) \in Nat
  BY <1>1, <1>7, AtPos
<1>9. name.tag = "str" => name.v \in Str
  BY <1>7, <1>8, TokFacts
<1> HIDE DEF c, items, name
<1>10. dstrings' \in Seq(Str)
  <2>1. CASE name.tag = "str"
    BY <2>1, <1>1, <1>2, <1>9
  <2>2. CASE name.tag # "str"
    BY <2>2, <1>1, <1>2
  <2> QED
    BY <2>1, <2>2
<1>11. pos' \in 1..(Len(input) + 1)
  BY <1>1, <1>8
<1> QED
  BY <1>1, <1>2, <1>4, <1>5, <1>6, <1>10, <1>11, BuildOK

\* the lists of one and of two items
LEMMA ListsOfItems ==
  ASSUME NEW x \in ItemT, NEW y \in ItemT
  PROVE  /\ << x >> \in Seq(ItemT) /\ \A i \in DOMAIN << x >> : << x >>[i] = x
         /\ 1 \in DOMAIN << x >> /\ << x >>[1] = x
         /\ << x, y >> \in Seq(ItemT) /\ \A i \in DOMAIN << x, y >> : << x, y >>[i] = x \/ << x, y >>[i] = y
         /\ 2 \in DOMAIN << x, y >> /\ << x, y >>[2] = y
         /\ << x >> \o << y >> = << x, y >> /\ << >> \o << x >> = << x >> /\ << x >> \o << >> = << x >>
         /\ Depth(<< x >>) = (IF Deep(x) THEN 1 ELSE 0)
         /\ Depth(<< x, y >>) = (IF Deep(x) THEN 1 ELSE 0) + (IF Deep(y) THEN 1 ELSE 0)
<1>1. << x >> \o << y >> = << x, y >>
  <2> DEFINE s == << x >> \o << y >>
             t == << x, y >>
  <2>1. s \in Seq(ItemT) /\ Len(s) = 2 /\ s[1] = x /\ s[2] = y
    OBVIOUS
  <2>2. t \in Seq(ItemT) /\ Len(t) = 2 /\ t[1] = x /\ t[2] = y
    OBVIOUS
  <2> HIDE DEF s, t
  <2>3. \A i \in 1..Len(s) : s[i] = t[i]
    BY <2>1, <2>2
  <2>4. s = t
    BY <2>1, <2>2, <2>3, SeqEqual
  <2> QED
    BY <2>4 DEF s, t
<1>2. << >> \o << x >> = << x >> /\ << x >> \o << >> = << x >>
  OBVIOUS
<1>3. /\ << x >> \in Seq(ItemT) /\ \A i \in DOMAIN << x >> : << x >>[i] = x
      /\ 1 \in DOMAIN << x >> /\ << x >>[1] = x
  OBVIOUS
<1>4. /\ << x, y >> \in Seq(ItemT) /\ \A i \in DOMAIN << x, y >> : << x, y >>[i] = x \/ << x, y >>[i] = y
      /\ 2 \in DOMAIN << x, y >> /\ << x, y >>[2] = y
  OBVIOUS
<1>5. Depth(<< x >>) = (IF Deep(x) THEN 1 ELSE 0)
  BY DepthOfOne
<1>6. Depth(<< x, y >>) = (IF Deep(x) THEN 1 ELSE 0) + (IF Deep(y) THEN 1 ELSE 0)
  BY DepthOfTwo
<1> QED
  BY <1>1, <1>2, <1>3, <1>4, <1>5, <1>6

\* a loop and a call after it, or one of them, or none
LEMMA LoopAndCall ==
  ASSUME NEW x \in ItemT, NEW y \in ItemT, Deep(x), ~Deep(y),
         NEW items, items \in {<< >>, << x >>, << y >>, << x, y >>}
  PROVE  /\ items \in Seq(ItemT) /\ Depth(items) <= 1
         /\ \A i \in DOMAIN items : items[i] = x \/ items[i] = y
<1>1. Depth(<< x >>) = 1 /\ Depth(<< y >>) = 0 /\ Depth(<< x, y >>) = 1 + 0
  BY ListsOfItems
<1>2. CASE items = << >>
  BY <1>2, DepthOfNone
<1>3. CASE items = << x >>
  BY <1>1, <1>3, ListsOfItems
<1>4. CASE items = << y >>
  BY <1>1, <1>4, ListsOfItems
<1>5. CASE items = << x, y >>
  BY <1>1, <1>5, ListsOfItems
<1> QED
  BY <1>2, <1>3, <1>4, <1>5

LEMMA ReadObjectOK == ASSUME Inv, ReadObject PROVE Inv'
<1> DEFINE c == Created(ClassName)
           b == T2.v = 0
           d == KindOf(ClassName) = "wakeup"
           x == Fill(Next1, T2.v, Top.slot)
           y == Defer(Next1, 0)
           items == (IF b THEN << >> ELSE << x >>) \o (IF d THEN << y >> ELSE << >>)
<1>1. AtObject({"arr"}) /\ pos' = pos + 2 /\ dstrings' = Strings1(T) /\ BuildObject(c)
      /\ Do(items) /\ UNCHANGED << input, deferred, dtors, calls, result >>
  BY DEF ReadObject
<1>2. /\ At("zval") /\ ~TooDeep /\ T.src \in Srcs /\ ClassName \in Str /\ Strings1(T) \in Seq(Str)
      /\ pos + 2 \in 1..(Len(input) + 1) /\ GoodTok(T2) /\ T2.tag = "arr"
  BY <1>1, ObjectFacts
<1>3. Len(out) \in Nat /\ Next1 \in Nat
  BY HeapBasics DEF Inv, Next1
<1>4. SmallCell(c, Len(out)) /\ c.kind = "obj"
  BY <1>2, <1>3, ObjectCells
<1>5. T2.v \in Nat /\ Top.slot \in Slots
  BY <1>2, TokFacts, ZvalFacts DEF Inv
<1>6. x \in ItemT /\ y \in ItemT
  BY <1>3, <1>5, ItemsFit
<1>7. /\ x.op = "fill" /\ x.h = Next1 /\ x.slot = Top.slot /\ Deep(x)
      /\ y.op = "defer" /\ y.o = Next1 /\ y.param = 0 /\ ~Deep(y)
  BY DEF Fill, Defer, Deep
<1> HIDE DEF c, x, y
<1>8. items \in {<< >>, << x >>, << y >>, << x, y >>}
  <2>1. << x >> \o << y >> = << x, y >> /\ << >> \o << y >> = << y >> /\ << x >> \o << >> = << x >>
    BY <1>6, ListsOfItems
  <2>2. << >> \o << >> = << >>
    OBVIOUS
  <2> HIDE DEF b, d
  <2>3. CASE b /\ d
    BY <2>1, <2>3
  <2>4. CASE b /\ ~d
    BY <2>2, <2>4
  <2>5. CASE ~b /\ d
    BY <2>1, <2>5
  <2>6. CASE ~b /\ ~d
    BY <2>1, <2>6
  <2> QED
    BY <2>3, <2>4, <2>5, <2>6
<1> HIDE DEF items
<1>9. items \in Seq(ItemT) /\ Depth(items) <= 1 /\ \A i \in DOMAIN items : items[i] = x \/ items[i] = y
  BY <1>6, <1>7, <1>8, LoopAndCall
<1> HIDE DEF items
<1>10. \A i \in DOMAIN items : \/ items[i].op = "fill" /\ items[i].h = Next1 /\ items[i].slot = Top.slot
                               \/ items[i].op = "defer" /\ items[i].o = Next1 /\ items[i].param = 0
  BY <1>7, <1>9
<1> QED
  BY <1>1, <1>2, <1>4, <1>9, <1>10, BuildOK

LEMMA ShortPropertiesOK == ASSUME Inv, ShortProperties PROVE Inv'
<1> DEFINE c == Created(ClassName)
           G == PutCell(out, Top.slot, c, Top.want)
<1>1. AtObject({"arr"}) /\ FailWith(G)
  BY DEF ShortProperties
<1>2. At("zval") /\ ClassName \in Str
  BY <1>1, ObjectFacts
<1>3. Len(out) \in Nat
  BY HeapBasics DEF Inv
<1>4. SmallCell(c, Len(out)) /\ c.kind = "obj"
  BY <1>2, <1>3, ObjectCells
<1>5. SlotOK(out, Top.slot) /\ Top.want \in BOOLEAN /\ HeapInv(out) /\ result = "reading"
  BY <1>2, ZvalFacts, TopFacts
<1> HIDE DEF c
<1>6. HeapInv(G) /\ Grows(out, G)
  BY <1>4, <1>5, PutCellOK DEF Counted
<1> HIDE DEF G
<1> QED
  BY <1>1, <1>5, <1>6, FailWithOK

\* a holder that nothing points to
LEMMA HolderOK ==
  ASSUME NEW H, HeapInv(H)
  PROVE  LET G == Append(H, HoldCell(Null))
         IN  HeapInv(G) /\ Grows(H, G) /\ Len(G) = Len(H) + 1
<1> DEFINE c == HoldCell(Null)
           G == Append(H, c)
<1>1. Heap(H, Len(H)) /\ Len(H) \in Nat /\ Len(H) >= 1 /\ DOMAIN H = 1..Len(H) /\ Len(H[1].elems) = 1
  BY HeapBasics DEF HeapInv
<1>2. c \in CellT(Len(H)) /\ Len(c.elems) <= 1
  <2>1. Null \in Vals(Len(H))
    BY NullFits
  <2> DEFINE e == Elem(Null, Null)
  <2>2. e \in Pairs(Len(H))
    BY <2>1 DEF Pairs, Elem, Key, Vals
  <2>3. c = [kind |-> "hold", cls |-> NoVal, shared |-> FALSE, elems |-> << e >>]
    BY DEF HoldCell
  <2> HIDE DEF e, c
  <2>4. << e >> \in Seq(Pairs(Len(H))) /\ Len(<< e >>) = 1
    BY <2>2
  <2> QED
    BY <2>3, <2>4 DEF CellT
<1> HIDE DEF c
<1>3. /\ Heap(G, Len(H)) /\ Grows(H, G) /\ Len(G) = Len(H) + 1
      /\ \A a \in DOMAIN H : G[a] = H[a]
  BY <1>1, <1>2, AppendHeap
<1> HIDE DEF G
<1>4. Heap(G, Len(G))
  BY <1>1, <1>3, HeapWiden
<1>5. 1 \in DOMAIN G
  <2>1. G \in Seq(CellT(Len(G)))
    BY <1>4 DEF Heap
  <2> QED
    BY <2>1, <1>1, <1>3
<1>6. Len(G[1].elems) = 1
  BY <1>1, <1>3
<1> QED
  BY <1>3, <1>4, <1>5, <1>6 DEF HeapInv, G, c

LEMMA ObjectWithHolder ==
  ASSUME Inv, AtObject({"arr"})
  PROVE  LET H == PutCell(out, Top.slot, ObjCell(ClassName, << >>), Top.want)
             e == Entry(IF Top.want THEN "ref" ELSE "obj", IF Top.want THEN Next1 + 1 ELSE Next1, T.src)
         IN  /\ HeapInv(H) /\ Grows(out, H) /\ Len(H) = Len(out) + (IF Top.want THEN 2 ELSE 1)
             /\ KeepsLive(out, H, Top.slot) /\ RefsInv(H, Append(drefs, e))
             /\ Next1 \in DOMAIN H /\ Next1 \in Nat /\ Len(H) \in Nat /\ Len(H) >= 1 /\ DOMAIN H = 1..Len(H)
<1> DEFINE c == ObjCell(ClassName, << >>)
           ty == IF Top.want THEN "ref" ELSE "obj"
<1>1. At("zval") /\ ClassName \in Str /\ T.src \in Srcs
  BY ObjectFacts
<1>2. Len(out) \in Nat
  BY HeapBasics DEF Inv
<1>3. /\ SmallCell(c, Len(out)) /\ c.kind \in Counted /\ ty \in {"obj", "arr", "empty", "ref"}
      /\ Top.want \in BOOLEAN
      /\ Top.want => ty = "ref"
      /\ ~Top.want => Suits(ty, c.kind) /\ c.kind # "ref"
  BY <1>1, <1>2, ObjectCells, ZvalFacts DEF Counted, Suits
<1> DEFINE H == PutCell(out, Top.slot, c, Top.want)
           e == Entry(ty, IF Top.want THEN Next1 + 1 ELSE Next1, T.src)
<1> HIDE DEF c, ty
<1>4. /\ HeapInv(H) /\ Grows(out, H) /\ Len(H) = Len(out) + (IF Top.want THEN 2 ELSE 1)
      /\ KeepsLive(out, H, Top.slot) /\ RefsInv(H, Append(drefs, e))
      /\ Next1 \in DOMAIN H /\ Next1 \in Nat
  BY <1>1, <1>3, NewCell
<1>5. Len(H) \in Nat /\ Len(H) >= 1 /\ DOMAIN H = 1..Len(H)
  BY <1>4, HeapBasics
<1> QED
  BY <1>4, <1>5 DEF c, ty

LEMMA ShortParameterOK == ASSUME Inv, ShortParameter PROVE Inv'
<1> DEFINE H == PutCell(out, Top.slot, ObjCell(ClassName, << >>), Top.want)
           call == [o |-> Next1, param |-> Len(out')]
<1>1. /\ AtObject({"arr"}) /\ result' = "failed" /\ out' = Append(H, HoldCell(Null))
      /\ DeferPending(Append(deferred, call)) /\ agenda' = << >>
      /\ UNCHANGED << input, pos, made, dstrings, drefs, dtors, calls >>
  BY DEF ShortParameter
<1>2. /\ HeapInv(H) /\ Grows(out, H) /\ Next1 \in DOMAIN H /\ Next1 \in Nat /\ Len(H) \in Nat /\ DOMAIN H = 1..Len(H)
  BY <1>1, ObjectWithHolder
<1>3. result = "reading" /\ agenda # << >> /\ HeapInv(out) /\ AgendaInv(out, agenda) /\ CallsInv(out, deferred)
  <2>1. result = "reading" /\ agenda # << >>
    BY <1>1 DEF AtObject, AtToken, At
  <2> QED
    BY <2>1 DEF Inv, Phases, ReadInv
<1> HIDE DEF H
<1>4. HeapInv(out') /\ Grows(H, out') /\ Len(out') = Len(H) + 1
  BY <1>1, <1>2, HolderOK
<1>5. Grows(out, out')
  <2>1. Heap(out, Len(out)) /\ Heap(H, Len(H)) /\ Heap(out', Len(out')) /\ Len(out) \in Nat /\ Len(out') \in Nat
    BY <1>2, <1>3, <1>4, HeapBasics DEF HeapInv
  <2> QED
    BY <2>1, <1>2, <1>4, GrowsTrans
<1>6. call \in CallT /\ CallOK(out', call)
  <2>1. Next1 \in DOMAIN out' /\ Len(out') \in Nat /\ Len(out') \in 0..Len(out')
    <3>1. Len(out') \in Nat /\ DOMAIN out' = 1..Len(out')
      BY <1>4, HeapBasics
    <3> QED
      BY <3>1, <1>2, <1>4
  <2> QED
    BY <2>1, <1>2 DEF CallT, CallOK
<1>7. CallsInv(out', deferred)
  BY <1>3, <1>4, <1>5, TablesStay
<1> HIDE DEF call
<1>8. CallsInv(out', Append(deferred, call))
  BY <1>6, <1>7 DEF CallsInv
<1>9. CallsInv(out', deferred')
  BY <1>1, <1>3, <1>4, <1>5, <1>8, DeferPendingOK
<1> QED
  BY <1>1, <1>3, <1>4, <1>5, <1>9, FailedOK

LEMMA ReadParameterOK == ASSUME Inv, ReadParameter PROVE Inv'
<1> DEFINE H == PutCell(out, Top.slot, ObjCell(ClassName, << >>), Top.want)
           param == Len(H) + 1
           e == Entry(IF Top.want THEN "ref" ELSE "obj", IF Top.want THEN Next1 + 1 ELSE Next1, T.src)
           b == T2.v = 0
           x == Fill(param + 1, T2.v, << param, 1 >>)
           y == Defer(Next1, param)
           items == (IF b THEN << >> ELSE << x >>) \o << y >>
           m == made \o (IF Top.want THEN << T.src, NoVal >> ELSE << T.src >>)
<1>1. /\ AtObject({"arr"}) /\ pos' = pos + 2 /\ dstrings' = Strings1(T)
      /\ out' = Append(Append(H, HoldCell(Arr(param + 1))), ArrCell(<< >>))
      /\ made' = m \o << NoVal, NoVal >> /\ drefs' = Append(drefs, e) /\ Do(items)
      /\ UNCHANGED << input, deferred, dtors, calls, result >>
  BY DEF ReadParameter
<1>2. /\ At("zval") /\ ~TooDeep /\ T.src \in Srcs /\ ClassName \in Str /\ Strings1(T) \in Seq(Str)
      /\ pos + 2 \in 1..(Len(input) + 1) /\ GoodTok(T2) /\ T2.tag = "arr"
  BY <1>1, ObjectFacts
<1>3. /\ result = "reading" /\ agenda # << >> /\ Top.op # "defer"
      /\ Top.want \in BOOLEAN /\ Dropped(out, Top.slot, dtors)
      /\ HeapInv(out) /\ MadeInv /\ dtors \subseteq DOMAIN out /\ dstrings \in Seq(Str)
  BY <1>2, ZvalFacts, TopFacts
<1>4. T2.v \in Nat
  BY <1>2, <1>3, TokFacts
<1>5. /\ HeapInv(H) /\ Grows(out, H) /\ Len(H) = Len(out) + (IF Top.want THEN 2 ELSE 1)
      /\ KeepsLive(out, H, Top.slot) /\ RefsInv(H, Append(drefs, e))
      /\ Next1 \in DOMAIN H /\ Next1 \in Nat /\ Len(H) \in Nat /\ Len(H) >= 1 /\ DOMAIN H = 1..Len(H)
  BY <1>1, ObjectWithHolder
<1>6. m \in Seq(Srcs) /\ Len(m) = Len(H)
  BY <1>2, <1>3, <1>5, NoValSrc, MakeFits
<1> HIDE DEF H, e, m
<1>7. param + 1 = Len(H) + 2 /\ param \in Nat /\ param + 1 \in Nat
  BY <1>5
<1>8. /\ HeapInv(out') /\ Grows(H, out') /\ Len(out') = Len(H) + 2
      /\ SlotOK(out', << param, 1 >>)
      /\ \A S, S2 : AllLive(H, S) /\ S \subseteq S2 /\ S2 \subseteq DOMAIN out' /\ param \in S2
                       => AllLive(out', S2)
  <2>1. out' = Append(Append(H, HoldCell(Arr(Len(H) + 2))), ArrCell(<< >>))
    BY <1>1, <1>7
  <2> QED
    BY <2>1, <1>5, ParameterOK
<1>9. Len(out') \in Nat /\ DOMAIN out' = 1..Len(out')
  BY <1>8, HeapBasics
<1>10. Grows(out, out')
  <2>1. Heap(out, Len(out)) /\ Heap(H, Len(H)) /\ Heap(out', Len(out')) /\ Len(out) \in Nat
    BY <1>3, <1>5, <1>8, HeapBasics DEF HeapInv
  <2> QED
    BY <2>1, <1>5, <1>8, <1>9, GrowsTrans
<1>11. MadeInv'
  <2>1. made' \in Seq(Srcs) /\ Len(made') = Len(m) + 2
    BY <1>1, <1>6, NoValSrc
  <2> QED
    BY <2>1, <1>6, <1>8 DEF MadeInv
<1>12. RefsInv(out', drefs')
  BY <1>1, <1>5, <1>8, TablesStay
<1>13. << param, 1 >> \in Slots /\ x \in ItemT /\ y \in ItemT
  <2>1. << param, 1 >> \in Slots
    BY <1>7 DEF Slots
  <2> QED
    BY <2>1, <1>4, <1>5, <1>7, ItemsFit
<1>14. /\ x.op = "fill" /\ x.h = param + 1 /\ x.slot = << param, 1 >> /\ Deep(x)
       /\ y.op = "defer" /\ y.o = Next1 /\ y.param = param /\ ~Deep(y)
  BY DEF Fill, Defer, Deep
<1>15. items \in {<< y >>, << x, y >>}
  <2> HIDE DEF x, y
  <2> QED
    BY <1>13, ListsOfItems
<1>16. /\ param + 1 \in DOMAIN out' /\ param + 1 >= 2 /\ param \in 0..Len(out') /\ param # 0
       /\ Next1 \in DOMAIN out'
  BY <1>5, <1>7, <1>8, <1>9
<1>17. ItemOK(out', x) /\ ItemOK(out', y)
  BY <1>8, <1>14, <1>16 DEF ItemOK
<1> HIDE DEF b, x, y, param, items
<1>18. /\ items \in Seq(ItemT) /\ Depth(items) <= 1 /\ \A i \in DOMAIN items : items[i] = x \/ items[i] = y
       /\ \E i \in DOMAIN items : items[i] = y
  <2>1. \E i \in DOMAIN items : items[i] = y
    BY <1>13, <1>15, ListsOfItems
  <2> QED
    BY <2>1, <1>13, <1>14, <1>15, LoopAndCall
<1>19. \A i \in DOMAIN items : items[i].op # "zval" /\ ItemOK(out', items[i])
  BY <1>14, <1>17, <1>18
<1>20. Within(agenda')
  BY <1>1, <1>2, <1>18, ZvalWithin DEF Do
<1>21. dtors' = dtors /\ dtors \subseteq DOMAIN out' /\ DOMAIN H \subseteq DOMAIN out' /\ DOMAIN out \subseteq DOMAIN H
  BY <1>1, <1>3, <1>5, <1>8, <1>10, TablesStay
<1>22. ASSUME NEW S, NEW S2, AllLive(out, S), S \subseteq S2, S2 \subseteq DOMAIN out', dtors' \subseteq S2,
              \A i \in DOMAIN items : items[i].op = "defer" /\ items[i].param # 0 => items[i].param \in S2
       PROVE  AllLive(out', S2)
  <2>1. param \in S2
    BY <1>14, <1>16, <1>18, <1>22
  <2> DEFINE S3 == S2 \cap DOMAIN H
  <2>2. S \subseteq S3 /\ S3 \subseteq DOMAIN H /\ S3 \subseteq S2
    BY <1>21, <1>22 DEF AllLive
  <2>3. Dropped(out, Top.slot, S3)
    BY <1>3, <1>21, <1>22 DEF Dropped
  <2> HIDE DEF S3
  <2>4. AllLive(H, S3)
    BY <1>5, <1>22, <2>2, <2>3 DEF KeepsLive
  <2> QED
    BY <1>8, <1>22, <2>1, <2>2, <2>4
<1>23. pos' \in 1..(Len(input) + 1) /\ dstrings' \in Seq(Str)
  BY <1>1, <1>2
<1> QED
  BY <1>1, <1>3, <1>8, <1>10, <1>11, <1>12, <1>18, <1>19, <1>20, <1>21, <1>22, <1>23, Advance

(***************************************************************************)
(* The deferred calls, and the end.                                        *)
(***************************************************************************)
LEMMA DeferCallOK == ASSUME Inv, DeferCall PROVE Inv'
<1> DEFINE call == [o |-> Top.o, param |-> Top.param]
           items == << >>
<1>1. /\ result = "reading" /\ agenda # << >> /\ Top.op = "defer"
      /\ deferred' = Append(deferred, call) /\ agenda' = items \o Tail(agenda)
      /\ UNCHANGED << input, pos, out, made, dstrings, drefs, dtors, calls, result >>
  BY DEF DeferCall, At, Top, Do
<1>2. Inv /\ ReadInv
  BY <1>1 DEF Inv, Phases
<1>3. /\ agenda \in Seq(ItemT) /\ Top \in ItemT /\ ItemOK(out, Top) /\ HeapInv(out)
      /\ Top = agenda[1] /\ 1 \in DOMAIN agenda
  BY <1>1, TopFacts DEF Top
<1>4. call \in CallT /\ CallOK(out, call) /\ call.param = Top.param
  <2>1. Top.o \in Nat /\ Top.param \in Nat
    BY <1>1, <1>3 DEF ItemT
  <2> QED
    BY <2>1, <1>1, <1>3 DEF ItemOK, CallT, CallOK
<1> HIDE DEF call
<1>5. CallsInv(out, deferred') /\ Len(deferred') = Len(deferred) + 1 /\ deferred \in Seq(CallT)
      /\ deferred'[Len(deferred) + 1] = call /\ \A i \in DOMAIN deferred : deferred'[i] = deferred[i]
  BY <1>1, <1>2, <1>4 DEF Inv, CallsInv
<1>6. items \in Seq(ItemT) /\ Depth(items) = 0 /\ DOMAIN items = {} /\ Len(items) = 0
  BY DepthOfNone
<1> HIDE DEF items
<1>7. /\ agenda' \in Seq(ItemT)
      /\ \A k \in DOMAIN agenda' : \E j \in DOMAIN agenda : j >= 2 /\ k = j - 1 /\ agenda'[k] = agenda[j]
      /\ \A j \in DOMAIN agenda : j >= 2 => j - 1 \in DOMAIN agenda' /\ agenda'[j - 1] = agenda[j]
  <2> DEFINE new == items \o Tail(agenda)
  <2>1. /\ new \in Seq(ItemT)
        /\ \A k \in DOMAIN new : \/ k \in DOMAIN items /\ new[k] = items[k]
                                 \/ \E j \in DOMAIN agenda : j >= 2 /\ k = Len(items) + j - 1 /\ new[k] = agenda[j]
        /\ \A j \in DOMAIN agenda : j >= 2 => /\ Len(items) + j - 1 \in DOMAIN new
                                              /\ new[Len(items) + j - 1] = agenda[j]
    BY <1>1, <1>3, <1>6, CatTail
  <2>2. agenda' = new
    BY <1>1
  <2>3. \A j \in DOMAIN agenda : Len(items) + j - 1 = j - 1
    BY <1>3, <1>6
  <2> HIDE DEF new
  <2> QED
    BY <2>1, <2>2, <2>3, <1>6
<1>8. AgendaInv(out, agenda') /\ \A k \in DOMAIN agenda' : agenda'[k].op # "zval"
  BY <1>2, <1>7 DEF ReadInv, AgendaInv, ZvalFirst
<1>9. Within(agenda')
  <2>1. Depth(<< Top >>) = 0
    BY <1>1, <1>3, DepthOfOne DEF Deep
  <2>2. Depth(items) <= Depth(<< Top >>)
    BY <1>6, <2>1
  <2> QED
    BY <2>2, <1>1, <1>6, SameWithin
<1>10. HoldersOf(dtors, deferred, called, agenda) \subseteq HoldersOf(dtors, deferred', called, agenda')
  <2>1. called = 0 /\ DOMAIN deferred \subseteq DOMAIN deferred' /\ Len(deferred) + 1 \in DOMAIN deferred'
        /\ Len(deferred) + 1 > 0
    BY <1>2, <1>5 DEF ReadInv, CallsInv
  <2>2. \A i \in {j \in DOMAIN deferred : j > called} :
           deferred[i].param \in {deferred'[n].param : n \in {j \in DOMAIN deferred' : j > called}}
    BY <1>5, <2>1
  <2>3. Top.param \in {deferred'[n].param : n \in {j \in DOMAIN deferred' : j > called}}
    BY <1>4, <1>5, <2>1
  <2>4. \A i \in {j \in DOMAIN agenda : agenda[j].op = "defer"} :
           \/ agenda[i].param \in {deferred'[n].param : n \in {j \in DOMAIN deferred' : j > called}}
           \/ agenda[i].param \in {agenda'[n].param : n \in {j \in DOMAIN agenda' : agenda'[j].op = "defer"}}
    <3>1. ASSUME NEW i \in DOMAIN agenda, agenda[i].op = "defer", i # 1
          PROVE  agenda[i].param \in {agenda'[n].param : n \in {j \in DOMAIN agenda' : agenda'[j].op = "defer"}}
      <4>1. i >= 2
        BY <3>1, <1>3
      <4> QED
        BY <4>1, <3>1, <1>7
    <3> QED
      BY <3>1, <2>3, <1>3
  <2> QED
    BY <2>2, <2>4 DEF HoldersOf
<1>11. AllLive(out, Holders')
  <2>1. AllLive(out, HoldersOf(dtors, deferred, called, agenda))
    BY <1>2, HoldersNow DEF ReadInv
  <2>2. HoldersOf(dtors, deferred', called, agenda') \subseteq DOMAIN out
    BY <1>2, <1>3, <1>5, <1>8, HoldersTyped DEF Inv
  <2>3. AllLive(out, HoldersOf(dtors, deferred', called, agenda'))
    BY <2>1, <2>2, <1>10, LiveMore
  <2>4. Holders' = HoldersOf(dtors', deferred', called', agenda')
    BY DEF Holders, Params, HoldersOf
  <2> QED
    BY <2>3, <2>4, <1>1 DEF calls
<1>12. ReadInv'
  <2>1. ZvalFirst(agenda')
    BY <1>8 DEF ZvalFirst
  <2>2. agenda' # << >> => Head(agenda').op # "zval"
    BY <1>7, <1>8
  <2>3. HeadDropped'
    BY <2>2 DEF HeadDropped, At
  <2> QED
    BY <2>1, <2>3, <1>1, <1>2, <1>8, <1>9, <1>11 DEF ReadInv, calls
<1>13. Phases'
  BY <1>1, <1>12 DEF Phases
<1>14. called \in 0..Len(deferred') /\ MarkedFromThrower'
  BY <1>1, <1>2, <1>5 DEF Inv, ReadInv, MarkedFromThrower, calls
<1> QED
  BY <1>1, <1>2, <1>5, <1>13, <1>14 DEF Inv, calls, InputInv, MadeInv

\* from reading to calling
StartStep ==
    /\ result = "reading" /\ agenda = << >> /\ result' = "calling"
    /\ UNCHANGED << input, pos, out, made, agenda, dstrings, drefs, deferred, dtors, calls >>

LEMMA StartOK == ASSUME Inv, StartStep PROVE Inv'
<1>1. /\ result = "reading" /\ agenda = << >> /\ result' = "calling"
      /\ UNCHANGED << input, pos, out, made, agenda, dstrings, drefs, deferred, dtors, called, throws, flagged >>
  BY DEF StartStep, calls
<1>2. MadeInv /\ called = 0 /\ ~throws /\ flagged = {}
  BY <1>1 DEF Inv, Phases, ReadInv
<1>3. Phases'
  BY <1>1, <1>2 DEF Phases
<1> QED
  BY <1>1, <1>2, <1>3 DEF Inv, InputInv, MadeInv, MarkedFromThrower

LEMMA ReachTyped ==
  ASSUME NEW H, HeapInv(H), NEW S, S \subseteq DOMAIN H
  PROVE  Reach(H, S) \subseteq DOMAIN H
<1>1. Heap(H, Len(H)) /\ Len(H) \in Nat /\ DOMAIN H = 1..Len(H)
  BY HeapBasics DEF HeapInv
<1>2. ASSUME NEW X, X \subseteq DOMAIN H PROVE OneStep(H, X) \subseteq DOMAIN H
  BY <1>1, <1>2, TargetsTyped DEF OneStep
<1>3. Near(H, S) \subseteq DOMAIN H
  <2> DEFINE A == OneStep(H, S)
             B == OneStep(H, A)
             C == OneStep(H, B)
  <2>1. A \subseteq DOMAIN H
    BY <1>2
  <2> HIDE DEF A
  <2>2. B \subseteq DOMAIN H
    BY <2>1, <1>2
  <2> HIDE DEF B
  <2>3. C \subseteq DOMAIN H
    BY <2>2, <1>2
  <2> HIDE DEF C
  <2>4. OneStep(H, C) \subseteq DOMAIN H
    BY <2>3, <1>2
  <2> QED
    BY <2>4 DEF A, B, C, Near
<1> QED
  BY <1>3 DEF Reach

LEMMA MakeCallOK == ASSUME Inv, MakeCall PROVE Inv'
<1>1. /\ result = "calling" /\ called < Len(deferred) /\ ~throws
      /\ called' = called + 1 /\ out' \in Unsets
      /\ UNCHANGED << throws, flagged, input, pos, made, agenda, dstrings, drefs, deferred, dtors, result >>
  BY DEF MakeCall
<1>2. /\ HeapInv(out) /\ agenda = << >> /\ CallsInv(out, deferred) /\ RefsInv(out, drefs)
      /\ dtors \cup flagged \subseteq DOMAIN out /\ MadeInv /\ called \in Nat
  BY <1>1 DEF Inv, Phases
<1>3. HeapInv(out') /\ Grows(out, out') /\ Len(out') = Len(out) /\ DOMAIN out' = DOMAIN out
  <2>1. CASE out' = out
    BY <2>1, <1>2, GrowsRefl
  <2>2. CASE out' # out
    <3>1. Live \subseteq DOMAIN out
      <4>1. AgendaInv(out, agenda)
        BY <1>2 DEF AgendaInv
      <4>2. Holders \subseteq DOMAIN out
        BY <4>1, <1>2, HoldersNow, HoldersTyped
      <4> QED
        BY <4>2, <1>2, ReachTyped DEF Live, Holders
    <3>2. PICK a \in Live : \E i \in DOMAIN out[a].elems : out' = Put(out, << a, i >>, Undef)
      BY <2>2, <1>1 DEF Unsets
    <3> PICK i \in DOMAIN out[a].elems : out' = Put(out, << a, i >>, Undef)
      BY <3>2
    <3>3. SlotOK(out, << a, i >>) /\ Undef \in Vals(Len(out))
      BY <3>1, <3>2 DEF SlotOK, Vals
    <3> QED
      BY <3>2, <3>3, <1>2, PutOne
  <2> QED
    BY <2>1, <2>2
<1>4. RefsInv(out', drefs) /\ CallsInv(out', deferred)
  BY <1>2, <1>3, TablesStay
<1>5. MadeInv'
  BY <1>1, <1>2, <1>3 DEF MadeInv
<1>6. Phases' /\ MarkedFromThrower'
  BY <1>1 DEF Inv, Phases, MarkedFromThrower
<1>7. called' \in 0..Len(deferred)
  BY <1>1, <1>2 DEF CallsInv
<1> QED
  BY <1>1, <1>2, <1>3, <1>4, <1>5, <1>6, <1>7 DEF Inv, InputInv

LEMMA CallThrowsOK == ASSUME Inv, CallThrows PROVE Inv'
<1>1. /\ result = "calling" /\ called < Len(deferred) /\ ~throws
      /\ called' = called + 1 /\ throws' = TRUE /\ flagged' = flagged \cup {deferred[called + 1].o}
      /\ UNCHANGED << input, pos, out, made, agenda, dstrings, drefs, deferred, dtors, result >>
  BY DEF CallThrows
<1>2. /\ CallsInv(out, deferred) /\ MadeInv /\ called \in 0..Len(deferred) /\ flagged = {} /\ agenda = << >>
      /\ dtors \subseteq DOMAIN out
  BY <1>1 DEF Inv, Phases
<1>3. called' \in 0..Len(deferred) /\ called + 1 \in DOMAIN deferred /\ called \in Nat
  BY <1>1, <1>2 DEF CallsInv
<1>4. flagged' = {deferred[called + 1].o} /\ flagged' \subseteq DOMAIN out
  BY <1>1, <1>2, <1>3 DEF CallsInv, CallOK
<1>5. MarkedFromThrower'
  <2>1. (called + 1)..called' = {called + 1} /\ called + 1 \in 1..called'
    BY <1>1, <1>3
  <2>2. flagged' = {deferred'[i].o : i \in (called + 1)..called'}
    BY <2>1, <1>1, <1>4
  <2> QED
    BY <2>1, <2>2 DEF MarkedFromThrower
<1>6. Phases'
  BY <1>1, <1>2 DEF Phases
<1> QED
  BY <1>1, <1>2, <1>3, <1>4, <1>5, <1>6 DEF Inv, InputInv, MadeInv

LEMMA SkipCallOK == ASSUME Inv, SkipCall PROVE Inv'
<1>1. /\ result = "calling" /\ called < Len(deferred) /\ throws
      /\ called' = called + 1 /\ flagged' = flagged \cup {deferred[called + 1].o}
      /\ UNCHANGED << throws, input, pos, out, made, agenda, dstrings, drefs, deferred, dtors, result >>
  BY DEF SkipCall
<1>2. /\ CallsInv(out, deferred) /\ MadeInv /\ called \in 0..Len(deferred) /\ agenda = << >>
      /\ dtors \cup flagged \subseteq DOMAIN out /\ MarkedFromThrower
  BY <1>1 DEF Inv, Phases
<1>3. called' \in 0..Len(deferred) /\ called + 1 \in DOMAIN deferred /\ called \in Nat
  BY <1>1, <1>2 DEF CallsInv
<1>4. flagged' \subseteq DOMAIN out
  BY <1>1, <1>2, <1>3 DEF CallsInv, CallOK
<1>5. MarkedFromThrower'
  <2>1. PICK t \in 1..called : flagged = {deferred[i].o : i \in t..called}
    BY <1>1, <1>2 DEF MarkedFromThrower
  <2>2. t..called' = (t..called) \cup {called + 1} /\ t \in 1..called'
    BY <1>1, <1>3
  <2>3. flagged' = {deferred'[i].o : i \in t..called'}
    BY <2>1, <2>2, <1>1
  <2> QED
    BY <2>2, <2>3 DEF MarkedFromThrower
<1>6. Phases'
  BY <1>1, <1>2 DEF Phases
<1> QED
  BY <1>1, <1>2, <1>3, <1>4, <1>5, <1>6 DEF Inv, InputInv, MadeInv

LEMMA DeinitOK == ASSUME Inv, Deinit PROVE Inv'
<1>1. /\ result = "failed" \/ (result = "calling" /\ called = Len(deferred))
      /\ result' = (IF result = "failed" \/ throws THEN "error" ELSE "done")
      /\ flagged' = (IF result = "failed"
                     THEN flagged \cup {deferred[i].o : i \in {j \in DOMAIN deferred : deferred[j].param # 0}}
                     ELSE flagged)
      /\ called' = Len(deferred) /\ dtors' = {} /\ drefs' = << >> /\ dstrings' = << >>
      /\ UNCHANGED << input, pos, out, made, agenda, deferred, throws >>
  BY DEF Deinit
<1>2. CallsInv(out, deferred) /\ agenda = << >> /\ dtors \cup flagged \subseteq DOMAIN out
  BY <1>1 DEF Inv, Phases
<1>3. RefsInv(out', drefs') /\ dstrings' \in Seq(Str) /\ called' \in 0..Len(deferred)
  BY <1>1, <1>2 DEF RefsInv, CallsInv
<1>4. flagged' \subseteq DOMAIN out
  BY <1>1, <1>2 DEF CallsInv, CallOK
<1>5. MarkedFromThrower'
  <2>1. CASE throws
    <3>1. result # "failed" /\ called' = called /\ flagged' = flagged
      BY <2>1, <1>1 DEF Inv, Phases
    <3> QED
      BY <3>1, <1>1 DEF Inv, MarkedFromThrower
  <2>2. CASE ~throws
    BY <2>2, <1>1 DEF MarkedFromThrower
  <2> QED
    BY <2>1, <2>2
<1>6. Phases'
  BY <1>1, <1>2 DEF Inv, Phases
<1>7. result' \in {"reading", "calling", "done"} => MadeInv'
  BY <1>1 DEF Inv, MadeInv
<1> QED
  BY <1>1, <1>2, <1>3, <1>4, <1>5, <1>6, <1>7 DEF Inv, InputInv

(***************************************************************************)
(* The invariant holds at the start and is kept by every step of the       *)
(* reader and of those who call it.                                        *)
(***************************************************************************)
LEMMA HoldsFromStart ==
  ASSUME NEW b \in Seq({tok \in Token : WellFormed(tok)}), Start(b)
  PROVE  Inv
<1> DEFINE c == HoldCell(Null)
           e == Elem(Null, Null)
           x == Read(<< 1, 1 >>, FALSE)
<1>2. /\ input = b /\ pos = 1 /\ out = << c >> /\ made = << NoVal >> /\ agenda = << x >>
      /\ dstrings = << >> /\ drefs = << >> /\ deferred = << >>
      /\ dtors = {} /\ called = 0 /\ throws = FALSE /\ flagged = {} /\ result = "reading"
  BY DEF Start
<1>3. e \in Pairs(1) /\ e.v = Null /\ e.v.t \notin Counted
  BY NullFits DEF Pairs, Elem, Key, Vals, Null, Counted
<1>4. c \in CellT(1) /\ Len(c.elems) = 1 /\ DOMAIN c.elems = {1} /\ c.elems[1] = e
  <2>1. c = [kind |-> "hold", cls |-> NoVal, shared |-> FALSE, elems |-> << e >>]
    BY DEF HoldCell
  <2> HIDE DEF e, c
  <2>2. << e >> \in Seq(Pairs(1)) /\ Len(<< e >>) = 1 /\ DOMAIN << e >> = {1} /\ << e >>[1] = e
    BY <1>3
  <2> QED
    BY <2>1, <2>2 DEF CellT
<1> HIDE DEF e, c
<1>5. out \in Seq(CellT(1)) /\ Len(out) = 1 /\ DOMAIN out = {1} /\ out[1] = c
  BY <1>2, <1>4
<1>6. HeapInv(out)
  <2>1. KeysDiffer(out[1])
    BY <1>4, <1>5 DEF KeysDiffer
  <2> QED
    BY <2>1, <1>4, <1>5 DEF HeapInv, Heap
<1>7. SlotOK(out, << 1, 1 >>) /\ In(out, << 1, 1 >>) = Null
  BY <1>3, <1>4, <1>5 DEF SlotOK, In
<1>8. x \in ItemT /\ x.op = "zval" /\ x.slot = << 1, 1 >>
  <2>1. << 1, 1 >> \in Slots
    BY DEF Slots
  <2> QED
    BY <2>1, ItemsFit DEF Read
<1> HIDE DEF x
<1>9. agenda \in Seq(ItemT) /\ DOMAIN agenda = {1} /\ agenda[1] = x /\ Head(agenda) = x
  BY <1>2, <1>8
<1>10. AgendaInv(out, agenda) /\ ZvalFirst(agenda)
  BY <1>7, <1>8, <1>9 DEF AgendaInv, ItemOK, ZvalFirst
<1>11. Within(agenda)
  <2>1. Depth(<< x >>) = 0
    BY <1>8, DepthOfOne DEF Deep
  <2> QED
    BY <2>1, <1>2, UnserializeAssumption DEF Within
<1>12. HeadDropped
  BY <1>7, <1>8, <1>9, NullFits DEF HeadDropped, Dropped, Top
<1>13. AllLive(out, Holders)
  <2>1. 1 \in Holders /\ Holders \subseteq {1}
    BY <1>2, <1>8, <1>9 DEF Holders, Params
  <2> QED
    BY <2>1, <1>5 DEF AllLive
<1>14. Phases
  BY <1>2, <1>10, <1>11, <1>12, <1>13 DEF Phases, ReadInv
<1>15. InputInv
  <2>1. input \in Seq({tok \in Token : WellFormed(tok)})
    BY <1>2
  <2>2. Len(input) \in Nat
    BY <2>1
  <2> QED
    BY <2>1, <2>2, <1>2 DEF InputInv
<1>16. MadeInv
  BY <1>2, <1>5, NoValSrc DEF MadeInv
<1>17. RefsInv(out, drefs) /\ CallsInv(out, deferred)
  BY <1>2 DEF RefsInv, CallsInv
<1>18. called \in 0..Len(deferred) /\ MarkedFromThrower
  BY <1>2 DEF MarkedFromThrower
<1>19. dstrings \in Seq(Str) /\ dtors \cup flagged \subseteq DOMAIN out /\ throws \in BOOLEAN
       /\ result \in {"reading", "calling", "failed", "done", "error", "crashed"}
  <2>1. << >> \in Seq(Str)
    OBVIOUS
  <2>2. dstrings \in Seq(Str)
    BY <1>2, <2>1
  <2>3. dtors \cup flagged = {}
    BY <1>2
  <2> QED
    BY <1>2, <2>2, <2>3
<1> QED
  BY <1>6, <1>14, <1>15, <1>16, <1>17, <1>18, <1>19 DEF Inv

LEMMA HoldsAtStart == ASSUME Init PROVE Inv
<1>1. PICK b \in Inputs : Start(b)
  BY DEF Init
<1> QED
  BY <1>1, HoldsFromStart, UnserializeAssumption

\* the steps while reading
LEMMA ReadingOK == ASSUME Inv, ReadZval \/ DeferCall \/ TrailingData PROVE Inv'
<1>1. CASE CannotRead \/ UnknownString \/ ShortArray \/ CannotReadObject \/ UnknownId \/ TrailingData
  BY <1>1, FailuresOK
<1>2. CASE ReadScalar \/ ReadReference \/ WrapReference \/ ReadArray
  BY <1>2, ReadScalarOK, ReadReferenceOK, WrapReferenceOK, ReadArrayOK
<1>3. CASE CannotReadKey \/ SkipKeyless \/ ReadNewKey \/ ReadOldKey \/ EndFill
  BY <1>3, CannotReadKeyOK, SkipKeylessOK, ReadNewKeyOK, ReadOldKeyOK, EndFillOK
<1>4. CASE ShortProperties \/ ShortParameter
  BY <1>4, ShortPropertiesOK, ShortParameterOK
<1>5. CASE ReadObject \/ ReadParameter \/ ReadSerializable \/ ReadEnumCase
  BY <1>5, ReadObjectOK, ReadParameterOK, ReadSerializableOK, ReadEnumCaseOK
<1>6. CASE ShareReference \/ ShareValue \/ MisreadCrash \/ MisreadValue \/ BoxTarget
  BY <1>6, ShareReferenceOK, ShareValueOK, MisreadCrashOK, MisreadValueOK, BoxTargetOK
<1>7. CASE DeferCall
  BY <1>7, DeferCallOK
<1> QED
  BY <1>1, <1>2, <1>3, <1>4, <1>5, <1>6, <1>7 DEF ReadZval

\* and what they leave alone
LEMMA ReadingFacts ==
  ASSUME ReadZval \/ DeferCall \/ TrailingData
  PROVE  /\ result = "reading" /\ result' \in {"reading", "failed", "crashed"}
         /\ input' = input /\ calls' = calls
<1>1. CASE CannotRead \/ UnknownString \/ ShortArray \/ CannotReadObject \/ UnknownId \/ TrailingData
  BY <1>1 DEF CannotRead, UnknownString, ShortArray, CannotReadObject, UnknownId, TrailingData, AtBackRef, AtToken,
              At, Fail, FailWith
<1>2. CASE ReadScalar \/ ReadReference \/ WrapReference \/ ReadArray
  BY <1>2 DEF ReadScalar, ReadReference, WrapReference, ReadArray, AtToken, At
<1>3. CASE CannotReadKey \/ SkipKeyless \/ ReadNewKey \/ ReadOldKey \/ EndFill
  BY <1>3 DEF CannotReadKey, SkipKeyless, ReadNewKey, ReadOldKey, EndFill, AtKey, At, FailAndClear, FailWith
<1>4. CASE ShortProperties \/ ShortParameter
  BY <1>4 DEF ShortProperties, ShortParameter, AtObject, AtToken, At, FailWith
<1>5. CASE ReadObject \/ ReadParameter \/ ReadSerializable \/ ReadEnumCase
  BY <1>5 DEF ReadObject, ReadParameter, ReadSerializable, ReadEnumCase, AtObject, AtToken, At
<1>6. CASE ShareReference \/ ShareValue \/ MisreadCrash \/ MisreadValue \/ BoxTarget
  BY <1>6 DEF ShareReference, ShareValue, MisreadCrash, MisreadValue, BoxTarget, AtBackRef, AtToken, At
<1>7. CASE DeferCall
  BY <1>7 DEF DeferCall, At
<1> QED
  BY <1>1, <1>2, <1>3, <1>4, <1>5, <1>6, <1>7 DEF ReadZval

CallStep == MakeCall \/ CallThrows \/ SkipCall
LEMMA CallFacts ==
  ASSUME CallStep \/ Deinit
  PROVE  /\ result \in {"calling", "failed"} /\ input' = input /\ pos' = pos
         /\ result' = "done" => result = "calling"
         /\ result' = "calling" => result = "calling"
BY DEF CallStep, MakeCall, CallThrows, SkipCall, Deinit

ReaderStep == ReadZval \/ DeferCall \/ TrailingData \/ StartStep \/ CallStep \/ Deinit
LEMMA ReaderOK == ASSUME Inv, ReaderStep PROVE Inv'
BY ReadingOK, StartOK, MakeCallOK, CallThrowsOK, SkipCallOK, DeinitOK DEF ReaderStep, CallStep

LEMMA ReaderSteps ==
  /\ Next => ReaderStep
  /\ ReadZval \/ DeferCall \/ CallsForPrefix \/ FinishDeferredCalls \/ Deinit => ReaderStep
BY DEF Next, ReaderStep, StartStep, CallsForPrefix, FinishDeferredCalls, StartCalls, CallStep

\* a caller's reader starts the calls at the end of the input
LEMMA CallsAtEnd ==
  ASSUME Next, result' = "calling" \/ result' = "done"
  PROVE  \/ result = "calling" /\ UNCHANGED << pos, input >>
         \/ ~More /\ UNCHANGED << pos, input >>
<1>1. CASE ReadZval \/ DeferCall \/ TrailingData
  BY <1>1, ReadingFacts
<1>2. CASE CallStep \/ Deinit
  BY <1>2, CallFacts
<1>3. CASE StartCalls
  BY <1>3 DEF StartCalls
<1> QED
  BY <1>1, <1>2, <1>3 DEF Next, FinishDeferredCalls, CallStep

\* what has been read does not depend on the input that is left
LEMMA OtherInput ==
  ASSUME Inv, InputInv',
         UNCHANGED << pos, out, made, agenda, dstrings, drefs, deferred, dtors, called, throws,
                      flagged, result >>
  PROVE  Inv'
<1>1. /\ out' = out /\ made' = made /\ agenda' = agenda
      /\ dstrings' = dstrings /\ drefs' = drefs /\ deferred' = deferred /\ dtors' = dtors
      /\ called' = called /\ throws' = throws /\ flagged' = flagged /\ result' = result
  OBVIOUS
<1>2. Holders' = Holders
  BY <1>1 DEF Holders, Params
<1>3. HeadDropped <=> HeadDropped'
  BY <1>1 DEF HeadDropped, At, Top
<1>4. ReadInv => ReadInv'
  BY <1>1, <1>2, <1>3 DEF ReadInv
<1>5. Phases'
  BY <1>1, <1>4 DEF Inv, Phases
<1>6. MarkedFromThrower' /\ (MadeInv => MadeInv')
  BY <1>1 DEF Inv, MarkedFromThrower, MadeInv
<1> QED
  BY <1>1, <1>5, <1>6 DEF Inv

LEMMA SameInv == ASSUME Inv, UNCHANGED vars PROVE Inv'
<1>1. InputInv'
  BY DEF Inv, InputInv, vars
<1> QED
  BY <1>1, OtherInput DEF vars

(***************************************************************************)
(* The callers.                                                            *)
(***************************************************************************)
Returns == /\ caller \in {"function", "apcu", "session"}
           /\ Skips => result = "reading"
           /\ returned # "nothing" => Skips \/ result \in {"done", "error"}
           /\ returned \in {"value", "success"} => Skips \/ result = "done"
           /\ returned = "null" => result = "error" /\ TopValue = Null
           /\ caller # "session" /\ result \in {"calling", "done"} => pos > Len(input)
CallersInv == Inv /\ Returns /\ OneValueEach

LEMMA CallersAtStart == CallersInit => CallersInv
<1> SUFFICES ASSUME CallersInit PROVE CallersInv
  OBVIOUS
<1>1. Inv /\ result = "reading" /\ returned = "nothing" /\ session = {}
      /\ caller \in {"function", "apcu", "session"}
  BY HoldsAtStart DEF CallersInit, Init, Start
<1> QED
  BY <1>1 DEF CallersInv, Returns, OneValueEach

\* a step of the reader, run by one of its callers
LEMMA RunOK ==
  ASSUME CallersInv, ~Skips, ReaderStep, UNCHANGED cvars, caller # "session" => Next
  PROVE  CallersInv'
<1>1. Inv' /\ UNCHANGED << caller, returned, session >>
  BY ReaderOK DEF CallersInv, cvars
<1>2. result \in {"reading", "calling", "failed"} /\ input' = input
  BY ReadingFacts, CallFacts DEF ReaderStep, StartStep
<1>3. returned = "nothing" /\ ~Skips'
  BY <1>1, <1>2 DEF CallersInv, Returns, Skips
<1>4. ASSUME caller # "session", result' \in {"calling", "done"}
      PROVE  pos' > Len(input)
  <2>1. pos \in Nat /\ Len(input) \in Nat
    BY AtPos DEF CallersInv, Inv
  <2>2. CASE result = "calling" /\ UNCHANGED << pos, input >>
    BY <2>2, <1>4 DEF CallersInv, Returns
  <2>3. CASE ~More /\ UNCHANGED << pos, input >>
    BY <2>1, <2>3 DEF More
  <2> QED
    BY <2>2, <2>3, <1>4, CallsAtEnd
<1>5. Returns'
  BY <1>1, <1>2, <1>3, <1>4 DEF CallersInv, Returns
<1>6. OneValueEach'
  BY <1>1 DEF CallersInv, OneValueEach
<1> QED
  BY <1>1, <1>5, <1>6 DEF CallersInv

\* a step of a caller that leaves the reader's state as it is
LEMMA SameReturns ==
  ASSUME UNCHANGED vars
  PROVE  Skips' = (input = << >> /\ caller' \in {"function", "session"}) /\ TopValue' = TopValue
         /\ result' = result /\ pos' = pos /\ input' = input
BY DEF vars, Skips, TopValue

LEMMA ReturnEmptyOK == ASSUME CallersInv, ReturnEmpty PROVE CallersInv'
<1>1. Skips /\ UNCHANGED << vars, caller, session >> /\ returned' \in {"false", "success"}
  BY DEF ReturnEmpty
<1>2. Inv' /\ result' = result /\ pos' = pos /\ input' = input /\ Skips'
  BY <1>1, SameInv, SameReturns DEF CallersInv, Skips
<1>3. Returns'
  BY <1>1, <1>2 DEF CallersInv, Returns
<1>4. OneValueEach'
  BY <1>1 DEF CallersInv, OneValueEach
<1> QED
  BY <1>2, <1>3, <1>4 DEF CallersInv

LEMMA ReturnValueOK == ASSUME CallersInv, ReturnValue \/ DecodeFails PROVE CallersInv'
<1>1. /\ UNCHANGED << vars, caller, session >>
      /\ \/ result = "done" /\ returned' = "value"
         \/ result = "error" /\ returned' = "failure"
  BY DEF ReturnValue, DecodeFails, Ended
<1>2. Inv' /\ result' = result /\ pos' = pos /\ input' = input /\ Skips' = Skips /\ caller' = caller
  BY <1>1, SameInv, SameReturns DEF CallersInv, Skips
<1>3. Returns'
  BY <1>1, <1>2 DEF CallersInv, Returns
<1>4. OneValueEach'
  BY <1>1 DEF CallersInv, OneValueEach
<1> QED
  BY <1>2, <1>3, <1>4 DEF CallersInv

\* a caller releases the value
LEMMA ReleaseOK ==
  ASSUME Inv, result \in {"done", "error"}, Release, UnchangedButOut
  PROVE  /\ Inv' /\ TopValue' = Null /\ result' = result /\ input' = input /\ pos' = pos
<1>1. /\ out' = Put(out, << 1, 1 >>, Null)
      /\ input' = input /\ pos' = pos /\ made' = made /\ agenda' = agenda
      /\ dstrings' = dstrings /\ drefs' = drefs /\ deferred' = deferred /\ dtors' = dtors
      /\ called' = called /\ throws' = throws /\ flagged' = flagged /\ result' = result
  BY DEF Release, UnchangedButOut, calls
<1>2. HeapInv(out) /\ RefsInv(out, drefs) /\ CallsInv(out, deferred) /\ dtors \cup flagged \subseteq DOMAIN out
  BY DEF Inv
<1>3. Heap(out, Len(out)) /\ Len(out) \in Nat /\ 1 \in DOMAIN out /\ DOMAIN out[1].elems = 1..1
  BY <1>2, HeapBasics DEF HeapInv
<1>4. SlotOK(out, << 1, 1 >>)
  BY <1>3 DEF SlotOK
<1>5. HeapInv(out') /\ Grows(out, out') /\ Len(out') = Len(out) /\ DOMAIN out' = DOMAIN out
  BY <1>1, <1>2, <1>4, NullFits, PutOne
<1>6. TopValue' = Null
  <2> DEFINE s == << 1, 1 >>
  <2>1. s[1] = 1 /\ s[2] = 1
    OBVIOUS
  <2>2. \A a \in DOMAIN out : \A i \in DOMAIN out[a].elems :
           Put(out, s, Null)[a].elems[i].v = IF a = s[1] /\ i = s[2] THEN Null ELSE out[a].elems[i].v
    BY <1>3, <1>4, PutFacts
  <2> HIDE DEF s
  <2>3. Put(out, s, Null)[1].elems[1].v = Null
    BY <2>1, <2>2, <1>3
  <2> QED
    BY <2>3, <1>1 DEF TopValue, s
<1>7. RefsInv(out', drefs') /\ CallsInv(out', deferred')
  BY <1>1, <1>2, <1>5, TablesStay
<1>8. MadeInv => MadeInv'
  BY <1>1, <1>5 DEF MadeInv
<1>9. Phases' /\ MarkedFromThrower' /\ InputInv'
  BY SMTT(30), <1>1 DEF Inv, Phases, MarkedFromThrower, InputInv
<1> QED
  BY <1>1, <1>2, <1>5, <1>6, <1>7, <1>8, <1>9 DEF Inv

LEMMA ReturnNullOK == ASSUME CallersInv, ReturnNull \/ NotTable PROVE CallersInv'
<1>1. /\ Release /\ UnchangedButOut /\ UNCHANGED << caller, session >>
      /\ \/ result = "error" /\ returned' = "null"
         \/ result = "done" /\ returned' = "failure"
  BY DEF ReturnNull, NotTable, Ended
<1>2. Inv' /\ TopValue' = Null /\ result' = result /\ pos' = pos /\ input' = input
  BY <1>1, ReleaseOK DEF CallersInv
<1>3. Skips' = Skips
  BY <1>1, <1>2 DEF Skips
<1>4. Returns'
  BY <1>1, <1>2, <1>3 DEF CallersInv, Returns
<1>5. OneValueEach'
  BY <1>1 DEF CallersInv, OneValueEach
<1> QED
  BY <1>2, <1>4, <1>5 DEF CallersInv

LEMMA SetVariablesOK == ASSUME CallersInv, SetVariables PROVE CallersInv'
<1> DEFINE c == out[TopValue.v]
<1>1. /\ Release /\ UnchangedButOut /\ caller' = caller /\ result = "done" /\ returned' = "success"
      /\ TopValue.t \in {"arr", "obj"}
      /\ session' = {<< e.k.v, e.v >> : e \in Named(c)}
  BY DEF SetVariables, Ended
<1>2. Inv' /\ TopValue' = Null /\ result' = result /\ pos' = pos /\ input' = input
  BY <1>1, ReleaseOK DEF CallersInv
<1>3. Skips' = Skips
  BY <1>1, <1>2 DEF Skips
<1>4. Returns'
  BY <1>1, <1>2, <1>3 DEF CallersInv, Returns
<1>5. OneValueEach'
  <2>1. HeapInv(out) /\ 1 \in DOMAIN out /\ 1 \in DOMAIN out[1].elems
    <3>1. HeapInv(out)
      BY DEF CallersInv, Inv
    <3>2. 1 \in DOMAIN out /\ DOMAIN out[1].elems = 1..1
      BY <3>1, HeapBasics DEF HeapInv
    <3> QED
      BY <3>1, <3>2
  <2>2. TopValue \in Vals(Len(out)) /\ DOMAIN out = 1..Len(out)
    BY <2>1, HeapBasics DEF TopValue
  <2>3. TopValue.v \in DOMAIN out
    BY <2>2, <1>1 DEF Vals, Null, Undef, Key, Counted
  <2>4. KeysDiffer(c) /\ \A i \in DOMAIN c.elems : c.elems[i] \in Pairs(Len(out))
    BY <2>1, <2>3, HeapBasics
  <2> HIDE DEF c
  <2>5. ASSUME NEW p \in session', NEW q \in session', p[1] = q[1]
        PROVE  p = q
    <3>1. PICK d \in Named(c) : p = << d.k.v, d.v >>
      BY <2>5, <1>1
    <3>2. PICK e \in Named(c) : q = << e.k.v, e.v >>
      BY <2>5, <1>1
    <3>3. PICK i \in DOMAIN c.elems : d = c.elems[i] /\ d.k.t = "str"
      BY <3>1 DEF Named
    <3>4. PICK j \in DOMAIN c.elems : e = c.elems[j] /\ e.k.t = "str"
      BY <3>2 DEF Named
    <3>5. d.k.v = e.k.v
      BY <2>5, <3>1, <3>2
    <3>6. d.k \in Key /\ e.k \in Key
      BY <2>4, <3>3, <3>4 DEF Pairs, Null
    <3>7. d.k = e.k
      BY <3>3, <3>4, <3>5, <3>6 DEF Key
    <3>8. i = j
      BY <3>3, <3>4, <3>7, <2>4 DEF KeysDiffer
    <3> QED
      BY <3>1, <3>2, <3>3, <3>4, <3>8
  <2> QED
    BY <2>5 DEF OneValueEach
<1> QED
  BY <1>2, <1>4, <1>5 DEF CallersInv

LEMMA CallersStep == CallersInv /\ [CallersNext]_allvars => CallersInv'
<1> SUFFICES ASSUME CallersInv, [CallersNext]_allvars PROVE CallersInv'
  OBVIOUS
<1>1. CASE ReturnEmpty
  BY <1>1, ReturnEmptyOK
<1>2. CASE Unserialize
  BY <1>2, ReaderSteps, RunOK DEF Unserialize
<1>3. CASE Decode
  BY <1>3, ReaderSteps, RunOK DEF Decode
<1>4. CASE ReturnValue \/ DecodeFails
  BY <1>4, ReturnValueOK
<1>5. CASE ReturnNull \/ NotTable
  BY <1>5, ReturnNullOK
<1>6. CASE SetVariables
  BY <1>6, SetVariablesOK
<1>7. CASE UNCHANGED allvars
  <2>1. UNCHANGED vars /\ UNCHANGED << caller, returned, session >>
    BY <1>7 DEF allvars, cvars
  <2>2. Inv'
    BY <2>1, SameInv DEF CallersInv
  <2>3. Returns' /\ OneValueEach'
    BY <2>1, SameReturns DEF CallersInv, Returns, OneValueEach, Skips
  <2> QED
    BY <2>2, <2>3 DEF CallersInv
<1> QED
  BY <1>1, <1>2, <1>3, <1>4, <1>5, <1>6, <1>7 DEF CallersNext

LEMMA CallersInvHolds == CallersSpec => []CallersInv
BY CallersAtStart, CallersStep, PTL DEF CallersSpec

(***************************************************************************)
(* What follows from it.                                                   *)
(***************************************************************************)
LEMMA NestedFromInv == Inv => NestedWithinLimit
<1> SUFFICES ASSUME Inv PROVE NestedWithinLimit
  OBVIOUS
<1>1. CASE result = "reading"
  BY <1>1 DEF Inv, Phases, ReadInv, Within, Depth, NestedWithinLimit
<1>2. CASE result # "reading"
  <2>1. agenda = << >>
    BY <1>2 DEF Inv, Phases
  <2>2. Depth(agenda) = 0
    BY <2>1, DepthOfNone
  <2> QED
    BY <2>2, UnserializeAssumption DEF Depth, NestedWithinLimit
<1> QED
  BY <1>1, <1>2

LEMMA LiveFromInv == Inv => KeptPointersLive
<1> SUFFICES ASSUME Inv, result = "reading"
             PROVE  /\ {drefs[i].a : i \in Filed} \cup {deferred[i].o : i \in DOMAIN deferred} \subseteq Live
                    /\ \A i \in Filed : \/ out[drefs[i].a].kind = drefs[i].ty
                                        \/ drefs[i].ty = "ref" /\ out[drefs[i].a].kind = "arr"
  BY DEF KeptPointersLive
<1>1. AllLive(out, Holders) /\ Heap(out, Len(out))
  BY DEF Inv, Phases, ReadInv, HeapInv
<1>2. DOMAIN out \subseteq Live
  BY <1>1, ReachIsAll DEF Live, Holders
<1>3. /\ \A i \in DOMAIN drefs : drefs[i].a \in DOMAIN out
      /\ \A i \in DOMAIN deferred : deferred[i].o \in DOMAIN out
  BY DEF Inv, RefsInv, RefOK, CallsInv, CallOK
<1>4. \A i \in Filed : \/ out[drefs[i].a].kind = drefs[i].ty
                       \/ drefs[i].ty = "ref" /\ out[drefs[i].a].kind = "arr"
  <2>1. \A i \in DOMAIN drefs : drefs[i] \in RefT /\ RefOK(out, drefs[i])
    BY DEF Inv, RefsInv
  <2> QED
    BY <2>1 DEF Filed, RefT, RefOK
<1> QED
  BY <1>2, <1>3, <1>4 DEF Filed

LEMMA WholeFromInv == CallersInv => GivenOnlyWhole
<1> SUFFICES ASSUME CallersInv, returned \in {"value", "success"}, ~Skips
             PROVE  /\ called = Len(deferred) /\ ~throws /\ flagged = {}
                    /\ caller # "session" => pos > Len(input)
  BY DEF GivenOnlyWhole
<1>1. result = "done"
  BY DEF CallersInv, Returns
<1> QED
  BY <1>1 DEF CallersInv, Returns, Inv, Phases

LEMMA NothingFromInv == CallersInv => NothingKept
<1> SUFFICES ASSUME CallersInv, returned = "null" PROVE Live = {1}
  BY DEF NothingKept
<1>1. result = "error" /\ TopValue = Null /\ Inv
  BY DEF CallersInv, Returns
<1>2. dtors = {} /\ called = Len(deferred) /\ agenda = << >>
  BY <1>1 DEF Inv, Phases
<1>3. Params = {}
  <2>1. DOMAIN deferred = 1..Len(deferred) /\ Len(deferred) \in Nat
    BY <1>1 DEF Inv, CallsInv
  <2>2. \A j \in DOMAIN deferred : ~(j > called)
    BY <1>2, <2>1
  <2> QED
    BY <1>2, <2>2 DEF Params
<1>4. Live = Reach(out, {1})
  <2>1. ({1} \cup dtors \cup Params) \ {0} = {1}
    BY <1>2, <1>3
  <2> QED
    BY <2>1 DEF Live
<1>5. Targets(out, 1) = {}
  <2>1. DOMAIN out[1].elems = 1..1
    BY <1>1, HeapBasics DEF Inv, HeapInv
  <2>2. \A i \in DOMAIN out[1].elems : out[1].elems[i].v = Null
    BY <1>1, <2>1 DEF TopValue
  <2> QED
    BY <2>2, NullFits DEF Targets, Pointers
<1> QED
  BY <1>4, <1>5, ReachOfScalar

\* Every variable of igbinary_unserialize keeps its type: the entries of references
\* and of deferred are always indexes of cells that exist, on every input.  That
\* includes the input on which an array is filed as a reference; what is in the
\* cell is the matter of the next theorem.
THEOREM UnserializeTyped == CallersSpec => []TypeOK
<1>1. CallersInv => TypeOK
  BY TypeOKFromInv DEF CallersInv
<1> QED
  BY <1>1, CallersInvHolds, PTL

\* igsd->references and the objects of deferred calls are pointers without a
\* refcount: on any input, as long as it is being read, each points to a cell that
\* some holder keeps alive.  The cell is of the type that the entry says, but for
\* one case: what is filed as a reference may be an array that was read over one.
THEOREM KeptPointersStayLive == CallersSpec => []KeptPointersLive
<1>1. CallersInv => KeptPointersLive
  BY LiveFromInv DEF CallersInv
<1> QED
  BY <1>1, CallersInvHolds, PTL

\* unserialize_max_depth bounds the recursion of igbinary_unserialize_zval on every
\* input.
THEOREM RecursionIsBounded == CallersSpec => []NestedWithinLimit
<1>1. CallersInv => NestedWithinLimit
  BY NestedFromInv DEF CallersInv
<1> QED
  BY <1>1, CallersInvHolds, PTL

\* igbinary_finish_deferred_calls marks the object whose call threw and those of
\* all later calls, and no other.
THEOREM ThrowerAndLaterMarked == CallersSpec => []MarkedFromThrower
<1>1. CallersInv => MarkedFromThrower
  BY DEF CallersInv, Inv
<1> QED
  BY <1>1, CallersInvHolds, PTL

\* igbinary_unserialize and the session module hand out a value only when every
\* deferred call was made and none threw, and the first only when it has read the
\* whole input.
THEOREM WholeValuesOnly == CallersSpec => []GivenOnlyWhole
<1>1. CallersInv => GivenOnlyWhole
  BY WholeFromInv
<1> QED
  BY <1>1, CallersInvHolds, PTL

\* After igbinary_unserialize has returned null for a failure, nothing of what it
\* built is held.
THEOREM FailureKeepsNothing == CallersSpec => []NothingKept
<1>1. CallersInv => NothingKept
  BY NothingFromInv
<1> QED
  BY <1>1, CallersInvHolds, PTL

\* The session module sets each variable of $_SESSION once.
THEOREM SessionNamesDiffer == CallersSpec => []OneValueEach
<1>1. CallersInv => OneValueEach
  BY DEF CallersInv
<1> QED
  BY <1>1, CallersInvHolds, PTL
=============================================================================
