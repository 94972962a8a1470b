----------------------------- MODULE CallsProofs -----------------------------
(***************************************************************************)
(* The deferred calls of the reader, for any input: each object that has a *)
(* __wakeup or an __unserialize is called once, after its contents, and is *)
(* alive when it is called.  Then, for any input, the numbers the reader   *)
(* gives: which cells and strings of what it has read they stand for.  At  *)
(* last, for input that keeps to the grammar of Format as far as it goes:  *)
(* what the agenda has still to read is what is due.                       *)
(***************************************************************************)
EXTENDS UnserializeProofs, Format

(***************************************************************************)
(* The invariant.  An item of the agenda that reads values feeds one cell. *)
(* A deferred call has the object, and for __unserialize the holder of the *)
(* parameter and, next to it, the parameter.                               *)
(***************************************************************************)
Feeds(i)  == i.op \in {"zval", "wrap", "fill"}
Fed(i)    == IF i.op = "fill" THEN i.h ELSE i.slot[1]
Defers(i) == i.op = "defer"
CellsOf(c) == {c.o} \cup (IF c.param = 0 THEN {} ELSE {c.param, c.param + 1})
ParamOK(H, c) ==
    c.param # 0 => /\ c.param > c.o /\ c.param \in DOMAIN H /\ c.param + 1 \in DOMAIN H
                   /\ H[c.param].kind = "hold"
                   /\ 1 \in DOMAIN H[c.param].elems /\ H[c.param].elems[1].v = Arr(c.param + 1)

\* what has been deferred is not fed any more
Finished(items, d) ==
    \A i \in DOMAIN items, j \in DOMAIN d : Feeds(items[i]) => Fed(items[i]) \notin CellsOf(d[j])
\* what is outside of an object being read is older than the object
Nested(items) ==
    \A i, j \in DOMAIN items : i < j /\ Defers(items[i]) =>
       /\ Feeds(items[j]) => Fed(items[j]) < items[i].o
       /\ Defers(items[j]) => items[j].o < items[i].o
\* holders are not fed, and hold the parameters
HoldersApart(items) ==
    \A i, j \in DOMAIN items : Feeds(items[i]) /\ Defers(items[j]) => Fed(items[i]) # items[j].param
ParamsOK(H, items, d) ==
    /\ \A i \in DOMAIN items : Defers(items[i]) => ParamOK(H, items[i])
    /\ \A i \in DOMAIN d : ParamOK(H, d[i])
\* each object that has a call is deferred, or will be, once
Waiting(items) == {items[j].o : j \in {k \in DOMAIN items : Defers(items[k])}}
Once(H, items, d) ==
    /\ \A i, j \in DOMAIN d : d[i].o = d[j].o => i = j
    /\ \A i \in DOMAIN d : d[i].o \notin Waiting(items)
    /\ Due(H) = {d[i].o : i \in DOMAIN d} \cup Waiting(items)
\* the younger objects that a deferred object holds have been deferred before it
YoungerFirst(H, d) ==
    \A i \in DOMAIN d : \A t \in Contents(H, d[i]) \cap Due(H) :
       t > d[i].o => \E k \in DOMAIN d : k < i /\ d[k].o = t

OrderInv(H, items, d) ==
    /\ Finished(items, d) /\ Nested(items) /\ HoldersApart(items)
    /\ ParamsOK(H, items, d) /\ Once(H, items, d) /\ YoungerFirst(H, d)

\* What is fed, and what will be called, is held by the result, the tracker and
\* the parameters of the calls that come after it.
ParamsFrom(items, p) == {items[i].param : i \in {j \in DOMAIN items : j >= p /\ Defers(items[j])}}
LaterParams(d, j)    == {d[i].param : i \in {k \in DOMAIN d : k >= j}}
Holds(H, S, C)       == C \in SUBSET DOMAIN H /\ Closed(H, C) /\ S \ {0} \subseteq C
FedHeld(H, items, dt) ==
    \A p \in DOMAIN items : \A C : Holds(H, {1} \cup dt \cup ParamsFrom(items, p), C) =>
       /\ Feeds(items[p]) => Fed(items[p]) \in C
       /\ Defers(items[p]) => items[p].o \in C
CallsHeld(H, items, d, dt) ==
    \A j \in DOMAIN d : \A C : Holds(H, {1} \cup dt \cup ParamsFrom(items, 1) \cup LaterParams(d, j), C) =>
       d[j].o \in C
HeldInv(H, items, d, dt) == FedHeld(H, items, dt) /\ CallsHeld(H, items, d, dt)

CallsOK ==
    /\ result \in {"reading", "calling", "done"} => OrderInv(out, agenda, deferred)
    /\ result = "reading" => HeldInv(out, agenda, deferred, dtors)
    /\ result = "calling" /\ ~CallsUnset => HeldInv(out, agenda, deferred, dtors)

(***************************************************************************)
(* What one step of reading does to the heap: every cell but the one that  *)
(* is fed stays as it is, none changes its kind or class, and a closed set *)
(* with what the tracker holds was closed before.                          *)
(***************************************************************************)
OneFed(H, G, f, dt) ==
    /\ DOMAIN H \subseteq DOMAIN G
    /\ \A a \in DOMAIN H : /\ G[a].kind = H[a].kind /\ G[a].cls = H[a].cls
                           /\ a # f => G[a] = H[a]
    /\ \A C \in SUBSET DOMAIN G : Closed(G, C) /\ dt \subseteq C =>
          \A a \in C \cap DOMAIN H : Targets(H, a) \subseteq C

\* a slot is written, and what it held is held by the tracker or otherwise
LEMMA PutFeeds ==
  ASSUME NEW H, HeapInv(H), NEW s, SlotOK(H, s), NEW z, NEW G, Renewed(H, G, s, z), NEW dt,
         \A C \in SUBSET DOMAIN G : Closed(G, C) /\ dt \subseteq C /\ s[1] \in C /\ In(H, s).t \in Counted
            => In(H, s).v \in C
  PROVE  OneFed(H, G, s[1], dt)
<1>1. Len(H) \in Nat /\ Heap(H, Len(H))
  BY HeapBasics DEF HeapInv
<1>2. \A a \in DOMAIN H : /\ G[a].kind = H[a].kind /\ G[a].cls = H[a].cls
                          /\ a # s[1] => G[a] = H[a]
                          /\ DOMAIN G[a].elems = DOMAIN H[a].elems
                          /\ \A i \in DOMAIN H[a].elems :
                                a # s[1] \/ i # s[2] => G[a].elems[i].v = H[a].elems[i].v
  BY <1>1, PutFacts DEF Renewed
<1>3. ASSUME NEW C \in SUBSET DOMAIN G, Closed(G, C), dt \subseteq C, NEW a \in C \cap DOMAIN H,
             NEW b \in Targets(H, a)
      PROVE  b \in C
  <2>1. PICK i \in DOMAIN H[a].elems : H[a].elems[i].v.t \in Counted /\ H[a].elems[i].v.v = b
    BY <1>3, TargetOf
  <2>2. CASE a = s[1] /\ i = s[2]
    BY <2>1, <2>2, <1>3 DEF In
  <2>3. CASE a # s[1] \/ i # s[2]
    <3>1. i \in DOMAIN G[a].elems /\ G[a].elems[i].v = H[a].elems[i].v
      BY <2>1, <2>3, <1>2
    <3>2. b \in Targets(G, a)
      BY <2>1, <3>1, PointsTo
    <3> QED
      BY <3>2, <1>3 DEF Closed
  <2> QED
    BY <2>2, <2>3
<1> QED
  BY <1>2, <1>3 DEF OneFed, Renewed

LEMMA PutKept ==
  ASSUME NEW H, HeapInv(H), NEW s, SlotOK(H, s), NEW z, NEW G, Renewed(H, G, s, z), NEW dt,
         Dropped(H, s, dt)
  PROVE  OneFed(H, G, s[1], dt)
BY PutFeeds DEF Dropped

\* nothing is written
LEMMA NoneFed ==
  ASSUME NEW H, HeapInv(H), NEW f, NEW dt
  PROVE  OneFed(H, H, f, dt)
BY DEF OneFed, Closed

\* a table takes an element
LEMMA ElemFeeds ==
  ASSUME NEW H, HeapInv(H), NEW h \in DOMAIN H, h >= 2, NEW k \in Key,
         \A i \in DOMAIN H[h].elems : H[h].elems[i].k # k, NEW dt
  PROVE  OneFed(H, AddElem(H, h, Elem(k, Null)), h, dt)
<1> DEFINE e == Elem(k, Null)
           G == AddElem(H, h, e)
<1>1. /\ Len(H) \in Nat /\ DOMAIN H = 1..Len(H) /\ Heap(H, Len(H))
      /\ \A a \in DOMAIN H : DOMAIN H[a].elems = 1..Len(H[a].elems) /\ Len(H[a].elems) \in Nat
      /\ h \in DOMAIN H /\ H[h].elems \in Seq(Pairs(Len(H))) /\ H[h] \in CellT(Len(H))
  BY HeapBasics DEF HeapInv
<1>2. e \in Pairs(Len(H)) /\ e.k = k
  BY DEF Elem, Pairs, Vals
<1>3. G = [H EXCEPT ![h].elems = Append(H[h].elems, e)]
  BY DEF AddElem
<1> HIDE DEF e, G
<1>4. DOMAIN G = DOMAIN H /\ \A a \in DOMAIN H : G[a].kind = H[a].kind /\ G[a].cls = H[a].cls /\ (a # h => G[a] = H[a])
  BY <1>1, <1>3 DEF CellT
<1>5. G[h].elems = Append(H[h].elems, e)
  BY <1>1, <1>3 DEF CellT
<1>6. \A i \in DOMAIN H[h].elems : i \in DOMAIN G[h].elems /\ G[h].elems[i] = H[h].elems[i]
  BY <1>1, <1>2, <1>5
<1>7. \A a \in DOMAIN H : Targets(H, a) \subseteq Targets(G, a)
  <2>1. SUFFICES ASSUME NEW a \in DOMAIN H, NEW b \in Targets(H, a) PROVE b \in Targets(G, a)
    OBVIOUS
  <2>2. PICK i \in DOMAIN H[a].elems : H[a].elems[i].v.t \in Counted /\ H[a].elems[i].v.v = b
    BY TargetOf
  <2>3. i \in DOMAIN G[a].elems /\ G[a].elems[i] = H[a].elems[i]
    BY <1>4, <1>6, <2>2
  <2> QED
    BY <2>2, <2>3, PointsTo
<1>8. OneFed(H, G, h, dt)
  BY <1>4, <1>7 DEF OneFed, Closed
<1> QED
  BY <1>8 DEF G, e

(***************************************************************************)
(* New cells.  A cell leads to another one when no closed set separates    *)
(* the two.                                                                *)
(***************************************************************************)
Leads(G, f, a) == \A C \in SUBSET DOMAIN G : Closed(G, C) /\ f \in C => a \in C

LEMMA DueGrows ==
  ASSUME NEW H, NEW G, NEW f, NEW dt, OneFed(H, G, f, dt)
  PROVE  Due(G) = Due(H) \cup {a \in DOMAIN G \ DOMAIN H : HasCall(G[a])}
BY DEF OneFed, Due, HasCall

LEMMA DueSame ==
  ASSUME NEW H, NEW G, NEW f, NEW dt, OneFed(H, G, f, dt), DOMAIN G = DOMAIN H
  PROVE  Due(G) = Due(H)
BY DEF OneFed, Due, HasCall

LEMMA NoCall ==
  /\ \A z, many : ~HasCall(RefCell(z, many))
  /\ \A es : ~HasCall(ArrCell(es))
  /\ \A z : ~HasCall(HoldCell(z))
BY DEF HasCall, RefCell, ArrCell, HoldCell

\* the slot leads to what is put into it
LEMMA SlotLeads ==
  ASSUME NEW H, HeapInv(H), NEW s, SlotOK(H, s), NEW z, z.t \in Counted, NEW G, Renewed(H, G, s, z)
  PROVE  Leads(G, s[1], z.v)
<1>1. Heap(H, Len(H))
  BY DEF HeapInv
<1> QED
  BY <1>1, SlotPoints DEF Leads, Renewed

LEMMA PutCellShape ==
  ASSUME NEW H, HeapInv(H), NEW s, SlotOK(H, s), NEW c, SmallCell(c, Len(H)), c.kind \in Counted,
         NEW want \in BOOLEAN, NEW dt, Dropped(H, s, dt)
  PROVE  LET G == PutCell(H, s, c, want)
         IN  /\ OneFed(H, G, s[1], dt)
             /\ Leads(G, s[1], Len(H) + 1)
             /\ Due(G) = Due(H) \cup (IF HasCall(c) THEN {Len(H) + 1} ELSE {})
<1> DEFINE G == PutCell(H, s, c, want)
           m == Len(H)
           p == [t |-> c.kind, v |-> m + 1]
           box == RefCell(p, TRUE)
<1>1. m \in Nat /\ m >= 1 /\ DOMAIN H = 1..m
  BY HeapBasics
<1>2. CASE ~want
  <2>1. G = Append(Put(H, s, p), c)
    BY <1>2 DEF PutCell
  <2>2. p \in Vals(m + 1) /\ p.t \in Counted /\ p.v = m + 1
    BY <1>1 DEF Vals
  <2>3. SmallCell(c, m + 1)
    BY <1>1, CellWiden DEF SmallCell
  <2> HIDE DEF p, G
  <2>4. /\ Heap(G, m + 1) /\ Len(G) = m + 1
        /\ G[m + 1] = c /\ \A a \in DOMAIN H : G[a] = Put(H, s, p)[a]
    BY <1>1, <2>1, <2>2, <2>3, PutAppend
  <2>5. DOMAIN G = 1..(m + 1)
    BY <2>4 DEF Heap
  <2>6. Renewed(H, G, s, p)
    BY <1>1, <2>4, <2>5 DEF Renewed
  <2>7. OneFed(H, G, s[1], dt) /\ Leads(G, s[1], m + 1)
    BY <2>2, <2>6, PutKept, SlotLeads
  <2>8. DOMAIN G \ DOMAIN H = {m + 1}
    BY <1>1, <2>5
  <2>9. Due(G) = Due(H) \cup (IF HasCall(c) THEN {m + 1} ELSE {})
    BY <2>4, <2>7, <2>8, DueGrows
  <2> QED
    BY <2>7, <2>9 DEF G
<1>3. CASE want
  <2>1. G = Append(Append(Put(H, s, Ref(m + 2)), c), box)
    BY <1>1, <1>3 DEF PutCell
  <2>2. Ref(m + 2) \in Vals(m + 2) /\ Ref(m + 2).t \in Counted /\ Ref(m + 2).v = m + 2
    BY <1>1 DEF Vals, Ref, Counted
  <2>3. SmallCell(c, m + 2)
    BY <1>1, CellWiden DEF SmallCell
  <2>4. p \in Vals(m + 2) /\ p.t \in Counted /\ p.v = m + 1
    BY <1>1 DEF Vals
  <2> HIDE DEF p
  <2>5. SmallCell(box, m + 2) /\ 1 \in DOMAIN box.elems /\ box.elems[1].v = p /\ ~HasCall(box)
    <3>1. m + 2 \in Nat
      BY <1>1
    <3> QED
      BY <3>1, <2>4, BoxOK, NoCall
  <2> HIDE DEF G, box
  <2>6. /\ Heap(G, m + 2) /\ Len(G) = m + 2
        /\ G[m + 1] = c /\ G[m + 2] = box
        /\ \A a \in DOMAIN H : G[a] = Put(H, s, Ref(m + 2))[a]
    BY <1>1, <2>1, <2>2, <2>3, <2>5, PutAppendTwo
  <2>7. DOMAIN G = 1..(m + 2)
    BY <2>6 DEF Heap
  <2>8. Renewed(H, G, s, Ref(m + 2))
    BY <1>1, <2>6, <2>7 DEF Renewed
  <2>9. OneFed(H, G, s[1], dt) /\ Leads(G, s[1], m + 2)
    BY <2>2, <2>8, PutKept, SlotLeads
  <2>10. m + 1 \in Targets(G, m + 2)
    BY <2>4, <2>5, <2>6, PointsTo
  <2>11. Leads(G, s[1], m + 1)
    BY <2>9, <2>10 DEF Leads, Closed
  <2>12. DOMAIN G \ DOMAIN H = {m + 1, m + 2}
    BY <1>1, <2>7
  <2>13. Due(G) = Due(H) \cup (IF HasCall(c) THEN {m + 1} ELSE {})
    BY <2>5, <2>6, <2>9, <2>12, DueGrows
  <2> QED
    BY <2>9, <2>11, <2>13 DEF G
<1> QED
  BY <1>2, <1>3

\* WrapReference and BoxTarget: a value is boxed
LEMMA BoxShape ==
  ASSUME NEW H, HeapInv(H), NEW s, SlotOK(H, s), NEW z \in Vals(Len(H)), NEW dt,
         z = In(H, s) \/ Dropped(H, s, dt)
  PROVE  LET G == Append(Put(H, s, Ref(Len(H) + 1)), RefCell(z, TRUE))
         IN  OneFed(H, G, s[1], dt) /\ Due(G) = Due(H)
<1> DEFINE m == Len(H)
           box == RefCell(z, TRUE)
           r == Ref(m + 1)
           G == Append(Put(H, s, r), box)
<1>1. m \in Nat /\ m >= 1 /\ DOMAIN H = 1..m
  BY HeapBasics
<1>2. z \in Vals(m + 1) /\ r \in Vals(m + 1) /\ r.t \in Counted /\ r.v = m + 1
  <2>1. 1..m \subseteq 1..(m + 1) /\ m + 1 \in 1..(m + 1)
    BY <1>1
  <2> QED
    BY <2>1 DEF Vals, Ref, Counted
<1>3. SmallCell(box, m + 1) /\ 1 \in DOMAIN box.elems /\ box.elems[1].v = z /\ ~HasCall(box)
  <2>1. m + 1 \in Nat
    BY <1>1
  <2> QED
    BY <2>1, <1>2, BoxOK, NoCall
<1> HIDE DEF box, G, r
<1>4. /\ Heap(G, m + 1) /\ Len(G) = m + 1
      /\ G[m + 1] = box /\ \A a \in DOMAIN H : G[a] = Put(H, s, r)[a]
  BY <1>1, <1>2, <1>3, PutAppend DEF G
<1>5. DOMAIN G = 1..(m + 1)
  BY <1>4 DEF Heap
<1>6. Renewed(H, G, s, r)
  BY <1>1, <1>4, <1>5 DEF Renewed
<1>7. Leads(G, s[1], m + 1)
  BY <1>2, <1>6, SlotLeads
<1>8. ASSUME NEW C \in SUBSET DOMAIN G, Closed(G, C), dt \subseteq C, s[1] \in C, In(H, s).t \in Counted
      PROVE  In(H, s).v \in C
  <2>1. CASE z = In(H, s)
    <3>1. In(H, s).v \in Targets(G, m + 1)
      BY <2>1, <1>3, <1>4, <1>8, PointsTo
    <3>2. m + 1 \in C
      BY <1>7, <1>8 DEF Leads
    <3> QED
      BY <3>1, <3>2, <1>8 DEF Closed
  <2>2. CASE Dropped(H, s, dt)
    BY <2>2, <1>8 DEF Dropped
  <2> QED
    BY <2>1, <2>2
<1>9. OneFed(H, G, s[1], dt)
  BY <1>6, <1>8, PutFeeds
<1>10. DOMAIN G \ DOMAIN H = {m + 1}
  BY <1>1, <1>5
<1>11. Due(G) = Due(H)
  <2>1. {a \in DOMAIN G \ DOMAIN H : HasCall(G[a])} = {}
    BY <1>3, <1>4, <1>10
  <2> QED
    BY <2>1, <1>9, DueGrows
<1> QED
  BY <1>9, <1>11 DEF G, box, r

(***************************************************************************)
(* A step of reading: the innermost item, which feeds a cell, gives way to *)
(* items that feed that cell, a new one or a new parameter, the last of    *)
(* which may wait to defer the call of a new object.                       *)
(***************************************************************************)
StepIs(H, G, ag, items, dt2) ==
    /\ Feeds(Head(ag))
    /\ OneFed(H, G, Fed(Head(ag)), dt2)
    /\ Due(G) = Due(H) \cup Waiting(items)
    /\ \A i \in DOMAIN items : Defers(items[i]) =>
          i = Len(items) /\ items[i].o = Len(H) + 1 /\ ParamOK(G, items[i])
    /\ \A i \in DOMAIN items : Feeds(items[i]) =>
          \/ Fed(items[i]) = Fed(Head(ag))
          \/ Fed(items[i]) = Len(H) + 1
          \/ \E j \in DOMAIN items : /\ j > i /\ Defers(items[j]) /\ items[j].param # 0
                                     /\ Fed(items[i]) = items[j].param + 1
    /\ \/ \A i \in DOMAIN items : Feeds(items[i]) /\ Fed(items[i]) = Fed(Head(ag))
       \/ Leads(G, Fed(Head(ag)), Len(H) + 1)

\* what the items of an agenda stand for is there
LEMMA ItemBounds ==
  ASSUME NEW H, HeapInv(H), NEW ag, AgendaInv(H, ag)
  PROVE  \A j \in DOMAIN ag :
            /\ Feeds(ag[j]) => Fed(ag[j]) \in DOMAIN H
            /\ Defers(ag[j]) => ag[j].o \in DOMAIN H /\ ag[j].param \in 0..Len(H) /\ ~Feeds(ag[j])
<1>1. SUFFICES ASSUME NEW j \in DOMAIN ag
               PROVE  /\ Feeds(ag[j]) => Fed(ag[j]) \in DOMAIN H
                      /\ Defers(ag[j]) => ag[j].o \in DOMAIN H /\ ag[j].param \in 0..Len(H) /\ ~Feeds(ag[j])
  OBVIOUS
<1>2. ItemOK(H, ag[j])
  BY DEF AgendaInv
<1> QED
  BY <1>2 DEF ItemOK, SlotOK, Feeds, Defers, Fed

LEMMA CallBounds ==
  ASSUME NEW H, HeapInv(H), NEW d, CallsInv(H, d), NEW items, ParamsOK(H, items, d)
  PROVE  \A j \in DOMAIN d : /\ d[j].o \in DOMAIN H /\ d[j].param \in 0..Len(H)
                             /\ CellsOf(d[j]) \subseteq DOMAIN H
                             /\ ParamOK(H, d[j])
BY DEF CallsInv, CallOK, ParamsOK, ParamOK, CellsOf

\* the cells of a finished call keep their contents
LEMMA ContentsStay ==
  ASSUME NEW H, HeapInv(H), NEW G, NEW c, ParamOK(H, c), c.o \in DOMAIN H,
         \A a \in CellsOf(c) : G[a] = H[a]
  PROVE  /\ Contents(G, c) = Contents(H, c)
         /\ Contents(H, c) \subseteq DOMAIN H
<1>1. Len(H) \in Nat /\ DOMAIN H = 1..Len(H) /\ Heap(H, Len(H))
  BY HeapBasics DEF HeapInv
<1>2. \A a \in CellsOf(c) : Targets(G, a) = Targets(H, a)
  BY DEF Targets
<1>3. \A a \in DOMAIN H : Targets(H, a) \subseteq DOMAIN H
  BY <1>1, TargetsTyped
<1>4. CASE c.param = 0
  BY <1>2, <1>3, <1>4 DEF Contents, CellsOf
<1>5. CASE c.param # 0
  <2>1. G[c.param] = H[c.param] /\ H[c.param].elems[1].v.v = c.param + 1 /\ c.param + 1 \in DOMAIN H
        /\ c.param + 1 \in CellsOf(c)
    BY <1>5 DEF ParamOK, Arr, CellsOf
  <2>2. /\ Contents(G, c) = Targets(G, c.o) \cup Targets(G, c.param + 1)
        /\ Contents(H, c) = Targets(H, c.o) \cup Targets(H, c.param + 1)
    BY <1>5, <2>1 DEF Contents
  <2>3. c.o \in CellsOf(c)
    BY DEF CellsOf
  <2> QED
    BY <1>2, <1>3, <2>1, <2>2, <2>3
<1> QED
  BY <1>4, <1>5

LEMMA OrderKept ==
  ASSUME NEW H, HeapInv(H), NEW G, HeapInv(G), NEW ag, ag # << >>, AgendaInv(H, ag),
         NEW items \in Seq(ItemT), NEW d, CallsInv(H, d), NEW dt2,
         StepIs(H, G, ag, items, dt2), OrderInv(H, ag, d)
  PROVE  OrderInv(G, items \o Tail(ag), d)
<1> DEFINE new == items \o Tail(ag)
           f == Fed(Head(ag))
<1>1. /\ Len(H) \in Nat /\ DOMAIN H = 1..Len(H) /\ ag \in Seq(ItemT) /\ Head(ag) = ag[1] /\ 1 \in DOMAIN ag
      /\ Len(items) \in Nat /\ DOMAIN items = 1..Len(items) /\ DOMAIN ag \subseteq Nat
      /\ \A j \in DOMAIN ag : j # 1 => j >= 2
  BY HeapBasics DEF AgendaInv
<1>2. /\ \A k \in DOMAIN new : \/ k \in DOMAIN items /\ new[k] = items[k]
                               \/ \E j \in DOMAIN ag : j >= 2 /\ k = Len(items) + j - 1 /\ new[k] = ag[j]
      /\ \A i \in DOMAIN items : i \in DOMAIN new /\ new[i] = items[i]
      /\ \A j \in DOMAIN ag : j >= 2 => /\ Len(items) + j - 1 \in DOMAIN new
                                        /\ new[Len(items) + j - 1] = ag[j]
  BY <1>1, CatTail
<1> HIDE DEF new
<1>3. /\ Finished(ag, d) /\ Nested(ag) /\ HoldersApart(ag)
      /\ ParamsOK(H, ag, d) /\ Once(H, ag, d) /\ YoungerFirst(H, d)
  BY DEF OrderInv
<1>4. /\ Feeds(ag[1]) /\ ~Defers(ag[1]) /\ f = Fed(ag[1]) /\ OneFed(H, G, f, dt2)
      /\ Due(G) = Due(H) \cup Waiting(items)
      /\ \A i \in DOMAIN items : Defers(items[i]) =>
            i = Len(items) /\ items[i].o = Len(H) + 1 /\ ParamOK(G, items[i])
      /\ \A i \in DOMAIN items : Feeds(items[i]) =>
            \/ Fed(items[i]) = f
            \/ Fed(items[i]) = Len(H) + 1
            \/ \E j \in DOMAIN items : /\ j > i /\ Defers(items[j]) /\ items[j].param # 0
                                       /\ Fed(items[i]) = items[j].param + 1
  BY <1>1, ItemBounds DEF StepIs
<1> HIDE DEF f
<1>5. /\ \A j \in DOMAIN ag : /\ Feeds(ag[j]) => Fed(ag[j]) \in DOMAIN H
                              /\ Defers(ag[j]) => ag[j].o \in DOMAIN H /\ ag[j].param \in 0..Len(H)
      /\ \A j \in DOMAIN d : d[j].o \in DOMAIN H /\ CellsOf(d[j]) \subseteq DOMAIN H /\ ParamOK(H, d[j])
  BY <1>3, ItemBounds, CallBounds
<1>6. f \in DOMAIN H /\ Len(H) + 1 \notin DOMAIN H
  BY <1>1, <1>4, <1>5
<1>7. \A i \in DOMAIN items : Defers(items[i]) => items[i].param = 0 \/ items[i].param > Len(H) + 1
  BY <1>4 DEF ParamOK
<1>8. \A i \in DOMAIN items : Feeds(items[i]) => Fed(items[i]) = f \/ Fed(items[i]) > Len(H)
  <2>1. \A j \in DOMAIN items : Defers(items[j]) /\ items[j].param # 0 => items[j].param + 1 \in DOMAIN G
    BY <1>4 DEF ParamOK
  <2>2. DOMAIN G \subseteq Nat
    BY HeapBasics
  <2>3. \A j \in DOMAIN items : Defers(items[j]) /\ items[j].param # 0 => items[j].param \in Nat
    BY <1>4, <2>2 DEF ParamOK
  <2> QED
    BY <1>1, <1>4, <1>7, <2>3
<1>9. Finished(new, d)
  <2>1. SUFFICES ASSUME NEW k \in DOMAIN new, NEW n \in DOMAIN d, Feeds(new[k])
                 PROVE  Fed(new[k]) \notin CellsOf(d[n])
    BY DEF Finished
  <2>2. CASE k \in DOMAIN items /\ new[k] = items[k]
    <3>1. Fed(items[k]) = f \/ Fed(items[k]) \notin DOMAIN H
      BY <1>1, <1>8, <2>1, <2>2
    <3>2. f \notin CellsOf(d[n])
      BY <1>1, <1>3, <1>4 DEF Finished
    <3> QED
      BY <1>5, <2>2, <3>1, <3>2
  <2>3. CASE \E j \in DOMAIN ag : new[k] = ag[j]
    BY <1>3, <2>1, <2>3 DEF Finished
  <2> QED
    BY <1>2, <2>2, <2>3
<1>10. Nested(new)
  <2>1. SUFFICES ASSUME NEW k \in DOMAIN new, NEW l \in DOMAIN new, k < l, Defers(new[k])
                 PROVE  /\ Feeds(new[l]) => Fed(new[l]) < new[k].o
                        /\ Defers(new[l]) => new[l].o < new[k].o
    BY DEF Nested
  <2>2. CASE k \in DOMAIN items /\ new[k] = items[k]
    <3>1. k = Len(items) /\ new[k].o = Len(H) + 1
      BY <1>4, <2>1, <2>2
    <3>2. l \notin DOMAIN items
      BY <1>1, <2>1, <3>1
    <3>3. PICK j \in DOMAIN ag : new[l] = ag[j]
      BY <1>2, <3>2
    <3> QED
      BY <1>1, <1>5, <3>1, <3>3
  <2>3. CASE \E j \in DOMAIN ag : j >= 2 /\ k = Len(items) + j - 1 /\ new[k] = ag[j]
    <3>1. PICK i \in DOMAIN ag : i >= 2 /\ k = Len(items) + i - 1 /\ new[k] = ag[i]
      BY <2>3
    <3>2. l \notin DOMAIN items
      BY SMTT(30), <1>1, <2>1, <3>1
    <3>3. PICK j \in DOMAIN ag : l = Len(items) + j - 1 /\ new[l] = ag[j]
      BY <1>2, <3>2
    <3>4. i < j
      BY SMTT(30), <1>1, <2>1, <3>1, <3>3
    <3> QED
      BY <1>3, <2>1, <3>1, <3>3, <3>4 DEF Nested
  <2> QED
    BY <1>2, <2>2, <2>3
<1>11. HoldersApart(new)
  <2>1. SUFFICES ASSUME NEW k \in DOMAIN new, NEW l \in DOMAIN new, Feeds(new[k]), Defers(new[l])
                 PROVE  Fed(new[k]) # new[l].param
    BY DEF HoldersApart
  <2>2. \/ Fed(new[k]) \in DOMAIN H
        \/ k \in DOMAIN items /\ new[k] = items[k] /\ Fed(items[k]) > Len(H)
    <3>1. CASE k \in DOMAIN items /\ new[k] = items[k]
      BY <1>6, <1>8, <2>1, <3>1
    <3>2. CASE \E j \in DOMAIN ag : new[k] = ag[j]
      BY <1>5, <2>1, <3>2
    <3> QED
      BY <1>2, <3>1, <3>2
  <2>3. CASE l \in DOMAIN items /\ new[l] = items[l]
    <3>1. l = Len(items) /\ (items[l].param = 0 \/ items[l].param > Len(H) + 1)
      BY <1>4, <1>7, <2>1, <2>3
    <3>2. CASE Fed(new[k]) \in DOMAIN H
      BY <1>1, <2>3, <3>1, <3>2
    <3>3. CASE k \in DOMAIN items /\ new[k] = items[k] /\ Fed(items[k]) > Len(H)
      <4>1. Fed(items[k]) # f
        BY <1>1, <1>6, <3>3
      <4>2. CASE Fed(items[k]) = Len(H) + 1
        BY <1>1, <2>3, <3>1, <3>3, <4>2
      <4>3. CASE \E j \in DOMAIN items : /\ j > k /\ Defers(items[j]) /\ items[j].param # 0
                                         /\ Fed(items[k]) = items[j].param + 1
        <5>1. Fed(items[k]) = items[l].param + 1 /\ items[l].param # 0
          BY <1>4, <3>1, <4>3
        <5>2. items[l].param \in DOMAIN G
          BY <1>4, <2>1, <2>3, <5>1 DEF ParamOK
        <5>3. items[l].param \in Nat
          BY <5>2, HeapBasics
        <5> QED
          BY <2>3, <3>3, <5>1, <5>3
      <4> QED
        BY <1>4, <2>1, <3>3, <4>1, <4>2, <4>3
    <3> QED
      BY <2>2, <3>2, <3>3
  <2>4. CASE \E j \in DOMAIN ag : new[l] = ag[j]
    <3>1. PICK j \in DOMAIN ag : new[l] = ag[j]
      BY <2>4
    <3>2. ag[j].param \in 0..Len(H)
      BY <1>5, <2>1, <3>1
    <3>3. CASE k \in DOMAIN items /\ new[k] = items[k]
      <4>1. CASE Fed(items[k]) = f
        BY <1>1, <1>3, <1>4, <2>1, <3>1, <3>3, <4>1 DEF HoldersApart
      <4>2. CASE Fed(items[k]) > Len(H)
        BY <1>1, <3>1, <3>2, <3>3, <4>2
      <4> QED
        BY <1>8, <2>1, <3>3, <4>1, <4>2
    <3>4. CASE \E i \in DOMAIN ag : new[k] = ag[i]
      BY <1>3, <2>1, <3>1, <3>4 DEF HoldersApart
    <3> QED
      BY <1>2, <3>3, <3>4
  <2> QED
    BY <1>2, <2>3, <2>4
<1>12. \A c : ParamOK(H, c) /\ c.param # f => ParamOK(G, c)
  BY <1>4 DEF OneFed, ParamOK
<1>13. ParamsOK(G, new, d)
  <2>1. \A i \in DOMAIN d : ParamOK(G, d[i])
    <3>1. SUFFICES ASSUME NEW i \in DOMAIN d PROVE ParamOK(G, d[i])
      OBVIOUS
    <3>2. f \notin CellsOf(d[i])
      BY <1>1, <1>3, <1>4 DEF Finished
    <3>3. d[i].param # 0 => d[i].param # f
      BY <3>2 DEF CellsOf
    <3> QED
      BY <1>5, <1>12, <3>3 DEF ParamOK
  <2>2. ASSUME NEW k \in DOMAIN new, Defers(new[k]) PROVE ParamOK(G, new[k])
    <3>1. CASE k \in DOMAIN items /\ new[k] = items[k]
      BY <1>4, <2>2, <3>1
    <3>2. CASE \E j \in DOMAIN ag : new[k] = ag[j]
      BY <1>1, <1>3, <1>4, <1>12, <2>2, <3>2 DEF ParamsOK, HoldersApart
    <3> QED
      BY <1>2, <3>1, <3>2
  <2> QED
    BY <2>1, <2>2 DEF ParamsOK
<1>14. Waiting(new) = Waiting(items) \cup Waiting(ag) /\ Waiting(items) \subseteq {Len(H) + 1}
  <2>1. ASSUME NEW o \in Waiting(new) PROVE o \in Waiting(items) \cup Waiting(ag)
    BY <1>2, <2>1 DEF Waiting
  <2>2. ASSUME NEW o \in Waiting(items) PROVE o \in Waiting(new)
    BY <1>2, <2>2 DEF Waiting
  <2>3. ASSUME NEW o \in Waiting(ag) PROVE o \in Waiting(new)
    <3>1. PICK j \in DOMAIN ag : Defers(ag[j]) /\ ag[j].o = o
      BY <2>3 DEF Waiting
    <3>2. j >= 2
      BY <1>1, <1>4, <3>1
    <3> QED
      BY <1>2, <3>1, <3>2 DEF Waiting
  <2>4. Waiting(items) \subseteq {Len(H) + 1}
    BY <1>4 DEF Waiting
  <2> QED
    BY <2>1, <2>2, <2>3, <2>4
<1>15. Once(G, new, d)
  <2>1. \A i \in DOMAIN d : d[i].o \notin Waiting(new)
    BY <1>3, <1>5, <1>6, <1>14 DEF Once
  <2> QED
    BY <1>3, <1>4, <1>14, <2>1 DEF Once
<1>16. YoungerFirst(G, d)
  <2>1. SUFFICES ASSUME NEW i \in DOMAIN d, NEW t \in Contents(G, d[i]) \cap Due(G), t > d[i].o
                 PROVE  \E k \in DOMAIN d : k < i /\ d[k].o = t
    BY DEF YoungerFirst
  <2>2. \A a \in CellsOf(d[i]) : G[a] = H[a]
    BY <1>1, <1>3, <1>4, <1>5 DEF Finished, OneFed
  <2>3. Contents(G, d[i]) = Contents(H, d[i]) /\ Contents(H, d[i]) \subseteq DOMAIN H
    BY <1>5, <2>2, ContentsStay
  <2>4. t \in Due(H)
    BY <1>4, <1>6, <1>14, <2>1, <2>3
  <2> QED
    BY <1>3, <2>1, <2>3, <2>4 DEF YoungerFirst
<1>17. OrderInv(G, new, d)
  BY <1>9, <1>10, <1>11, <1>13, <1>15, <1>16 DEF OrderInv
<1> QED
  BY <1>17 DEF new

\* what a set holds after a step, it held before
LEMMA HeldBefore ==
  ASSUME NEW H, HeapInv(H), NEW G, NEW f, NEW dt2, OneFed(H, G, f, dt2), 0 \notin dt2,
         NEW S, S \ {0} \subseteq DOMAIN H, NEW S2, dt2 \subseteq S2, S \subseteq S2,
         NEW C, Holds(G, S2, C)
  PROVE  Holds(H, S, C \cap DOMAIN H)
<1>1. Len(H) \in Nat /\ DOMAIN H = 1..Len(H) /\ Heap(H, Len(H))
  BY HeapBasics DEF HeapInv
<1>2. C \in SUBSET DOMAIN G /\ Closed(G, C) /\ S2 \ {0} \subseteq C /\ dt2 \subseteq C
  BY DEF Holds
<1>3. \A a \in C \cap DOMAIN H : Targets(H, a) \subseteq C
  BY <1>2 DEF OneFed
<1>4. \A a \in DOMAIN H : Targets(H, a) \subseteq DOMAIN H
  BY <1>1, TargetsTyped
<1> QED
  BY <1>2, <1>3, <1>4 DEF Holds, Closed

\* holders are cells
LEMMA ParamsThere ==
  ASSUME NEW H, HeapInv(H), NEW ag, AgendaInv(H, ag), NEW d, CallsInv(H, d), NEW dt, dt \subseteq DOMAIN H
  PROVE  /\ \A p : ({1} \cup dt \cup ParamsFrom(ag, p)) \ {0} \subseteq DOMAIN H
         /\ \A j : LaterParams(d, j) \ {0} \subseteq DOMAIN H
<1>1. DOMAIN H = 1..Len(H) /\ 1 \in DOMAIN H /\ Len(H) \in Nat
  BY HeapBasics DEF HeapInv
<1>2. \A n \in 0..Len(H) : n # 0 => n \in DOMAIN H
  BY <1>1
<1>3. \A i \in DOMAIN ag : Defers(ag[i]) => ag[i].param \in 0..Len(H)
  BY ItemBounds
<1>4. \A i \in DOMAIN d : d[i].param \in 0..Len(H)
  BY DEF CallsInv, CallOK
<1>5. \A p : ParamsFrom(ag, p) \ {0} \subseteq DOMAIN H
  BY <1>2, <1>3 DEF ParamsFrom
<1>6. \A j : LaterParams(d, j) \ {0} \subseteq DOMAIN H
  BY <1>2, <1>4 DEF LaterParams
<1> QED
  BY <1>1, <1>5, <1>6

LEMMA HeldKept ==
  ASSUME NEW H, HeapInv(H), NEW G, HeapInv(G), NEW ag, ag # << >>, AgendaInv(H, ag),
         NEW items \in Seq(ItemT), NEW d, CallsInv(H, d),
         NEW dt, NEW dt2, dt \subseteq dt2, dt \subseteq DOMAIN H, dt2 \subseteq DOMAIN G,
         StepIs(H, G, ag, items, dt2), HeldInv(H, ag, d, dt)
  PROVE  HeldInv(G, items \o Tail(ag), d, dt2)
<1> DEFINE new == items \o Tail(ag)
           f == Fed(Head(ag))
<1>1. /\ ag \in Seq(ItemT) /\ Head(ag) = ag[1] /\ 1 \in DOMAIN ag
      /\ Len(items) \in Nat /\ DOMAIN items = 1..Len(items) /\ DOMAIN ag \subseteq Nat
      /\ \A j \in DOMAIN ag : j # 1 => j >= 2
  BY DEF AgendaInv
<1>2. /\ \A k \in DOMAIN new : \/ k \in DOMAIN items /\ new[k] = items[k]
                               \/ \E j \in DOMAIN ag : j >= 2 /\ k = Len(items) + j - 1 /\ new[k] = ag[j]
      /\ \A i \in DOMAIN items : i \in DOMAIN new /\ new[i] = items[i]
      /\ \A j \in DOMAIN ag : j >= 2 => /\ Len(items) + j - 1 \in DOMAIN new
                                        /\ new[Len(items) + j - 1] = ag[j]
  BY <1>1, CatTail
<1> HIDE DEF new
<1>3. FedHeld(H, ag, dt) /\ CallsHeld(H, ag, d, dt)
  BY DEF HeldInv
<1>4. /\ Feeds(ag[1]) /\ ~Defers(ag[1]) /\ f = Fed(ag[1]) /\ OneFed(H, G, f, dt2)
      /\ \A i \in DOMAIN items : Defers(items[i]) => items[i].o = Len(H) + 1 /\ ParamOK(G, items[i])
      /\ \A i \in DOMAIN items : Feeds(items[i]) =>
            \/ Fed(items[i]) = f
            \/ Fed(items[i]) = Len(H) + 1
            \/ \E j \in DOMAIN items : /\ j > i /\ Defers(items[j]) /\ items[j].param # 0
                                       /\ Fed(items[i]) = items[j].param + 1
      /\ \/ \A i \in DOMAIN items : Feeds(items[i]) /\ Fed(items[i]) = f
         \/ Leads(G, f, Len(H) + 1)
  BY <1>1, ItemBounds DEF StepIs
<1> HIDE DEF f
<1>5. 0 \notin dt2
  BY HeapBasics
<1>6. /\ \A p : ({1} \cup dt \cup ParamsFrom(ag, p)) \ {0} \subseteq DOMAIN H
      /\ \A j : LaterParams(d, j) \ {0} \subseteq DOMAIN H
  BY ParamsThere
\* the parameters of the items outside are still those
<1>7. /\ \A k \in DOMAIN items : ParamsFrom(ag, 1) \subseteq ParamsFrom(new, k)
      /\ \A j \in DOMAIN ag : j >= 2 => ParamsFrom(ag, j) \subseteq ParamsFrom(new, Len(items) + j - 1)
      /\ ParamsFrom(ag, 1) \subseteq ParamsFrom(new, 1)
  <2>1. ASSUME NEW j \in DOMAIN ag, NEW k, NEW i \in DOMAIN ag, i >= j, Defers(ag[i]),
               k \in Nat, k <= Len(items) + j - 1 \/ k <= Len(items) + 1
        PROVE  ag[i].param \in ParamsFrom(new, k)
    <3>1. i >= 2
      BY <1>1, <1>4, <2>1
    <3>2. Len(items) + i - 1 >= k
      BY SMTT(30), <1>1, <2>1, <3>1
    <3> QED
      BY <1>2, <2>1, <3>1, <3>2 DEF ParamsFrom
  <2>2. ASSUME NEW j \in DOMAIN ag, j >= 2
        PROVE  ParamsFrom(ag, j) \subseteq ParamsFrom(new, Len(items) + j - 1)
    <3>1. Len(items) + j - 1 \in Nat /\ Len(items) + j - 1 <= Len(items) + j - 1
      BY <1>1, <2>2
    <3>2. \A i \in DOMAIN ag : i >= j /\ Defers(ag[i]) => ag[i].param \in ParamsFrom(new, Len(items) + j - 1)
      BY <2>1, <3>1
    <3> QED
      BY <3>2 DEF ParamsFrom
  <2>3. ASSUME NEW k \in Nat, k <= Len(items) + 1
        PROVE  ParamsFrom(ag, 1) \subseteq ParamsFrom(new, k)
    <3>1. \A i \in DOMAIN ag : i >= 1 /\ Defers(ag[i]) => ag[i].param \in ParamsFrom(new, k)
      BY <1>1, <2>1, <2>3
    <3> QED
      BY <3>1 DEF ParamsFrom
  <2>4. \A k \in DOMAIN items : k \in Nat /\ k <= Len(items) + 1
    BY <1>1
  <2>5. 1 \in Nat /\ 1 <= Len(items) + 1
    BY <1>1
  <2> QED
    BY <2>2, <2>3, <2>4, <2>5
<1>8. FedHeld(G, new, dt2)
  <2>1. SUFFICES ASSUME NEW k \in DOMAIN new, NEW C, Holds(G, {1} \cup dt2 \cup ParamsFrom(new, k), C)
                 PROVE  /\ Feeds(new[k]) => Fed(new[k]) \in C
                        /\ Defers(new[k]) => new[k].o \in C
    BY DEF FedHeld
  <2> DEFINE D == C \cap DOMAIN H
  <2>2. ASSUME NEW j \in DOMAIN ag, ParamsFrom(ag, j) \subseteq ParamsFrom(new, k)
        PROVE  Holds(H, {1} \cup dt \cup ParamsFrom(ag, j), D)
    <3> DEFINE S == {1} \cup dt \cup ParamsFrom(ag, j)
               S2 == {1} \cup dt2 \cup ParamsFrom(new, k)
    <3>1. S \ {0} \subseteq DOMAIN H /\ dt2 \subseteq S2 /\ S \subseteq S2 /\ Holds(G, S2, C)
      BY <1>6, <2>1, <2>2
    <3> HIDE DEF S, S2
    <3>2. Holds(H, S, D)
      BY <1>4, <1>5, <3>1, HeldBefore
    <3> QED
      BY <3>2 DEF S
  <2>3. CASE k \in DOMAIN items /\ new[k] = items[k]
    <3>1. f \in C
      BY <1>1, <1>3, <1>4, <1>7, <2>2, <2>3 DEF FedHeld
    <3>2. C \in SUBSET DOMAIN G /\ Closed(G, C)
      BY <2>1 DEF Holds
    <3>3. ASSUME NEW j \in DOMAIN items, j >= k, Defers(items[j]), items[j].param # 0
          PROVE  items[j].param + 1 \in C
      <4>1. items[j].param \in ParamsFrom(new, k)
        BY <1>2, <3>3 DEF ParamsFrom
      <4>2. items[j].param \in C
        BY <2>1, <3>3, <4>1 DEF Holds
      <4>3. /\ items[j].param \in DOMAIN G /\ 1 \in DOMAIN G[items[j].param].elems
            /\ G[items[j].param].elems[1].v = Arr(items[j].param + 1)
        BY <1>4, <3>3 DEF ParamOK
      <4>4. Arr(items[j].param + 1).t \in Counted /\ Arr(items[j].param + 1).v = items[j].param + 1
        BY DEF Arr, Counted
      <4>5. items[j].param + 1 \in Targets(G, items[j].param)
        BY <4>3, <4>4, PointsTo
      <4> QED
        BY <3>2, <4>2, <4>5 DEF Closed
    <3>4. CASE \A i \in DOMAIN items : Feeds(items[i]) /\ Fed(items[i]) = f
      BY <2>3, <3>1, <3>4 DEF Feeds, Defers
    <3>5. CASE Leads(G, f, Len(H) + 1)
      <4>1. Len(H) + 1 \in C
        BY <3>1, <3>2, <3>5 DEF Leads
      <4>2. \A j \in DOMAIN items : j > k => j >= k
        BY <1>1, <2>3
      <4> QED
        BY <1>4, <2>3, <3>1, <3>3, <4>1, <4>2
    <3> QED
      BY <1>4, <3>4, <3>5
  <2>4. CASE \E j \in DOMAIN ag : j >= 2 /\ k = Len(items) + j - 1 /\ new[k] = ag[j]
    <3>1. PICK j \in DOMAIN ag : j >= 2 /\ k = Len(items) + j - 1 /\ new[k] = ag[j]
      BY <2>4
    <3>2. Holds(H, {1} \cup dt \cup ParamsFrom(ag, j), D)
      BY <1>7, <2>2, <3>1
    <3> QED
      BY <1>3, <3>1, <3>2 DEF FedHeld
  <2> QED
    BY <1>2, <2>3, <2>4
<1>9. CallsHeld(G, new, d, dt2)
  <2>1. SUFFICES ASSUME NEW j \in DOMAIN d,
                        NEW C, Holds(G, {1} \cup dt2 \cup ParamsFrom(new, 1) \cup LaterParams(d, j), C)
                 PROVE  d[j].o \in C
    BY DEF CallsHeld
  <2> DEFINE S == {1} \cup dt \cup ParamsFrom(ag, 1) \cup LaterParams(d, j)
             S2 == {1} \cup dt2 \cup ParamsFrom(new, 1) \cup LaterParams(d, j)
  <2>2. S \ {0} \subseteq DOMAIN H
    BY <1>6
  <2>3. dt2 \subseteq S2 /\ S \subseteq S2 /\ Holds(G, S2, C)
    BY <1>7, <2>1
  <2> HIDE DEF S, S2
  <2>4. Holds(H, S, C \cap DOMAIN H)
    BY <1>4, <1>5, <2>2, <2>3, HeldBefore
  <2> QED
    BY <1>3, <2>4 DEF CallsHeld, S
<1> QED
  BY <1>8, <1>9 DEF HeldInv, new

(***************************************************************************)
(* An object's call is deferred: all of its contents that are younger have *)
(* been, since the objects that still wait are older.                      *)
(***************************************************************************)
CallOf(i) == [o |-> i.o, param |-> i.param]

LEMMA DeferShape ==
  ASSUME NEW H, NEW ag, ag # << >>, AgendaInv(H, ag), NEW d, CallsInv(H, d), NEW c
  PROVE  /\ \A i \in DOMAIN Tail(ag) : i \in Nat /\ i >= 1 /\ i + 1 \in DOMAIN ag /\ Tail(ag)[i] = ag[i + 1]
         /\ \A i \in DOMAIN ag : i \in Nat /\ (i # 1 => /\ i > 1 /\ i - 1 \in DOMAIN Tail(ag)
                                                        /\ Tail(ag)[i - 1] = ag[i])
         /\ 1 \in DOMAIN ag /\ Head(ag) = ag[1]
         /\ \A i \in DOMAIN Append(d, c) : \/ i \in DOMAIN d /\ Append(d, c)[i] = d[i]
                                           \/ i = Len(d) + 1 /\ Append(d, c)[i] = c
         /\ \A i \in DOMAIN d : i \in DOMAIN Append(d, c) /\ Append(d, c)[i] = d[i] /\ i < Len(d) + 1
         /\ Len(d) + 1 \in DOMAIN Append(d, c) /\ Append(d, c)[Len(d) + 1] = c
<1>1. ag \in Seq(ItemT) /\ d \in Seq(CallT)
  BY DEF AgendaInv, CallsInv
<1>2. /\ DOMAIN Tail(ag) = 1..(Len(ag) - 1) /\ \A i \in 1..(Len(ag) - 1) : Tail(ag)[i] = ag[i + 1]
      /\ DOMAIN ag = 1..Len(ag) /\ Len(ag) \in Nat /\ Len(ag) >= 1
  BY <1>1
<1>3. Head(ag) = ag[1] /\ 1 \in DOMAIN ag
  BY <1>1, <1>2
<1>4. /\ DOMAIN d = 1..Len(d) /\ Len(d) \in Nat /\ DOMAIN Append(d, c) = 1..(Len(d) + 1)
      /\ \A i \in 1..Len(d) : Append(d, c)[i] = d[i]
      /\ Append(d, c)[Len(d) + 1] = c
  BY <1>1
<1> QED
  BY <1>2, <1>3, <1>4

LEMMA DeferOrder ==
  ASSUME NEW H, HeapInv(H), NEW ag, ag # << >>, AgendaInv(H, ag), NEW d, CallsInv(H, d),
         Defers(Head(ag)), OrderInv(H, ag, d)
  PROVE  OrderInv(H, Tail(ag), Append(d, CallOf(Head(ag))))
<1> DEFINE c == CallOf(Head(ag))
           e == Append(d, c)
           rest == Tail(ag)
<1>1. /\ \A i \in DOMAIN rest : i \in Nat /\ i >= 1 /\ i + 1 \in DOMAIN ag /\ rest[i] = ag[i + 1]
      /\ \A i \in DOMAIN ag : i \in Nat /\ (i # 1 => i > 1 /\ i - 1 \in DOMAIN rest /\ rest[i - 1] = ag[i])
      /\ 1 \in DOMAIN ag /\ Head(ag) = ag[1]
      /\ \A i \in DOMAIN e : \/ i \in DOMAIN d /\ e[i] = d[i]
                             \/ i = Len(d) + 1 /\ e[i] = c
      /\ \A i \in DOMAIN d : i \in DOMAIN e /\ e[i] = d[i] /\ i < Len(d) + 1
      /\ Len(d) + 1 \in DOMAIN e /\ e[Len(d) + 1] = c
  BY DeferShape
<1>2. c.o = ag[1].o /\ c.param = ag[1].param /\ Defers(ag[1])
  BY <1>1 DEF CallOf
<1> HIDE DEF c, e, rest
<1>3. /\ Finished(ag, d) /\ Nested(ag) /\ HoldersApart(ag)
      /\ ParamsOK(H, ag, d) /\ Once(H, ag, d) /\ YoungerFirst(H, d)
  BY DEF OrderInv
<1>4. /\ DOMAIN H = 1..Len(H) /\ Len(H) \in Nat
      /\ \A j \in DOMAIN ag : /\ Feeds(ag[j]) => Fed(ag[j]) \in DOMAIN H
                              /\ Defers(ag[j]) => ag[j].o \in DOMAIN H /\ ag[j].param \in 0..Len(H)
  BY HeapBasics, ItemBounds
<1>5. ParamOK(H, c)
  BY <1>1, <1>2, <1>3 DEF ParamsOK, ParamOK
\* what is outside is older
<1>6. \A i \in DOMAIN rest : /\ Feeds(rest[i]) => Fed(rest[i]) < c.o /\ Fed(rest[i]) \in DOMAIN H
                             /\ Defers(rest[i]) => rest[i].o < c.o /\ rest[i].o \in DOMAIN H
  <2>1. SUFFICES ASSUME NEW i \in DOMAIN rest
                 PROVE  /\ Feeds(ag[i + 1]) => Fed(ag[i + 1]) < ag[1].o
                        /\ Defers(ag[i + 1]) => ag[i + 1].o < ag[1].o
    BY <1>1, <1>2, <1>4
  <2>2. i + 1 \in DOMAIN ag /\ 1 < i + 1
    BY <1>1
  <2> QED
    BY <1>1, <1>2, <1>3, <2>2 DEF Nested
<1>7. c.o \in DOMAIN H /\ c.param \in 0..Len(H)
  BY <1>1, <1>2, <1>4
<1>8. Finished(rest, e)
  <2>1. SUFFICES ASSUME NEW i \in DOMAIN rest, NEW j \in DOMAIN e, Feeds(rest[i])
                 PROVE  Fed(rest[i]) \notin CellsOf(e[j])
    BY DEF Finished
  <2>2. CASE j \in DOMAIN d /\ e[j] = d[j]
    BY <1>1, <1>3, <2>1, <2>2 DEF Finished
  <2>3. CASE e[j] = c
    <3>1. Fed(rest[i]) < c.o /\ Fed(rest[i]) \in Nat /\ c.o \in Nat /\ c.param \in Nat
      BY <1>4, <1>6, <1>7, <2>1
    <3>2. c.param # 0 => c.param > c.o
      BY <1>5 DEF ParamOK
    <3> QED
      BY <2>3, <3>1, <3>2 DEF CellsOf
  <2> QED
    BY <1>1, <2>2, <2>3
<1>9. Nested(rest)
  <2>1. SUFFICES ASSUME NEW i \in DOMAIN rest, NEW j \in DOMAIN rest, i < j, Defers(rest[i])
                 PROVE  /\ Feeds(rest[j]) => Fed(rest[j]) < rest[i].o
                        /\ Defers(rest[j]) => rest[j].o < rest[i].o
    BY DEF Nested
  <2>2. i + 1 \in DOMAIN ag /\ j + 1 \in DOMAIN ag /\ i + 1 < j + 1 /\ rest[i] = ag[i + 1] /\ rest[j] = ag[j + 1]
    BY <1>1, <2>1
  <2> QED
    BY <1>3, <2>1, <2>2 DEF Nested
<1>10. HoldersApart(rest)
  BY <1>1, <1>3 DEF HoldersApart
<1>11. ParamsOK(H, rest, e)
  <2>1. \A i \in DOMAIN e : ParamOK(H, e[i])
    BY <1>1, <1>3, <1>5 DEF ParamsOK
  <2> QED
    BY <1>1, <1>3, <2>1 DEF ParamsOK
<1>12. Waiting(ag) = {c.o} \cup Waiting(rest)
  <2>1. ASSUME NEW o \in Waiting(ag), o # c.o PROVE o \in Waiting(rest)
    <3>1. PICK j \in DOMAIN ag : Defers(ag[j]) /\ ag[j].o = o
      BY <2>1 DEF Waiting
    <3>2. j - 1 \in DOMAIN rest /\ rest[j - 1] = ag[j]
      BY <1>1, <1>2, <2>1, <3>1
    <3> QED
      BY <3>1, <3>2 DEF Waiting
  <2>2. ASSUME NEW o \in Waiting(rest) PROVE o \in Waiting(ag)
    <3>1. PICK j \in DOMAIN rest : Defers(rest[j]) /\ rest[j].o = o
      BY <2>2 DEF Waiting
    <3> QED
      BY <1>1, <3>1 DEF Waiting
  <2>3. c.o \in Waiting(ag)
    BY <1>1, <1>2 DEF Waiting
  <2> QED
    BY <2>1, <2>2, <2>3
<1>13. \A o \in Waiting(rest) : o < c.o /\ o \in DOMAIN H
  BY <1>6 DEF Waiting
<1>14. Once(H, rest, e)
  <2>1. c.o \notin Waiting(rest)
    BY <1>4, <1>7, <1>13
  <2>2. \A i \in DOMAIN d : d[i].o # c.o /\ d[i].o \notin Waiting(rest)
    BY <1>3, <1>12 DEF Once
  <2>3. {e[i].o : i \in DOMAIN e} = {d[i].o : i \in DOMAIN d} \cup {c.o}
    BY <1>1
  <2>4. \A i, j \in DOMAIN e : e[i].o = e[j].o => i = j
    BY <1>1, <1>3, <2>2 DEF Once
  <2>5. \A i \in DOMAIN e : e[i].o \notin Waiting(rest)
    BY <1>1, <2>1, <2>2
  <2> QED
    BY <1>3, <1>12, <2>3, <2>4, <2>5 DEF Once
<1>15. YoungerFirst(H, e)
  <2>1. SUFFICES ASSUME NEW i \in DOMAIN e, NEW t \in Contents(H, e[i]) \cap Due(H), t > e[i].o
                 PROVE  \E k \in DOMAIN e : k < i /\ e[k].o = t
    BY DEF YoungerFirst
  <2>2. CASE i \in DOMAIN d /\ e[i] = d[i]
    <3>1. PICK k \in DOMAIN d : k < i /\ d[k].o = t
      BY <1>3, <2>1, <2>2 DEF YoungerFirst
    <3> QED
      BY <1>1, <3>1
  <2>3. CASE i = Len(d) + 1 /\ e[i] = c
    <3>1. t \in {d[k].o : k \in DOMAIN d} \cup Waiting(ag)
      BY <1>3, <2>1 DEF Once
    <3>2. t \notin Waiting(ag)
      BY <1>4, <1>7, <1>12, <1>13, <2>1, <2>3
    <3>3. PICK k \in DOMAIN d : d[k].o = t
      BY <3>1, <3>2
    <3> QED
      BY <1>1, <2>3, <3>3
  <2> QED
    BY <1>1, <2>2, <2>3
<1>16. OrderInv(H, rest, e)
  BY <1>8, <1>9, <1>10, <1>11, <1>14, <1>15 DEF OrderInv
<1> QED
  BY <1>16 DEF c, e, rest

LEMMA DeferHeld ==
  ASSUME NEW H, HeapInv(H), NEW ag, ag # << >>, AgendaInv(H, ag), NEW d, CallsInv(H, d),
         Defers(Head(ag)), NEW dt, HeldInv(H, ag, d, dt)
  PROVE  HeldInv(H, Tail(ag), Append(d, CallOf(Head(ag))), dt)
<1> DEFINE c == CallOf(Head(ag))
           e == Append(d, c)
           rest == Tail(ag)
<1>1. /\ \A i \in DOMAIN rest : i \in Nat /\ i >= 1 /\ i + 1 \in DOMAIN ag /\ rest[i] = ag[i + 1]
      /\ \A i \in DOMAIN ag : i \in Nat /\ (i # 1 => i > 1 /\ i - 1 \in DOMAIN rest /\ rest[i - 1] = ag[i])
      /\ 1 \in DOMAIN ag /\ Head(ag) = ag[1]
      /\ \A i \in DOMAIN e : \/ i \in DOMAIN d /\ e[i] = d[i]
                             \/ i = Len(d) + 1 /\ e[i] = c
      /\ \A i \in DOMAIN d : i \in DOMAIN e /\ e[i] = d[i] /\ i < Len(d) + 1
      /\ Len(d) + 1 \in DOMAIN e /\ e[Len(d) + 1] = c
  BY DeferShape
<1>2. c.o = ag[1].o /\ c.param = ag[1].param /\ Defers(ag[1])
  BY <1>1 DEF CallOf
<1>3. DOMAIN d \subseteq Nat /\ Len(d) + 1 \in Nat
  BY DEF CallsInv
<1> HIDE DEF c, e, rest
<1>4. FedHeld(H, ag, dt) /\ CallsHeld(H, ag, d, dt)
  BY DEF HeldInv
<1>5. \A p \in DOMAIN rest : ParamsFrom(ag, p + 1) \subseteq ParamsFrom(rest, p)
  <2>1. SUFFICES ASSUME NEW p \in DOMAIN rest, NEW i \in DOMAIN ag, i >= p + 1, Defers(ag[i])
                 PROVE  ag[i].param \in ParamsFrom(rest, p)
    BY DEF ParamsFrom
  <2>2. i - 1 \in DOMAIN rest /\ rest[i - 1] = ag[i] /\ i - 1 >= p
    BY <1>1, <2>1
  <2> QED
    BY <2>1, <2>2 DEF ParamsFrom
<1>6. ParamsFrom(ag, 1) \subseteq ParamsFrom(rest, 1) \cup {c.param}
  <2>1. SUFFICES ASSUME NEW i \in DOMAIN ag, Defers(ag[i])
                 PROVE  ag[i].param \in ParamsFrom(rest, 1) \cup {c.param}
    BY DEF ParamsFrom
  <2>2. CASE i = 1
    BY <1>2, <2>2
  <2>3. CASE i # 1
    BY <1>1, <2>1, <2>3 DEF ParamsFrom
  <2> QED
    BY <2>2, <2>3
<1>7. FedHeld(H, rest, dt)
  <2>1. SUFFICES ASSUME NEW p \in DOMAIN rest, NEW C, Holds(H, {1} \cup dt \cup ParamsFrom(rest, p), C)
                 PROVE  /\ Feeds(rest[p]) => Fed(rest[p]) \in C
                        /\ Defers(rest[p]) => rest[p].o \in C
    BY DEF FedHeld
  <2>2. Holds(H, {1} \cup dt \cup ParamsFrom(ag, p + 1), C)
    BY <1>5, <2>1 DEF Holds
  <2> QED
    BY <1>1, <1>4, <2>2 DEF FedHeld
<1>8. CallsHeld(H, rest, e, dt)
  <2>1. SUFFICES ASSUME NEW j \in DOMAIN e,
                        NEW C, Holds(H, {1} \cup dt \cup ParamsFrom(rest, 1) \cup LaterParams(e, j), C)
                 PROVE  e[j].o \in C
    BY DEF CallsHeld
  <2>2. j <= Len(d) + 1
    BY <1>1, <1>3
  <2>3. c.param \in LaterParams(e, j)
    BY <1>1, <2>2 DEF LaterParams
  <2>4. CASE j \in DOMAIN d /\ e[j] = d[j]
    <3>1. LaterParams(d, j) \subseteq LaterParams(e, j)
      BY <1>1 DEF LaterParams
    <3>2. Holds(H, {1} \cup dt \cup ParamsFrom(ag, 1) \cup LaterParams(d, j), C)
      BY <1>6, <2>1, <2>3, <3>1 DEF Holds
    <3> QED
      BY <1>4, <2>4, <3>2 DEF CallsHeld
  <2>5. CASE e[j] = c
    <3>1. Holds(H, {1} \cup dt \cup ParamsFrom(ag, 1), C)
      BY <1>6, <2>1, <2>3 DEF Holds
    <3> QED
      BY <1>1, <1>2, <1>4, <2>5, <3>1 DEF FedHeld
  <2> QED
    BY <1>1, <2>4, <2>5
<1>9. HeldInv(H, rest, e, dt)
  BY <1>7, <1>8 DEF HeldInv
<1> QED
  BY <1>9 DEF c, e, rest

(***************************************************************************)
(* Something is taken out of a cell that holds no parameter, by user code  *)
(* in a call or by a caller that releases the result.                      *)
(***************************************************************************)
LEMMA UnsetOrder ==
  ASSUME NEW H, HeapInv(H), NEW d, CallsInv(H, d), NEW s, SlotOK(H, s),
         s[1] = 1 \/ H[s[1]].kind # "hold", NEW z \in {Null, Undef}, OrderInv(H, << >>, d)
  PROVE  OrderInv(Put(H, s, z), << >>, d)
<1> DEFINE G == Put(H, s, z)
<1>1. Len(H) \in Nat /\ DOMAIN H = 1..Len(H) /\ Heap(H, Len(H))
  BY HeapBasics DEF HeapInv
<1>2. /\ DOMAIN G = DOMAIN H
      /\ \A a \in DOMAIN H : /\ G[a].kind = H[a].kind /\ G[a].cls = H[a].cls
                             /\ a # s[1] => G[a] = H[a]
                             /\ DOMAIN G[a].elems = DOMAIN H[a].elems
                             /\ \A i \in DOMAIN H[a].elems :
                                   G[a].elems[i].v = IF a = s[1] /\ i = s[2] THEN z ELSE H[a].elems[i].v
  BY <1>1, PutFacts
<1> HIDE DEF G
<1>3. ParamsOK(H, << >>, d) /\ Once(H, << >>, d) /\ YoungerFirst(H, d)
  BY DEF OrderInv
<1>4. \A i \in DOMAIN d : /\ d[i].o \in DOMAIN H /\ d[i].param \in 0..Len(H)
                          /\ CellsOf(d[i]) \subseteq DOMAIN H /\ ParamOK(H, d[i])
  BY <1>3, CallBounds
<1>5. \A i \in DOMAIN d : d[i].param # 0 => /\ G[d[i].param] = H[d[i].param] /\ d[i].param \in DOMAIN H
                                            /\ d[i].param + 1 \in DOMAIN H
  <2>1. SUFFICES ASSUME NEW i \in DOMAIN d, d[i].param # 0
                 PROVE  d[i].param # s[1] /\ d[i].param \in DOMAIN H /\ d[i].param + 1 \in DOMAIN H
    BY <1>2
  <2> QED
    BY <1>1, <1>4, <2>1 DEF ParamOK
<1>6. \A a \in DOMAIN H : Targets(G, a) \subseteq Targets(H, a)
  <2>1. SUFFICES ASSUME NEW a \in DOMAIN H, NEW b \in Targets(G, a) PROVE b \in Targets(H, a)
    OBVIOUS
  <2>2. PICK i \in DOMAIN G[a].elems : G[a].elems[i].v.t \in Counted /\ G[a].elems[i].v.v = b
    BY TargetOf
  <2>3. z.t \notin Counted
    BY DEF Null, Undef, Counted
  <2>4. i \in DOMAIN H[a].elems /\ G[a].elems[i].v = H[a].elems[i].v
    BY <1>2, <2>2, <2>3
  <2> QED
    BY <2>2, <2>4, PointsTo
<1>7. Due(G) = Due(H)
  BY <1>2 DEF Due, HasCall
<1>8. \A i \in DOMAIN d : Contents(G, d[i]) \subseteq Contents(H, d[i])
  <2>1. SUFFICES ASSUME NEW i \in DOMAIN d PROVE Contents(G, d[i]) \subseteq Contents(H, d[i])
    OBVIOUS
  <2>2. CASE d[i].param = 0
    BY <1>4, <1>6, <2>2 DEF Contents
  <2>3. CASE d[i].param # 0
    <3>1. G[d[i].param].elems[1].v.v = H[d[i].param].elems[1].v.v /\ H[d[i].param].elems[1].v.v \in DOMAIN H
      <4>1. H[d[i].param].elems[1].v = Arr(d[i].param + 1) /\ d[i].param + 1 \in DOMAIN H
        BY <1>4, <2>3 DEF ParamOK
      <4>2. Arr(d[i].param + 1).v = d[i].param + 1
        BY DEF Arr
      <4> QED
        BY <1>5, <2>3, <4>1, <4>2
    <3> QED
      BY <1>4, <1>6, <2>3, <3>1 DEF Contents
  <2> QED
    BY <2>2, <2>3
<1>9. ParamsOK(G, << >>, d)
  BY <1>2, <1>4, <1>5 DEF ParamsOK, ParamOK
<1>10. Once(G, << >>, d)
  BY <1>3, <1>7 DEF Once
<1>11. YoungerFirst(G, d)
  BY <1>3, <1>7, <1>8 DEF YoungerFirst
<1>12. Finished(<< >>, d) /\ Nested(<< >>) /\ HoldersApart(<< >>)
  BY DEF Finished, Nested, HoldersApart
<1>13. OrderInv(G, << >>, d)
  BY <1>9, <1>10, <1>11, <1>12 DEF OrderInv
<1> QED
  BY <1>13 DEF G

(***************************************************************************)
(* Each action of reading is such a step.                                  *)
(***************************************************************************)
Stepped == \E items \in Seq(ItemT) : Do(items) /\ StepIs(out, out', agenda, items, dtors')

\* nothing new that is fed, and no new call
LEMMA PlainStep ==
  ASSUME NEW H, NEW G, NEW ag, NEW dt2, NEW items, Feeds(Head(ag)), OneFed(H, G, Fed(Head(ag)), dt2),
         Due(G) = Due(H), \A i \in DOMAIN items : Feeds(items[i]) /\ Fed(items[i]) = Fed(Head(ag))
  PROVE  StepIs(H, G, ag, items, dt2)
<1>1. \A i \in DOMAIN items : ~Defers(items[i])
  BY DEF Feeds, Defers
<1>2. Waiting(items) = {}
  BY <1>1 DEF Waiting
<1> QED
  BY <1>1, <1>2 DEF StepIs

LEMMA ZvalFeeds ==
  ASSUME At("zval")
  PROVE  Feeds(Head(agenda)) /\ Fed(Head(agenda)) = Top.slot[1]
BY DEF At, Feeds, Fed, Top

LEMMA FillFeeds ==
  ASSUME At("fill")
  PROVE  Feeds(Head(agenda)) /\ Fed(Head(agenda)) = Top.h
BY DEF At, Feeds, Fed, Top

\* a value that is no new cell is put into the slot
LEMMA PutStep ==
  ASSUME Inv, At("zval"), NEW z, out' = Put(out, Top.slot, z), Do(<< >>), dtors' = dtors
  PROVE  Stepped
<1>1. SlotOK(out, Top.slot) /\ Dropped(out, Top.slot, dtors) /\ HeapInv(out)
  BY ZvalFacts DEF Inv
<1>2. DOMAIN out' = DOMAIN out
  <2>1. Len(out) \in Nat /\ Heap(out, Len(out))
    BY <1>1, HeapBasics DEF HeapInv
  <2> QED
    BY <2>1, <1>1, PutFacts
<1>3. Renewed(out, out', Top.slot, z)
  BY <1>2 DEF Renewed
<1>4. OneFed(out, out', Top.slot[1], dtors)
  BY <1>1, <1>3, PutKept
<1>5. Due(out') = Due(out)
  BY <1>2, <1>4, DueSame
<1> DEFINE none == << >>
<1>6. none \in Seq(ItemT) /\ DOMAIN none = {} /\ Do(none)
  OBVIOUS
<1> HIDE DEF none
<1>7. StepIs(out, out', agenda, none, dtors')
  BY <1>4, <1>5, <1>6, ZvalFeeds, PlainStep
<1> QED
  BY <1>6, <1>7 DEF Stepped

LEMMA ReadScalarStep == ASSUME Inv, ReadScalar PROVE Stepped
BY PutStep DEF ReadScalar, AtToken

LEMMA ShareReferenceStep == ASSUME Inv, ShareReference PROVE Stepped
BY PutStep DEF ShareReference, AtBackRef, AtToken

\* the heap stays as it is
LEMMA SameStep ==
  ASSUME Inv, result = "reading", NEW items \in Seq(ItemT), Do(items), out' = out, Feeds(Head(agenda)),
         \A i \in DOMAIN items : Feeds(items[i]) /\ Fed(items[i]) = Fed(Head(agenda))
  PROVE  Stepped
<1>1. OneFed(out, out, Fed(Head(agenda)), dtors')
  BY NoneFed DEF Inv
<1>2. StepIs(out, out, agenda, items, dtors')
  BY <1>1, PlainStep
<1> QED
  BY <1>2 DEF Stepped

LEMMA ReadReferenceStep == ASSUME Inv, ReadReference PROVE Stepped
<1>1. At("zval") /\ More /\ out' = out /\ Do(<< Read(Top.slot, TRUE), Wrap(Top.slot, T.src) >>)
  BY DEF ReadReference, AtToken
<1>2. result = "reading" /\ Top.slot \in Slots /\ InputInv /\ dstrings \in Seq(Str)
  BY <1>1, ZvalFacts DEF Inv
<1>3. T.src \in Srcs
  BY <1>1, <1>2, AtPos, TokFacts
<1> DEFINE x == Read(Top.slot, TRUE)
           y == Wrap(Top.slot, T.src)
           items == << x, y >>
<1>4. x \in ItemT /\ y \in ItemT
  BY <1>2, <1>3, ItemsFit
<1>5. Feeds(x) /\ Fed(x) = Top.slot[1] /\ Feeds(y) /\ Fed(y) = Top.slot[1]
  BY DEF Read, Wrap, Feeds, Fed
<1>6. Do(items)
  BY <1>1
<1> HIDE DEF x, y
<1>7. items \in Seq(ItemT) /\ DOMAIN items = {1, 2} /\ items[1] = x /\ items[2] = y
  BY <1>4
<1> HIDE DEF items
<1> QED
  BY <1>1, <1>2, <1>5, <1>6, <1>7, ZvalFeeds, SameStep

LEMMA SkipKeylessStep == ASSUME Inv, SkipKeyless PROVE Stepped
<1>1. At("fill") /\ out' = out /\ Do(<< OneLess >>)
  BY DEF SkipKeyless, AtKey
<1>2. result = "reading" /\ OneLess \in ItemT /\ Feeds(OneLess) /\ Fed(OneLess) = Top.h
  BY <1>1, FillFacts DEF Feeds, Fed
<1> DEFINE items == << OneLess >>
<1>3. items \in Seq(ItemT) /\ \A i \in DOMAIN items : items[i] = OneLess
  BY <1>2
<1>4. Do(items)
  BY <1>1
<1> HIDE DEF items
<1> QED
  BY <1>1, <1>2, <1>3, <1>4, FillFeeds, SameStep

LEMMA EndFillStep == ASSUME Inv, EndFill PROVE Stepped
<1>1. At("fill") /\ result = "reading" /\ out' = out /\ Do(<< >>)
  BY DEF EndFill, At
<1> DEFINE none == << >>
<1>2. none \in Seq(ItemT) /\ DOMAIN none = {} /\ Do(none)
  BY <1>1
<1> HIDE DEF none
<1> QED
  BY <1>1, <1>2, FillFeeds, SameStep

LEMMA WrapReferenceStep == ASSUME Inv, WrapReference PROVE Stepped
<1>1. At("wrap") /\ result = "reading" /\ agenda # << >> /\ Top.op = "wrap" /\ Do(<< >>) /\ dtors' = dtors
  BY DEF WrapReference, At, Top
<1>2. ItemOK(out, Top) /\ HeapInv(out)
  BY <1>1, TopFacts
<1>3. SlotOK(out, Top.slot) /\ Feeds(Head(agenda)) /\ Fed(Head(agenda)) = Top.slot[1]
  BY <1>1, <1>2 DEF ItemOK, Feeds, Fed, Top
<1> DEFINE z == In(out, Top.slot)
           none == << >>
<1>4. none \in Seq(ItemT) /\ DOMAIN none = {} /\ Do(none)
  BY <1>1
<1> HIDE DEF none
<1>5. CASE z.t = "ref"
  <2>1. out' = out
    BY <1>5 DEF WrapReference
  <2> QED
    BY <1>1, <1>3, <1>4, <2>1, SameStep
<1>6. CASE z.t # "ref"
  <2>1. out' = Append(Put(out, Top.slot, Ref(Next1)), RefCell(z, TRUE))
    BY <1>6 DEF WrapReference
  <2>2. z \in Vals(Len(out))
    BY <1>2, <1>3, HeapBasics DEF SlotOK, In
  <2> HIDE DEF z
  <2>3. OneFed(out, out', Top.slot[1], dtors) /\ Due(out') = Due(out)
    BY <2>1, <2>2, <1>2, <1>3, BoxShape DEF z, Next1
  <2>4. StepIs(out, out', agenda, none, dtors')
    BY <2>3, <1>1, <1>3, <1>4, PlainStep
  <2> QED
    BY <2>4, <1>4 DEF Stepped
<1> QED
  BY <1>5, <1>6

\* a loop reads one more value
LEMMA LoopStep ==
  ASSUME Inv, At("fill"), NEW i, NEW s, s = << Top.h, i >>, s \in Slots, Do(<< Read(s, FALSE), OneLess >>),
         OneFed(out, out', Top.h, dtors'), DOMAIN out' = DOMAIN out
  PROVE  Stepped
<1> DEFINE x == Read(s, FALSE)
           items == << x, OneLess >>
<1>1. x \in ItemT /\ Feeds(x) /\ Fed(x) = Top.h
  <2>1. x \in ItemT
    BY ItemsFit
  <2>2. s[1] = Top.h
    OBVIOUS
  <2> QED
    BY <2>1, <2>2 DEF Read, Feeds, Fed
<1>2. OneLess \in ItemT /\ Feeds(OneLess) /\ Fed(OneLess) = Top.h
  BY FillFacts DEF Feeds, Fed
<1>3. Do(items)
  OBVIOUS
<1> HIDE DEF x
<1>4. items \in Seq(ItemT) /\ DOMAIN items = {1, 2} /\ items[1] = x /\ items[2] = OneLess
  BY <1>1, <1>2
<1> HIDE DEF items
<1>5. Due(out') = Due(out)
  BY DueSame
<1>6. \A j \in DOMAIN items : Feeds(items[j]) /\ Fed(items[j]) = Fed(Head(agenda))
  BY <1>1, <1>2, <1>4, FillFeeds
<1>7. StepIs(out, out', agenda, items, dtors')
  BY <1>5, <1>6, FillFeeds, PlainStep
<1> QED
  BY <1>3, <1>4, <1>7 DEF Stepped

LEMMA ReadNewKeyStep == ASSUME Inv, ReadNewKey PROVE Stepped
<1> DEFINE k == KeyIn(Top.h, T)
           n == Len(out[Top.h].elems) + 1
           s == << Top.h, n >>
<1>1. At("fill") /\ AtKey(KeyTags) /\ StringKnown(T) /\ Indexes(Top.h, k) = {}
  BY DEF ReadNewKey, AtKey
<1>2. Top.h \in DOMAIN out /\ Top.h >= 2 /\ HeapInv(out)
  BY <1>1, FillFacts DEF Inv
<1>3. k \in Key
  BY <1>1, KeyFits
<1>4. \A i \in DOMAIN out[Top.h].elems : out[Top.h].elems[i].k # k
  BY <1>1 DEF Indexes
<1>5. out' = AddElem(out, Top.h, Elem(k, Null)) /\ Do(<< Read(s, FALSE), OneLess >>)
  BY DEF ReadNewKey, AddElem
<1> HIDE DEF k
<1>6. HeapInv(out') /\ Len(out') = Len(out) /\ SlotOK(out', s)
  BY <1>2, <1>3, <1>4, <1>5, AddElemOK
<1>7. s \in Slots
  BY <1>6, SlotFits
<1>8. DOMAIN out' = DOMAIN out
  BY <1>2, <1>6, HeapBasics
<1>9. OneFed(out, out', Top.h, dtors')
  BY <1>2, <1>3, <1>4, <1>5, ElemFeeds
<1> HIDE DEF n
<1>10. s = << Top.h, n >>
  OBVIOUS
<1> HIDE DEF s
<1> QED
  BY <1>1, <1>5, <1>7, <1>8, <1>9, <1>10, LoopStep

LEMMA ReadOldKeyStep == ASSUME Inv, ReadOldKey PROVE Stepped
<1>1. At("fill")
  BY DEF ReadOldKey, AtKey
<1>2. Top.h \in DOMAIN out /\ HeapInv(out)
  BY <1>1, FillFacts DEF Inv
<1>3. PICK i \in Indexes(Top.h, KeyIn(Top.h, T)) :
         /\ dtors' = KeepOld(out[Top.h].elems[i].v)
         /\ out' = IF out[Top.h].kind = "obj" THEN Put(out, << Top.h, i >>, Null) ELSE out
         /\ Do(<< Read(<< Top.h, i >>, FALSE), OneLess >>)
  BY DEF ReadOldKey
<1> DEFINE s == << Top.h, i >>
<1>4. SlotOK(out, s) /\ In(out, s) = out[Top.h].elems[i].v /\ s[1] = Top.h /\ s = << Top.h, i >>
  BY <1>2, <1>3 DEF Indexes, SlotOK, In
<1>5. s \in Slots
  BY <1>2, <1>4, SlotFits
<1>6. (out' = Put(out, s, Null) \/ out' = out) /\ Do(<< Read(s, FALSE), OneLess >>) /\ dtors' = KeepOld(In(out, s))
  BY <1>3, <1>4
<1> HIDE DEF s
<1>7. Dropped(out, s, dtors')
  BY <1>6 DEF KeepOld, Dropped
<1>8. OneFed(out, out', Top.h, dtors') /\ DOMAIN out' = DOMAIN out
  <2>1. CASE out' = out
    BY <2>1, <1>2, NoneFed
  <2>2. CASE out' = Put(out, s, Null)
    <3>1. Len(out) \in Nat /\ Heap(out, Len(out))
      BY <1>2, HeapBasics DEF HeapInv
    <3>2. DOMAIN out' = DOMAIN out
      BY <2>2, <3>1, <1>4, PutFacts
    <3>3. Renewed(out, out', s, Null)
      BY <2>2, <3>2 DEF Renewed
    <3> QED
      BY <3>2, <3>3, <1>2, <1>4, <1>7, PutKept
  <2> QED
    BY <2>1, <2>2, <1>6
<1> QED
  BY <1>1, <1>4, <1>5, <1>6, <1>8, LoopStep

\* a new array or object: a loop that reads into it, and its call when it has one
LEMMA NewStep ==
  ASSUME NEW H, NEW G, NEW ag, NEW dt2, NEW items, NEW x, NEW y, NEW call \in BOOLEAN,
         x \in ItemT, y \in ItemT, items \in {<< >>, << x >>, << y >>, << x, y >>},
         items \in {<< y >>, << x, y >>} <=> call,
         Feeds(x), Defers(y), ~Feeds(y), ~Defers(x), call => y.o = Len(H) + 1 /\ ParamOK(G, y),
         Fed(x) = Len(H) + 1 \/ (call /\ y.param # 0 /\ Fed(x) = y.param + 1),
         Feeds(Head(ag)), OneFed(H, G, Fed(Head(ag)), dt2), Leads(G, Fed(Head(ag)), Len(H) + 1),
         Due(G) = Due(H) \cup (IF call THEN {Len(H) + 1} ELSE {})
  PROVE  StepIs(H, G, ag, items, dt2)
<1>1. /\ << x >> # << y >>
      /\ Len(<< x, y >>) = 2 /\ Len(<< y >>) = 1 /\ Len(<< x >>) = 1 /\ << >> # << y >> /\ << >> # << x, y >>
      /\ << x >> # << x, y >>
  <2>1. x # y
    OBVIOUS
  <2> QED
    BY <2>1
<1>2. CASE items = << >>
  <2>1. ~call /\ DOMAIN items = {}
    BY <1>1, <1>2
  <2>2. Waiting(items) = {}
    BY <2>1 DEF Waiting
  <2> QED
    BY <2>1, <2>2 DEF StepIs
<1>3. CASE items = << x >>
  <2>1. ~call /\ DOMAIN items = {1} /\ items[1] = x
    BY <1>1, <1>3
  <2>2. Waiting(items) = {}
    BY <2>1 DEF Waiting
  <2> QED
    BY <2>1, <2>2 DEF StepIs
<1>4. CASE items = << y >>
  <2>1. call /\ DOMAIN items = {1} /\ items[1] = y /\ Len(items) = 1
    BY <1>1, <1>4
  <2>2. Waiting(items) = {y.o}
    BY <2>1 DEF Waiting
  <2> QED
    BY <2>1, <2>2 DEF StepIs
<1>5. CASE items = << x, y >>
  <2>1. call /\ DOMAIN items = {1, 2} /\ items[1] = x /\ items[2] = y /\ Len(items) = 2
    BY <1>1, <1>5
  <2>2. Waiting(items) = {y.o}
    BY <2>1 DEF Waiting
  <2>3. \A i \in DOMAIN items : Defers(items[i]) => i = 2
    BY <2>1
  <2>4. \A i \in DOMAIN items : Feeds(items[i]) =>
           \/ Fed(items[i]) = Len(H) + 1
           \/ \E j \in DOMAIN items : /\ j > i /\ Defers(items[j]) /\ items[j].param # 0
                                      /\ Fed(items[i]) = items[j].param + 1
    <3>1. SUFFICES ASSUME NEW i \in DOMAIN items, Feeds(items[i]), Fed(x) # Len(H) + 1
                   PROVE  \E j \in DOMAIN items : /\ j > i /\ Defers(items[j]) /\ items[j].param # 0
                                                  /\ Fed(items[i]) = items[j].param + 1
      BY <2>1
    <3>2. i = 1 /\ items[1] = x
      BY <2>1, <3>1
    <3>3. 2 \in DOMAIN items /\ 2 > i /\ Defers(items[2]) /\ items[2].param # 0 /\ Fed(items[i]) = items[2].param + 1
      BY <2>1, <3>1, <3>2
    <3> QED
      BY <3>3
  <2>5. Due(G) = Due(H) \cup Waiting(items)
    BY <2>1, <2>2
  <2> QED
    BY <2>1, <2>3, <2>4, <2>5 DEF StepIs
<1> QED
  BY <1>2, <1>3, <1>4, <1>5

LEMMA CellShape ==
  ASSUME Inv, At("zval"), NEW c, SmallCell(c, Len(out)), c.kind \in Counted, NEW want \in BOOLEAN
  PROVE  LET G == PutCell(out, Top.slot, c, want)
         IN  /\ OneFed(out, G, Fed(Head(agenda)), dtors)
             /\ Leads(G, Fed(Head(agenda)), Next1)
             /\ Due(G) = Due(out) \cup (IF HasCall(c) THEN {Next1} ELSE {})
<1>1. SlotOK(out, Top.slot) /\ Dropped(out, Top.slot, dtors) /\ HeapInv(out) /\ Fed(Head(agenda)) = Top.slot[1]
  BY ZvalFacts, ZvalFeeds DEF Inv
<1> QED
  BY <1>1, PutCellShape DEF Next1

\* a back-reference that makes an empty array again, or a box
LEMMA FreshStep ==
  ASSUME Inv, At("zval"), Do(<< >>), dtors' = dtors, NEW want \in BOOLEAN,
         out' = PutCell(out, Top.slot, EmptyArr, want)
  PROVE  Stepped
<1>1. SmallCell(EmptyArr, Len(out)) /\ EmptyArr.kind \in Counted /\ ~HasCall(EmptyArr)
  BY EmptyArrSmall, NoCall DEF EmptyArr
<1>2. OneFed(out, out', Fed(Head(agenda)), dtors') /\ Due(out') = Due(out)
  <2> HIDE DEF EmptyArr
  <2> QED
    BY <1>1, CellShape
<1> DEFINE none == << >>
<1>3. none \in Seq(ItemT) /\ DOMAIN none = {} /\ Do(none)
  OBVIOUS
<1> HIDE DEF none
<1>4. StepIs(out, out', agenda, none, dtors')
  BY <1>2, <1>3, ZvalFeeds, PlainStep
<1> QED
  BY <1>3, <1>4 DEF Stepped

LEMMA ShareValueStep == ASSUME Inv, ShareValue PROVE Stepped
<1>1. At("zval") /\ Do(<< >>) /\ dtors' = dtors
  BY DEF ShareValue, AtBackRef, AtToken
<1>2. CASE Target.ty = "empty"
  <2>1. out' = Append(Put(out, Top.slot, Arr(Next1)), EmptyArr)
    BY <1>2 DEF ShareValue, Shared, EmptyArr
  <2>2. out' = PutCell(out, Top.slot, EmptyArr, FALSE)
    BY <2>1 DEF PutCell, Arr, Next1, EmptyArr, ArrCell
  <2> QED
    BY <1>1, <2>2, FreshStep
<1>3. CASE Target.ty # "empty"
  <2>1. out' = Put(out, Top.slot, Shared(Target, Next1))
    BY <1>3 DEF ShareValue
  <2> QED
    BY <1>1, <2>1, PutStep
<1> QED
  BY <1>2, <1>3

LEMMA MisreadValueStep == ASSUME Inv, MisreadValue PROVE Stepped
<1>1. At("zval") /\ Do(<< >>) /\ dtors' = dtors
  BY DEF MisreadValue, AtBackRef, AtToken
<1> QED
  BY <1>1, PutStep DEF MisreadValue

LEMMA BoxTargetStep == ASSUME Inv, BoxTarget PROVE Stepped
<1>1. AtBackRef /\ T.v < Len(drefs) /\ Target.ty # "ref" /\ Do(<< >>) /\ dtors' = dtors
  BY DEF BoxTarget
<1>2. At("zval")
  BY <1>1, TargetFacts
<1>3. SlotOK(out, Top.slot) /\ Dropped(out, Top.slot, dtors) /\ HeapInv(out)
  BY <1>2, ZvalFacts DEF Inv
<1>4. CASE Target.ty = "empty"
  <2>1. out' = Append(Put(out, Top.slot, Ref(Next1 + 1)), EmptyArr) \o << RefCell(Arr(Next1), TRUE) >>
    BY <1>4 DEF BoxTarget, Shared, EmptyArr
  <2>2. out' = PutCell(out, Top.slot, EmptyArr, TRUE)
    BY <2>1, <1>3, BoxOfNew
  <2> QED
    BY <1>1, <1>2, <2>2, FreshStep
<1>5. CASE Target.ty # "empty"
  <2> DEFINE z == Shared(Target, Next1)
             none == << >>
  <2>1. out' = Put(out, Top.slot, Ref(Next1)) \o << RefCell(z, TRUE) >>
    BY <1>5 DEF BoxTarget
  <2>2. z \in Vals(Len(out))
    BY <1>1, <1>5, TargetFacts DEF Shared
  <2> HIDE DEF z
  <2>3. out' = Append(Put(out, Top.slot, Ref(Len(out) + 1)), RefCell(z, TRUE))
    BY <2>1, <1>3, BoxOfOld
  <2>4. OneFed(out, out', Top.slot[1], dtors) /\ Due(out') = Due(out)
    BY <2>2, <2>3, <1>3, BoxShape
  <2>5. none \in Seq(ItemT) /\ DOMAIN none = {} /\ Do(none)
    BY <1>1
  <2> HIDE DEF none
  <2>6. StepIs(out, out', agenda, none, dtors')
    BY <2>4, <2>5, <1>1, <1>2, ZvalFeeds, PlainStep
  <2> QED
    BY <2>5, <2>6 DEF Stepped
<1> QED
  BY <1>4, <1>5

LEMMA ReadArrayStep == ASSUME Inv, ReadArray PROVE Stepped
<1>1. At("zval") /\ More /\ T.tag = "arr"
  BY DEF ReadArray, AtToken
<1>2. Top.slot \in Slots /\ Boxed \in BOOLEAN /\ InputInv /\ dstrings \in Seq(Str) /\ Next1 \in Nat
  <2>1. Boxed \in BOOLEAN
    BY DEF Boxed
  <2> QED
    BY <2>1, <1>1, ZvalFacts, HeapBasics DEF Inv, Next1
<1>3. T.v \in Nat
  BY <1>1, <1>2, AtPos, TokFacts
<1> DEFINE x == Fill(Next1, T.v, Top.slot)
           y == Defer(Next1, 0)
           items == IF T.v = 0 THEN << >> ELSE << x >>
           call == FALSE
<1>4. out' = PutCell(out, Top.slot, EmptyArr, Boxed) /\ Do(items) /\ dtors' = dtors
  BY DEF ReadArray, EmptyArr
<1>5. SmallCell(EmptyArr, Len(out)) /\ EmptyArr.kind \in Counted /\ ~HasCall(EmptyArr)
  BY EmptyArrSmall, NoCall DEF EmptyArr
<1>6. /\ OneFed(out, out', Fed(Head(agenda)), dtors')
      /\ Leads(out', Fed(Head(agenda)), Len(out) + 1)
      /\ Due(out') = Due(out) \cup (IF call THEN {Len(out) + 1} ELSE {})
  <2> HIDE DEF EmptyArr
  <2> QED
    BY <1>1, <1>2, <1>4, <1>5, CellShape DEF Next1
<1>7. x \in ItemT /\ y \in ItemT
  BY <1>2, <1>3, ItemsFit
<1>8. Feeds(x) /\ Defers(y) /\ ~Feeds(y) /\ ~Defers(x) /\ Fed(x) = Len(out) + 1 /\ Feeds(Head(agenda))
  BY <1>1, ZvalFeeds DEF Fill, Defer, Feeds, Fed, Defers, Next1
<1> HIDE DEF x, y
<1>9. items \in {<< >>, << x >>, << y >>, << x, y >>} /\ items \in Seq(ItemT)
      /\ items \notin {<< y >>, << x, y >>}
  <2>1. x # y
    BY <1>8
  <2> QED
    BY <1>7, <2>1
<1> HIDE DEF items
<1>10. call \in BOOLEAN /\ ~call
  OBVIOUS
<1> HIDE DEF call
<1>11. StepIs(out, out', agenda, items, dtors')
  BY <1>6, <1>7, <1>8, <1>9, <1>10, NewStep
<1> QED
  BY <1>4, <1>9, <1>11 DEF Stepped

\* an object that has been read up to its properties
LEMMA ObjectStep ==
  ASSUME Inv, At("zval"), NEW c, SmallCell(c, Len(out)), c.kind \in Counted, BuildObject(c),
         dtors' = dtors, NEW n \in Nat, NEW b \in BOOLEAN, NEW call \in BOOLEAN, call <=> HasCall(c),
         Do((IF b THEN << >> ELSE << Fill(Next1, n, Top.slot) >>)
            \o (IF call THEN << Defer(Next1, 0) >> ELSE << >>))
  PROVE  Stepped
<1> DEFINE x == Fill(Next1, n, Top.slot)
           y == Defer(Next1, 0)
           items == (IF b THEN << >> ELSE << x >>) \o (IF call THEN << y >> ELSE << >>)
<1>1. Top.slot \in Slots /\ Top.want \in BOOLEAN /\ Next1 \in Nat
  BY ZvalFacts, HeapBasics DEF Inv, Next1
<1>2. out' = PutCell(out, Top.slot, c, Top.want)
  BY DEF BuildObject
<1>3. /\ OneFed(out, out', Fed(Head(agenda)), dtors')
      /\ Leads(out', Fed(Head(agenda)), Len(out) + 1)
      /\ Due(out') = Due(out) \cup (IF call THEN {Len(out) + 1} ELSE {})
  BY <1>1, <1>2, CellShape DEF Next1
<1>4. x \in ItemT /\ y \in ItemT
  BY <1>1, ItemsFit
<1>5. /\ Feeds(x) /\ Defers(y) /\ ~Feeds(y) /\ ~Defers(x) /\ Fed(x) = Len(out) + 1 /\ Feeds(Head(agenda))
      /\ y.o = Len(out) + 1 /\ ParamOK(out', y)
  BY ZvalFeeds DEF Fill, Defer, Feeds, Fed, Defers, Next1, ParamOK
<1>6. Do(items)
  OBVIOUS
<1> HIDE DEF x, y
<1>7. /\ items \in {<< >>, << x >>, << y >>, << x, y >>}
      /\ items \in {<< y >>, << x, y >>} <=> call
  <2>1. << x >> \o << y >> = << x, y >> /\ << >> \o << y >> = << y >> /\ << x >> \o << >> = << x >>
    BY <1>4, ListsOfItems
  <2>2. << >> \o << >> = << >>
    OBVIOUS
  <2>3. << >> \notin {<< y >>, << x, y >>} /\ << x >> \notin {<< y >>, << x, y >>}
    <3>1. x # y
      BY <1>5
    <3>2. Len(<< x, y >>) = 2 /\ Len(<< y >>) = 1 /\ Len(<< x >>) = 1
      OBVIOUS
    <3> QED
      BY <3>1, <3>2
  <2>4. CASE b /\ call
    BY <2>1, <2>4
  <2>5. CASE b /\ ~call
    BY <2>2, <2>3, <2>5
  <2>6. CASE ~b /\ call
    BY <2>1, <2>6
  <2>7. CASE ~b /\ ~call
    BY <2>1, <2>3, <2>7
  <2> QED
    BY <2>4, <2>5, <2>6, <2>7
<1> HIDE DEF items
<1>8. items \in Seq(ItemT)
  <2>1. << x >> \in Seq(ItemT) /\ << y >> \in Seq(ItemT) /\ << x, y >> \in Seq(ItemT) /\ << >> \in Seq(ItemT)
    BY <1>4, ListsOfItems
  <2> QED
    BY <1>7, <2>1
<1>9. StepIs(out, out', agenda, items, dtors')
  BY <1>3, <1>4, <1>5, <1>7, NewStep
<1> QED
  BY <1>6, <1>8, <1>9 DEF Stepped

LEMMA HasCalls ==
  ASSUME NEW c \in Str
  PROVE  /\ HasCall(ObjCell(c, << >>)) <=> KindOf(c) \in {"serialize", "wakeup"}
         /\ HasCall(Created(c)) <=> KindOf(c) \in {"serialize", "wakeup"}
<1>1. HasCall(ObjCell(c, << >>)) <=> KindOf(c) \in {"serialize", "wakeup"}
  BY DEF HasCall, ObjCell
<1>2. c \notin Class => KindOf(c) = "plain" /\ ~HasCall(Created(c))
  BY ValuesAssumption DEF Created, HasCall, ObjCell, KindOf
<1> QED
  BY <1>1, <1>2 DEF Created

LEMMA ReadObjectStep == ASSUME Inv, ReadObject PROVE Stepped
<1> DEFINE c == Created(ClassName)
           b == T2.v = 0
           call == KindOf(ClassName) = "wakeup"
           n == T2.v
<1>1. /\ AtObject({"arr"}) /\ KindOf(ClassName) # "serialize" /\ BuildObject(c) /\ dtors' = dtors
      /\ Do((IF b THEN << >> ELSE << Fill(Next1, n, Top.slot) >>)
            \o (IF call THEN << Defer(Next1, 0) >> ELSE << >>))
  BY DEF ReadObject
<1>2. At("zval") /\ ClassName \in Str /\ GoodTok(T2) /\ T2.tag = "arr"
  BY <1>1, ObjectFacts
<1>3. n \in Nat /\ Len(out) \in Nat
  BY <1>2, TokFacts, HeapBasics DEF Inv
<1>4. SmallCell(c, Len(out)) /\ c.kind \in Counted
  BY <1>2, <1>3, ObjectCells DEF Counted
<1>5. call <=> HasCall(c)
  BY <1>1, <1>2, HasCalls
<1>6. b \in BOOLEAN /\ call \in BOOLEAN
  OBVIOUS
<1> HIDE DEF c, b, call, n
<1> QED
  BY <1>1, <1>2, <1>3, <1>4, <1>5, <1>6, ObjectStep

\* the objects made whole: nothing to read into them, and no call
LEMMA WholeStep ==
  ASSUME Inv, At("zval"), ClassName \in Str, KindOf(ClassName) \notin {"serialize", "wakeup"},
         BuildObject(ObjCell(ClassName, << >>)), Do(<< >>), dtors' = dtors
  PROVE  Stepped
<1> DEFINE c == ObjCell(ClassName, << >>)
           none == << >>
<1>1. Len(out) \in Nat /\ Top.want \in BOOLEAN
  BY HeapBasics, ZvalFacts DEF Inv
<1>2. SmallCell(c, Len(out)) /\ c.kind \in Counted /\ ~HasCall(c)
  BY <1>1, ObjectCells, HasCalls DEF Counted
<1>3. out' = PutCell(out, Top.slot, c, Top.want)
  BY DEF BuildObject
<1> HIDE DEF c
<1>4. OneFed(out, out', Fed(Head(agenda)), dtors') /\ Due(out') = Due(out)
  BY <1>1, <1>2, <1>3, CellShape
<1>5. none \in Seq(ItemT) /\ DOMAIN none = {} /\ Do(none)
  OBVIOUS
<1> HIDE DEF none
<1>6. StepIs(out, out', agenda, none, dtors')
  BY <1>4, <1>5, ZvalFeeds, PlainStep
<1> QED
  BY <1>5, <1>6 DEF Stepped

LEMMA ReadSerializableStep == ASSUME Inv, ReadSerializable PROVE Stepped
<1>1. AtObject({"objser"}) /\ KindOf(ClassName) = "serializable" /\ BuildObject(ObjCell(ClassName, << >>))
      /\ Do(<< >>) /\ dtors' = dtors
  BY DEF ReadSerializable
<1>2. At("zval") /\ ClassName \in Str
  BY <1>1, ObjectFacts
<1> QED
  BY <1>1, <1>2, WholeStep

LEMMA ReadEnumCaseStep == ASSUME Inv, ReadEnumCase PROVE Stepped
<1>1. AtObject({"enum"}) /\ KindOf(ClassName) = "enum" /\ BuildObject(ObjCell(ClassName, << >>))
      /\ Do(<< >>) /\ dtors' = dtors
  BY DEF ReadEnumCase
<1>2. At("zval") /\ ClassName \in Str
  BY <1>1, ObjectFacts
<1> QED
  BY <1>1, <1>2, WholeStep

\* cells are added after the step
LEMMA MoreCells ==
  ASSUME NEW H, NEW P, HeapInv(P), NEW G, NEW f \in DOMAIN P, NEW dt, OneFed(H, P, f, dt), dt \subseteq DOMAIN P,
         DOMAIN P \subseteq DOMAIN G, \A a \in DOMAIN P : G[a] = P[a]
  PROVE  /\ OneFed(H, G, f, dt)
         /\ \A a : Leads(P, f, a) => Leads(G, f, a)
         /\ (\A a \in DOMAIN G \ DOMAIN P : ~HasCall(G[a])) => Due(G) = Due(P)
<1>1. \A a \in DOMAIN P : Targets(G, a) = Targets(P, a) /\ Targets(P, a) \subseteq DOMAIN P
  <2>1. Len(P) \in Nat /\ Heap(P, Len(P)) /\ DOMAIN P = 1..Len(P)
    BY HeapBasics DEF HeapInv
  <2>2. \A a \in DOMAIN P : Targets(P, a) \subseteq DOMAIN P
    BY <2>1, TargetsTyped
  <2> QED
    BY <2>2 DEF Targets
<1>2. ASSUME NEW C \in SUBSET DOMAIN G, Closed(G, C)
      PROVE  C \cap DOMAIN P \in SUBSET DOMAIN P /\ Closed(P, C \cap DOMAIN P)
  BY <1>1, <1>2 DEF Closed
<1>3. ASSUME NEW C \in SUBSET DOMAIN G, Closed(G, C), dt \subseteq C, NEW a \in C \cap DOMAIN H
      PROVE  Targets(H, a) \subseteq C
  <2>1. /\ C \cap DOMAIN P \in SUBSET DOMAIN P /\ Closed(P, C \cap DOMAIN P) /\ dt \subseteq C \cap DOMAIN P
        /\ a \in (C \cap DOMAIN P) \cap DOMAIN H
    BY <1>2, <1>3 DEF OneFed
  <2> QED
    BY <2>1 DEF OneFed
<1>4. OneFed(H, G, f, dt)
  BY <1>3 DEF OneFed
<1>5. \A a : Leads(P, f, a) => Leads(G, f, a)
  BY <1>2 DEF Leads
<1> QED
  BY <1>4, <1>5 DEF Due

LEMMA ParameterCells ==
  ASSUME NEW H, NEW P, HeapInv(P), NEW G, NEW f, f \in DOMAIN P, NEW dt, OneFed(H, P, f, dt), dt \subseteq DOMAIN P,
         NEW a, Leads(P, f, a), DOMAIN G = 1..(Len(P) + 2), \A b \in DOMAIN P : G[b] = P[b],
         G[Len(P) + 1].kind = "hold", G[Len(P) + 2] = ArrCell(<< >>)
  PROVE  OneFed(H, G, f, dt) /\ Leads(G, f, a) /\ Due(G) = Due(P)
<1>1. Len(P) \in Nat /\ DOMAIN P = 1..Len(P)
  BY HeapBasics
<1>2. DOMAIN P \subseteq DOMAIN G /\ DOMAIN G \ DOMAIN P = {Len(P) + 1, Len(P) + 2}
  BY <1>1
<1>3. /\ OneFed(H, G, f, dt)
      /\ \A b : Leads(P, f, b) => Leads(G, f, b)
      /\ (\A b \in DOMAIN G \ DOMAIN P : ~HasCall(G[b])) => Due(G) = Due(P)
  BY <1>2, MoreCells
<1>4. ~HasCall(G[Len(P) + 1]) /\ ~HasCall(G[Len(P) + 2])
  BY NoCall DEF HasCall
<1> QED
  BY <1>2, <1>3, <1>4

LEMMA ReadParameterStep == ASSUME Inv, ReadParameter PROVE Stepped
<1> DEFINE c == ObjCell(ClassName, << >>)
           H == PutCell(out, Top.slot, c, Top.want)
           param == Len(H) + 1
           n == T2.v
           x == Fill(param + 1, n, << param, 1 >>)
           y == Defer(Next1, param)
           items == (IF n = 0 THEN << >> ELSE << x >>) \o << y >>
           call == TRUE
<1>1. /\ AtObject({"arr"}) /\ KindOf(ClassName) = "serialize"
      /\ out' = Append(Append(H, HoldCell(Arr(param + 1))), ArrCell(<< >>))
      /\ Do(items) /\ dtors' = dtors
  BY DEF ReadParameter
<1>2. At("zval") /\ ClassName \in Str /\ GoodTok(T2) /\ T2.tag = "arr"
  BY <1>1, ObjectFacts
<1>3. /\ n \in Nat /\ Len(out) \in Nat /\ Top.want \in BOOLEAN /\ HeapInv(out) /\ dtors \subseteq DOMAIN out
      /\ Fed(Head(agenda)) \in DOMAIN out /\ Feeds(Head(agenda)) /\ Next1 = Len(out) + 1
  BY <1>2, TokFacts, HeapBasics, ZvalFacts, ZvalFeeds DEF Inv, SlotOK, Next1
<1>4. SmallCell(c, Len(out)) /\ c.kind \in Counted /\ HasCall(c)
  BY <1>1, <1>2, <1>3, ObjectCells, HasCalls DEF Counted
<1>5. /\ HeapInv(H) /\ Len(H) = Len(out) + (IF Top.want THEN 2 ELSE 1)
      /\ Len(H) \in Nat /\ DOMAIN H = 1..Len(H)
  BY <1>1, ObjectWithHolder
<1> HIDE DEF c
<1>6. /\ OneFed(out, H, Fed(Head(agenda)), dtors)
      /\ Leads(H, Fed(Head(agenda)), Next1)
      /\ Due(H) = Due(out) \cup {Next1}
  BY <1>2, <1>3, <1>4, CellShape
<1> HIDE DEF H, n
<1>7. /\ DOMAIN out' = 1..(Len(H) + 2)
      /\ 1 \in DOMAIN out'[Len(H) + 1].elems
      /\ \A a \in DOMAIN H : out'[a] = H[a]
      /\ out'[Len(H) + 1].kind = "hold" /\ out'[Len(H) + 1].elems[1].v = Arr(Len(H) + 2)
      /\ out'[Len(H) + 2] = ArrCell(<< >>)
  <2>1. param + 1 = Len(H) + 2
    BY <1>5
  <2>2. out' = Append(Append(H, HoldCell(Arr(Len(H) + 2))), ArrCell(<< >>))
    BY <1>1, <2>1
  <2>3. /\ HeapInv(out') /\ Len(out') = Len(H) + 2
        /\ SlotOK(out', << Len(H) + 1, 1 >>)
        /\ \A a \in DOMAIN H : out'[a] = H[a]
        /\ out'[Len(H) + 1].kind = "hold" /\ out'[Len(H) + 1].elems[1].v = Arr(Len(H) + 2)
        /\ out'[Len(H) + 2] = ArrCell(<< >>)
    BY <2>2, <1>5, ParameterOK
  <2>4. DOMAIN out' = 1..(Len(H) + 2)
    BY <2>3, HeapBasics
  <2> QED
    BY <2>3, <2>4 DEF SlotOK
<1>8. /\ OneFed(out, out', Fed(Head(agenda)), dtors')
      /\ Leads(out', Fed(Head(agenda)), Len(out) + 1)
      /\ Due(out') = Due(H)
  <2>1. DOMAIN out \subseteq DOMAIN H
    BY <1>6 DEF OneFed
  <2>2. Fed(Head(agenda)) \in DOMAIN H /\ dtors \subseteq DOMAIN H
    BY <2>1, <1>3
  <2> DEFINE f == Fed(Head(agenda))
  <2>3. OneFed(out, H, f, dtors) /\ Leads(H, f, Len(out) + 1) /\ f \in DOMAIN H
    BY <2>2, <1>3, <1>6
  <2> DEFINE G == out'
             a == Len(out) + 1
  <2>4. /\ HeapInv(H) /\ f \in DOMAIN H /\ dtors \subseteq DOMAIN H
        /\ OneFed(out, H, f, dtors) /\ Leads(H, f, a)
        /\ DOMAIN G = 1..(Len(H) + 2) /\ \A b \in DOMAIN H : G[b] = H[b]
        /\ G[Len(H) + 1].kind = "hold" /\ G[Len(H) + 2] = ArrCell(<< >>)
    BY <2>2, <2>3, <1>5, <1>7
  <2>5. OneFed(out, G, f, dtors) /\ Leads(G, f, a) /\ Due(G) = Due(H)
    <3> HIDE DEF f, G, a
    <3> QED
      BY <2>4, ParameterCells, ZenonT(30)
  <2> QED
    BY <2>5, <1>1
<1>9. Due(out') = Due(out) \cup (IF call THEN {Len(out) + 1} ELSE {})
  BY <1>3, <1>6, <1>8
<1>10. x \in ItemT /\ y \in ItemT
  <2>1. param \in Nat /\ param + 1 \in Nat /\ << param, 1 >> \in Slots /\ Next1 \in Nat
    BY <1>3, <1>5 DEF Slots
  <2> QED
    BY <2>1, <1>3, ItemsFit
<1>11. Feeds(x) /\ Defers(y) /\ ~Feeds(y) /\ ~Defers(x) /\ Fed(x) = param + 1 /\ y.param = param /\ y.o = Len(out) + 1
  BY <1>3 DEF Fill, Defer, Feeds, Fed, Defers
<1>12. param # 0 /\ ParamOK(out', y)
  <2>1. /\ param > Len(out) + 1 /\ param \in Nat /\ param = Len(H) + 1 /\ param + 1 = Len(H) + 2
        /\ param \in DOMAIN out' /\ param + 1 \in DOMAIN out'
    BY <1>3, <1>5, <1>7
  <2> HIDE DEF param, y
  <2> QED
    BY <2>1, <1>3, <1>7, <1>11 DEF ParamOK
<1> HIDE DEF x, y, param
<1>13. items \in {<< y >>, << x, y >>}
  BY <1>10, ListsOfItems
<1> HIDE DEF items
<1>14. items \in {<< >>, << x >>, << y >>, << x, y >>} /\ items \in Seq(ItemT) /\ call
       /\ (items \in {<< y >>, << x, y >>} <=> call)
  <2>1. << y >> \in Seq(ItemT) /\ << x, y >> \in Seq(ItemT)
    BY <1>10, ListsOfItems
  <2> QED
    BY <1>13, <2>1
<1>15. call \in BOOLEAN
  OBVIOUS
<1> HIDE DEF call
<1>16. StepIs(out, out', agenda, items, dtors')
  BY <1>3, <1>8, <1>9, <1>10, <1>11, <1>12, <1>14, <1>15, NewStep
<1> QED
  BY <1>1, <1>14, <1>16 DEF Stepped

(***************************************************************************)
(* CallsOK holds at the start and is kept by every step.                   *)
(***************************************************************************)
LEMMA SteppedOK ==
  ASSUME Inv, Inv', CallsOK, result = "reading", agenda # << >>, Stepped,
         deferred' = deferred, result' = result, dtors \subseteq dtors'
  PROVE  CallsOK'
<1>1. PICK items \in Seq(ItemT) : Do(items) /\ StepIs(out, out', agenda, items, dtors')
  BY DEF Stepped
<1>2. agenda' = items \o Tail(agenda)
  BY <1>1 DEF Do
<1>3. /\ HeapInv(out) /\ AgendaInv(out, agenda) /\ CallsInv(out, deferred) /\ dtors \subseteq DOMAIN out
      /\ HeapInv(out') /\ dtors' \subseteq DOMAIN out'
  BY DEF Inv, Phases, ReadInv
<1>4. OrderInv(out, agenda, deferred) /\ HeldInv(out, agenda, deferred, dtors)
  BY DEF CallsOK
<1>5. OrderInv(out', items \o Tail(agenda), deferred)
  BY <1>1, <1>3, <1>4, OrderKept
<1>6. HeldInv(out', items \o Tail(agenda), deferred, dtors')
  BY <1>1, <1>3, <1>4, HeldKept
<1> QED
  BY <1>2, <1>5, <1>6 DEF CallsOK

LEMMA FailedCalls == ASSUME result' \in {"failed", "error", "crashed"} PROVE CallsOK'
<1>1. result' # "reading" /\ result' # "calling" /\ result' # "done"
  OBVIOUS
<1> QED
  BY <1>1 DEF CallsOK

\* the actions that read
LEMMA ReadingStepped ==
  ASSUME Inv, \/ ReadScalar \/ ReadReference \/ WrapReference \/ ReadArray
              \/ SkipKeyless \/ ReadNewKey \/ ReadOldKey \/ EndFill
              \/ ReadObject \/ ReadParameter \/ ReadSerializable \/ ReadEnumCase
              \/ ShareReference \/ ShareValue \/ MisreadValue \/ BoxTarget
  PROVE  /\ Stepped /\ result = "reading" /\ agenda # << >>
         /\ deferred' = deferred /\ result' = result /\ dtors \subseteq dtors'
<1>1. CASE ReadScalar \/ ReadReference \/ WrapReference \/ ReadArray
  <2>1. Stepped
    BY <1>1, ReadScalarStep, ReadReferenceStep, WrapReferenceStep, ReadArrayStep
  <2> QED
    BY <2>1, <1>1 DEF ReadScalar, ReadReference, WrapReference, ReadArray, AtToken, At
<1>2. CASE SkipKeyless \/ ReadNewKey \/ EndFill
  <2>1. Stepped
    BY <1>2, SkipKeylessStep, ReadNewKeyStep, EndFillStep
  <2> QED
    BY <2>1, <1>2 DEF SkipKeyless, ReadNewKey, EndFill, AtKey, At
<1>3. CASE ReadOldKey
  <2>1. Stepped
    BY <1>3, ReadOldKeyStep
  <2>2. PICK i \in Indexes(Top.h, KeyIn(Top.h, T)) : dtors' = KeepOld(out[Top.h].elems[i].v)
    BY <1>3 DEF ReadOldKey
  <2>3. dtors \subseteq dtors'
    BY <2>2 DEF KeepOld
  <2> QED
    BY <2>1, <2>3, <1>3 DEF ReadOldKey, AtKey, At
<1>4. CASE ReadObject \/ ReadParameter \/ ReadSerializable \/ ReadEnumCase
  <2>1. Stepped
    BY <1>4, ReadObjectStep, ReadParameterStep, ReadSerializableStep, ReadEnumCaseStep
  <2> QED
    BY <2>1, <1>4 DEF ReadObject, ReadParameter, ReadSerializable, ReadEnumCase, AtObject, AtToken, At
<1>5. CASE ShareReference \/ ShareValue \/ MisreadValue \/ BoxTarget
  <2>1. Stepped
    BY <1>5, ShareReferenceStep, ShareValueStep, MisreadValueStep, BoxTargetStep
  <2> QED
    BY <2>1, <1>5 DEF ShareReference, ShareValue, MisreadValue, BoxTarget, AtBackRef, AtToken, At
<1> QED
  BY <1>1, <1>2, <1>3, <1>4, <1>5

LEMMA DeferCallCalls == ASSUME Inv, CallsOK, DeferCall PROVE CallsOK'
<1>1. /\ result = "reading" /\ agenda # << >> /\ Head(agenda).op = "defer" /\ Top = Head(agenda)
      /\ deferred' = Append(deferred, [o |-> Top.o, param |-> Top.param])
      /\ agenda' = << >> \o Tail(agenda)
      /\ UNCHANGED << out, dtors, result >>
  BY DEF DeferCall, At, Top, Do
<1>2. HeapInv(out) /\ AgendaInv(out, agenda) /\ CallsInv(out, deferred)
  BY <1>1 DEF Inv, Phases, ReadInv
<1>3. Defers(Head(agenda)) /\ deferred' = Append(deferred, CallOf(Head(agenda)))
  BY <1>1 DEF Defers, CallOf
<1>4. agenda' = Tail(agenda)
  <2>1. Tail(agenda) \in Seq(ItemT)
    BY <1>1, TopFacts
  <2> QED
    BY <2>1, <1>1
<1>5. OrderInv(out, agenda, deferred) /\ HeldInv(out, agenda, deferred, dtors)
  BY <1>1 DEF CallsOK
<1>6. OrderInv(out, Tail(agenda), deferred') /\ HeldInv(out, Tail(agenda), deferred', dtors)
  BY <1>1, <1>2, <1>3, <1>5, DeferOrder, DeferHeld
<1> QED
  BY <1>1, <1>4, <1>6 DEF CallsOK

LEMMA ReadingCalls == ASSUME Inv, CallsOK, ReadZval \/ DeferCall \/ TrailingData PROVE CallsOK'
<1>1. Inv'
  BY ReadingOK
<1>2. CASE CannotRead \/ UnknownString \/ ShortArray \/ CannotReadKey \/ CannotReadObject \/ ShortProperties
           \/ ShortParameter \/ UnknownId \/ TrailingData
  <2>1. result' = "failed"
    BY <1>2 DEF CannotRead, UnknownString, ShortArray, CannotReadKey, CannotReadObject, ShortProperties,
                ShortParameter, UnknownId, TrailingData, Fail, FailAndClear, FailWith
  <2> QED
    BY <2>1, FailedCalls
<1>3. CASE DeferCall
  BY <1>3, DeferCallCalls
<1>4. CASE \/ ReadScalar \/ ReadReference \/ WrapReference \/ ReadArray
           \/ SkipKeyless \/ ReadNewKey \/ ReadOldKey \/ EndFill
           \/ ReadObject \/ ReadParameter \/ ReadSerializable \/ ReadEnumCase
           \/ ShareReference \/ ShareValue \/ MisreadValue \/ BoxTarget
  BY <1>1, <1>4, ReadingStepped, SteppedOK
<1>5. CASE MisreadCrash
  BY <1>5, FailedCalls DEF MisreadCrash
<1> QED
  BY <1>2, <1>3, <1>4, <1>5 DEF ReadZval

LEMMA StartStepCalls == ASSUME CallsOK, StartStep PROVE CallsOK'
BY DEF CallsOK, StartStep

\* a call is made, or skipped
LEMMA MakeCallCalls == ASSUME Inv, CallsOK, MakeCall PROVE CallsOK'
<1>1. /\ result = "calling" /\ out' \in Unsets
      /\ UNCHANGED << agenda, deferred, dtors, result >>
  BY DEF MakeCall
<1>2. /\ HeapInv(out) /\ agenda = << >> /\ CallsInv(out, deferred) /\ dtors \subseteq DOMAIN out
  BY <1>1 DEF Inv, Phases
<1>3. CASE out' = out
  BY <1>1, <1>3 DEF CallsOK
<1>4. CASE out' # out
  <2>1. Live \subseteq DOMAIN out
    <3>1. AgendaInv(out, agenda)
      BY <1>2 DEF AgendaInv
    <3>2. Holders \subseteq DOMAIN out
      BY <3>1, <1>2, HoldersNow, HoldersTyped
    <3> QED
      BY <3>2, <1>2, ReachTyped DEF Live, Holders
  <2>2. CallsUnset /\ \E a \in Live : out[a].kind = "obj" /\ \E i \in DOMAIN out[a].elems : out' = Put(out, << a, i >>, Undef)
    BY <1>1, <1>4 DEF Unsets
  <2>3. PICK a \in Live : out[a].kind = "obj" /\ \E i \in DOMAIN out[a].elems : out' = Put(out, << a, i >>, Undef)
    BY <2>2
  <2>4. PICK i \in DOMAIN out[a].elems : out' = Put(out, << a, i >>, Undef)
    BY <2>3
  <2> DEFINE s == << a, i >>
  <2>5. SlotOK(out, s) /\ out[s[1]].kind # "hold" /\ out' = Put(out, s, Undef)
    BY <2>1, <2>3, <2>4 DEF SlotOK
  <2> HIDE DEF s
  <2>6. OrderInv(out, << >>, deferred)
    BY <1>1, <1>2 DEF CallsOK
  <2>7. OrderInv(out', << >>, deferred)
    BY <2>5, <2>6, <1>2, UnsetOrder
  <2> QED
    BY <2>2, <2>7, <1>1, <1>2 DEF CallsOK
<1> QED
  BY <1>3, <1>4

LEMMA OtherCalls == ASSUME Inv, CallsOK, CallThrows \/ SkipCall \/ Deinit PROVE CallsOK'
<1>1. CASE CallThrows \/ SkipCall
  BY <1>1 DEF CallThrows, SkipCall, CallsOK
<1>2. CASE Deinit /\ result' = "done"
  BY <1>2 DEF Deinit, CallsOK
<1>3. CASE Deinit /\ result' # "done"
  <2>1. result' = "error"
    BY <1>3 DEF Deinit
  <2> QED
    BY <2>1, FailedCalls
<1> QED
  BY <1>1, <1>2, <1>3

LEMMA ReaderCalls == ASSUME Inv, CallsOK, ReaderStep PROVE CallsOK'
BY ReadingCalls, StartStepCalls, MakeCallCalls, OtherCalls DEF ReaderStep, CallStep

\* nothing has been deferred at the start, and one cell is read into
LEMMA CallsFromStart == ASSUME NEW b, Start(b) PROVE CallsOK
<1> DEFINE x == Read(<< 1, 1 >>, FALSE)
           c == HoldCell(Null)
<1>1. out = << c >> /\ agenda = << x >> /\ deferred = << >> /\ dtors = {} /\ result = "reading"
  BY DEF Start
<1>2. Feeds(x) /\ ~Defers(x) /\ Fed(x) = 1
  BY DEF Read, Feeds, Defers, Fed
<1>3. ~HasCall(c)
  BY NoCall
<1> HIDE DEF x, c
<1>4. DOMAIN agenda = {1} /\ agenda[1] = x /\ DOMAIN deferred = {} /\ DOMAIN out = {1} /\ out[1] = c
  BY <1>1
<1>5. Due(out) = {}
  BY <1>3, <1>4 DEF Due
<1>6. Waiting(agenda) = {}
  BY <1>2, <1>4 DEF Waiting
<1>7. Once(out, agenda, deferred)
  BY <1>4, <1>5, <1>6 DEF Once
<1>8. OrderInv(out, agenda, deferred)
  BY <1>2, <1>4, <1>7 DEF OrderInv, Finished, Nested, HoldersApart, ParamsOK, YoungerFirst
<1>9. FedHeld(out, agenda, dtors)
  <2>1. \A S, C : Holds(out, {1} \cup S, C) => 1 \in C
    BY DEF Holds
  <2>2. ASSUME NEW p \in DOMAIN agenda, NEW C, Holds(out, {1} \cup dtors \cup ParamsFrom(agenda, p), C)
        PROVE  1 \in C
    BY <2>2 DEF Holds
  <2> QED
    BY <2>2, <1>2, <1>4 DEF FedHeld
<1>10. CallsHeld(out, agenda, deferred, dtors)
  BY <1>4 DEF CallsHeld
<1> QED
  BY <1>1, <1>8, <1>9, <1>10 DEF CallsOK, HeldInv

LEMMA CallsAtStart == Init => CallsOK
BY CallsFromStart DEF Init

LEMMA SameCalls ==
  ASSUME CallsOK, UNCHANGED << out, agenda, deferred, dtors, result >>
  PROVE  CallsOK'
BY DEF CallsOK

\* the value is given up
LEMMA ReleaseCalls ==
  ASSUME Inv, CallsOK, result \in {"done", "error"}, Release, UnchangedButOut
  PROVE  CallsOK'
<1>1. /\ out' = Put(out, << 1, 1 >>, Null)
      /\ agenda' = agenda /\ deferred' = deferred /\ result' = result
  BY DEF Release, UnchangedButOut
<1>2. CASE result = "error"
  BY <1>1, <1>2, FailedCalls
<1>3. CASE result = "done"
  <2>1. HeapInv(out) /\ CallsInv(out, deferred) /\ agenda = << >> /\ OrderInv(out, << >>, deferred)
    BY <1>3 DEF Inv, Phases, CallsOK
  <2> DEFINE s == << 1, 1 >>
  <2>2. SlotOK(out, s) /\ s[1] = 1 /\ out' = Put(out, s, Null)
    <3>1. 1 \in DOMAIN out /\ DOMAIN out[1].elems = 1..1
      BY <2>1, HeapBasics DEF HeapInv
    <3> QED
      BY <3>1, <1>1 DEF SlotOK
  <2> HIDE DEF s
  <2>3. OrderInv(out', << >>, deferred)
    BY <2>1, <2>2, UnsetOrder
  <2>4. result' # "reading" /\ result' # "calling"
    BY <1>1, <1>3
  <2> QED
    BY <2>1, <2>3, <2>4, <1>1 DEF CallsOK
<1> QED
  BY <1>2, <1>3

(***************************************************************************)
(* The callers keep it.                                                    *)
(***************************************************************************)
LEMMA CallersCallsStep == CallersInv /\ CallsOK /\ [CallersNext]_allvars => CallsOK'
<1> SUFFICES ASSUME CallersInv, CallsOK, [CallersNext]_allvars PROVE CallsOK'
  OBVIOUS
<1>1. Inv
  BY DEF CallersInv
<1>2. CASE Unserialize \/ Decode
  <2>1. ReaderStep
    BY <1>2, ReaderSteps DEF Unserialize, Decode
  <2> QED
    BY <2>1, <1>1, ReaderCalls
<1>3. CASE ReturnEmpty \/ ReturnValue \/ DecodeFails \/ UNCHANGED allvars
  <2>1. UNCHANGED vars
    BY <1>3 DEF ReturnEmpty, ReturnValue, DecodeFails, allvars
  <2> QED
    BY <2>1, SameCalls DEF vars
<1>4. CASE ReturnNull \/ NotTable \/ SetVariables
  <2>1. result \in {"done", "error"} /\ Release /\ UnchangedButOut
    BY <1>4 DEF ReturnNull, NotTable, SetVariables, Ended
  <2> QED
    BY <2>1, <1>1, ReleaseCalls
<1> QED
  BY <1>2, <1>3, <1>4 DEF CallersNext

LEMMA CallsOKHolds == CallersSpec => [](CallersInv /\ CallsOK)
<1>1. CallersInit => CallersInv /\ CallsOK
  BY CallersAtStart, CallsAtStart DEF CallersInit
<1>2. CallersInv /\ CallsOK /\ [CallersNext]_allvars => (CallersInv /\ CallsOK)'
  BY CallersStep, CallersCallsStep
<1> QED
  BY <1>1, <1>2, PTL DEF CallersSpec

(***************************************************************************)
(* What follows from it.                                                   *)
(***************************************************************************)
LEMMA OnceFromInv == Inv /\ CallsOK => CalledOnce
<1> SUFFICES ASSUME Inv, CallsOK, result = "done"
             PROVE  /\ {deferred[i].o : i \in DOMAIN deferred} = Due(out)
                    /\ \A i, j \in DOMAIN deferred : deferred[i].o = deferred[j].o => i = j
  BY DEF CalledOnce
<1>1. agenda = << >> /\ Once(out, agenda, deferred)
  BY DEF Inv, Phases, CallsOK, OrderInv
<1>2. Waiting(agenda) = {}
  BY <1>1 DEF Waiting
<1> QED
  BY <1>1, <1>2 DEF Once

LEMMA ChildrenFromInv == Inv /\ CallsOK => ChildrenFirst
<1> SUFFICES ASSUME Inv, CallsOK, result = "calling", NEW i \in DOMAIN deferred, NEW j \in DOMAIN deferred,
                    deferred[j].o \in Contents(out, deferred[i]), deferred[j].o > deferred[i].o
             PROVE  j < i
  BY DEF ChildrenFirst
<1>1. agenda = << >> /\ Once(out, agenda, deferred) /\ YoungerFirst(out, deferred)
  BY DEF Inv, Phases, CallsOK, OrderInv
<1>2. deferred[j].o \in Due(out)
  BY <1>1 DEF Once
<1>3. PICK k \in DOMAIN deferred : k < i /\ deferred[k].o = deferred[j].o
  BY <1>1, <1>2 DEF YoungerFirst
<1>4. k = j
  BY <1>1, <1>3 DEF Once
<1> QED
  BY <1>3, <1>4

LEMMA CallsLiveFromInv == ~CallsUnset /\ Inv /\ CallsOK => CallsOnLiveObjects
<1> SUFFICES ASSUME ~CallsUnset, Inv, CallsOK, result = "calling", called < Len(deferred)
             PROVE  deferred[called + 1].o \in Live
  BY DEF CallsOnLiveObjects
<1> DEFINE j == called + 1
           S == ({1} \cup dtors \cup Params) \ {0}
<1>1. /\ HeapInv(out) /\ agenda = << >> /\ CallsInv(out, deferred) /\ dtors \subseteq DOMAIN out
      /\ called \in Nat
  BY DEF Inv, Phases
<1>2. Len(deferred) \in Nat /\ DOMAIN deferred = 1..Len(deferred) /\ j \in DOMAIN deferred
      /\ deferred[j].o \in DOMAIN out
  BY <1>1 DEF CallsInv, CallOK
<1>3. S \subseteq DOMAIN out
  <2>1. AgendaInv(out, agenda)
    BY <1>1 DEF AgendaInv
  <2> QED
    BY <2>1, <1>1, HoldersNow, HoldersTyped DEF Holders
<1>4. CallsHeld(out, << >>, deferred, dtors)
  BY <1>1 DEF CallsOK, HeldInv
<1>5. ({1} \cup dtors \cup ParamsFrom(<< >>, 1) \cup LaterParams(deferred, j)) \ {0} = S
  <2>1. ParamsFrom(<< >>, 1) = {} /\ {agenda[i].param : i \in {k \in DOMAIN agenda : agenda[k].op = "defer"}} = {}
    BY <1>1 DEF ParamsFrom
  <2>2. \A k \in DOMAIN deferred : k > called <=> k >= j
    BY <1>1, <1>2
  <2>3. Params = LaterParams(deferred, j)
    BY <2>1, <2>2 DEF Params, LaterParams
  <2> QED
    BY <2>1, <2>3
<1>6. ASSUME NEW C \in SUBSET DOMAIN out, Closed(out, C), S \subseteq C
      PROVE  deferred[j].o \in C
  <2>1. Holds(out, {1} \cup dtors \cup ParamsFrom(<< >>, 1) \cup LaterParams(deferred, j), C)
    BY <1>5, <1>6 DEF Holds
  <2> QED
    BY <2>1, <1>2, <1>4 DEF CallsHeld
<1> HIDE DEF j, S
<1>7. deferred[j].o \in Reach(out, S)
  BY <1>1, <1>2, <1>3, <1>6, ReachHas DEF HeapInv
<1> QED
  BY <1>7 DEF Live, j, S

\* igbinary_finish_deferred_calls: on success each object that was read and has a
\* __wakeup or an __unserialize was called once, whatever the input, with repeated
\* keys, back-references to objects being read and parameters within parameters.
THEOREM EachCalledOnce == CallersSpec => []CalledOnce
<1>1. CallersInv /\ CallsOK => CalledOnce
  BY OnceFromInv DEF CallersInv
<1> QED
  BY <1>1, CallsOKHolds, PTL

\* deferred is in the order in which the objects are finished: an object is called
\* after the objects made while it, or the array for its __unserialize, was read
\* and still held by it, whatever the calls before it unset.
THEOREM ContentsCalledFirst == CallersSpec => []ChildrenFirst
<1>1. CallersInv /\ CallsOK => ChildrenFirst
  BY ChildrenFromInv DEF CallersInv
<1> QED
  BY <1>1, CallsOKHolds, PTL

\* The objects of deferred calls are pointers without a refcount.  As long as the
\* calls do not unset properties, the value, the tracker and the parameters not yet
\* passed hold each of them until it has been called, on every input; when a call
\* may unset one, TLC finds a freed object (run wakeup_unsets).
THEOREM CalledWhileAlive ==
  ASSUME CallsUnset = FALSE
  PROVE  CallersSpec => []CallsOnLiveObjects
<1>1. CallersInv /\ CallsOK => CallsOnLiveObjects
  BY CallsLiveFromInv DEF CallersInv
<1> QED
  BY <1>1, CallsOKHolds, PTL

(***************************************************************************)
(* Positions of tokens, counted in order.                                  *)
(***************************************************************************)
Below(S, p) == Cardinality({j \in S : j < p})
\* q has, in order, what f has of the members of S before p
Listed(q, S, p, f) ==
    /\ Len(q) = Below(S, p)
    /\ \A j \in S : j < p => q[Below(S, j) + 1] = f[j]

LEMMA BelowFacts ==
  ASSUME NEW n \in Nat, NEW S \in SUBSET (1..n), NEW p \in Nat
  PROVE  /\ Below(S, p) \in Nat
         /\ p \notin S => Below(S, p + 1) = Below(S, p)
         /\ p \in S => Below(S, p + 1) = Below(S, p) + 1
         /\ \A j \in S : j < p => Below(S, j) \in Nat /\ Below(S, j) < Below(S, p)
<1> DEFINE B(k) == {j \in S : j < k}
<1>1. \A k \in Nat : IsFiniteSet(B(k)) /\ Cardinality(B(k)) \in Nat
  <2> TAKE k \in Nat
  <2>1. IsFiniteSet(1..n)
    BY FS_Interval
  <2>2. B(k) \in SUBSET (1..n)
    OBVIOUS
  <2> HIDE DEF B
  <2>3. IsFiniteSet(B(k))
    BY <2>1, <2>2, FS_Subset
  <2> QED
    BY <2>3, FS_CardinalityType
<1>9. \A j \in S : j \in Nat /\ ~(j < j) /\ (j < p + 1 <=> j < p \/ j = p)
  OBVIOUS
<1>2. p \notin S => B(p + 1) = B(p)
  BY <1>9
<1>3. p \in S => B(p + 1) = B(p) \cup {p} /\ p \notin B(p)
  BY <1>9
<1>4. ASSUME p \in S PROVE Cardinality(B(p + 1)) = Cardinality(B(p)) + 1
  BY <1>1, <1>3, <1>4, FS_AddElement
<1>5. ASSUME NEW j \in S, j < p
      PROVE  Cardinality(B(j)) \in Nat /\ Cardinality(B(j)) < Cardinality(B(p))
  <2>5. \A i \in S : i < j => i < p
    BY <1>5
  <2>1. j \in Nat /\ j \notin B(j) /\ B(j) \cup {j} \subseteq B(p)
    BY <1>5, <1>9, <2>5
  <2>2. IsFiniteSet(B(j)) /\ Cardinality(B(j)) \in Nat /\ Cardinality(B(p)) \in Nat
    BY <1>1, <2>1
  <2> HIDE DEF B
  <2>3. Cardinality(B(j) \cup {j}) = Cardinality(B(j)) + 1
    BY <2>1, <2>2, FS_AddElement
  <2>4. Cardinality(B(j) \cup {j}) <= Cardinality(B(p))
    BY <1>1, <2>1, FS_Subset
  <2> QED
    BY <2>2, <2>3, <2>4
<1> QED
  BY <1>1, <1>2, <1>4, <1>5 DEF Below

LEMMA ListSkip ==
  ASSUME NEW n \in Nat, NEW S \in SUBSET (1..n), NEW p \in Nat, p \notin S,
         NEW q, NEW f, Listed(q, S, p, f)
  PROVE  Listed(q, S, p + 1, f)
<1>1. Below(S, p + 1) = Below(S, p)
  BY BelowFacts
<1>2. \A j \in S : j < p + 1 => j < p
  OBVIOUS
<1> QED
  BY <1>1, <1>2 DEF Listed

LEMMA ListTake ==
  ASSUME NEW n \in Nat, NEW S \in SUBSET (1..n), NEW p \in S,
         NEW U, NEW q \in Seq(U), NEW f, Listed(q, S, p, f)
  PROVE  Listed(Append(q, f[p]), S, p + 1, f)
<1> DEFINE c == Append(q, f[p])
<1>1. /\ p \in Nat /\ Below(S, p) \in Nat /\ Below(S, p + 1) = Below(S, p) + 1
      /\ \A j \in S : j < p => Below(S, j) \in Nat /\ Below(S, j) < Below(S, p)
  <2>1. p \in Nat
    OBVIOUS
  <2> QED
    BY <2>1, BelowFacts
<1>2. /\ Len(q) = Below(S, p)
      /\ \A j \in S : j < p => q[Below(S, j) + 1] = f[j]
  BY DEF Listed
<1>3. Len(c) = Len(q) + 1 /\ c[Len(q) + 1] = f[p] /\ \A i \in 1..Len(q) : c[i] = q[i]
  OBVIOUS
<1> HIDE DEF c
<1>4. ASSUME NEW j \in S, j < p + 1
      PROVE  c[Below(S, j) + 1] = f[j]
  <2>1. CASE j = p
    BY <1>2, <1>3, <2>1
  <2>2. CASE j # p
    <3>1. j < p
      BY <1>1, <1>4, <2>2
    <3>2. Below(S, j) + 1 \in 1..Len(q)
      BY <1>1, <1>2, <3>1
    <3> QED
      BY <1>2, <1>3, <3>1, <3>2
  <2> QED
    BY <2>1, <2>2
<1> QED
  BY <1>1, <1>2, <1>3, <1>4 DEF Listed, c

(***************************************************************************)
(* The numbers the reader gives.                                           *)
(***************************************************************************)
Follows(b, i, tags) == i > 1 /\ b[i - 1].tag \in tags
TakesId(b, i) ==
    \/ b[i].tag \in {"obj", "objid"}
    \/ b[i].tag = "arr" /\ ~Follows(b, i, {"obj", "objid"})
    \/ b[i].tag \in ScalarTags /\ Follows(b, i, {"ref"})
IdTokens(b)   == {i \in DOMAIN b : TakesId(b, i)}
IdSrcs(b)     == [i \in DOMAIN b |-> IF b[i].tag \in ScalarTags THEN b[i - 1].src ELSE b[i].src]
NameTokens(b) == {i \in DOMAIN b : b[i].tag \in {"str", "obj"}}
NamesOf(b)    == [i \in DOMAIN b |-> b[i].v]
SrcsOf(dr)    == [i \in DOMAIN dr |-> dr[i].src]

\* A wrap item waits for the value of its slot, or finds a reference there, or the
\* array that took its place; only younger cells are fed before it is its turn.
Placed(H, s) == In(H, s).t \in {"ref", "arr"}
Fresh(ag, j) ==
    \A i \in DOMAIN ag : i < j => /\ ag[i].op \in {"zval", "wrap"} /\ ag[i].slot = ag[j].slot
                                  /\ ag[i].op = "zval" => ag[i].want
Settled(H, ag, j) ==
    /\ Placed(H, ag[j].slot)
    /\ \A i \in DOMAIN ag : i < j /\ Feeds(ag[i]) =>
          \/ Fed(ag[j]) < Fed(ag[i])
          \/ ag[i].op = "wrap" /\ ag[i].slot = ag[j].slot
WrapsOk(H, ag) == \A j \in DOMAIN ag : ag[j].op = "wrap" => Fresh(ag, j) \/ Settled(H, ag, j)

\* a reference is to be read; a scalar is to be boxed, and numbered
Wanted(ag)  == ag # << >> /\ Head(ag).op = "zval" /\ Head(ag).want
Owed(H, ag) == ag # << >> /\ Head(ag).op = "wrap" /\ ~Placed(H, Head(ag).slot)
HeadOk(H, ag, b, p) ==
    /\ Follows(b, p, {"ref"}) <=> Wanted(ag)
    /\ ~Follows(b, p, {"obj", "objid"})
    /\ Wanted(ag) => /\ 2 \in DOMAIN ag /\ ag[2].op = "wrap" /\ ag[2].slot = Head(ag).slot
                     /\ ag[2].src = b[p - 1].src
    /\ Owed(H, ag) => /\ In(H, Head(ag).slot).t # "obj"
                      /\ b[p - 1].tag \in ScalarTags /\ Follows(b, p - 1, {"ref"})
                      /\ Head(ag).src = b[p - 2].src

Ids(H, ag, dr) == IF Owed(H, ag) THEN Append(SrcsOf(dr), Head(ag).src) ELSE SrcsOf(dr)
IdsOk(H, ag, b, p, dr) == Listed(Ids(H, ag, dr), IdTokens(b), p, IdSrcs(b))
NamesOk(b, p, ds)      == Listed(ds, NameTokens(b), p, NamesOf(b))
CountOk == /\ WrapsOk(out, agenda) /\ HeadOk(out, agenda, input, pos)
           /\ IdsOk(out, agenda, input, pos, drefs) /\ NamesOk(input, pos, dstrings)
CountInv == result = "reading" => CountOk

\* what may take the place of the innermost item
Opens(H, G, ag, items) ==
    /\ Head(ag).op = "zval"
    /\ \A i \in DOMAIN items : /\ items[i].op \in {"fill", "defer"}
                               /\ items[i].op = "fill" => items[i].h > Len(H)
    /\ Head(ag).want => items = << >> \/ Placed(G, Head(ag).slot)
Wants(H, G, ag, items) ==
    /\ Head(ag).op = "zval" /\ G = H /\ DOMAIN items = 1..2
    /\ items[1].op = "zval" /\ items[1].want /\ items[1].slot = Head(ag).slot
    /\ items[2].op = "wrap" /\ items[2].slot = Head(ag).slot
Boxes(H, G, ag, items) == Head(ag).op = "wrap" /\ items = << >> /\ Placed(G, Head(ag).slot)
Loops(H, G, ag, items) ==
    /\ Head(ag).op = "fill"
    /\ \A i \in DOMAIN items : /\ items[i].op \in {"zval", "fill"} /\ Fed(items[i]) = Fed(Head(ag))
                               /\ items[i].op = "zval" => ~items[i].want
Calls(H, G, ag, items) == Head(ag).op = "defer" /\ items = << >> /\ G = H
Shape(H, G, ag, items) ==
    /\ Feeds(Head(ag)) => \A a \in DOMAIN H : a # Fed(Head(ag)) => G[a] = H[a]
    /\ \/ Opens(H, G, ag, items) \/ Wants(H, G, ag, items) \/ Boxes(H, G, ag, items)
       \/ Loops(H, G, ag, items) \/ Calls(H, G, ag, items)

LEMMA WrapsKept ==
  ASSUME NEW H, HeapInv(H), NEW G, NEW ag, ag # << >>, AgendaInv(H, ag), ZvalFirst(ag),
         NEW items \in Seq(ItemT), Shape(H, G, ag, items), WrapsOk(H, ag)
  PROVE  LET new == items \o Tail(ag)
         IN  /\ WrapsOk(G, new)
             /\ Wanted(new) => Wants(H, G, ag, items)
             /\ Owed(G, new) => /\ Wanted(ag) /\ items = << >> /\ Head(new) = ag[2] /\ 2 \in DOMAIN ag
                                /\ ag[2].slot = Head(ag).slot
<1> DEFINE new == items \o Tail(ag)
           n == Len(items)
<1>1. /\ Len(H) \in Nat /\ DOMAIN H = 1..Len(H) /\ ag \in Seq(ItemT) /\ Head(ag) = ag[1] /\ 1 \in DOMAIN ag
      /\ n \in Nat /\ DOMAIN items = 1..n /\ DOMAIN ag \subseteq Nat
      /\ \A j \in DOMAIN ag : j # 1 => j >= 2 /\ ag[j].op # "zval"
  BY HeapBasics DEF AgendaInv, ZvalFirst
<1>2. /\ \A k \in DOMAIN new : \/ k \in DOMAIN items /\ new[k] = items[k]
                               \/ \E j \in DOMAIN ag : j >= 2 /\ k = n + j - 1 /\ new[k] = ag[j]
      /\ \A i \in DOMAIN items : i \in DOMAIN new /\ new[i] = items[i]
      /\ \A j \in DOMAIN ag : j >= 2 => /\ n + j - 1 \in DOMAIN new
                                        /\ new[n + j - 1] = ag[j]
      /\ new \in Seq(ItemT)
  BY <1>1, CatTail
<1> HIDE DEF new
<1>3. DOMAIN new \subseteq Nat /\ (new # << >> => 1 \in DOMAIN new /\ Head(new) = new[1])
  BY <1>2
<1>4. \A j \in DOMAIN ag : ag[j].op = "wrap" =>
         Feeds(ag[j]) /\ Fed(ag[j]) = ag[j].slot[1] /\ Fed(ag[j]) \in DOMAIN H
  BY DEF AgendaInv, ItemOK, SlotOK, Feeds, Fed
<1>5. n = 0 => items = << >>
  BY <1>1
<1>6. items = << >> => n = 0 /\ DOMAIN items = {}
  BY <1>1
<1> HIDE DEF n
\* what was settled is settled
<1>7. ASSUME NEW j \in DOMAIN ag, j >= 2, ag[j].op = "wrap", Settled(H, ag, j)
      PROVE  /\ Placed(G, ag[j].slot)
             /\ \A i \in DOMAIN items : Feeds(items[i]) => Fed(ag[j]) < Fed(items[i])
                                        \/ (items[i].op = "wrap" /\ items[i].slot = ag[j].slot)
  <2>1. /\ Placed(H, ag[j].slot) /\ 1 < j
        /\ Feeds(ag[1]) => Fed(ag[j]) < Fed(ag[1]) \/ (ag[1].op = "wrap" /\ ag[1].slot = ag[j].slot)
    BY <1>1, <1>7 DEF Settled
  <2>2. ASSUME Feeds(ag[1]), Fed(ag[j]) < Fed(ag[1]) PROVE Placed(G, ag[j].slot)
    <3>1. Fed(ag[j]) # Fed(ag[1])
      BY <1>1, <1>4, <1>7, <2>2
    <3>2. G[Fed(ag[j])] = H[Fed(ag[j])]
      BY <1>1, <1>4, <1>7, <2>2, <3>1 DEF Shape
    <3> QED
      BY <1>4, <1>7, <2>1, <3>2 DEF In, Placed
  <2>3. CASE Opens(H, G, ag, items)
    <3>1. Feeds(ag[1]) /\ ag[1].op # "wrap"
      BY <1>1, <2>3 DEF Opens, Feeds
    <3>2. ASSUME NEW i \in DOMAIN items, Feeds(items[i]) PROVE Fed(ag[j]) < Fed(items[i])
      <4>1. items[i].op = "fill" /\ Fed(items[i]) > Len(H)
        BY <2>3, <3>2 DEF Opens, Feeds, Fed
      <4>2. items[i] \in ItemT
        BY <1>1
      <4>3. Fed(items[i]) \in Nat
        BY <4>1, <4>2 DEF ItemT, Fed
      <4> QED
        BY <1>1, <1>4, <1>7, <4>1, <4>3
    <3> QED
      BY <2>1, <2>2, <3>1, <3>2
  <2>4. CASE Wants(H, G, ag, items)
    <3>1. Feeds(ag[1]) /\ ag[1].op = "zval" /\ G = H
      BY <1>1, <2>4 DEF Wants, Feeds
    <3>2. \A i \in DOMAIN items : Fed(items[i]) = Fed(ag[1])
      <4>1. DOMAIN items = {1, 2}
        BY <2>4 DEF Wants
      <4> QED
        BY <1>1, <2>4, <4>1 DEF Wants, Fed
    <3> QED
      BY <2>1, <3>1, <3>2
  <2>5. CASE Boxes(H, G, ag, items)
    BY <1>1, <1>6, <2>1, <2>2, <2>5 DEF Boxes, Feeds
  <2>6. CASE Loops(H, G, ag, items)
    BY <1>1, <2>1, <2>2, <2>6 DEF Loops, Feeds
  <2>7. CASE Calls(H, G, ag, items)
    BY <1>6, <2>1, <2>7 DEF Calls
  <2> QED
    BY <2>3, <2>4, <2>5, <2>6, <2>7 DEF Shape
\* what was fresh is fresh or settled
<1>8. ASSUME NEW j \in DOMAIN ag, j >= 2, ag[j].op = "wrap", Fresh(ag, j)
      PROVE  /\ ag[1].op \in {"zval", "wrap"} /\ ag[1].slot = ag[j].slot /\ (ag[1].op = "zval" => ag[1].want)
             /\ \A i \in DOMAIN ag : i >= 2 /\ i < j => ag[i].op = "wrap" /\ ag[i].slot = ag[j].slot
             /\ \/ items = << >>
                \/ Placed(G, ag[j].slot) /\ \A i \in DOMAIN items : Feeds(items[i]) => Fed(ag[j]) < Fed(items[i])
                \/ Wants(H, G, ag, items)
  <2>1. ag[1].op \in {"zval", "wrap"} /\ ag[1].slot = ag[j].slot /\ (ag[1].op = "zval" => ag[1].want)
    BY <1>1, <1>8 DEF Fresh
  <2>2. \A i \in DOMAIN ag : i >= 2 /\ i < j => ag[i].op = "wrap" /\ ag[i].slot = ag[j].slot
    BY <1>1, <1>8 DEF Fresh
  <2>3. CASE Opens(H, G, ag, items)
    <3>1. items = << >> \/ Placed(G, ag[j].slot)
      BY <1>1, <2>1, <2>3 DEF Opens
    <3>2. ASSUME NEW i \in DOMAIN items, Feeds(items[i]) PROVE Fed(ag[j]) < Fed(items[i])
      <4>1. items[i].op = "fill" /\ Fed(items[i]) > Len(H)
        BY <2>3, <3>2 DEF Opens, Feeds, Fed
      <4>2. items[i] \in ItemT
        BY <1>1
      <4>3. Fed(items[i]) \in Nat
        BY <4>1, <4>2 DEF ItemT, Fed
      <4> QED
        BY <1>1, <1>4, <1>8, <4>1, <4>3
    <3> QED
      BY <2>1, <2>2, <3>1, <3>2
  <2>4. CASE Wants(H, G, ag, items) \/ Boxes(H, G, ag, items) \/ Calls(H, G, ag, items)
    BY <2>1, <2>2, <2>4 DEF Boxes, Calls
  <2>5. CASE Loops(H, G, ag, items)
    BY <1>1, <2>1, <2>5 DEF Loops
  <2> QED
    BY <2>3, <2>4, <2>5 DEF Shape
<1>9. WrapsOk(G, new)
  <2>1. SUFFICES ASSUME NEW k \in DOMAIN new, new[k].op = "wrap"
                 PROVE  Fresh(new, k) \/ Settled(G, new, k)
    BY DEF WrapsOk
  <2>2. CASE k \in DOMAIN items /\ new[k] = items[k]
    <3>1. Wants(H, G, ag, items)
      BY <1>6, <2>1, <2>2 DEF Shape, Opens, Boxes, Loops, Calls
    <3>2. k \in {1, 2} /\ k # 1
      BY <2>1, <2>2, <3>1 DEF Wants
    <3>3. \A i \in DOMAIN new : i < 2 => i = 1
      BY <1>3
    <3>4. new[1] = items[1] /\ 1 \in DOMAIN items
      BY <1>2, <3>1 DEF Wants
    <3> QED
      BY <2>2, <3>1, <3>2, <3>3, <3>4 DEF Fresh, Wants
  <2>3. CASE \E j \in DOMAIN ag : j >= 2 /\ k = n + j - 1 /\ new[k] = ag[j]
    <3>1. PICK j \in DOMAIN ag : j >= 2 /\ k = n + j - 1 /\ new[k] = ag[j]
      BY <2>3
    <3>2. \A i \in DOMAIN new : i < k => \/ i \in DOMAIN items /\ new[i] = items[i]
                                         \/ \E j2 \in DOMAIN ag : j2 >= 2 /\ j2 < j /\ new[i] = ag[j2]
      <4> TAKE i \in DOMAIN new
      <4> HAVE i < k
      <4>1. CASE i \in DOMAIN items /\ new[i] = items[i]
        BY <4>1
      <4>2. CASE \E j2 \in DOMAIN ag : j2 >= 2 /\ i = n + j2 - 1 /\ new[i] = ag[j2]
        <5>1. PICK j2 \in DOMAIN ag : j2 >= 2 /\ i = n + j2 - 1 /\ new[i] = ag[j2]
          BY <4>2
        <5>2. j2 < j
          BY SMTT(30), <1>1, <3>1, <5>1
        <5> QED
          BY <5>1, <5>2
      <4> QED
        BY <1>2, <4>1, <4>2
    <3>3. CASE Settled(H, ag, j)
      <4>1. \A i \in DOMAIN ag : i < j /\ Feeds(ag[i]) =>
               \/ Fed(ag[j]) < Fed(ag[i])
               \/ ag[i].op = "wrap" /\ ag[i].slot = ag[j].slot
        BY <3>3 DEF Settled
      <4>2. /\ Placed(G, ag[j].slot)
            /\ \A i \in DOMAIN items : Feeds(items[i]) => Fed(ag[j]) < Fed(items[i])
                                        \/ (items[i].op = "wrap" /\ items[i].slot = ag[j].slot)
        BY <1>7, <2>1, <3>1, <3>3
      <4>3. \A i \in DOMAIN new : i < k /\ Feeds(new[i]) =>
               \/ Fed(ag[j]) < Fed(new[i])
               \/ new[i].op = "wrap" /\ new[i].slot = ag[j].slot
        BY <3>2, <4>1, <4>2
      <4> QED
        BY <3>1, <4>2, <4>3 DEF Settled
    <3>4. CASE Fresh(ag, j)
      <4>1. /\ \A i \in DOMAIN ag : i >= 2 /\ i < j => ag[i].op = "wrap" /\ ag[i].slot = ag[j].slot
            /\ ag[1].slot = ag[j].slot
            /\ \/ items = << >>
               \/ Placed(G, ag[j].slot) /\ \A i \in DOMAIN items : Feeds(items[i]) => Fed(ag[j]) < Fed(items[i])
               \/ Wants(H, G, ag, items)
        BY <1>8, <2>1, <3>1, <3>4
      <4>2. CASE items = << >>
        BY <1>6, <3>1, <3>2, <4>1, <4>2 DEF Fresh
      <4>3. CASE Placed(G, ag[j].slot) /\ \A i \in DOMAIN items : Feeds(items[i]) => Fed(ag[j]) < Fed(items[i])
        BY <3>1, <3>2, <4>1, <4>3 DEF Settled
      <4>4. CASE Wants(H, G, ag, items)
        <5>1. \A i \in DOMAIN items : /\ items[i].op \in {"zval", "wrap"} /\ items[i].slot = ag[j].slot
                                      /\ items[i].op = "zval" => items[i].want
          <6>1. DOMAIN items = {1, 2}
            BY <4>4 DEF Wants
          <6> QED
            BY <1>1, <4>1, <4>4, <6>1 DEF Wants
        <5> QED
          BY <3>1, <3>2, <4>1, <5>1 DEF Fresh
      <4> QED
        BY <4>1, <4>2, <4>3, <4>4
    <3>5. Fresh(ag, j) \/ Settled(H, ag, j)
      BY <2>1, <3>1 DEF WrapsOk
    <3> QED
      BY <3>3, <3>4, <3>5
  <2> QED
    BY <1>2, <2>2, <2>3
<1>10. new # << >> => \/ 1 \in DOMAIN items /\ Head(new) = items[1]
                      \/ items = << >> /\ 2 \in DOMAIN ag /\ Head(new) = ag[2]
  <2>1. SUFFICES ASSUME new # << >>
                 PROVE  \/ 1 \in DOMAIN items /\ new[1] = items[1]
                        \/ items = << >> /\ 2 \in DOMAIN ag /\ new[1] = ag[2]
    BY <1>3
  <2>2. 1 \in DOMAIN new
    BY <1>3, <2>1
  <2>3. CASE \E j \in DOMAIN ag : j >= 2 /\ 1 = n + j - 1 /\ new[1] = ag[j]
    <3>1. PICK j \in DOMAIN ag : j >= 2 /\ 1 = n + j - 1 /\ new[1] = ag[j]
      BY <2>3
    <3>2. n \in Nat /\ j \in Nat /\ j >= 2 /\ 1 = n + j - 1
      BY <1>1, <3>1
    <3>3. n = 0 /\ j = 2
      BY ONLY <3>2
    <3> QED
      BY <1>5, <3>1, <3>3
  <2> QED
    BY <1>2, <2>2, <2>3
<1>11. Wanted(new) => Wants(H, G, ag, items)
  <2>1. SUFFICES ASSUME Wanted(new), ~Wants(H, G, ag, items) PROVE FALSE
    OBVIOUS
  <2>2. new # << >> /\ Head(new).op = "zval" /\ Head(new).want
    BY <2>1 DEF Wanted
  <2>3. 1 \in DOMAIN items /\ items[1].op = "zval" /\ items[1].want
    BY <1>1, <1>10, <2>2
  <2> QED
    BY <1>6, <2>1, <2>3 DEF Shape, Opens, Boxes, Loops, Calls
<1>12. ASSUME Owed(G, new)
       PROVE  /\ Wanted(ag) /\ items = << >> /\ Head(new) = ag[2] /\ 2 \in DOMAIN ag
              /\ ag[2].slot = Head(ag).slot
  <2>1. new # << >> /\ Head(new).op = "wrap" /\ ~Placed(G, Head(new).slot)
    BY <1>12 DEF Owed
  <2>2. items = << >> /\ 2 \in DOMAIN ag /\ Head(new) = ag[2]
    <3>1. SUFFICES ASSUME 1 \in DOMAIN items, items[1].op = "wrap" PROVE FALSE
      BY <1>10, <2>1
    <3> QED
      BY <1>6, <3>1 DEF Shape, Opens, Wants, Boxes, Loops, Calls
  <2>3. ~Settled(H, ag, 2)
    BY <1>7, <2>1, <2>2
  <2>4. Fresh(ag, 2)
    BY <2>1, <2>2, <2>3 DEF WrapsOk
  <2>5. ag[1].op \in {"zval", "wrap"} /\ ag[1].slot = ag[2].slot /\ (ag[1].op = "zval" => ag[1].want)
    BY <1>8, <2>1, <2>2, <2>4
  <2>6. ag[1].op # "wrap"
    <3>1. SUFFICES ASSUME ag[1].op = "wrap" PROVE FALSE
      OBVIOUS
    <3>2. Boxes(H, G, ag, items)
      BY <1>1, <3>1 DEF Shape, Opens, Wants, Loops, Calls
    <3> QED
      BY <1>1, <2>1, <2>2, <2>5, <3>2 DEF Boxes
  <2> QED
    BY <1>1, <2>2, <2>5, <2>6 DEF Wanted
<1> QED
  BY <1>9, <1>11, <1>12 DEF new

\* tokens, one after the other
LEMMA TokensTyped ==
  ASSUME NEW U, NEW b \in Seq(U)
  PROVE  /\ Len(b) \in Nat /\ DOMAIN b = 1..Len(b)
         /\ IdTokens(b) \in SUBSET (1..Len(b)) /\ NameTokens(b) \in SUBSET (1..Len(b))
BY DEF IdTokens, NameTokens

LEMMA NamesNext ==
  ASSUME InputInv, dstrings \in Seq(Str), pos \in DOMAIN input, NamesOk(input, pos, dstrings)
  PROVE  NamesOk(input, pos + 1, Strings1(T))
<1>1. /\ Len(input) \in Nat /\ NameTokens(input) \in SUBSET (1..Len(input)) /\ pos \in Nat
  BY TokensTyped DEF InputInv
<1>2. CASE T.tag \in {"str", "obj"}
  <2>1. pos \in NameTokens(input) /\ NamesOf(input)[pos] = T.v /\ Strings1(T) = Append(dstrings, T.v)
    BY <1>2 DEF NameTokens, NamesOf, T, Strings1
  <2> QED
    BY <1>1, <2>1, ListTake DEF NamesOk
<1>3. CASE T.tag \notin {"str", "obj"}
  <2>1. pos \notin NameTokens(input) /\ Strings1(T) = dstrings
    BY <1>3 DEF NameTokens, T, Strings1
  <2> QED
    BY <1>1, <2>1, ListSkip DEF NamesOk
<1> QED
  BY <1>2, <1>3

LEMMA NamesPass ==
  ASSUME InputInv, NEW p \in DOMAIN input, NEW ds, NamesOk(input, p, ds), input[p].tag \notin {"str", "obj"}
  PROVE  NamesOk(input, p + 1, ds)
<1>1. /\ Len(input) \in Nat /\ NameTokens(input) \in SUBSET (1..Len(input)) /\ p \in Nat
  BY TokensTyped DEF InputInv
<1>2. p \notin NameTokens(input)
  BY DEF NameTokens
<1> QED
  BY <1>1, <1>2, ListSkip DEF NamesOk

LEMMA SrcsAppend ==
  ASSUME NEW U, NEW dr \in Seq(U), NEW e
  PROVE  /\ SrcsOf(Append(dr, e)) = Append(SrcsOf(dr), e.src)
         /\ SrcsOf(dr) \in Seq({u.src : u \in U}) /\ Len(SrcsOf(dr)) = Len(dr)
<1> DEFINE V == {u.src : u \in U}
           a == SrcsOf(Append(dr, e))
           c == Append(SrcsOf(dr), e.src)
           m == Len(dr)
<1>1. m \in Nat /\ DOMAIN dr = 1..m /\ \A i \in 1..m : dr[i] \in U
  OBVIOUS
<1>2. SrcsOf(dr) \in Seq(V) /\ Len(SrcsOf(dr)) = m
  <2>1. \A i \in 1..m : dr[i].src \in V
    BY <1>1
  <2>2. SrcsOf(dr) \in [1..m -> V]
    BY <1>1, <2>1 DEF SrcsOf
  <2> QED
    BY <1>1, <2>2
<1>3. /\ DOMAIN Append(dr, e) = 1..(m + 1) /\ Append(dr, e)[m + 1] = e
      /\ \A i \in 1..m : Append(dr, e)[i] = dr[i]
  OBVIOUS
<1>4. /\ DOMAIN a = 1..(m + 1) /\ a[m + 1] = e.src /\ \A i \in 1..m : a[i] = dr[i].src
  <2>1. m + 1 \in 1..(m + 1) /\ \A i \in 1..m : i \in 1..(m + 1)
    BY <1>1
  <2> QED
    BY <1>3, <2>1 DEF SrcsOf
<1>5. /\ DOMAIN c = 1..(m + 1) /\ c[m + 1] = e.src /\ \A i \in 1..m : c[i] = dr[i].src
  <2>1. \A i \in 1..m : SrcsOf(dr)[i] = dr[i].src
    BY <1>1 DEF SrcsOf
  <2> HIDE DEF m
  <2>2. \A i \in 1..m : c[i] = SrcsOf(dr)[i]
    BY <1>2
  <2>3. DOMAIN c = 1..(m + 1) /\ c[m + 1] = e.src
    BY <1>2
  <2> QED
    BY <2>1, <2>2, <2>3
<1>6. a = [i \in 1..(m + 1) |-> a[i]] /\ c = [i \in 1..(m + 1) |-> c[i]]
  <2>1. a = [i \in DOMAIN a |-> a[i]]
    BY DEF SrcsOf
  <2>2. c \in Seq(V \cup {e.src})
    BY <1>2
  <2>3. c = [i \in DOMAIN c |-> c[i]]
    BY <2>2
  <2> QED
    BY <1>4, <1>5, <2>1, <2>3
<1>7. \A i \in 1..(m + 1) : a[i] = c[i]
  <2> HIDE DEF a, c, m
  <2> TAKE i \in 1..(m + 1)
  <2>1. i \in 1..m \/ i = m + 1
    BY <1>1
  <2> QED
    BY <2>1, <1>4, <1>5
<1> QED
  BY <1>2, <1>6, <1>7

\* a token that takes the next id, and one that takes none
LEMMA IdTaken ==
  ASSUME Inv, pos \in DOMAIN input, ~Owed(out, agenda), IdsOk(out, agenda, input, pos, drefs),
         TakesId(input, pos), NEW e, e.src = IdSrcs(input)[pos]
  PROVE  Listed(SrcsOf(Append(drefs, e)), IdTokens(input), pos + 1, IdSrcs(input))
<1>1. /\ Len(input) \in Nat /\ IdTokens(input) \in SUBSET (1..Len(input)) /\ pos \in IdTokens(input)
  BY TokensTyped DEF Inv, InputInv, IdTokens
<1>2. drefs \in Seq(RefT)
  BY DEF Inv, RefsInv
<1>3. SrcsOf(Append(drefs, e)) = Append(SrcsOf(drefs), e.src) /\ SrcsOf(drefs) \in Seq({u.src : u \in RefT})
  BY <1>2, SrcsAppend
<1>4. Listed(SrcsOf(drefs), IdTokens(input), pos, IdSrcs(input))
  BY DEF IdsOk, Ids
<1> DEFINE V == {u.src : u \in RefT}
<1>5. SrcsOf(drefs) \in Seq(V)
  BY <1>3
<1> HIDE DEF V
<1>6. Listed(Append(SrcsOf(drefs), IdSrcs(input)[pos]), IdTokens(input), pos + 1, IdSrcs(input))
  BY <1>1, <1>4, <1>5, ListTake
<1> QED
  BY <1>3, <1>6

LEMMA IdNotTaken ==
  ASSUME InputInv, NEW p \in DOMAIN input, ~TakesId(input, p), NEW q, Listed(q, IdTokens(input), p, IdSrcs(input))
  PROVE  Listed(q, IdTokens(input), p + 1, IdSrcs(input))
<1>1. /\ Len(input) \in Nat /\ IdTokens(input) \in SUBSET (1..Len(input)) /\ p \in Nat /\ p \notin IdTokens(input)
  BY TokensTyped DEF InputInv, IdTokens
<1> QED
  BY <1>1, ListSkip

\* a tail after nothing
LEMMA TailsAre ==
  ASSUME NEW ag, ag \in Seq(ItemT), ag # << >>
  PROVE  /\ << >> \o Tail(ag) = Tail(ag)
         /\ 2 \in DOMAIN ag => Tail(ag) # << >> /\ Head(Tail(ag)) = ag[2]
<1> DEFINE t == Tail(ag)
<1>1. t \in Seq(ItemT)
  OBVIOUS
<1>2. ASSUME 2 \in DOMAIN ag PROVE Len(t) >= 1 /\ t[1] = ag[2]
  BY <1>2
<1> HIDE DEF t
<1>3. ASSUME 2 \in DOMAIN ag PROVE t # << >> /\ Head(t) = ag[2]
  BY <1>1, <1>2, <1>3
<1>4. << >> \o t = t
  BY <1>1
<1> QED
  BY <1>3, <1>4 DEF t

LEMMA OthersKept ==
  ASSUME Stepped
  PROVE  \A a \in DOMAIN out : a # Fed(Head(agenda)) => out'[a] = out[a]
BY DEF Stepped, StepIs, OneFed

LEMMA AgendaNow ==
  ASSUME Inv, result = "reading", agenda # << >>
  PROVE  /\ HeapInv(out) /\ AgendaInv(out, agenda) /\ ZvalFirst(agenda) /\ InputInv
         /\ dstrings \in Seq(Str) /\ drefs \in Seq(RefT)
BY DEF Inv, Phases, ReadInv, RefsInv

\* a step after which no scalar is to be boxed, and no reference is to be read
LEMMA Settles ==
  ASSUME Inv, CountInv, result = "reading", agenda # << >>, NEW items \in Seq(ItemT), Do(items),
         Shape(out, out', agenda, items), ~Wants(out, out', agenda, items), input' = input,
         Head(agenda).op = "zval" /\ Top.want => Placed(out', Top.slot),
         ~Follows(input, pos', {"ref", "obj", "objid"}),
         Listed(SrcsOf(drefs'), IdTokens(input), pos', IdSrcs(input)), NamesOk(input, pos', dstrings')
  PROVE  CountOk' /\ ~Owed(out', agenda')
<1>1. /\ HeapInv(out) /\ AgendaInv(out, agenda) /\ ZvalFirst(agenda) /\ WrapsOk(out, agenda)
  BY AgendaNow DEF CountInv, CountOk
<1>2. agenda' = items \o Tail(agenda)
  BY DEF Do
<1>3. /\ WrapsOk(out', agenda') /\ ~Wanted(agenda')
      /\ Owed(out', agenda') => /\ Wanted(agenda) /\ Head(agenda') = agenda[2]
                                /\ agenda[2].slot = Head(agenda).slot
  BY <1>1, <1>2, WrapsKept
<1>4. ~Owed(out', agenda')
  <2>1. SUFFICES ASSUME Owed(out', agenda') PROVE FALSE
    OBVIOUS
  <2>2. ~Placed(out', Head(agenda').slot)
    BY <2>1 DEF Owed
  <2>3. Head(agenda').slot = Top.slot /\ Head(agenda).op = "zval" /\ Top.want
    BY <1>3, <2>1 DEF Wanted, Top
  <2> QED
    BY <2>2, <2>3
<1>5. ~Follows(input, pos', {"ref"}) /\ ~Follows(input, pos', {"obj", "objid"})
  BY DEF Follows
<1>6. HeadOk(out', agenda', input, pos')
  BY <1>3, <1>4, <1>5 DEF HeadOk
<1>7. IdsOk(out', agenda', input, pos', drefs')
  BY <1>4 DEF IdsOk, Ids
<1> QED
  BY <1>3, <1>4, <1>6, <1>7 DEF CountOk

\* the token at pos has been read
LEMMA TokenRead ==
  ASSUME Inv, At("zval") \/ At("fill"), More
  PROVE  /\ pos \in DOMAIN input /\ pos \in Nat /\ pos >= 1 /\ pos + 1 > 1 /\ (pos + 1) - 1 = pos
         /\ T = input[pos] /\ InputInv /\ dstrings \in Seq(Str) /\ drefs \in Seq(RefT)
         /\ result = "reading" /\ agenda # << >> /\ HeapInv(out)
         /\ \A tags : Follows(input, pos + 1, tags) <=> T.tag \in tags
<1>1. result = "reading" /\ agenda # << >>
  BY DEF At
<1>2. HeapInv(out) /\ InputInv /\ dstrings \in Seq(Str) /\ drefs \in Seq(RefT)
  BY <1>1, AgendaNow
<1>3. pos \in DOMAIN input /\ pos \in Nat /\ pos >= 1
  BY <1>2, AtPos
<1>4. pos + 1 > 1 /\ (pos + 1) - 1 = pos
  BY <1>3
<1> QED
  BY <1>1, <1>2, <1>3, <1>4 DEF T, Follows

\* before a value or a key there is nothing to box
LEMMA NothingOwed ==
  ASSUME CountInv, At("zval") \/ At("fill")
  PROVE  /\ ~Owed(out, agenda) /\ Listed(SrcsOf(drefs), IdTokens(input), pos, IdSrcs(input))
         /\ NamesOk(input, pos, dstrings) /\ ~Follows(input, pos, {"obj", "objid"})
         /\ Follows(input, pos, {"ref"}) <=> Wanted(agenda)
         /\ IdsOk(out, agenda, input, pos, drefs)
         /\ At("fill") => ~Wanted(agenda)
         /\ Wanted(agenda) <=> At("zval") /\ Top.want
<1>1. result = "reading" /\ agenda # << >> /\ (Head(agenda).op = "zval" \/ Head(agenda).op = "fill")
  BY DEF At
<1>2. CountOk
  BY <1>1 DEF CountInv
<1>3. ~Owed(out, agenda)
  BY <1>1 DEF Owed
<1>4. At("fill") => ~Wanted(agenda)
  BY DEF At, Wanted
<1>5. Wanted(agenda) <=> At("zval") /\ Top.want
  BY <1>1 DEF At, Wanted, Top
<1>6. HeadOk(out, agenda, input, pos) /\ IdsOk(out, agenda, input, pos, drefs) /\ NamesOk(input, pos, dstrings)
  BY <1>2 DEF CountOk
<1>7. Listed(SrcsOf(drefs), IdTokens(input), pos, IdSrcs(input))
  BY <1>3, <1>6 DEF IdsOk, Ids
<1>8. ~Follows(input, pos, {"obj", "objid"}) /\ (Follows(input, pos, {"ref"}) <=> Wanted(agenda))
  BY <1>6 DEF HeadOk
<1> QED
  BY <1>3, <1>4, <1>5, <1>6, <1>7, <1>8

(***************************************************************************)
(* The actions that read a scalar or a reference.                          *)
(***************************************************************************)
LEMMA ScalarSrc ==
  ASSUME NEW b, NEW p \in DOMAIN b
  PROVE  IdSrcs(b)[p] = (IF b[p].tag \in ScalarTags THEN b[p - 1].src ELSE b[p].src)
BY DEF IdSrcs

LEMMA ReadScalarCount == ASSUME Inv, CountInv, ReadScalar PROVE CountOk'
<1>1. /\ At("zval") /\ More /\ T.tag \in ScalarTags /\ out' = Put(out, Top.slot, Scalar(T))
      /\ dstrings' = Strings1(T) /\ pos' = pos + 1 /\ Do(<< >>) /\ input' = input /\ drefs' = drefs
      /\ StringKnown(T)
  BY DEF ReadScalar, AtToken
<1>2. /\ pos \in DOMAIN input /\ pos \in Nat /\ pos >= 1 /\ (pos + 1) - 1 = pos /\ T = input[pos]
      /\ InputInv /\ dstrings \in Seq(Str) /\ drefs \in Seq(RefT)
      /\ result = "reading" /\ agenda # << >> /\ HeapInv(out)
      /\ \A tags : Follows(input, pos + 1, tags) <=> T.tag \in tags
  BY <1>1, TokenRead
<1>3. /\ Listed(SrcsOf(drefs), IdTokens(input), pos, IdSrcs(input)) /\ NamesOk(input, pos, dstrings)
      /\ ~Follows(input, pos, {"obj", "objid"}) /\ (Follows(input, pos, {"ref"}) <=> Wanted(agenda))
      /\ HeadOk(out, agenda, input, pos) /\ WrapsOk(out, agenda) /\ ~Owed(out, agenda)
      /\ IdsOk(out, agenda, input, pos, drefs)
  BY <1>1, <1>2, NothingOwed DEF CountInv, CountOk
<1>4. HeapInv(out) /\ AgendaInv(out, agenda) /\ ZvalFirst(agenda) /\ SlotOK(out, Top.slot)
  BY <1>1, <1>2, AgendaNow, ZvalFacts
<1> DEFINE none == << >>
<1>5. none \in Seq(ItemT) /\ DOMAIN none = {} /\ Do(none) /\ agenda' = none \o Tail(agenda) /\ none = << >>
  BY <1>1 DEF Do
<1> HIDE DEF none
<1>6. Shape(out, out', agenda, none)
  <2>1. Opens(out, out', agenda, none)
    BY <1>1, <1>5 DEF Opens, At
  <2>2. \A a \in DOMAIN out : a # Fed(Head(agenda)) => out'[a] = out[a]
    BY ReadScalarStep, OthersKept
  <2> QED
    BY <2>1, <2>2 DEF Shape
<1>7. /\ WrapsOk(out', agenda') /\ ~Wanted(agenda')
      /\ Owed(out', agenda') => /\ Wanted(agenda) /\ Head(agenda') = agenda[2] /\ 2 \in DOMAIN agenda
                                /\ agenda[2].slot = Head(agenda).slot
  <2>1. ~Wants(out, out', agenda, none)
    <3>1. 1 \in 1..2
      OBVIOUS
    <3> QED
      BY <1>5, <3>1 DEF Wants
  <2> QED
    BY <1>2, <1>3, <1>4, <1>5, <1>6, <2>1, WrapsKept
<1>8. In(out', Top.slot) = Scalar(T)
  <2>1. Len(out) \in Nat /\ Heap(out, Len(out))
    BY <1>4, HeapBasics DEF HeapInv
  <2>2. Top.slot[1] \in DOMAIN out /\ Top.slot[2] \in DOMAIN out[Top.slot[1]].elems
    BY <1>4 DEF SlotOK
  <2>3. Put(out, Top.slot, Scalar(T))[Top.slot[1]].elems[Top.slot[2]].v = Scalar(T)
    BY <2>1, <2>2, <1>4, PutFacts
  <2> QED
    BY <2>3, <1>1 DEF In
<1>9. Scalar(T).t \notin Counted
  <2>1. GoodTok(T)
    BY <1>1, <1>2, AtPos
  <2>2. Scalar(T) \in {Null} \cup Key
    BY <2>1, <1>1, <1>2, TokFacts
  <2> QED
    BY <2>2, ScalarFits
<1>10. T.tag \notin {"ref", "obj", "objid"}
  BY <1>1 DEF ScalarTags
<1>11. TakesId(input, pos) <=> Wanted(agenda)
  <2>1. T.tag # "arr" /\ T.tag \notin {"obj", "objid"}
    BY <1>1 DEF ScalarTags
  <2> QED
    BY <1>1, <1>2, <1>3, <2>1 DEF TakesId
<1>12. NamesOk(input, pos + 1, Strings1(T))
  BY <1>2, <1>3, NamesNext
<1>13. CASE Owed(out', agenda')
  <2>1. /\ Wanted(agenda) /\ Head(agenda') = agenda[2] /\ agenda[2].slot = Top.slot
        /\ agenda[2].src = input[pos - 1].src
    BY <1>3, <1>7, <1>13 DEF HeadOk, Top
  <2>2. IdSrcs(input)[pos] = Head(agenda').src
    BY <1>1, <1>2, <2>1, ScalarSrc
  <2> DEFINE e == [src |-> Head(agenda').src]
  <2>3. e.src = IdSrcs(input)[pos] /\ e.src = Head(agenda').src
    BY <2>2
  <2> HIDE DEF e
  <2>4. Listed(SrcsOf(Append(drefs, e)), IdTokens(input), pos + 1, IdSrcs(input))
    BY <1>2, <1>3, <1>11, <2>1, <2>3, IdTaken
  <2>5. SrcsOf(Append(drefs, e)) = Append(SrcsOf(drefs), e.src)
    BY <1>2, SrcsAppend
  <2>6. Listed(Append(SrcsOf(drefs), Head(agenda').src), IdTokens(input), pos + 1, IdSrcs(input))
    BY <2>3, <2>4, <2>5
  <2>7. IdsOk(out', agenda', input', pos', drefs')
    BY <1>1, <1>13, <2>6 DEF IdsOk, Ids
  <2>8. HeadOk(out', agenda', input', pos')
    <3>1. In(out', Head(agenda').slot).t # "obj"
      BY <1>8, <1>9, <2>1 DEF Counted
    <3>2. Follows(input, pos, {"ref"})
      BY <1>3, <2>1
    <3>3. Head(agenda').src = input[pos - 1].src /\ (pos + 1) - 2 = pos - 1
      BY <1>2, <2>1
    <3> QED
      BY <1>1, <1>2, <1>7, <1>10, <3>1, <3>2, <3>3 DEF HeadOk
  <2> QED
    BY <1>1, <1>7, <1>12, <2>7, <2>8 DEF CountOk
<1>14. CASE ~Owed(out', agenda')
  <2>1. ~Wanted(agenda)
    <3>1. SUFFICES ASSUME Wanted(agenda) PROVE FALSE
      OBVIOUS
    <3>2. 2 \in DOMAIN agenda /\ agenda[2].op = "wrap" /\ agenda[2].slot = Top.slot
      BY <1>3, <3>1 DEF HeadOk, Top
    <3>3. agenda' # << >> /\ Head(agenda') = agenda[2]
      <4>1. agenda \in Seq(ItemT)
        BY <1>4 DEF AgendaInv
      <4>2. agenda' = Tail(agenda)
        BY <4>1, <1>1, <1>2, TailsAre DEF Do
      <4> QED
        BY <4>1, <4>2, <3>2, <1>2, TailsAre
    <3>4. ~Placed(out', Head(agenda').slot)
      BY <1>8, <1>9, <3>2, <3>3 DEF Counted, Placed
    <3> QED
      BY <1>14, <3>2, <3>3, <3>4 DEF Owed
  <2>2. Listed(SrcsOf(drefs), IdTokens(input), pos + 1, IdSrcs(input))
    BY <1>2, <1>3, <1>11, <2>1, IdNotTaken
  <2>3. IdsOk(out', agenda', input', pos', drefs')
    BY <1>1, <1>14, <2>2 DEF IdsOk, Ids
  <2>4. HeadOk(out', agenda', input', pos')
    BY <1>1, <1>2, <1>7, <1>10, <1>14 DEF HeadOk
  <2> QED
    BY <1>1, <1>7, <1>12, <2>3, <2>4 DEF CountOk
<1> QED
  BY <1>13, <1>14

LEMMA ReadReferenceCount == ASSUME Inv, CountInv, ReadReference PROVE CountOk'
<1>1. /\ At("zval") /\ More /\ T.tag = "ref" /\ out' = out /\ pos' = pos + 1
      /\ Do(<< Read(Top.slot, TRUE), Wrap(Top.slot, T.src) >>)
      /\ dstrings' = dstrings /\ input' = input /\ drefs' = drefs
  BY DEF ReadReference, AtToken
<1>2. /\ pos \in DOMAIN input /\ pos \in Nat /\ pos >= 1 /\ (pos + 1) - 1 = pos /\ T = input[pos]
      /\ InputInv /\ dstrings \in Seq(Str) /\ drefs \in Seq(RefT)
      /\ result = "reading" /\ agenda # << >> /\ HeapInv(out)
      /\ \A tags : Follows(input, pos + 1, tags) <=> T.tag \in tags
  BY <1>1, TokenRead
<1>3. /\ Listed(SrcsOf(drefs), IdTokens(input), pos, IdSrcs(input)) /\ NamesOk(input, pos, dstrings)
      /\ WrapsOk(out, agenda) /\ Top.slot \in Slots /\ T.src \in Srcs
  <2>1. T.src \in Srcs
    BY <1>1, <1>2, AtPos, TokFacts
  <2> QED
    BY <1>1, <1>2, <2>1, NothingOwed, ZvalFacts DEF CountInv, CountOk
<1>4. HeapInv(out) /\ AgendaInv(out, agenda) /\ ZvalFirst(agenda)
  BY <1>2, AgendaNow
<1> DEFINE x == Read(Top.slot, TRUE)
           y == Wrap(Top.slot, T.src)
           items == << x, y >>
<1>5. /\ x.op = "zval" /\ x.want /\ x.slot = Top.slot /\ y.op = "wrap" /\ y.slot = Top.slot /\ y.src = T.src
      /\ x \in ItemT /\ y \in ItemT
  BY <1>3, ItemsFit DEF Read, Wrap
<1>6. Do(items)
  BY <1>1
<1> HIDE DEF x, y
<1>7. items \in Seq(ItemT) /\ Len(items) = 2 /\ DOMAIN items = 1..2 /\ items[1] = x /\ items[2] = y /\ items # << >>
  BY <1>5
<1> HIDE DEF items
<1>8. Wants(out, out', agenda, items)
  BY <1>1, <1>5, <1>7 DEF Wants, At, Top
<1>9. Shape(out, out', agenda, items)
  BY <1>8, ReadReferenceStep, OthersKept DEF Shape
<1>10. agenda' = items \o Tail(agenda)
  BY <1>6 DEF Do
<1>11. WrapsOk(out', agenda') /\ ~Owed(out', agenda')
  BY <1>2, <1>3, <1>4, <1>7, <1>9, <1>10, WrapsKept
<1>12. /\ 1 \in DOMAIN agenda' /\ agenda'[1] = x /\ 2 \in DOMAIN agenda' /\ agenda'[2] = y
       /\ agenda' # << >> /\ Head(agenda') = x
  <2>1. agenda \in Seq(ItemT)
    BY <1>4 DEF AgendaInv
  <2>2. agenda' \in Seq(ItemT) /\ \A i \in DOMAIN items : i \in DOMAIN agenda' /\ agenda'[i] = items[i]
    BY <2>1, <1>2, <1>7, <1>10, CatTail
  <2>3. 1 \in 1..2 /\ 2 \in 1..2
    OBVIOUS
  <2> QED
    BY <1>7, <2>2, <2>3
<1>13. HeadOk(out', agenda', input, pos + 1)
  <2>1. Wanted(agenda')
    BY <1>5, <1>12 DEF Wanted
  <2>2. Follows(input, pos + 1, {"ref"}) /\ ~Follows(input, pos + 1, {"obj", "objid"})
    BY <1>1, <1>2
  <2> QED
    BY <1>2, <1>5, <1>11, <1>12, <2>1, <2>2 DEF HeadOk
<1>14. NamesOk(input, pos + 1, dstrings)
  BY <1>1, <1>2, <1>3, NamesPass
<1>15. ~TakesId(input, pos)
  BY <1>1, <1>2 DEF TakesId, ScalarTags
<1>16. IdsOk(out', agenda', input, pos + 1, drefs)
  BY <1>2, <1>3, <1>11, <1>15, IdNotTaken DEF IdsOk, Ids
<1> QED
  BY <1>1, <1>11, <1>13, <1>14, <1>16 DEF CountOk

\* a slot that has been given a box, or a cell
LEMMA GivenSlot ==
  ASSUME NEW H, HeapInv(H), NEW s, SlotOK(H, s), NEW z \in Vals(Len(H) + 1), NEW d
  PROVE  In(Append(Put(H, s, z), d), s) = z
<1> DEFINE P == Put(H, s, z)
<1>1. Len(H) \in Nat /\ Heap(H, Len(H)) /\ DOMAIN H = 1..Len(H) /\ s[1] \in DOMAIN H /\ s[2] \in DOMAIN H[s[1]].elems
  BY HeapBasics DEF HeapInv, SlotOK
<1>2. DOMAIN P = DOMAIN H /\ Len(P) = Len(H) /\ P[s[1]].elems[s[2]].v = z
  BY <1>1, PutFacts
<1>3. Heap(H, Len(H) + 1)
  BY <1>1, HeapWiden
<1>4. Heap(P, Len(H) + 1)
  BY <1>1, <1>3, PutHeap
<1> HIDE DEF P
<1>5. Append(P, d)[s[1]] = P[s[1]]
  BY <1>1, <1>2, <1>4 DEF Heap
<1> QED
  BY <1>2, <1>5 DEF In, P

LEMMA BoxSlot ==
  ASSUME NEW H, HeapInv(H), NEW s, SlotOK(H, s), NEW d
  PROVE  In(Append(Put(H, s, Ref(Len(H) + 1)), d), s) = Ref(Len(H) + 1)
<1>1. Ref(Len(H) + 1) \in Vals(Len(H) + 1)
  BY HeapBasics DEF Ref, Vals, Counted
<1> QED
  BY <1>1, GivenSlot

LEMMA WrapReferenceCount == ASSUME Inv, CountInv, WrapReference PROVE CountOk' /\ ~Owed(out', agenda')
<1>1. /\ At("wrap") /\ result = "reading" /\ agenda # << >> /\ Top.op = "wrap" /\ Head(agenda) = Top
      /\ Do(<< >>) /\ input' = input /\ pos' = pos /\ dstrings' = dstrings
  BY DEF WrapReference, At, Top
<1>2. /\ HeapInv(out) /\ AgendaInv(out, agenda) /\ ZvalFirst(agenda) /\ drefs \in Seq(RefT)
      /\ SlotOK(out, Top.slot) /\ CountOk
  <2>1. ItemOK(out, Top)
    BY <1>1, TopFacts
  <2> QED
    BY <1>1, <2>1, AgendaNow DEF ItemOK, CountInv
<1>3. ~Wanted(agenda) /\ (Owed(out, agenda) <=> ~Placed(out, Top.slot))
  BY <1>1 DEF Wanted, Owed
<1>4. HeadOk(out, agenda, input, pos) /\ IdsOk(out, agenda, input, pos, drefs) /\ NamesOk(input, pos, dstrings)
  BY <1>2 DEF CountOk
<1>5. ~Follows(input, pos, {"ref", "obj", "objid"})
  <2>1. ~Follows(input, pos, {"ref"}) /\ ~Follows(input, pos, {"obj", "objid"})
    BY <1>3, <1>4 DEF HeadOk
  <2> QED
    BY <2>1 DEF Follows
<1>6. Placed(out', Top.slot) /\ SrcsOf(drefs') = Ids(out, agenda, drefs)
  <2>1. CASE In(out, Top.slot).t = "ref"
    BY <2>1, <1>3 DEF WrapReference, Ids, Placed
  <2>3. CASE In(out, Top.slot).t = "arr"
    <3>1. /\ out' = Append(Put(out, Top.slot, Ref(Next1)), RefCell(In(out, Top.slot), TRUE)) /\ drefs' = drefs
      BY <2>3 DEF WrapReference
    <3>2. In(out', Top.slot) = Ref(Next1)
      BY <1>2, <3>1, BoxSlot DEF Next1
    <3>3. Ids(out, agenda, drefs) = SrcsOf(drefs)
      BY <2>3, <1>3 DEF Placed, Ids
    <3>4. Placed(out', Top.slot)
      BY <3>2 DEF Ref, Placed
    <3> QED
      BY <3>1, <3>3, <3>4
  <2>2. CASE ~Placed(out, Top.slot)
    <3> DEFINE z == In(out, Top.slot)
               e == Entry("ref", Next1, Top.src)
    <3>1. /\ out' = Append(Put(out, Top.slot, Ref(Next1)), RefCell(z, TRUE))
          /\ drefs' = IF z.t \in {"arr", "obj"} THEN drefs ELSE Append(drefs, e)
      BY <2>2 DEF WrapReference, Placed
    <3>2. z.t \notin {"arr", "obj"}
      BY <1>1, <1>3, <1>4, <2>2 DEF HeadOk, Placed
    <3>3. SrcsOf(drefs') = Append(SrcsOf(drefs), Top.src)
      <4>1. e.src = Top.src
        BY DEF Entry
      <4> HIDE DEF e
      <4> QED
        BY ZenonT(30), <1>2, <3>1, <3>2, <4>1, SrcsAppend
    <3>4. Ids(out, agenda, drefs) = Append(SrcsOf(drefs), Top.src)
      BY <1>1, <1>3, <2>2 DEF Ids
    <3>5. In(out', Top.slot) = Ref(Next1)
      BY <1>2, <3>1, BoxSlot DEF Next1
    <3> QED
      BY <3>3, <3>4, <3>5 DEF Ref, Placed
  <2> QED
    BY <2>1, <2>2, <2>3 DEF Placed
<1> DEFINE none == << >>
<1>7. none \in Seq(ItemT) /\ DOMAIN none = {} /\ Do(none) /\ none = << >>
  BY <1>1
<1> HIDE DEF none
<1>8. Shape(out, out', agenda, none) /\ ~Wants(out, out', agenda, none)
  <2>1. Boxes(out, out', agenda, none)
    BY <1>1, <1>6, <1>7 DEF Boxes
  <2>2. \A a \in DOMAIN out : a # Fed(Head(agenda)) => out'[a] = out[a]
    BY WrapReferenceStep, OthersKept
  <2> QED
    BY <1>1, <2>1, <2>2 DEF Shape, Wants
<1>9. Listed(SrcsOf(drefs'), IdTokens(input), pos, IdSrcs(input))
  BY <1>4, <1>6 DEF IdsOk
<1> QED
  BY <1>1, <1>4, <1>5, <1>6, <1>7, <1>8, <1>9, Settles

(***************************************************************************)
(* The loops over keys, and the end of an item.                            *)
(***************************************************************************)
\* a key is no number, and a new one is a name
LEMMA KeyCount ==
  ASSUME Inv, CountInv, At("fill"), More, T.tag \in ScalarTags, pos' = pos + 1, input' = input,
         drefs' = drefs, dstrings' = Strings1(T), NEW items \in Seq(ItemT), Do(items),
         Loops(out, out', agenda, items), Stepped
  PROVE  CountOk'
<1>1. /\ pos \in DOMAIN input /\ T = input[pos] /\ InputInv /\ dstrings \in Seq(Str)
      /\ result = "reading" /\ agenda # << >> /\ Head(agenda).op # "zval"
      /\ \A tags : Follows(input, pos + 1, tags) <=> T.tag \in tags
  BY TokenRead DEF At
<1>2. /\ Listed(SrcsOf(drefs), IdTokens(input), pos, IdSrcs(input)) /\ NamesOk(input, pos, dstrings)
      /\ ~Follows(input, pos, {"ref"})
  BY NothingOwed
<1>3. T.tag \notin {"ref", "obj", "objid", "arr"}
  BY DEF ScalarTags
<1>4. ~TakesId(input, pos)
  BY <1>1, <1>2, <1>3 DEF TakesId
<1>5. Listed(SrcsOf(drefs'), IdTokens(input), pos', IdSrcs(input))
  BY <1>1, <1>2, <1>4, IdNotTaken
<1>6. NamesOk(input, pos', dstrings')
  BY <1>1, <1>2, NamesNext
<1>7. ~Follows(input, pos', {"ref", "obj", "objid"})
  BY <1>1, <1>3
<1>8. Shape(out, out', agenda, items) /\ ~Wants(out, out', agenda, items)
  BY <1>1, OthersKept DEF Shape, Wants
<1> QED
  BY <1>1, <1>5, <1>6, <1>7, <1>8, Settles

LEMMA SkipKeylessCount == ASSUME Inv, CountInv, SkipKeyless PROVE CountOk'
<1>1. /\ At("fill") /\ More /\ T.tag = "null" /\ pos' = pos + 1 /\ input' = input /\ drefs' = drefs
      /\ dstrings' = dstrings /\ Do(<< OneLess >>)
  BY DEF SkipKeyless, AtKey
<1>2. T.tag \in ScalarTags /\ dstrings' = Strings1(T)
  BY <1>1 DEF ScalarTags, Strings1
<1>3. OneLess \in ItemT /\ OneLess.op = "fill" /\ Fed(OneLess) = Fed(Head(agenda)) /\ Head(agenda).op = "fill"
  BY <1>1, FillFacts, FillFeeds DEF At, Fed
<1> DEFINE items == << OneLess >>
<1>4. items \in Seq(ItemT) /\ \A i \in DOMAIN items : items[i] = OneLess
  BY <1>3
<1>5. Do(items)
  BY <1>1
<1> HIDE DEF items
<1>6. Loops(out, out', agenda, items)
  BY <1>3, <1>4 DEF Loops
<1> QED
  BY <1>1, <1>2, <1>4, <1>5, <1>6, SkipKeylessStep, KeyCount

\* the value of the key is read next
LEMMA ReadKeyCount ==
  ASSUME Inv, CountInv, AtKey(KeyTags), pos' = pos + 1, input' = input, drefs' = drefs,
         dstrings' = Strings1(T), NEW i, NEW s, s = << Top.h, i >>, s \in Slots,
         Do(<< Read(s, FALSE), OneLess >>), Stepped
  PROVE  CountOk'
<1>1. At("fill") /\ More /\ T.tag \in ScalarTags
  BY DEF AtKey, KeyTags, ScalarTags
<1>2. OneLess \in ItemT /\ OneLess.op = "fill" /\ Fed(OneLess) = Fed(Head(agenda)) /\ Head(agenda).op = "fill"
      /\ Fed(Head(agenda)) = Top.h
  BY <1>1, FillFacts, FillFeeds DEF At, Fed
<1> DEFINE x == Read(s, FALSE)
           items == << x, OneLess >>
<1>3. x \in ItemT /\ x.op = "zval" /\ ~x.want /\ Fed(x) = Top.h
  <2>1. s[1] = Top.h
    OBVIOUS
  <2> QED
    BY <2>1, ItemsFit DEF Read, Fed
<1>4. Do(items)
  OBVIOUS
<1> HIDE DEF x
<1>5. items \in Seq(ItemT) /\ \A j \in DOMAIN items : items[j] = x \/ items[j] = OneLess
  BY <1>2, <1>3
<1> HIDE DEF items
<1>6. Loops(out, out', agenda, items)
  BY <1>2, <1>3, <1>5 DEF Loops
<1> QED
  BY <1>1, <1>4, <1>5, <1>6, KeyCount

LEMMA ReadNewKeyCount == ASSUME Inv, CountInv, ReadNewKey PROVE CountOk'
<1> DEFINE k == KeyIn(Top.h, T)
           n == Len(out[Top.h].elems) + 1
           s == << Top.h, n >>
<1>1. At("fill") /\ AtKey(KeyTags) /\ StringKnown(T) /\ Indexes(Top.h, k) = {}
  BY DEF ReadNewKey, AtKey
<1>2. Top.h \in DOMAIN out /\ Top.h >= 2 /\ HeapInv(out)
  BY <1>1, FillFacts DEF Inv
<1>3. k \in Key
  BY <1>1, KeyFits
<1>4. \A i \in DOMAIN out[Top.h].elems : out[Top.h].elems[i].k # k
  BY <1>1 DEF Indexes
<1>5. /\ out' = AddElem(out, Top.h, Elem(k, Null)) /\ Do(<< Read(s, FALSE), OneLess >>)
      /\ pos' = pos + 1 /\ input' = input /\ drefs' = drefs /\ dstrings' = Strings1(T)
  BY DEF ReadNewKey, AddElem
<1> HIDE DEF k
<1>6. SlotOK(out', s) /\ HeapInv(out')
  BY <1>2, <1>3, <1>4, <1>5, AddElemOK
<1>7. s \in Slots
  BY <1>6, SlotFits
<1> HIDE DEF n
<1>8. s = << Top.h, n >>
  OBVIOUS
<1> HIDE DEF s
<1> QED
  BY <1>1, <1>5, <1>7, <1>8, ReadNewKeyStep, ReadKeyCount

LEMMA ReadOldKeyCount == ASSUME Inv, CountInv, ReadOldKey PROVE CountOk'
<1>1. At("fill") /\ AtKey(KeyTags) /\ pos' = pos + 1 /\ input' = input /\ drefs' = drefs /\ dstrings' = Strings1(T)
  BY DEF ReadOldKey, AtKey
<1>2. Top.h \in DOMAIN out /\ HeapInv(out)
  BY <1>1, FillFacts DEF Inv
<1>3. PICK i \in Indexes(Top.h, KeyIn(Top.h, T)) : Do(<< Read(<< Top.h, i >>, FALSE), OneLess >>)
  BY DEF ReadOldKey
<1> DEFINE s == << Top.h, i >>
<1>4. SlotOK(out, s)
  BY <1>2, <1>3 DEF Indexes, SlotOK
<1>5. s \in Slots
  BY <1>2, <1>4, SlotFits
<1>6. s = << Top.h, i >> /\ Do(<< Read(s, FALSE), OneLess >>)
  BY <1>3
<1> HIDE DEF s
<1> QED
  BY <1>1, <1>5, <1>6, ReadOldKeyStep, ReadKeyCount

\* a loop or an object comes to its end
LEMMA EndCount ==
  ASSUME Inv, CountInv, result = "reading", agenda # << >>, Head(agenda).op \in {"fill", "defer"},
         Do(<< >>), input' = input, pos' = pos, out' = out, drefs' = drefs, dstrings' = dstrings
  PROVE  CountOk' /\ ~Owed(out', agenda')
<1>1. HeadOk(out, agenda, input, pos) /\ IdsOk(out, agenda, input, pos, drefs) /\ NamesOk(input, pos, dstrings)
  BY DEF CountInv, CountOk
<1>2. ~Wanted(agenda) /\ ~Owed(out, agenda)
  BY DEF Wanted, Owed
<1>3. ~Follows(input, pos, {"ref", "obj", "objid"})
  <2>1. ~Follows(input, pos, {"ref"}) /\ ~Follows(input, pos, {"obj", "objid"})
    BY <1>1, <1>2 DEF HeadOk
  <2> QED
    BY <2>1 DEF Follows
<1> DEFINE none == << >>
<1>4. none \in Seq(ItemT) /\ DOMAIN none = {} /\ Do(none) /\ none = << >>
  OBVIOUS
<1> HIDE DEF none
<1>5. Shape(out, out', agenda, none) /\ ~Wants(out, out', agenda, none)
  BY <1>4 DEF Shape, Loops, Calls, Wants
<1>6. Listed(SrcsOf(drefs'), IdTokens(input), pos', IdSrcs(input)) /\ NamesOk(input, pos', dstrings')
  BY <1>1, <1>2 DEF IdsOk, Ids
<1> QED
  BY <1>3, <1>4, <1>5, <1>6, Settles

LEMMA EndFillCount == ASSUME Inv, CountInv, EndFill PROVE CountOk' /\ ~Owed(out', agenda')
BY EndCount DEF EndFill, At

LEMMA DeferCallCount == ASSUME Inv, CountInv, DeferCall PROVE CountOk' /\ ~Owed(out', agenda')
BY EndCount DEF DeferCall, At

(***************************************************************************)
(* Values that open something, or that are found again.                    *)
(***************************************************************************)
LEMMA OpenCount ==
  ASSUME Inv, CountInv, At("zval"), NEW items \in Seq(ItemT), Do(items), Stepped, input' = input,
         \A i \in DOMAIN items : /\ items[i].op \in {"fill", "defer"}
                                 /\ items[i].op = "fill" => items[i].h > Len(out),
         Top.want => Placed(out', Top.slot),
         ~Follows(input, pos', {"ref", "obj", "objid"}),
         Listed(SrcsOf(drefs'), IdTokens(input), pos', IdSrcs(input)), NamesOk(input, pos', dstrings')
  PROVE  CountOk'
<1>1. result = "reading" /\ agenda # << >> /\ Head(agenda).op = "zval" /\ Head(agenda) = Top
  BY DEF At, Top
<1>2. Opens(out, out', agenda, items)
  BY <1>1 DEF Opens
<1>3. ~Wants(out, out', agenda, items)
  <2>1. SUFFICES ASSUME Wants(out, out', agenda, items) PROVE FALSE
    OBVIOUS
  <2>2. 1 \in DOMAIN items /\ items[1].op = "zval"
    BY <2>1 DEF Wants
  <2> QED
    BY <2>2
<1>4. Shape(out, out', agenda, items)
  BY <1>2, OthersKept DEF Shape
<1> QED
  BY <1>1, <1>3, <1>4, Settles

LEMMA BackRefCount ==
  ASSUME Inv, CountInv, AtBackRef, Stepped, Do(<< >>), pos' = pos + 1, input' = input, dstrings' = dstrings,
         SrcsOf(drefs') = SrcsOf(drefs), Top.want => Placed(out', Top.slot)
  PROVE  CountOk'
<1>1. At("zval") /\ More /\ T.tag \in {"refid", "objref"}
  BY DEF AtBackRef, AtToken
<1>2. /\ pos \in DOMAIN input /\ T = input[pos] /\ InputInv
      /\ \A tags : Follows(input, pos + 1, tags) <=> T.tag \in tags
  BY <1>1, TokenRead
<1>3. Listed(SrcsOf(drefs), IdTokens(input), pos, IdSrcs(input)) /\ NamesOk(input, pos, dstrings)
  BY <1>1, NothingOwed
<1>4. ~TakesId(input, pos)
  BY <1>1, <1>2 DEF TakesId, ScalarTags
<1>5. Listed(SrcsOf(drefs'), IdTokens(input), pos', IdSrcs(input))
  BY <1>2, <1>3, <1>4, IdNotTaken
<1>6. NamesOk(input, pos', dstrings')
  BY <1>1, <1>2, <1>3, NamesPass
<1>7. ~Follows(input, pos', {"ref", "obj", "objid"})
  BY <1>1, <1>2
<1> DEFINE none == << >>
<1>8. none \in Seq(ItemT) /\ DOMAIN none = {} /\ Do(none)
  OBVIOUS
<1> HIDE DEF none
<1> QED
  BY <1>1, <1>5, <1>6, <1>7, <1>8, OpenCount

LEMMA PutSlot ==
  ASSUME NEW H, HeapInv(H), NEW s, SlotOK(H, s), NEW z
  PROVE  In(Put(H, s, z), s) = z
<1>1. Len(H) \in Nat /\ Heap(H, Len(H))
  BY HeapBasics DEF HeapInv
<1> QED
  BY <1>1, PutFacts DEF In, SlotOK

LEMMA PutCellSlot ==
  ASSUME NEW H, HeapInv(H), NEW s, SlotOK(H, s), NEW c
  PROVE  In(PutCell(H, s, c, TRUE), s) = Ref(Len(H) + 2)
<1> DEFINE z == Ref(Len(H) + 2)
           P == Put(H, s, z)
           d == RefCell([t |-> c.kind, v |-> Len(H) + 1], TRUE)
<1>1. Len(H) \in Nat /\ Heap(H, Len(H)) /\ DOMAIN H = 1..Len(H) /\ s[1] \in DOMAIN H /\ s[2] \in DOMAIN H[s[1]].elems
      /\ (Len(H) + 1) + 1 = Len(H) + 2
  BY HeapBasics DEF HeapInv, SlotOK
<1>2. DOMAIN P = DOMAIN H /\ Len(P) = Len(H) /\ P[s[1]].elems[s[2]].v = z
  BY <1>1, PutFacts
<1>3. Heap(H, Len(H) + 2) /\ z \in Vals(Len(H) + 2)
  BY <1>1, HeapWiden DEF Ref, Vals, Counted
<1>4. Heap(P, Len(H) + 2)
  BY <1>1, <1>3, PutHeap
<1>5. PutCell(H, s, c, TRUE) = Append(Append(P, c), d)
  BY <1>1 DEF PutCell
<1> HIDE DEF P, z, d
<1>6. P \in Seq(CellT(Len(H) + 2)) /\ s[1] \in 1..Len(P)
  BY <1>1, <1>2, <1>4 DEF Heap
<1> DEFINE Q == Append(P, c)
           U == CellT(Len(H) + 2) \cup {c}
<1>7. Q \in Seq(U) /\ Q[s[1]] = P[s[1]] /\ Len(Q) = Len(P) + 1 /\ s[1] \in 1..Len(Q)
  BY <1>6
<1> HIDE DEF Q, U
<1>8. Append(Q, d)[s[1]] = Q[s[1]]
  BY <1>7
<1> QED
  BY <1>2, <1>5, <1>7, <1>8 DEF In, Q, z

LEMMA ShareReferenceCount == ASSUME Inv, CountInv, ShareReference PROVE CountOk'
<1>1. /\ AtBackRef /\ T.v < Len(drefs) /\ out' = Put(out, Top.slot, Ref(Target.a)) /\ Do(<< >>)
      /\ pos' = pos + 1 /\ input' = input /\ dstrings' = dstrings /\ drefs' = drefs
  BY DEF ShareReference
<1>2. HeapInv(out) /\ SlotOK(out, Top.slot)
  BY <1>1, TargetFacts, ZvalFacts DEF Inv
<1>3. Placed(out', Top.slot)
  BY <1>1, <1>2, PutSlot DEF Ref, Placed
<1> QED
  BY <1>1, <1>3, ShareReferenceStep, BackRefCount

LEMMA ShareValueCount == ASSUME Inv, CountInv, ShareValue PROVE CountOk'
BY ShareValueStep, BackRefCount DEF ShareValue

LEMMA MisreadValueCount == ASSUME Inv, CountInv, MisreadValue PROVE CountOk'
<1>1. /\ AtBackRef /\ ~Top.want /\ Do(<< >>) /\ pos' = pos + 1 /\ input' = input /\ dstrings' = dstrings
      /\ drefs' = drefs
  BY DEF MisreadValue
<1> QED
  BY <1>1, MisreadValueStep, BackRefCount

LEMMA BoxTargetCount == ASSUME Inv, CountInv, BoxTarget PROVE CountOk'
<1> DEFINE r == IF Target.ty = "empty" THEN Next1 + 1 ELSE Next1
<1>1. /\ AtBackRef /\ T.v < Len(drefs) /\ Do(<< >>) /\ pos' = pos + 1 /\ input' = input /\ dstrings' = dstrings
      /\ drefs' = [drefs EXCEPT ![T.v + 1] = Entry("ref", r, drefs[T.v + 1].src)]
  BY DEF BoxTarget
<1>2. HeapInv(out) /\ SlotOK(out, Top.slot) /\ drefs \in Seq(RefT)
  BY <1>1, TargetFacts, ZvalFacts DEF Inv, RefsInv
<1>3. SrcsOf(drefs') = SrcsOf(drefs)
  <2>1. \A a, n, src : Entry(a, n, src).src = src
    BY DEF Entry
  <2> HIDE DEF r
  <2>2. DOMAIN drefs' = DOMAIN drefs /\ \A i \in DOMAIN drefs : drefs'[i].src = drefs[i].src
    BY <1>1, <1>2, <2>1
  <2> QED
    BY <2>2 DEF SrcsOf
<1>4. Placed(out', Top.slot)
  <2>1. CASE Target.ty = "empty"
    <3>1. out' = Append(Put(out, Top.slot, Ref(Next1 + 1)), EmptyArr) \o << RefCell(Arr(Next1), TRUE) >>
      BY <2>1 DEF BoxTarget, Shared, EmptyArr
    <3>2. out' = PutCell(out, Top.slot, EmptyArr, TRUE)
      BY <3>1, <1>2, BoxOfNew
    <3>3. In(out', Top.slot) = Ref(Len(out) + 2)
      BY <3>2, <1>2, PutCellSlot
    <3> QED
      BY <3>3 DEF Ref, Placed
  <2>2. CASE Target.ty # "empty"
    <3>1. out' = Put(out, Top.slot, Ref(Next1)) \o << RefCell(Shared(Target, Next1), TRUE) >>
      BY <2>2 DEF BoxTarget
    <3> DEFINE z == Shared(Target, Next1)
    <3>2. out' = Append(Put(out, Top.slot, Ref(Len(out) + 1)), RefCell(z, TRUE))
      BY <3>1, <1>2, BoxOfOld
    <3> HIDE DEF z
    <3>3. In(out', Top.slot) = Ref(Len(out) + 1)
      BY <3>2, <1>2, BoxSlot
    <3> QED
      BY <3>3 DEF Ref, Placed
  <2> QED
    BY <2>1, <2>2
<1> QED
  BY <1>1, <1>3, <1>4, BoxTargetStep, BackRefCount

\* the place of an array when a reference was wanted
LEMMA ArraySlot ==
  ASSUME HeapInv(out), SlotOK(out, Top.slot), NEW w \in BOOLEAN, out' = PutCell(out, Top.slot, EmptyArr, w)
  PROVE  Placed(out', Top.slot)
<1>1. CASE w
  <2>1. In(out', Top.slot) = Ref(Len(out) + 2)
    BY <1>1, PutCellSlot
  <2> QED
    BY <2>1 DEF Ref, Placed
<1>2. CASE ~w
  <2>1. out' = Append(Put(out, Top.slot, Arr(Len(out) + 1)), EmptyArr)
    BY <1>2 DEF PutCell, Arr, EmptyArr, ArrCell
  <2>2. Arr(Len(out) + 1) \in Vals(Len(out) + 1)
    BY HeapBasics DEF Arr, Vals, Counted
  <2>3. In(out', Top.slot) = Arr(Len(out) + 1)
    BY <2>1, <2>2, GivenSlot
  <2> QED
    BY <2>3 DEF Arr, Placed
<1> QED
  BY <1>1, <1>2

LEMMA ReadArrayCount == ASSUME Inv, CountInv, ReadArray PROVE CountOk'
<1> DEFINE e == Entry(IF Top.want THEN "ref" ELSE IF T.v = 0 THEN "empty" ELSE "arr",
                      IF Boxed THEN Next1 + 1 ELSE Next1, T.src)
           x == Fill(Next1, T.v, Top.slot)
           items == IF T.v = 0 THEN << >> ELSE << x >>
<1>1. /\ At("zval") /\ More /\ T.tag = "arr" /\ out' = PutCell(out, Top.slot, EmptyArr, Boxed) /\ Do(items)
      /\ pos' = pos + 1 /\ input' = input /\ dstrings' = dstrings /\ drefs' = Append(drefs, e)
  BY DEF ReadArray, AtToken, EmptyArr
<1>2. /\ pos \in DOMAIN input /\ T = input[pos] /\ InputInv /\ dstrings \in Seq(Str)
      /\ \A tags : Follows(input, pos + 1, tags) <=> T.tag \in tags
  BY <1>1, TokenRead
<1>3. /\ ~Owed(out, agenda) /\ IdsOk(out, agenda, input, pos, drefs) /\ NamesOk(input, pos, dstrings)
      /\ ~Follows(input, pos, {"obj", "objid"})
  BY <1>1, NothingOwed
<1>4. TakesId(input, pos)
  BY <1>1, <1>2, <1>3 DEF TakesId
<1>5. e.src = IdSrcs(input)[pos]
  <2>1. IdSrcs(input)[pos] = T.src
    BY <1>1, <1>2, ScalarSrc DEF ScalarTags
  <2> QED
    BY <2>1 DEF Entry
<1>6. Top.slot \in Slots /\ Top.want \in BOOLEAN /\ SlotOK(out, Top.slot) /\ HeapInv(out) /\ Len(out) \in Nat
  BY <1>1, ZvalFacts, HeapBasics DEF Inv
<1>7. T.v \in Nat
  BY <1>1, <1>2, AtPos, TokFacts
<1>8. x \in ItemT /\ x.op = "fill" /\ x.h > Len(out)
  <2>1. Next1 \in Nat /\ Next1 > Len(out) /\ T.v \in Int
    BY <1>6, <1>7 DEF Next1
  <2>2. x \in ItemT
    BY <1>6, <2>1, ItemsFit
  <2> QED
    BY <2>1, <2>2 DEF Fill
<1> HIDE DEF e, x
<1>9. items \in Seq(ItemT) /\ \A i \in DOMAIN items : items[i] = x
  BY <1>8
<1> HIDE DEF items
<1>10. Listed(SrcsOf(drefs'), IdTokens(input), pos', IdSrcs(input))
  BY <1>1, <1>2, <1>3, <1>4, <1>5, IdTaken
<1>11. NamesOk(input, pos', dstrings')
  BY <1>1, <1>2, <1>3, NamesPass
<1>12. ~Follows(input, pos', {"ref", "obj", "objid"})
  BY <1>1, <1>2
<1>13. Top.want => Placed(out', Top.slot)
  <2>1. Boxed \in BOOLEAN
    BY DEF Boxed
  <2> QED
    BY <2>1, <1>1, <1>6, ArraySlot
<1> QED
  BY <1>1, <1>8, <1>9, <1>10, <1>11, <1>12, <1>13, ReadArrayStep, OpenCount

LEMMA NameAppended ==
  ASSUME InputInv, NEW p \in DOMAIN input, NEW ds \in Seq(Str), NamesOk(input, p, ds),
         input[p].tag \in ScalarTags
  PROVE  NamesOk(input, p + 1, ds \o (IF input[p].tag = "str" THEN << input[p].v >> ELSE << >>))
<1>1. /\ Len(input) \in Nat /\ NameTokens(input) \in SUBSET (1..Len(input)) /\ p \in Nat
  BY TokensTyped DEF InputInv
<1>2. CASE input[p].tag = "str"
  <2>1. p \in NameTokens(input) /\ NamesOf(input)[p] = input[p].v
    BY <1>2 DEF NameTokens, NamesOf
  <2>2. input[p].v \in Str
    BY <1>2, TokensGood DEF GoodTok, WellFormed
  <2>3. ds \o << input[p].v >> = Append(ds, input[p].v)
    BY <2>2
  <2> QED
    BY <1>1, <1>2, <2>1, <2>3, ListTake DEF NamesOk
<1>3. CASE input[p].tag # "str"
  <2>1. ds \o << >> = ds
    OBVIOUS
  <2>2. input[p].tag \notin {"str", "obj"}
    BY <1>3 DEF ScalarTags
  <2> QED
    BY <1>3, <2>1, <2>2, NamesPass
<1> QED
  BY <1>2, <1>3

\* an object takes one number and its class name, when new, is one name
LEMMA ObjectRead ==
  ASSUME Inv, CountInv, NEW tags, tags \subseteq {"arr", "objser", "enum"}, AtObject(tags), NEW e, e.src = T.src
  PROVE  /\ Listed(SrcsOf(Append(drefs, e)), IdTokens(input), pos + 2, IdSrcs(input))
         /\ NamesOk(input, pos + 2, Strings1(T)) /\ Strings1(T) \in Seq(Str)
         /\ ~Follows(input, pos + 2, {"ref", "obj", "objid"}) /\ pos + 1 \in DOMAIN input /\ pos \in Nat
<1>1. At("zval") /\ More /\ T.tag \in {"obj", "objid"} /\ T2.tag \in tags /\ pos < Len(input)
  BY DEF AtObject, AtToken
<1>2. /\ pos \in DOMAIN input /\ T = input[pos] /\ InputInv /\ dstrings \in Seq(Str)
      /\ \A g : Follows(input, pos + 1, g) <=> T.tag \in g
  BY <1>1, TokenRead
<1>3. /\ ~Owed(out, agenda) /\ IdsOk(out, agenda, input, pos, drefs) /\ NamesOk(input, pos, dstrings)
  BY <1>1, NothingOwed
<1>4. TakesId(input, pos)
  BY <1>1, <1>2 DEF TakesId
<1>5. e.src = IdSrcs(input)[pos]
  BY <1>1, <1>2, ScalarSrc DEF ScalarTags
<1>6. Listed(SrcsOf(Append(drefs, e)), IdTokens(input), pos + 1, IdSrcs(input))
  BY <1>2, <1>3, <1>4, <1>5, IdTaken
<1>7. NamesOk(input, pos + 1, Strings1(T))
  BY <1>2, <1>3, NamesNext
<1>8. pos + 1 \in DOMAIN input /\ T2 = input[pos + 1] /\ (pos + 1) + 1 = pos + 2 /\ pos \in Nat /\ pos >= 1
  BY <1>1, <1>2, AtPos DEF T2
<1>9. ~TakesId(input, pos + 1)
  <2>1. T2.tag \notin {"obj", "objid"} \cup ScalarTags /\ Follows(input, pos + 1, {"obj", "objid"})
    BY <1>1, <1>2 DEF ScalarTags
  <2> QED
    BY <1>8, <2>1 DEF TakesId
<1>10. Listed(SrcsOf(Append(drefs, e)), IdTokens(input), pos + 2, IdSrcs(input))
  <2> DEFINE q == SrcsOf(Append(drefs, e))
  <2>1. Listed(q, IdTokens(input), (pos + 1) + 1, IdSrcs(input))
    <3> HIDE DEF q
    <3> QED
      BY <1>2, <1>6, <1>8, <1>9, IdNotTaken DEF q
  <2> QED
    BY <1>8, <2>1
<1>11. NamesOk(input, pos + 2, Strings1(T))
  <2>1. input[pos + 1].tag \notin {"str", "obj"}
    BY <1>1, <1>8
  <2>2. NamesOk(input, (pos + 1) + 1, Strings1(T))
    BY <1>2, <1>7, <1>8, <2>1, NamesPass
  <2> QED
    BY <1>8, <2>2
<1>12. ~Follows(input, pos + 2, {"ref", "obj", "objid"})
  <2>1. (pos + 2) - 1 = pos + 1
    BY <1>8
  <2> QED
    BY <1>1, <1>8, <2>1 DEF Follows
<1>13. Strings1(T) \in Seq(Str)
  BY <1>1, <1>2, AtPos, TokFacts
<1> QED
  BY <1>8, <1>10, <1>11, <1>12, <1>13

\* the name of an enum case is a name
LEMMA CaseRead ==
  ASSUME Inv, CountInv, AtObject({"enum"}), NEW e, e.src = T.src, pos + 1 < Len(input), CaseKnown(input[pos + 2])
  PROVE  /\ Listed(SrcsOf(Append(drefs, e)), IdTokens(input), pos + 3, IdSrcs(input))
         /\ NamesOk(input, pos + 3,
                    Strings1(T) \o (IF input[pos + 2].tag = "str" THEN << input[pos + 2].v >> ELSE << >>))
         /\ ~Follows(input, pos + 3, {"ref", "obj", "objid"})
<1>1. {"enum"} \subseteq {"arr", "objser", "enum"}
  OBVIOUS
<1>2. /\ Listed(SrcsOf(Append(drefs, e)), IdTokens(input), pos + 2, IdSrcs(input))
      /\ NamesOk(input, pos + 2, Strings1(T)) /\ Strings1(T) \in Seq(Str)
      /\ ~Follows(input, pos + 2, {"ref", "obj", "objid"}) /\ pos + 1 \in DOMAIN input /\ pos \in Nat
  BY <1>1, ObjectRead
<1>3. InputInv
  BY DEF Inv
<1>4. /\ pos + 2 \in DOMAIN input /\ (pos + 2) + 1 = pos + 3 /\ (pos + 3) - 1 = pos + 2 /\ pos + 2 > 1
      /\ (pos + 2) - 1 = pos + 1
  BY <1>2, <1>3, AtPos
<1>5. input[pos + 2].tag \in {"str", "strid"}
  BY DEF CaseKnown
<1>6. ~Follows(input, pos + 2, {"ref"}) /\ ~Follows(input, pos + 2, {"obj", "objid"})
  BY <1>2 DEF Follows
<1>7. ~TakesId(input, pos + 2)
  BY <1>5, <1>6 DEF TakesId
<1>8. Listed(SrcsOf(Append(drefs, e)), IdTokens(input), pos + 3, IdSrcs(input))
  <2> DEFINE q == SrcsOf(Append(drefs, e))
             p == pos + 2
  <2>1. Listed(q, IdTokens(input), p, IdSrcs(input)) /\ p \in DOMAIN input /\ ~TakesId(input, p) /\ p + 1 = pos + 3
    BY <1>2, <1>4, <1>7
  <2> HIDE DEF q, p
  <2>2. Listed(q, IdTokens(input), p + 1, IdSrcs(input))
    BY <1>3, <2>1, IdNotTaken
  <2> QED
    BY <2>1, <2>2 DEF q
<1>9. NamesOk(input, pos + 3,
              Strings1(T) \o (IF input[pos + 2].tag = "str" THEN << input[pos + 2].v >> ELSE << >>))
  <2> DEFINE p == pos + 2
             ds == Strings1(T)
  <2>1. NamesOk(input, p, ds) /\ p \in DOMAIN input /\ ds \in Seq(Str) /\ p + 1 = pos + 3 /\ input[p].tag \in ScalarTags
    BY <1>2, <1>4, <1>5 DEF ScalarTags
  <2> HIDE DEF p, ds
  <2>2. NamesOk(input, p + 1, ds \o (IF input[p].tag = "str" THEN << input[p].v >> ELSE << >>))
    BY <1>3, <2>1, NameAppended
  <2> QED
    BY <2>1, <2>2 DEF p, ds
<1>10. ~Follows(input, pos + 3, {"ref", "obj", "objid"})
  BY <1>4, <1>5 DEF Follows
<1> QED
  BY <1>8, <1>9, <1>10

ObjectEntry == Entry(IF Top.want THEN "ref" ELSE "obj", IF Top.want THEN Next1 + 1 ELSE Next1, T.src)
LEMMA EntrySrc == ObjectEntry.src = T.src
BY DEF ObjectEntry, Entry

LEMMA RefTag == \A n : Ref(n).t = "ref"
BY DEF Ref

\* what an object's place holds when a reference was wanted
LEMMA BuiltSlot ==
  ASSUME Inv, At("zval"), NEW c, out' = PutCell(out, Top.slot, c, Top.want), Top.want
  PROVE  Placed(out', Top.slot)
<1>1. HeapInv(out) /\ SlotOK(out, Top.slot)
  BY ZvalFacts DEF Inv
<1>2. out' = PutCell(out, Top.slot, c, TRUE)
  OBVIOUS
<1>3. In(out', Top.slot) = Ref(Len(out) + 2)
  BY <1>1, <1>2, PutCellSlot
<1> QED
  BY <1>3, RefTag DEF Placed

LEMMA WholeCount ==
  ASSUME Inv, CountInv, At("zval"), NEW c, BuildObject(c), Do(<< >>), Stepped, input' = input,
         Listed(SrcsOf(Append(drefs, ObjectEntry)), IdTokens(input), pos', IdSrcs(input)),
         NamesOk(input, pos', dstrings'), ~Follows(input, pos', {"ref", "obj", "objid"})
  PROVE  CountOk'
<1>1. out' = PutCell(out, Top.slot, c, Top.want) /\ drefs' = Append(drefs, ObjectEntry)
  BY DEF BuildObject, ObjectEntry
<1>2. Top.want => Placed(out', Top.slot)
  BY <1>1, BuiltSlot
<1> DEFINE none == << >>
<1>3. none \in Seq(ItemT) /\ DOMAIN none = {} /\ Do(none)
  OBVIOUS
<1> HIDE DEF none
<1> QED
  BY <1>1, <1>2, <1>3, OpenCount

LEMMA ReadSerializableCount == ASSUME Inv, CountInv, ReadSerializable PROVE CountOk'
<1>1. /\ AtObject({"objser"}) /\ BuildObject(ObjCell(ClassName, << >>)) /\ Do(<< >>) /\ pos' = pos + 2
      /\ dstrings' = Strings1(T) /\ input' = input
  BY DEF ReadSerializable
<1>2. At("zval") /\ {"objser"} \subseteq {"arr", "objser", "enum"}
  BY <1>1 DEF AtObject, AtToken
<1>3. /\ Listed(SrcsOf(Append(drefs, ObjectEntry)), IdTokens(input), pos + 2, IdSrcs(input))
      /\ NamesOk(input, pos + 2, Strings1(T)) /\ ~Follows(input, pos + 2, {"ref", "obj", "objid"})
  BY <1>1, <1>2, EntrySrc, ObjectRead
<1> QED
  BY <1>1, <1>2, <1>3, ReadSerializableStep, WholeCount

LEMMA ReadEnumCaseCount == ASSUME Inv, CountInv, ReadEnumCase PROVE CountOk'
<1>1. /\ AtObject({"enum"}) /\ BuildObject(ObjCell(ClassName, << >>)) /\ Do(<< >>) /\ pos' = pos + 3
      /\ dstrings' = Strings1(T) \o (IF input[pos + 2].tag = "str" THEN << input[pos + 2].v >> ELSE << >>)
      /\ pos + 1 < Len(input) /\ CaseKnown(input[pos + 2]) /\ input' = input
  BY DEF ReadEnumCase
<1>2. At("zval")
  BY <1>1 DEF AtObject, AtToken
<1>3. /\ Listed(SrcsOf(Append(drefs, ObjectEntry)), IdTokens(input), pos + 3, IdSrcs(input))
      /\ NamesOk(input, pos + 3, dstrings') /\ ~Follows(input, pos + 3, {"ref", "obj", "objid"})
  BY <1>1, EntrySrc, CaseRead
<1> QED
  BY <1>1, <1>2, <1>3, ReadEnumCaseStep, WholeCount

LEMMA ReadObjectCount == ASSUME Inv, CountInv, ReadObject PROVE CountOk'
<1> DEFINE x == Fill(Next1, T2.v, Top.slot)
           y == Defer(Next1, 0)
           items == (IF T2.v = 0 THEN << >> ELSE << x >>) \o (IF KindOf(ClassName) = "wakeup" THEN << y >> ELSE << >>)
<1>1. /\ AtObject({"arr"}) /\ BuildObject(Created(ClassName)) /\ Do(items) /\ pos' = pos + 2
      /\ dstrings' = Strings1(T) /\ input' = input
  BY DEF ReadObject
<1>2. At("zval") /\ {"arr"} \subseteq {"arr", "objser", "enum"} /\ GoodTok(T2) /\ T2.tag = "arr"
  BY <1>1, ObjectFacts
<1>3. /\ Listed(SrcsOf(Append(drefs, ObjectEntry)), IdTokens(input), pos + 2, IdSrcs(input))
      /\ NamesOk(input, pos + 2, Strings1(T)) /\ ~Follows(input, pos + 2, {"ref", "obj", "objid"})
  BY <1>1, <1>2, EntrySrc, ObjectRead
<1>4. out' = PutCell(out, Top.slot, Created(ClassName), Top.want) /\ drefs' = Append(drefs, ObjectEntry)
  BY <1>1 DEF BuildObject, ObjectEntry
<1>5. Top.want => Placed(out', Top.slot)
  BY <1>2, <1>4, BuiltSlot
<1>6. /\ x \in ItemT /\ x.op = "fill" /\ x.h > Len(out) /\ Deep(x)
      /\ y \in ItemT /\ y.op = "defer" /\ ~Deep(y)
  <2>1. Len(out) \in Nat /\ Next1 \in Nat /\ Next1 > Len(out) /\ T2.v \in Int /\ Top.slot \in Slots /\ 0 \in Nat
    BY <1>2, TokFacts, HeapBasics, ZvalFacts DEF Inv, Next1
  <2>2. x \in ItemT /\ y \in ItemT
    BY <2>1, ItemsFit
  <2> QED
    BY <2>1, <2>2 DEF Fill, Defer, Deep
<1> HIDE DEF x, y
<1>7. items \in Seq(ItemT) /\ \A i \in DOMAIN items : items[i] = x \/ items[i] = y
  <2>1. items \in {<< >>, << x >>, << y >>, << x, y >>}
    <3>1. << x >> \o << y >> = << x, y >> /\ << >> \o << y >> = << y >> /\ << x >> \o << >> = << x >>
      BY <1>6, ListsOfItems
    <3>2. << >> \o << >> = << >>
      OBVIOUS
    <3> QED
      BY <3>1, <3>2
  <2> HIDE DEF items
  <2> QED
    BY <1>6, <2>1, LoopAndCall
<1> HIDE DEF items
<1> QED
  BY <1>1, <1>2, <1>3, <1>4, <1>5, <1>6, <1>7, ReadObjectStep, OpenCount

LEMMA ReadParameterCount == ASSUME Inv, CountInv, ReadParameter PROVE CountOk'
<1> DEFINE c == ObjCell(ClassName, << >>)
           H == PutCell(out, Top.slot, c, Top.want)
           param == Len(H) + 1
           x == Fill(param + 1, T2.v, << param, 1 >>)
           y == Defer(Next1, param)
           items == (IF T2.v = 0 THEN << >> ELSE << x >>) \o << y >>
<1>1. /\ AtObject({"arr"}) /\ out' = Append(Append(H, HoldCell(Arr(param + 1))), ArrCell(<< >>))
      /\ Do(items) /\ pos' = pos + 2 /\ dstrings' = Strings1(T) /\ input' = input
      /\ drefs' = Append(drefs, ObjectEntry)
  BY DEF ReadParameter, ObjectEntry
<1>2. At("zval") /\ {"arr"} \subseteq {"arr", "objser", "enum"} /\ GoodTok(T2) /\ T2.tag = "arr"
  BY <1>1, ObjectFacts
<1>3. /\ Listed(SrcsOf(Append(drefs, ObjectEntry)), IdTokens(input), pos + 2, IdSrcs(input))
      /\ NamesOk(input, pos + 2, Strings1(T)) /\ ~Follows(input, pos + 2, {"ref", "obj", "objid"})
  BY <1>1, <1>2, EntrySrc, ObjectRead
<1>4. /\ HeapInv(H) /\ Len(H) = Len(out) + (IF Top.want THEN 2 ELSE 1) /\ Len(H) \in Nat /\ DOMAIN H = 1..Len(H)
      /\ Len(out) \in Nat /\ HeapInv(out) /\ Top.want \in BOOLEAN /\ SlotOK(out, Top.slot) /\ DOMAIN out = 1..Len(out)
  BY <1>1, <1>2, ObjectWithHolder, HeapBasics, ZvalFacts DEF Inv
<1>5. Top.want => Placed(H, Top.slot)
  <2>1. Top.want => In(H, Top.slot) = Ref(Len(out) + 2)
    <3> HIDE DEF c
    <3> QED
      BY <1>4, PutCellSlot
  <2> HIDE DEF H
  <2> QED
    BY <2>1, RefTag DEF Placed
<1> HIDE DEF H
<1>6. In(out', Top.slot) = In(H, Top.slot)
  <2>1. Top.slot[1] \in DOMAIN H
    BY <1>4 DEF SlotOK
  <2>2. param + 1 = Len(H) + 2
    BY <1>4
  <2>3. out' = Append(Append(H, HoldCell(Arr(Len(H) + 2))), ArrCell(<< >>))
    BY <1>1, <2>2
  <2>4. \A a \in DOMAIN H : out'[a] = H[a]
    BY <2>3, <1>4, ParameterOK
  <2> QED
    BY <2>1, <2>4 DEF In
<1>7. /\ x \in ItemT /\ x.op = "fill" /\ x.h > Len(out) /\ Deep(x)
      /\ y \in ItemT /\ y.op = "defer" /\ ~Deep(y)
  <2>1. /\ Next1 \in Nat /\ T2.v \in Int /\ param \in Nat /\ param + 1 \in Nat /\ param + 1 > Len(out)
        /\ << param, 1 >> \in Slots
    BY SMTT(30), <1>2, <1>4, TokFacts DEF Inv, Next1, Slots
  <2> HIDE DEF param
  <2>2. x \in ItemT /\ y \in ItemT
    BY <2>1, ItemsFit
  <2> QED
    BY <2>1, <2>2 DEF Fill, Defer, Deep
<1> HIDE DEF x, y
<1>8. items \in Seq(ItemT) /\ \A i \in DOMAIN items : items[i] = x \/ items[i] = y
  <2>1. items \in {<< >>, << x >>, << y >>, << x, y >>}
    BY <1>7, ListsOfItems
  <2> HIDE DEF items
  <2> QED
    BY <1>7, <2>1, LoopAndCall
<1>9. Top.want => Placed(out', Top.slot)
  BY <1>5, <1>6 DEF Placed
<1> HIDE DEF items, param
<1> QED
  BY <1>1, <1>2, <1>3, <1>7, <1>8, <1>9, ReadParameterStep, OpenCount

(***************************************************************************)
(* CountInv holds from the start, and every step keeps it.                 *)
(***************************************************************************)
LEMMA CallFails == CallStep \/ Deinit => result' # "reading"
<1>1. ASSUME CallStep \/ Deinit PROVE result' \in {"calling", "error", "done"}
  BY <1>1 DEF CallStep, MakeCall, CallThrows, SkipCall, Deinit
<1> QED
  BY <1>1

LEMMA ReaderCounts == ASSUME Inv, CountInv, ReaderStep PROVE CountInv'
<1>1. SUFFICES ASSUME result' = "reading" PROVE CountOk'
  BY DEF CountInv
<1>2. CASE CannotRead \/ UnknownString \/ ShortArray \/ CannotReadKey \/ CannotReadObject \/ ShortProperties
           \/ ShortParameter \/ UnknownId \/ TrailingData \/ StartStep \/ MisreadCrash
  <2>1. result' \in {"failed", "calling", "crashed"}
    BY <1>2 DEF CannotRead, UnknownString, ShortArray, CannotReadKey, CannotReadObject, ShortProperties,
                ShortParameter, UnknownId, TrailingData, StartStep, MisreadCrash, Fail, FailAndClear, FailWith
  <2> QED
    BY <1>1, <2>1
<1>3. CASE CallStep \/ Deinit
  BY <1>1, <1>3, CallFails
<1>4. CASE ReadScalar \/ ReadReference \/ WrapReference \/ ReadArray
  BY <1>4, ReadScalarCount, ReadReferenceCount, WrapReferenceCount, ReadArrayCount
<1>5. CASE SkipKeyless \/ ReadNewKey \/ ReadOldKey \/ EndFill
  BY <1>5, SkipKeylessCount, ReadNewKeyCount, ReadOldKeyCount, EndFillCount
<1>6. CASE ReadObject \/ ReadParameter \/ ReadSerializable \/ ReadEnumCase
  BY <1>6, ReadObjectCount, ReadParameterCount, ReadSerializableCount, ReadEnumCaseCount
<1>7. CASE ShareReference \/ ShareValue \/ MisreadValue \/ BoxTarget \/ DeferCall
  BY <1>7, ShareReferenceCount, ShareValueCount, MisreadValueCount, BoxTargetCount, DeferCallCount
<1> QED
  BY <1>2, <1>3, <1>4, <1>5, <1>6, <1>7 DEF ReaderStep, ReadZval

\* before the first token nothing is counted
NothingCounted(b, dr, ds) ==
    /\ Listed(SrcsOf(dr), IdTokens(b), 1, IdSrcs(b)) /\ Listed(ds, NameTokens(b), 1, NamesOf(b))

LEMMA EmptyCounts ==
  ASSUME NEW U, NEW b \in Seq(U)
  PROVE  NothingCounted(b, << >>, << >>)
<1>1. ASSUME NEW S \in SUBSET (1..Len(b)) PROVE Below(S, 1) = 0 /\ \A j \in S : ~(j < 1)
  <2>1. \A j \in S : ~(j < 1)
    OBVIOUS
  <2>2. {j \in S : j < 1} = {}
    BY <2>1
  <2> QED
    BY <2>1, <2>2, FS_EmptySet DEF Below
<1>2. IdTokens(b) \in SUBSET (1..Len(b)) /\ NameTokens(b) \in SUBSET (1..Len(b))
  BY TokensTyped
<1>3. Len(SrcsOf(<< >>)) = 0 /\ Len(<< >>) = 0
  BY DEF SrcsOf
<1> QED
  BY <1>1, <1>2, <1>3 DEF NothingCounted, Listed

LEMMA FirstCounts ==
  ASSUME NEW H, NEW U, NEW b \in Seq(U), NEW ag, ag = << Read(<< 1, 1 >>, FALSE) >>
  PROVE  WrapsOk(H, ag) /\ HeadOk(H, ag, b, 1) /\ IdsOk(H, ag, b, 1, << >>) /\ NamesOk(b, 1, << >>)
<1>1. Head(ag).op = "zval" /\ ~Head(ag).want /\ DOMAIN ag = {1} /\ ag[1].op = "zval"
  BY DEF Read
<1>2. ~Wanted(ag) /\ ~Owed(H, ag) /\ WrapsOk(H, ag)
  BY <1>1 DEF Wanted, Owed, WrapsOk
<1>3. \A tags : ~Follows(b, 1, tags)
  BY DEF Follows
<1>4. NothingCounted(b, << >>, << >>)
  BY EmptyCounts
<1>5. Ids(H, ag, << >>) = SrcsOf(<< >>)
  BY <1>2 DEF Ids
<1> QED
  BY <1>2, <1>3, <1>4, <1>5 DEF HeadOk, IdsOk, NamesOk, NothingCounted

LEMMA CountsFromStart == ASSUME NEW U, NEW b \in Seq(U), Start(b) PROVE CountInv
<1> DEFINE ag == << Read(<< 1, 1 >>, FALSE) >>
<1>1. agenda = ag /\ input = b /\ pos = 1 /\ drefs = << >> /\ dstrings = << >>
  BY DEF Start
<1> HIDE DEF ag
<1>2. WrapsOk(out, ag) /\ HeadOk(out, ag, b, 1) /\ IdsOk(out, ag, b, 1, << >>) /\ NamesOk(b, 1, << >>)
  BY FirstCounts DEF ag
<1> QED
  BY <1>1, <1>2 DEF CountInv, CountOk

LEMMA SameCounts ==
  ASSUME CountInv, UNCHANGED << out, agenda, input, pos, drefs, dstrings, result >>
  PROVE  CountInv'
BY DEF CountInv, CountOk

\* where a value is to be read, the numbers given are those of the tokens before it
LEMMA CountsAtValue ==
  ASSUME Inv, CountInv, result = "reading", agenda # << >>
  PROVE  /\ NamesOk(input, pos, dstrings)
         /\ Head(agenda).op = "zval" => Listed(SrcsOf(drefs), IdTokens(input), pos, IdSrcs(input))
<1>1. IdsOk(out, agenda, input, pos, drefs) /\ NamesOk(input, pos, dstrings)
  BY DEF CountInv, CountOk
<1>2. Head(agenda).op = "zval" => ~Owed(out, agenda)
  BY DEF Owed
<1> QED
  BY <1>1, <1>2 DEF IdsOk, Ids

(***************************************************************************)
(* What is shared.  A mark is a token for which the reader makes one cell  *)
(* with a number: an object, or what a reference is put around.  Where no  *)
(* two marks stand for the same thing, no two cells do; and no two boxes   *)
(* hold the same object.                                                   *)
(***************************************************************************)
Marks(b) == {i \in IdTokens(b) : b[i].tag \in {"obj", "objid"} \/ Follows(b, i, {"ref"})}
MarksApart(b) == \A i, j \in Marks(b) : IdSrcs(b)[i] = IdSrcs(b)[j] => i = j

\* the marks before p, but a scalar that is still to be boxed
Cited(H, ag, b, p) == {q \in Marks(b) : q < p /\ (Owed(H, ag) => q # p - 1)}
Labelled(H, m) == {a \in DOMAIN H : H[a].kind = "obj" \/ (H[a].kind = "ref" /\ m[a] # NoVal)}
LabelsApart(H, m) == \A a, c \in Labelled(H, m) : m[a] = m[c] => a = c
Traced(H, m, S, f) == LabelsApart(H, m) /\ \A a \in Labelled(H, m) : \E q \in S : m[a] = f[q]

\* an object has one box, or one entry that may still get one
Refs(H)   == {a \in DOMAIN H : H[a].kind = "ref"}
Box(H, a) == H[a].elems[1].v
BoxesApart(H) == \A a, c \in Refs(H) : Box(H, a).t = "obj" /\ Box(H, a) = Box(H, c) => a = c
Plain(dr) == {i \in DOMAIN dr : dr[i].ty = "obj"}
BoxesOk(H, dr) ==
    /\ BoxesApart(H)
    /\ \A a \in Refs(H) : 1 \in DOMAIN H[a].elems
    /\ \A i \in Plain(dr) : \A a \in Refs(H) : Box(H, a) # Obj(dr[i].a)
    /\ \A i, j \in Plain(dr) : dr[i].a = dr[j].a => i = j
TablesFed(H, ag) == \A i \in DOMAIN ag : Feeds(ag[i]) => H[Fed(ag[i])].kind # "ref"

SharesOk == /\ TablesFed(out, agenda) /\ BoxesOk(out, drefs)
            /\ MarksApart(input) => Traced(out, made, Cited(out, agenda, input, pos), IdSrcs(input))
SharesInv ==
    /\ result = "reading" => SharesOk
    /\ result \in {"calling", "done"} =>
          BoxesApart(out) /\ (MarksApart(input) => LabelsApart(out, made))

\* no cell changes its kind, and no reference what it holds
SameCells(H, G) ==
    /\ DOMAIN H \subseteq DOMAIN G
    /\ \A a \in DOMAIN H : G[a].kind = H[a].kind /\ (H[a].kind = "ref" => G[a] = H[a])

LEMMA CellsKept ==
  ASSUME Inv, result = "reading", agenda # << >>, TablesFed(out, agenda), Stepped
  PROVE  SameCells(out, out')
<1>1. Feeds(Head(agenda)) /\ OneFed(out, out', Fed(Head(agenda)), dtors')
  BY DEF Stepped, StepIs
<1>2. 1 \in DOMAIN agenda /\ Head(agenda) = agenda[1]
  BY AgendaNow DEF AgendaInv
<1>3. out[Fed(Head(agenda))].kind # "ref"
  BY <1>1, <1>2 DEF TablesFed
<1> QED
  BY <1>1, <1>3 DEF OneFed, SameCells

LEMMA TablesKept ==
  ASSUME Inv, result = "reading", agenda # << >>, TablesFed(out, agenda), SameCells(out, out'),
         NEW items \in Seq(ItemT), Do(items),
         \A i \in DOMAIN items : Feeds(items[i]) =>
            (Feeds(Head(agenda)) /\ Fed(items[i]) = Fed(Head(agenda))) \/ out'[Fed(items[i])].kind # "ref"
  PROVE  TablesFed(out', agenda')
<1>1. HeapInv(out) /\ AgendaInv(out, agenda) /\ agenda \in Seq(ItemT) /\ 1 \in DOMAIN agenda
      /\ Head(agenda) = agenda[1]
  BY AgendaNow DEF AgendaInv
<1>2. \A j \in DOMAIN agenda : Feeds(agenda[j]) =>
         Fed(agenda[j]) \in DOMAIN out /\ out'[Fed(agenda[j])].kind # "ref"
  BY <1>1, ItemBounds DEF TablesFed, SameCells
<1> DEFINE new == items \o Tail(agenda)
<1>3. \A k \in DOMAIN new : \/ k \in DOMAIN items /\ new[k] = items[k]
                            \/ \E j \in DOMAIN agenda : new[k] = agenda[j]
  <2>1. \A k \in DOMAIN new :
           \/ k \in DOMAIN items /\ new[k] = items[k]
           \/ \E j \in DOMAIN agenda : j >= 2 /\ k = Len(items) + j - 1 /\ new[k] = agenda[j]
    BY <1>1, CatTail
  <2> HIDE DEF new
  <2> QED
    BY <2>1
<1>4. agenda' = new
  BY DEF Do
<1> HIDE DEF new
<1>5. ASSUME NEW k \in DOMAIN new, Feeds(new[k]) PROVE out'[Fed(new[k])].kind # "ref"
  <2>1. CASE k \in DOMAIN items /\ new[k] = items[k]
    BY <2>1, <1>1, <1>2, <1>5
  <2>2. CASE \E j \in DOMAIN agenda : new[k] = agenda[j]
    BY <2>2, <1>2, <1>5
  <2> QED
    BY <2>1, <2>2, <1>3, <1>5
<1> QED
  BY <1>4, <1>5 DEF TablesFed

\* one cell more, made for a mark that had none
LEMMA TracedMore ==
  ASSUME NEW H, NEW G, NEW m, NEW m2, NEW S, NEW S2, NEW f, SameCells(H, G),
         \A a \in DOMAIN H : m2[a] = m[a], Traced(H, m, S, f), S \subseteq S2,
         \A i, j \in S2 : f[i] = f[j] => i = j, NEW n, NEW q,
         \A a \in Labelled(G, m2) : a \in DOMAIN H \/ (a = n /\ q \in S2 \ S /\ m2[n] = f[q])
  PROVE  Traced(G, m2, S2, f)
<1>1. \A a \in Labelled(G, m2) : a \in DOMAIN H => a \in Labelled(H, m) /\ m2[a] = m[a]
  BY DEF Labelled, SameCells
<1>2. \A a \in Labelled(H, m) : \E p \in S : m[a] = f[p]
  BY DEF Traced
<1>3. \A a \in Labelled(G, m2) : \E p \in S2 : m2[a] = f[p]
  BY <1>1, <1>2
<1>4. \A a \in Labelled(G, m2) : a \in DOMAIN H => m2[a] # f[q] \/ q \in S \/ q \notin S2
  BY <1>1, <1>2
<1>5. \A a, c \in Labelled(G, m2) : m2[a] = m2[c] => a = c
  <2>1. SUFFICES ASSUME NEW a \in Labelled(G, m2), NEW c \in Labelled(G, m2), m2[a] = m2[c] PROVE a = c
    OBVIOUS
  <2>2. CASE a \in DOMAIN H /\ c \in DOMAIN H
    BY <2>1, <2>2, <1>1 DEF Traced, LabelsApart
  <2>3. CASE a \notin DOMAIN H \/ c \notin DOMAIN H
    BY <2>1, <2>3, <1>4
  <2> QED
    BY <2>2, <2>3
<1> QED
  BY <1>3, <1>5 DEF Traced, LabelsApart

\* one box more, for what has none, or one entry more, for a new object
BoxMore(H, G, dr2, r) ==
    /\ \A a \in Refs(G) : a \in DOMAIN H \/ a = r
    /\ r \in Refs(G) \ DOMAIN H =>
          /\ 1 \in DOMAIN G[r].elems
          /\ Box(G, r).t = "obj" => /\ \A a \in Refs(H) : Box(H, a) # Box(G, r)
                                    /\ \A i \in Plain(dr2) : Box(G, r) # Obj(dr2[i].a)
EntryMore(H, dr, dr2, k) ==
    \A i \in Plain(dr2) : \/ i \in Plain(dr) /\ dr2[i].a = dr[i].a
                          \/ i = k /\ dr2[i].a \notin DOMAIN H

LEMMA BoxesMore ==
  ASSUME NEW H, HeapInv(H), NEW dr, RefsInv(H, dr), NEW G, SameCells(H, G), BoxesOk(H, dr), NEW dr2,
         NEW r, BoxMore(H, G, dr2, r), NEW k, EntryMore(H, dr, dr2, k)
  PROVE  BoxesOk(G, dr2)
<1>0. /\ \A a \in Refs(G) : a \in DOMAIN H \/ a = r
      /\ r \in Refs(G) \ DOMAIN H =>
            /\ 1 \in DOMAIN G[r].elems
            /\ Box(G, r).t = "obj" => /\ \A a \in Refs(H) : Box(H, a) # Box(G, r)
                                      /\ \A i \in Plain(dr2) : Box(G, r) # Obj(dr2[i].a)
      /\ \A i \in Plain(dr2) : \/ i \in Plain(dr) /\ dr2[i].a = dr[i].a
                               \/ i = k /\ dr2[i].a \notin DOMAIN H
  BY DEF BoxMore, EntryMore
<1>1. \A a \in Refs(G) : a \in DOMAIN H => a \in Refs(H) /\ G[a] = H[a] /\ Box(G, a) = Box(H, a)
  BY DEF Refs, SameCells, Box
<1>2. \A a \in Refs(H) : Box(H, a).t = "obj" => Box(H, a).v \in DOMAIN H
  <2>1. SUFFICES ASSUME NEW a \in Refs(H), Box(H, a).t = "obj" PROVE Box(H, a).v \in DOMAIN H
    OBVIOUS
  <2>2. Box(H, a) \in Vals(Len(H)) /\ DOMAIN H = 1..Len(H)
    BY HeapBasics DEF BoxesOk, Refs, Box
  <2> QED
    BY <2>1, <2>2 DEF Vals, Null, Undef, Key
<1>3. \A i \in Plain(dr) : dr[i].a \in DOMAIN H
  BY DEF Plain, RefsInv, RefOK
<1>4. \A n : Obj(n).t = "obj" /\ Obj(n).v = n
  BY DEF Obj
<1>5. BoxesApart(G)
  <2>1. SUFFICES ASSUME NEW a \in Refs(G), NEW c \in Refs(G), Box(G, a).t = "obj", Box(G, a) = Box(G, c)
                 PROVE  a = c
    BY DEF BoxesApart
  <2>2. CASE a \in DOMAIN H /\ c \in DOMAIN H
    BY <2>1, <2>2, <1>1 DEF BoxesOk, BoxesApart
  <2>3. CASE a \in DOMAIN H /\ c \notin DOMAIN H
    BY <2>1, <2>3, <1>0, <1>1
  <2>4. CASE a \notin DOMAIN H /\ c \in DOMAIN H
    BY <2>1, <2>4, <1>0, <1>1
  <2>5. CASE a \notin DOMAIN H /\ c \notin DOMAIN H
    BY <2>1, <2>5, <1>0
  <2> QED
    BY <2>2, <2>3, <2>4, <2>5
<1>6. \A a \in Refs(G) : 1 \in DOMAIN G[a].elems
  BY <1>0, <1>1 DEF BoxesOk
<1>7. \A i \in Plain(dr2) : \A a \in Refs(G) : Box(G, a) # Obj(dr2[i].a)
  <2>1. SUFFICES ASSUME NEW i \in Plain(dr2), NEW a \in Refs(G), Box(G, a) = Obj(dr2[i].a) PROVE FALSE
    OBVIOUS
  <2>2. Box(G, a).t = "obj" /\ Box(G, a).v = dr2[i].a
    BY <2>1 DEF Obj
  <2>3. CASE a \notin DOMAIN H
    BY <2>1, <2>2, <2>3, <1>0
  <2>4. CASE a \in DOMAIN H
    <3>1. a \in Refs(H) /\ Box(H, a) = Obj(dr2[i].a) /\ dr2[i].a \in DOMAIN H
      BY <2>1, <2>2, <2>4, <1>1, <1>2
    <3> QED
      BY <3>1, <1>0 DEF BoxesOk
  <2> QED
    BY <2>3, <2>4
<1>8. \A i, j \in Plain(dr2) : dr2[i].a = dr2[j].a => i = j
  BY <1>0, <1>3 DEF BoxesOk
<1> QED
  BY <1>5, <1>6, <1>7, <1>8 DEF BoxesOk

\* no box and no entry more
LEMMA BoxesSame ==
  ASSUME NEW H, HeapInv(H), NEW dr, RefsInv(H, dr), NEW G, SameCells(H, G), BoxesOk(H, dr), NEW dr2,
         \A a \in Refs(G) : a \in DOMAIN H,
         \A i \in Plain(dr2) : i \in Plain(dr) /\ dr2[i].a = dr[i].a
  PROVE  BoxesOk(G, dr2)
<1>1. \A r : BoxMore(H, G, dr2, r)
  BY DEF BoxMore
<1>2. \A k : EntryMore(H, dr, dr2, k)
  BY DEF EntryMore
<1> QED
  BY <1>1, <1>2, BoxesMore

\* the marks a step passes
LEMMA CitedMore ==
  ASSUME Inv, input' = input, pos' \in Nat, pos' > pos \/ (pos' = pos /\ ~Owed(out', agenda'))
  PROVE  Cited(out, agenda, input, pos) \subseteq Cited(out', agenda', input, pos')
<1>1. pos \in Nat /\ \A q \in Marks(input) : q \in Nat
  BY AtPos DEF Inv, Marks, IdTokens
<1>2. SUFFICES ASSUME NEW q \in Cited(out, agenda, input, pos) PROVE q \in Cited(out', agenda', input, pos')
  OBVIOUS
<1>3. q \in Marks(input) /\ q \in Nat /\ q < pos
  BY <1>1, <1>2 DEF Cited
<1>4. q < pos' /\ (Owed(out', agenda') => q # pos' - 1)
  <2>1. CASE pos' > pos
    <3>1. \A x, y, z \in Nat : x < y /\ z > y => x < z /\ x # z - 1
      OBVIOUS
    <3> QED
      BY <2>1, <3>1, <1>1, <1>3
  <2>2. CASE pos' = pos /\ ~Owed(out', agenda')
    BY <2>2, <1>3
  <2> QED
    BY <2>1, <2>2
<1> QED
  BY <1>3, <1>4 DEF Cited

\* a token that is no scalar has its cell when it has been read
LEMMA CitedNow ==
  ASSUME Inv, CountOk', input' = input, pos' \in Nat, pos' > pos, pos \in Marks(input), T.tag \notin ScalarTags
  PROVE  pos \in Cited(out', agenda', input, pos') \ Cited(out, agenda, input, pos)
<1>1. pos \in Nat
  BY AtPos DEF Inv
<1>2. Owed(out', agenda') => input[pos' - 1].tag \in ScalarTags
  BY DEF CountOk, HeadOk
<1>3. Owed(out', agenda') => pos # pos' - 1
  BY <1>2 DEF T
<1>4. ~(pos < pos)
  BY <1>1
<1> QED
  BY <1>3, <1>4 DEF Cited

(***************************************************************************)
(* A step of reading.                                                      *)
(***************************************************************************)

LEMMA SharesMore ==
  ASSUME SharesOk, input' = input, SameCells(out, out'), \A a \in DOMAIN out : made'[a] = made[a],
         TablesFed(out', agenda'), BoxesOk(out', drefs'),
         Cited(out, agenda, input, pos) \subseteq Cited(out', agenda', input, pos'), NEW n, NEW q,
         \A a \in Labelled(out', made') :
            \/ a \in DOMAIN out
            \/ /\ a = n /\ made'[n] = IdSrcs(input)[q]
               /\ q \in Cited(out', agenda', input, pos') \ Cited(out, agenda, input, pos)
  PROVE  SharesOk'
<1> DEFINE S == Cited(out, agenda, input, pos)
           S2 == Cited(out', agenda', input, pos')
           f == IdSrcs(input)
<1>1. ASSUME MarksApart(input) PROVE Traced(out', made', S2, f)
  <2>1. Traced(out, made, S, f)
    BY <1>1 DEF SharesOk
  <2>2. \A i, j \in S2 : f[i] = f[j] => i = j
    BY <1>1 DEF MarksApart, Cited
  <2>3. \A a \in Labelled(out', made') : a \in DOMAIN out \/ (a = n /\ q \in S2 \ S /\ made'[n] = f[q])
    OBVIOUS
  <2>4. S \subseteq S2
    OBVIOUS
  <2> HIDE DEF S, S2, f
  <2> QED
    BY <2>1, <2>2, <2>3, <2>4, TracedMore
<1> QED
  BY <1>1 DEF SharesOk

\* no cell is made
LEMMA SharesQuiet ==
  ASSUME Inv, Inv', SharesOk, result = "reading", input' = input, SameCells(out, out'), DOMAIN out' = DOMAIN out,
         made' = made, drefs' = drefs, TablesFed(out', agenda'),
         pos' > pos \/ (pos' = pos /\ ~Owed(out', agenda'))
  PROVE  SharesOk'
<1>1. HeapInv(out) /\ RefsInv(out, drefs) /\ pos' \in Nat
  BY DEF Inv, InputInv
<1>2. BoxesOk(out', drefs')
  BY <1>1, BoxesSame DEF SharesOk, Refs
<1>3. Cited(out, agenda, input, pos) \subseteq Cited(out', agenda', input, pos')
  BY <1>1, CitedMore
<1>4. \A a \in Labelled(out', made') : a \in DOMAIN out
  BY DEF Labelled
<1>5. ASSUME NEW n, NEW q PROVE SharesOk'
  BY <1>2, <1>3, <1>4, SharesMore
<1> QED
  BY <1>5

LEMMA NoCellMore ==
  ASSUME Inv, Inv', result = "reading", result' = "reading", Len(made') = Len(made)
  PROVE  DOMAIN out' = DOMAIN out /\ Len(out') = Len(out)
<1>1. HeapInv(out) /\ HeapInv(out)' /\ Len(made) = Len(out) /\ Len(made') = Len(out')
  BY DEF Inv, MadeInv
<1>2. DOMAIN out = 1..Len(out) /\ DOMAIN out' = 1..Len(out')
  BY <1>1, HeapBasics
<1> QED
  BY <1>1, <1>2

LEMMA QuietShares ==
  ASSUME Inv, Inv', SharesOk, result = "reading", result' = "reading", agenda # << >>, Stepped, input' = input,
         made' = made, drefs' = drefs, pos' > pos \/ (pos' = pos /\ ~Owed(out', agenda'))
  PROVE  SharesOk'
<1>1. DOMAIN out' = DOMAIN out /\ Len(out') = Len(out)
  BY NoCellMore
<1>2. TablesFed(out, agenda) /\ SameCells(out, out')
  BY CellsKept DEF SharesOk
<1>3. PICK items \in Seq(ItemT) : Do(items) /\ StepIs(out, out', agenda, items, dtors')
  BY DEF Stepped
<1>4. ASSUME NEW i \in DOMAIN items, Feeds(items[i]) PROVE Fed(items[i]) = Fed(Head(agenda))
  <2>1. /\ DOMAIN out = 1..Len(out) /\ Len(out) \in Nat /\ agenda \in Seq(ItemT)
        /\ HeapInv(out)' /\ AgendaInv(out, agenda)'
    BY AgendaNow, HeapBasics DEF AgendaInv, Inv, Phases, ReadInv
  <2>2. \A j \in DOMAIN items : j \in DOMAIN agenda' /\ agenda'[j] = items[j]
    BY <1>3, <2>1, CatTail DEF Do
  <2>3. \A j \in DOMAIN items : /\ Feeds(items[j]) => Fed(items[j]) \in DOMAIN out
                                /\ Defers(items[j]) => items[j].o \in DOMAIN out
    BY <1>1, <2>1, <2>2, ItemBounds
  <2>4. \A j \in DOMAIN items : ~Defers(items[j])
    BY <1>3, <2>1, <2>3 DEF StepIs
  <2>5. Fed(items[i]) # Len(out) + 1
    BY <1>4, <2>1, <2>3
  <2> QED
    BY <1>3, <1>4, <2>4, <2>5 DEF StepIs
<1>5. Feeds(Head(agenda))
  BY <1>3 DEF StepIs
<1>6. TablesFed(out', agenda')
  BY <1>2, <1>3, <1>4, <1>5, TablesKept
<1> QED
  BY <1>1, <1>2, <1>6, SharesQuiet

LEMMA QuietReads ==
  ASSUME Inv, Inv', CountInv, SharesOk, result' = "reading",
         \/ ReadScalar \/ ShareReference \/ MisreadValue \/ ReadReference
         \/ SkipKeyless \/ ReadNewKey \/ ReadOldKey \/ EndFill
  PROVE  SharesOk'
<1>1. /\ result = "reading" /\ agenda # << >> /\ input' = input /\ made' = made /\ drefs' = drefs
      /\ pos' = pos + 1 \/ EndFill
  BY DEF ReadScalar, ShareReference, MisreadValue, ReadReference, SkipKeyless, ReadNewKey, ReadOldKey, EndFill,
         AtBackRef, AtToken, AtKey, At
<1>2. Stepped
  BY ReadScalarStep, ShareReferenceStep, MisreadValueStep, ReadReferenceStep, SkipKeylessStep, ReadNewKeyStep,
     ReadOldKeyStep, EndFillStep
<1>3. pos \in Nat
  BY AtPos DEF Inv
<1>4. EndFill => pos' = pos /\ ~Owed(out', agenda')
  BY EndFillCount DEF EndFill
<1>5. pos' > pos \/ (pos' = pos /\ ~Owed(out', agenda'))
  BY <1>1, <1>3, <1>4
<1> QED
  BY <1>1, <1>2, <1>5, QuietShares

LEMMA DeferCallShares == ASSUME Inv, Inv', CountInv, SharesOk, DeferCall PROVE SharesOk'
<1>1. /\ result = "reading" /\ agenda # << >> /\ input' = input /\ made' = made /\ drefs' = drefs /\ out' = out
      /\ pos' = pos /\ Do(<< >>)
  BY DEF DeferCall, At
<1>2. ~Owed(out', agenda')
  BY DeferCallCount
<1>3. SameCells(out, out')
  BY <1>1 DEF SameCells
<1> DEFINE none == << >>
<1>4. none \in Seq(ItemT) /\ DOMAIN none = {} /\ Do(none)
  BY <1>1
<1> HIDE DEF none
<1>5. TablesFed(out', agenda')
  BY <1>1, <1>3, <1>4, TablesKept DEF SharesOk
<1> QED
  BY <1>1, <1>2, <1>3, <1>5, SharesQuiet
(***************************************************************************)
(* New cells.                                                              *)
(***************************************************************************)

LEMMA CellsNow ==
  ASSUME NEW H, HeapInv(H), NEW s, SlotOK(H, s), NEW c, SmallCell(c, Len(H)), c.kind \in Counted,
         NEW want \in BOOLEAN
  PROVE  LET G == PutCell(H, s, c, want)
         IN  /\ DOMAIN G = 1..(Len(H) + (IF want THEN 2 ELSE 1))
             /\ G[Len(H) + 1] = c
             /\ want => /\ G[Len(H) + 2].kind = "ref" /\ 1 \in DOMAIN G[Len(H) + 2].elems
                        /\ Box(G, Len(H) + 2).t = c.kind /\ Box(G, Len(H) + 2).v = Len(H) + 1
<1> DEFINE G == PutCell(H, s, c, want)
           m == Len(H)
           p == [t |-> c.kind, v |-> m + 1]
           box == RefCell(p, TRUE)
<1>1. m \in Nat /\ m >= 1 /\ DOMAIN H = 1..m
  BY HeapBasics
<1>2. DOMAIN G = 1..(m + (IF want THEN 2 ELSE 1)) /\ G[m + 1] = c
  <2>1. HeapInv(G) /\ Len(G) = m + (IF want THEN 2 ELSE 1) /\ G[m + 1] = c
    BY PutCellOK
  <2> HIDE DEF G
  <2> QED
    BY <2>1, HeapBasics
<1>3. ASSUME want
      PROVE  /\ G[m + 2].kind = "ref" /\ 1 \in DOMAIN G[m + 2].elems
             /\ Box(G, m + 2).t = c.kind /\ Box(G, m + 2).v = m + 1
  <2>1. G = Append(Append(Put(H, s, Ref(m + 2)), c), box)
    BY <1>1, <1>3 DEF PutCell
  <2>2. Ref(m + 2) \in Vals(m + 2) /\ p \in Vals(m + 2)
    BY <1>1 DEF Vals, Ref, Counted
  <2>3. SmallCell(c, m + 2)
    BY <1>1, CellWiden DEF SmallCell
  <2>5. p.t = c.kind /\ p.v = m + 1
    OBVIOUS
  <2> HIDE DEF p
  <2>4. /\ SmallCell(box, m + 2) /\ box.kind = "ref" /\ 1 \in DOMAIN box.elems /\ box.elems[1].v = p
    <3>1. m + 2 \in Nat
      BY <1>1
    <3>2. box.kind = "ref"
      BY DEF RefCell
    <3> QED
      BY <3>1, <3>2, <2>2, BoxOK
  <2> HIDE DEF G, box
  <2>6. G[m + 2] = box
    BY <1>1, <2>1, <2>2, <2>3, <2>4, PutAppendTwo
  <2> QED
    BY <2>4, <2>5, <2>6 DEF Box
<1> QED
  BY <1>2, <1>3

LEMMA MadeTail ==
  ASSUME HeapInv(out), MadeInv, NEW s \in Seq(Srcs)
  PROVE  /\ \A a \in DOMAIN out : (made \o s)[a] = made[a]
         /\ \A i \in DOMAIN s : (made \o s)[Len(out) + i] = s[i]
<1>1. made \in Seq(Srcs) /\ Len(made) = Len(out) /\ Len(made) \in Nat /\ Len(s) \in Nat
      /\ DOMAIN s = 1..Len(s)
  BY DEF MadeInv
<1>2. /\ Len(made \o s) = Len(made) + Len(s)
      /\ \A i \in 1..(Len(made) + Len(s)) : (made \o s)[i] = IF i <= Len(made) THEN made[i] ELSE s[i - Len(made)]
  BY <1>1, ConcatProperties
<1>3. ASSUME NEW i \in DOMAIN s PROVE (made \o s)[Len(out) + i] = s[i]
  <2>1. Len(out) + i \in 1..(Len(made) + Len(s)) /\ ~(Len(out) + i <= Len(made)) /\ (Len(out) + i) - Len(made) = i
    BY <1>1
  <2> QED
    BY <1>2, <2>1
<1>4. ASSUME NEW a \in DOMAIN out PROVE (made \o s)[a] = made[a]
  <2>1. a \in 1..(Len(made) + Len(s)) /\ a <= Len(made)
    BY <1>1, <1>4, HeapBasics
  <2> QED
    BY <1>2, <2>1
<1> QED
  BY <1>3, <1>4

LEMMA BoxesTyped ==
  ASSUME NEW H, HeapInv(H), NEW dr, RefsInv(H, dr), BoxesOk(H, dr)
  PROVE  /\ \A a \in Refs(H) : Box(H, a).t = "obj" => Box(H, a).v \in DOMAIN H
         /\ \A i \in Plain(dr) : dr[i].a \in DOMAIN H
<1>1. ASSUME NEW a \in Refs(H), Box(H, a).t = "obj" PROVE Box(H, a).v \in DOMAIN H
  <2>1. Box(H, a) \in Vals(Len(H)) /\ DOMAIN H = 1..Len(H)
    BY HeapBasics DEF BoxesOk, Refs, Box
  <2> QED
    BY <1>1, <2>1 DEF Vals, Null, Undef, Key
<1>2. \A i \in Plain(dr) : dr[i].a \in DOMAIN H
  BY DEF Plain, RefsInv, RefOK
<1> QED
  BY <1>1, <1>2

\* a new cell, and its box
NewNow(k, want) ==
    /\ Next1 \in DOMAIN out' /\ out'[Next1].kind = k
    /\ want => /\ Next1 + 1 \in DOMAIN out' /\ out'[Next1 + 1].kind = "ref" /\ 1 \in DOMAIN out'[Next1 + 1].elems
               /\ Box(out', Next1 + 1).t = k /\ Box(out', Next1 + 1).v = Next1
    /\ \A a \in DOMAIN out' \ DOMAIN out : out'[a].kind \in {"obj", "ref"} =>
          a = Next1 \/ (want /\ a = Next1 + 1)
MadeNow(k, src, want) ==
    /\ \A a \in DOMAIN out : made'[a] = made[a]
    /\ k = "obj" => made'[Next1] = src /\ (want => made'[Next1 + 1] = NoVal)
    /\ k = "arr" /\ want => made'[Next1 + 1] = src

EntryNow(k, want) ==
    \A i \in Plain(drefs') : \/ i \in Plain(drefs) /\ drefs'[i].a = drefs[i].a
                             \/ i = Len(drefs) + 1 /\ k = "obj" /\ ~want /\ drefs'[i].a = Next1

LEMMA EntryAppended ==
  ASSUME drefs \in Seq(RefT), NEW e \in RefT, drefs' = Append(drefs, e), NEW k, NEW want \in BOOLEAN,
         e.ty = "obj" => k = "obj" /\ ~want /\ e.a = Next1
  PROVE  EntryNow(k, want)
<1>1. \A i \in DOMAIN drefs' : \/ i \in DOMAIN drefs /\ drefs'[i] = drefs[i]
                               \/ i = Len(drefs) + 1 /\ drefs'[i] = e
  OBVIOUS
<1> QED
  BY <1>1 DEF Plain, EntryNow

LEMMA NewBoxes ==
  ASSUME Inv, SharesOk, SameCells(out, out'), NEW k \in {"arr", "obj"}, NEW want \in BOOLEAN, NewNow(k, want),
         EntryNow(k, want)
  PROVE  BoxesOk(out', drefs')
<1>1. HeapInv(out) /\ RefsInv(out, drefs) /\ BoxesOk(out, drefs) /\ drefs \in Seq(RefT)
  BY DEF Inv, SharesOk, RefsInv
<1>2. /\ Len(out) \in Nat /\ DOMAIN out = 1..Len(out) /\ Next1 \in Nat /\ Next1 \notin DOMAIN out
      /\ Next1 + 1 \notin DOMAIN out /\ Next1 # Next1 + 1 /\ Next1 >= 1
  BY <1>1, HeapBasics DEF Next1
<1>3. /\ \A a \in Refs(out) : Box(out, a).t = "obj" => Box(out, a).v \in DOMAIN out
      /\ \A i \in Plain(drefs) : drefs[i].a \in DOMAIN out
  BY <1>1, BoxesTyped
<1>4. want => /\ Next1 + 1 \in DOMAIN out' /\ 1 \in DOMAIN out'[Next1 + 1].elems
              /\ Box(out', Next1 + 1).v = Next1
  BY DEF NewNow
<1>5. \A a \in Refs(out') : a \in DOMAIN out \/ (want /\ a = Next1 + 1)
  BY DEF Refs, NewNow
<1>6. \A i \in Plain(drefs') : \/ i \in Plain(drefs) /\ drefs'[i].a = drefs[i].a
                               \/ i = Len(drefs) + 1 /\ ~want /\ drefs'[i].a = Next1
  BY DEF EntryNow
<1>7. EntryMore(out, drefs, drefs', Len(drefs) + 1)
  BY <1>2, <1>6 DEF EntryMore
<1>8. BoxMore(out, out', drefs', Next1 + 1)
  <2>1. SUFFICES ASSUME Next1 + 1 \in Refs(out') \ DOMAIN out
                 PROVE  /\ 1 \in DOMAIN out'[Next1 + 1].elems
                        /\ Box(out', Next1 + 1).t = "obj" =>
                              /\ \A a \in Refs(out) : Box(out, a) # Box(out', Next1 + 1)
                              /\ \A i \in Plain(drefs') : Box(out', Next1 + 1) # Obj(drefs'[i].a)
    BY <1>5 DEF BoxMore
  <2>2. want
    BY <2>1, <1>2, <1>5
  <2>3. \A i \in Plain(drefs') : drefs'[i].a # Next1
    BY <1>2, <1>3, <1>6, <2>2
  <2>4. \A n : Obj(n).v = n
    BY DEF Obj
  <2>5. Box(out', Next1 + 1).v = Next1
    BY <1>4, <2>2
  <2> QED
    BY <1>2, <1>3, <1>4, <2>2, <2>3, <2>4, <2>5
<1> QED
  BY <1>1, <1>7, <1>8, BoxesMore

LEMMA BuiltShares ==
  ASSUME Inv, Inv', CountInv, CountOk', SharesOk, At("zval"), More, input' = input, pos' > pos,
         SameCells(out, out'), TablesFed(out', agenda'), BoxesOk(out', drefs'),
         T.tag \in {"arr", "obj", "objid"}, NEW k, k = IF T.tag = "arr" THEN "arr" ELSE "obj",
         NEW w \in BOOLEAN, w => Top.want, NewNow(k, w), MadeNow(k, T.src, w)
  PROVE  SharesOk'
<1>1. /\ pos \in DOMAIN input /\ pos \in Nat /\ T = input[pos] /\ ~Follows(input, pos, {"obj", "objid"})
      /\ Top.want => Follows(input, pos, {"ref"})
  BY TokenRead, NothingOwed
<1>2. T.tag \notin ScalarTags /\ IdSrcs(input)[pos] = T.src
  BY <1>1, ScalarSrc DEF ScalarTags
<1>3. k = "obj" \/ w => pos \in Marks(input)
  BY <1>1 DEF Marks, IdTokens, TakesId
<1>4. pos' \in Nat
  BY DEF Inv, InputInv
<1>5. Cited(out, agenda, input, pos) \subseteq Cited(out', agenda', input, pos')
  BY <1>4, CitedMore
<1>6. k = "obj" \/ w => pos \in Cited(out', agenda', input, pos') \ Cited(out, agenda, input, pos)
  BY <1>2, <1>3, <1>4, CitedNow
<1> DEFINE n == IF k = "obj" THEN Next1 ELSE Next1 + 1
<1>7. Next1 \in Nat /\ Next1 # Next1 + 1
  BY HeapBasics DEF Inv, Next1
<1>8. ASSUME NEW a \in Labelled(out', made'), a \notin DOMAIN out
      PROVE  a = n /\ (k = "obj" \/ w) /\ made'[n] = T.src
  <2>1. a \in DOMAIN out' /\ (out'[a].kind = "obj" \/ (out'[a].kind = "ref" /\ made'[a] # NoVal))
    BY DEF Labelled
  <2>2. a = Next1 \/ (w /\ a = Next1 + 1)
    BY <2>1, <1>8 DEF NewNow
  <2>3. CASE a = Next1
    BY <2>1, <2>3 DEF NewNow, MadeNow
  <2>4. CASE w /\ a = Next1 + 1
    BY <2>1, <2>4 DEF NewNow, MadeNow
  <2> QED
    BY <2>2, <2>3, <2>4
<1> HIDE DEF n
<1> QED
  BY <1>2, <1>5, <1>6, <1>8, SharesMore DEF MadeNow

\* the cell is made by PutCell, and others that are not numbered may follow
LEMMA PutNow ==
  ASSUME Inv, At("zval"), NEW w \in BOOLEAN, NEW c, SmallCell(c, Len(out)), c.kind \in {"arr", "obj"},
         DOMAIN PutCell(out, Top.slot, c, w) \subseteq DOMAIN out',
         \A a \in DOMAIN PutCell(out, Top.slot, c, w) : out'[a] = PutCell(out, Top.slot, c, w)[a],
         \A a \in DOMAIN out' \ DOMAIN PutCell(out, Top.slot, c, w) : out'[a].kind \notin {"obj", "ref"}
  PROVE  NewNow(c.kind, w)
<1> DEFINE G == PutCell(out, Top.slot, c, w)
<1>1. SlotOK(out, Top.slot) /\ HeapInv(out) /\ c.kind \in Counted
  BY ZvalFacts DEF Inv, Counted
<1>2. /\ DOMAIN G = 1..(Len(out) + (IF w THEN 2 ELSE 1))
      /\ G[Len(out) + 1] = c
      /\ w => /\ G[Len(out) + 2].kind = "ref" /\ 1 \in DOMAIN G[Len(out) + 2].elems
                     /\ Box(G, Len(out) + 2).t = c.kind /\ Box(G, Len(out) + 2).v = Len(out) + 1
  BY <1>1, CellsNow
<1> HIDE DEF G
<1>3. Len(out) \in Nat /\ DOMAIN out = 1..Len(out) /\ Next1 = Len(out) + 1 /\ Next1 + 1 = Len(out) + 2
  BY <1>1, HeapBasics DEF Next1
<1>4. /\ Next1 \in DOMAIN G /\ (w => Next1 + 1 \in DOMAIN G)
      /\ \A a \in DOMAIN G \ DOMAIN out : a = Next1 \/ (w /\ a = Next1 + 1)
  BY <1>1, <1>2, <1>3
<1> QED
  BY <1>2, <1>3, <1>4 DEF NewNow, G, Box

LEMMA ReadArrayShares ==
  ASSUME Inv, Inv', CountInv, CountOk', SharesOk, ReadArray
  PROVE  SharesOk'
<1> DEFINE c == EmptyArr
           ty == IF Top.want THEN "ref" ELSE IF T.v = 0 THEN "empty" ELSE "arr"
           e == Entry(ty, IF Boxed THEN Next1 + 1 ELSE Next1, T.src)
           s == IF Boxed THEN << NoVal, T.src >> ELSE << T.src >>
           items == IF T.v = 0 THEN << >> ELSE << Fill(Next1, T.v, Top.slot) >>
<1>1. /\ At("zval") /\ More /\ T.tag = "arr" /\ input' = input /\ pos' = pos + 1 /\ result = "reading"
      /\ out' = PutCell(out, Top.slot, c, Boxed) /\ made' = made \o s
      /\ drefs' = Append(drefs, e) /\ Do(items)
  BY DEF ReadArray, AtToken, At, Make, EmptyArr
<1>2. /\ Top.slot \in Slots /\ Boxed \in BOOLEAN /\ (Boxed => Top.want) /\ HeapInv(out) /\ MadeInv /\ agenda # << >>
      /\ pos \in Nat /\ T.v \in Nat /\ T.src \in Srcs /\ Next1 \in Nat
  <2>1. GoodTok(T) /\ pos \in Nat /\ dstrings \in Seq(Str)
    BY <1>1, AtPos DEF Inv
  <2>2. Boxed \in BOOLEAN /\ (Boxed => Top.want)
    BY DEF Boxed
  <2> QED
    BY <1>1, <2>1, <2>2, ZvalFacts, TopFacts, TokFacts, HeapBasics DEF Next1
<1>3. SmallCell(c, Len(out)) /\ c.kind = "arr"
  BY EmptyArrSmall
<1> HIDE DEF c
<1>4. NewNow("arr", Boxed)
  <2>1. NewNow(c.kind, Boxed)
    BY <1>1, <1>2, <1>3, PutNow
  <2> QED
    BY <1>3, <2>1
<1>5. Stepped /\ TablesFed(out, agenda)
  BY ReadArrayStep DEF SharesOk
<1>6. SameCells(out, out')
  BY <1>1, <1>2, <1>5, CellsKept
<1>7. TablesFed(out', agenda')
  <2>1. T.v # 0 => Fill(Next1, T.v, Top.slot) \in ItemT /\ Fed(Fill(Next1, T.v, Top.slot)) = Next1
    BY <1>2, ItemsFit DEF Fill, Fed
  <2>2. items \in Seq(ItemT) /\ \A i \in DOMAIN items : Fed(items[i]) = Next1
    BY <2>1
  <2>3. out'[Next1].kind # "ref"
    BY <1>4 DEF NewNow
  <2> HIDE DEF items
  <2> QED
    BY <1>1, <1>2, <1>5, <1>6, <2>2, <2>3, TablesKept
<1>8. MadeNow("arr", T.src, Boxed)
  <2>1. s \in Seq(Srcs) /\ (Boxed => 2 \in DOMAIN s /\ s[2] = T.src)
    BY <1>2, NoValSrc
  <2>2. Len(out) + 2 = Next1 + 1
    BY <1>2, HeapBasics DEF Next1
  <2> HIDE DEF s
  <2> QED
    BY <1>1, <1>2, <2>1, <2>2, MadeTail DEF MadeNow
<1>9. e \in RefT /\ e.ty = ty
  <2>1. ty \in {"obj", "arr", "empty", "ref"} /\ (IF Boxed THEN Next1 + 1 ELSE Next1) \in Nat
    BY <1>2
  <2> HIDE DEF ty
  <2> QED
    BY <1>2, <2>1, EntryFits
<1>10. BoxesOk(out', drefs')
  <2>1. e.ty # "obj" /\ drefs \in Seq(RefT)
    BY <1>9 DEF Inv, RefsInv
  <2> HIDE DEF e
  <2>2. EntryNow("arr", Boxed)
    BY <1>1, <1>2, <1>9, <2>1, EntryAppended
  <2> QED
    BY <1>2, <1>4, <1>6, <2>2, NewBoxes
<1>11. pos' > pos
  BY <1>1, <1>2
<1> QED
  BY <1>1, <1>2, <1>4, <1>6, <1>7, <1>8, <1>10, <1>11, BuiltShares

LEMMA TablesTail ==
  ASSUME Inv, result = "reading", agenda # << >>, TablesFed(out, agenda), SameCells(out, out'), Do(<< >>)
  PROVE  TablesFed(out', agenda')
<1> DEFINE none == << >>
<1>1. none \in Seq(ItemT) /\ DOMAIN none = {} /\ Do(none)
  OBVIOUS
<1> HIDE DEF none
<1> QED
  BY <1>1, TablesKept

LEMMA MadeAppended ==
  ASSUME HeapInv(out), MadeInv, NEW x \in Srcs
  PROVE  (\A a \in DOMAIN out : Append(made, x)[a] = made[a]) /\ Append(made, x)[Next1] = x
<1>1. made \in Seq(Srcs) /\ Len(made) = Len(out) /\ Len(out) \in Nat /\ DOMAIN out = 1..Len(out)
  BY HeapBasics DEF MadeInv
<1> QED
  BY <1>1 DEF Next1

\* no cell with a number is made
LEMMA UnnumberedShares ==
  ASSUME Inv, Inv', SharesOk, input' = input, pos' > pos \/ (pos' = pos /\ ~Owed(out', agenda')),
         SameCells(out, out'), \A a \in DOMAIN out : made'[a] = made[a], TablesFed(out', agenda'),
         BoxesOk(out', drefs'), \A a \in Labelled(out', made') : a \in DOMAIN out
  PROVE  SharesOk'
<1>1. pos' \in Nat
  BY DEF Inv, InputInv
<1>2. Cited(out, agenda, input, pos) \subseteq Cited(out', agenda', input, pos')
  BY <1>1, CitedMore
<1>3. ASSUME NEW n, NEW q PROVE SharesOk'
  BY <1>2, SharesMore
<1> QED
  BY <1>3

LEMMA ShareValueShares == ASSUME Inv, Inv', SharesOk, ShareValue PROVE SharesOk'
<1>1. /\ AtBackRef /\ T.v < Len(drefs) /\ ~Top.want /\ input' = input /\ drefs' = drefs /\ pos' = pos + 1
      /\ Do(<< >>) /\ result' = result
  BY DEF ShareValue
<1>2. /\ At("zval") /\ result = "reading" /\ agenda # << >> /\ HeapInv(out) /\ MadeInv /\ pos' > pos
      /\ Target.src \in Srcs /\ Top.want = FALSE
  <2>1. pos \in Nat
    BY AtPos DEF Inv
  <2> QED
    BY <1>1, <2>1, TargetFacts, ZvalFacts, TopFacts
<1>3. Stepped /\ TablesFed(out, agenda)
  BY ShareValueStep DEF SharesOk
<1>4. SameCells(out, out')
  BY <1>2, <1>3, CellsKept
<1>5. CASE Target.ty # "empty"
  <2>1. made' = made
    BY <1>5 DEF ShareValue
  <2> QED
    BY <1>1, <1>2, <1>3, <2>1, QuietShares
<1>6. CASE Target.ty = "empty"
  <2>1. out' = Append(Put(out, Top.slot, Arr(Next1)), EmptyArr) /\ made' = Append(made, Target.src)
    BY <1>6 DEF ShareValue, Shared, EmptyArr
  <2>2. out' = PutCell(out, Top.slot, EmptyArr, Top.want)
    BY <1>2, <2>1 DEF PutCell, Arr, Next1, EmptyArr, ArrCell
  <2>3. SmallCell(EmptyArr, Len(out)) /\ EmptyArr.kind = "arr"
    BY EmptyArrSmall
  <2>4. NewNow("arr", Top.want)
    <3>1. NewNow(EmptyArr.kind, Top.want)
      BY <1>2, <2>2, <2>3, PutNow
    <3> QED
      BY <2>3, <3>1
  <2>5. \A a \in DOMAIN out : made'[a] = made[a]
    BY <1>2, <2>1, MadeAppended
  <2>6. TablesFed(out', agenda')
    BY <1>1, <1>2, <1>3, <1>4, TablesTail
  <2>7. EntryNow("arr", Top.want)
    BY <1>1 DEF EntryNow
  <2>8. BoxesOk(out', drefs')
    BY <1>2, <1>4, <2>4, <2>7, NewBoxes
  <2>9. \A a \in Labelled(out', made') : a \in DOMAIN out
    BY <1>2, <2>4 DEF Labelled, NewNow
  <2> QED
    BY <1>1, <1>2, <1>4, <2>5, <2>6, <2>8, <2>9, UnnumberedShares
<1> QED
  BY <1>5, <1>6

\* a value that is there gets a box
LEMMA BoxNow ==
  ASSUME NEW H, HeapInv(H), NEW s, SlotOK(H, s), NEW z \in Vals(Len(H))
  PROVE  LET G == Append(Put(H, s, Ref(Len(H) + 1)), RefCell(z, TRUE))
         IN  /\ DOMAIN G = 1..(Len(H) + 1) /\ G[Len(H) + 1].kind = "ref"
             /\ 1 \in DOMAIN G[Len(H) + 1].elems /\ Box(G, Len(H) + 1) = z
<1> DEFINE m == Len(H)
           r == Ref(m + 1)
           box == RefCell(z, TRUE)
           G == Append(Put(H, s, r), box)
<1>1. m \in Nat
  BY HeapBasics
<1>2. z \in Vals(m + 1) /\ r \in Vals(m + 1)
  <2>1. 1..m \subseteq 1..(m + 1) /\ m + 1 \in 1..(m + 1)
    BY <1>1
  <2> QED
    BY <2>1 DEF Vals, Ref, Counted
<1>3. SmallCell(box, m + 1) /\ 1 \in DOMAIN box.elems /\ box.elems[1].v = z /\ box.kind = "ref"
  <2>1. m + 1 \in Nat /\ box.kind = "ref"
    BY <1>1 DEF RefCell
  <2> QED
    BY <2>1, <1>2, BoxOK
<1> HIDE DEF box, G, r
<1>4. Heap(G, m + 1) /\ Len(G) = m + 1 /\ G[m + 1] = box
  BY <1>1, <1>2, <1>3, PutAppend DEF G
<1>5. DOMAIN G = 1..(m + 1)
  BY <1>4 DEF Heap
<1> QED
  BY <1>3, <1>4, <1>5 DEF G, Box, box, r

LEMMA BoxTargetShares == ASSUME Inv, Inv', SharesOk, BoxTarget PROVE SharesOk'
<1> DEFINE t == T.v + 1
           fresh == Target.ty = "empty"
           s == IF fresh THEN << NoVal, NoVal >> ELSE << NoVal >>
<1>1. /\ AtBackRef /\ T.v < Len(drefs) /\ Target.ty # "ref" /\ Top.want /\ input' = input /\ pos' = pos + 1
      /\ Do(<< >>) /\ result' = result /\ made' = made \o s
      /\ drefs' = [drefs EXCEPT ![t] = Entry("ref", IF fresh THEN Next1 + 1 ELSE Next1, @.src)]
  BY DEF BoxTarget
<1>2. /\ At("zval") /\ result = "reading" /\ agenda # << >> /\ HeapInv(out) /\ MadeInv /\ pos' > pos
      /\ Top.want = TRUE /\ SlotOK(out, Top.slot) /\ RefsInv(out, drefs) /\ drefs \in Seq(RefT)
      /\ t \in DOMAIN drefs /\ Target = drefs[t] /\ Target.ty \in {"obj", "arr", "empty"}
  <2>1. pos \in Nat
    BY AtPos DEF Inv
  <2>2. At("zval") /\ t \in DOMAIN drefs /\ Target.ty \in {"obj", "arr", "empty"}
    BY <1>1, TargetFacts
  <2> QED
    BY <1>1, <2>1, <2>2, ZvalFacts, TopFacts DEF RefsInv, Target
<1>3. Stepped /\ TablesFed(out, agenda) /\ BoxesOk(out, drefs)
  BY BoxTargetStep DEF SharesOk
<1>4. SameCells(out, out')
  BY <1>2, <1>3, CellsKept
<1>5. TablesFed(out', agenda')
  BY <1>1, <1>2, <1>3, <1>4, TablesTail
<1>6. \A i \in Plain(drefs') : i # t /\ i \in Plain(drefs) /\ drefs'[i] = drefs[i]
  <2>1. DOMAIN drefs' = DOMAIN drefs /\ drefs'[t].ty = "ref" /\ \A i \in DOMAIN drefs : i # t => drefs'[i] = drefs[i]
    BY <1>1, <1>2 DEF Entry
  <2> QED
    BY <2>1 DEF Plain
<1>7. /\ \A a \in DOMAIN out : made'[a] = made[a]
      /\ fresh => made'[Next1 + 1] = NoVal
      /\ ~fresh => made'[Next1] = NoVal
  <2>1. s \in Seq(Srcs) /\ (fresh => 2 \in DOMAIN s /\ s[2] = NoVal) /\ (~fresh => 1 \in DOMAIN s /\ s[1] = NoVal)
    BY NoValSrc
  <2>2. Len(out) + 2 = Next1 + 1 /\ Len(out) + 1 = Next1
    BY <1>2, HeapBasics DEF Next1
  <2> HIDE DEF s
  <2> QED
    BY <1>1, <1>2, <2>1, <2>2, MadeTail
<1>8. CASE fresh
  <2>1. out' = Append(Put(out, Top.slot, Ref(Next1 + 1)), EmptyArr) \o << RefCell(Arr(Next1), TRUE) >>
    BY <1>8 DEF BoxTarget, Shared, EmptyArr
  <2>2. out' = PutCell(out, Top.slot, EmptyArr, Top.want)
    BY <2>1, <1>2, BoxOfNew
  <2>3. SmallCell(EmptyArr, Len(out)) /\ EmptyArr.kind = "arr"
    BY EmptyArrSmall
  <2>4. NewNow("arr", Top.want)
    <3>1. NewNow(EmptyArr.kind, Top.want)
      BY <1>2, <2>2, <2>3, PutNow
    <3> QED
      BY <2>3, <3>1
  <2>5. EntryNow("arr", Top.want)
    BY <1>6 DEF EntryNow
  <2>6. BoxesOk(out', drefs')
    BY <1>2, <1>4, <2>4, <2>5, NewBoxes
  <2>7. \A a \in Labelled(out', made') : a \in DOMAIN out
    BY <1>2, <1>7, <1>8, <2>4 DEF Labelled, NewNow
  <2> QED
    BY <1>1, <1>2, <1>4, <1>5, <1>7, <2>6, <2>7, UnnumberedShares
<1>9. CASE ~fresh
  <2> DEFINE z == Shared(Target, Next1)
  <2>1. out' = Put(out, Top.slot, Ref(Next1)) \o << RefCell(z, TRUE) >>
    BY <1>9 DEF BoxTarget
  <2>2. z \in Vals(Len(out)) /\ (z.t = "obj" => Target.ty = "obj" /\ z = Obj(Target.a))
    <3>1. CASE Target.ty = "obj"
      BY <3>1, <1>1, TargetFacts DEF Shared
    <3>2. CASE Target.ty = "arr"
      <4>1. z = Arr(Target.a) /\ z \in Vals(Len(out))
        BY <3>2, <1>1, TargetFacts DEF Shared
      <4> QED
        BY <4>1 DEF Arr
    <3> QED
      BY <3>1, <3>2, <1>2, <1>9
  <2> HIDE DEF z
  <2>3. out' = Append(Put(out, Top.slot, Ref(Len(out) + 1)), RefCell(z, TRUE))
    BY <2>1, <1>2, BoxOfOld
  <2>4. /\ DOMAIN out' = 1..(Len(out) + 1) /\ out'[Next1].kind = "ref"
        /\ 1 \in DOMAIN out'[Next1].elems /\ Box(out', Next1) = z
    BY <1>2, <2>2, <2>3, BoxNow DEF Next1
  <2>5. \A a \in DOMAIN out' : a \in DOMAIN out \/ a = Next1
    BY <1>2, <2>4, HeapBasics DEF Next1
  <2>6. BoxMore(out, out', drefs', Next1)
    <3>1. ASSUME z.t = "obj"
          PROVE  /\ \A a \in Refs(out) : Box(out, a) # z
                 /\ \A i \in Plain(drefs') : z # Obj(drefs'[i].a)
      <4>1. t \in Plain(drefs) /\ z = Obj(drefs[t].a)
        BY <1>2, <2>2, <3>1 DEF Plain
      <4>2. \A a \in Refs(out) : Box(out, a) # z
        BY <1>3, <4>1 DEF BoxesOk
      <4>3. \A i \in Plain(drefs') : drefs'[i].a # drefs[t].a
        BY <1>3, <1>6, <4>1 DEF BoxesOk
      <4>4. \A x, y : Obj(x) = Obj(y) => x = y
        BY DEF Obj
      <4> QED
        BY <4>1, <4>2, <4>3, <4>4
    <3> QED
      BY <2>4, <2>5, <3>1 DEF BoxMore, Refs
  <2>7. EntryMore(out, drefs, drefs', t)
    BY <1>6 DEF EntryMore
  <2>8. BoxesOk(out', drefs')
    BY <1>2, <1>3, <1>4, <2>6, <2>7, BoxesMore
  <2>9. \A a \in Labelled(out', made') : a \in DOMAIN out
    BY <1>7, <1>9, <2>4, <2>5 DEF Labelled
  <2> QED
    BY <1>1, <1>2, <1>4, <1>5, <1>7, <2>8, <2>9, UnnumberedShares
<1> QED
  BY <1>8, <1>9

LEMMA WrapReferenceShares == ASSUME Inv, Inv', CountInv, SharesOk, WrapReference PROVE SharesOk'
<1> DEFINE z == In(out, Top.slot)
<1>1. /\ result = "reading" /\ agenda # << >> /\ Top.op = "wrap" /\ Head(agenda) = Top
      /\ input' = input /\ pos' = pos /\ Do(<< >>) /\ result' = result
  BY DEF WrapReference, At, Top
<1>2. /\ Top \in ItemT /\ ItemOK(out, Top) /\ HeapInv(out) /\ RefsInv(out, drefs) /\ MadeInv
      /\ drefs \in Seq(RefT) /\ pos' \in Nat /\ ~Owed(out', agenda')
  <2>1. pos' \in Nat
    BY DEF Inv, InputInv
  <2> QED
    BY <1>1, <2>1, TopFacts, WrapReferenceCount DEF RefsInv
<1>3. SlotOK(out, Top.slot) /\ Top.src \in Srcs
  BY <1>1, <1>2 DEF ItemOK, ItemT
<1>4. Stepped /\ TablesFed(out, agenda) /\ BoxesOk(out, drefs)
  BY WrapReferenceStep DEF SharesOk
<1>5. CASE z.t = "ref"
  <2>1. made' = made /\ drefs' = drefs
    BY <1>5 DEF WrapReference
  <2> QED
    BY <1>1, <1>2, <1>4, <2>1, QuietShares
<1>6. CASE z.t \notin {"ref", "arr"}
  <2>2. z \in Vals(Len(out))
    BY <1>2, <1>3, HeapBasics DEF SlotOK, In
  <2>3. /\ Owed(out, agenda) /\ z.t \notin {"arr", "obj"} /\ input[pos - 1].tag \in ScalarTags
        /\ Follows(input, pos - 1, {"ref"}) /\ Top.src = input[pos - 2].src
    <3>1. HeadOk(out, agenda, input, pos)
      BY <1>1 DEF CountInv, CountOk
    <3>2. Owed(out, agenda)
      BY <1>1, <1>6 DEF Owed, Placed
    <3> QED
      BY <1>1, <1>6, <3>1, <3>2 DEF HeadOk
  <2>1. out' = Append(Put(out, Top.slot, Ref(Next1)), RefCell(z, TRUE)) /\ made' = Append(made, Top.src)
        /\ (drefs' = drefs \/ drefs' = Append(drefs, Entry("ref", Next1, Top.src)))
    BY <1>6, <2>3 DEF WrapReference
  <2> HIDE DEF z
  <2>4. out' = Append(Put(out, Top.slot, Ref(Len(out) + 1)), RefCell(z, TRUE))
    BY <2>1 DEF Next1
  <2>5. /\ DOMAIN out' = 1..(Len(out) + 1) /\ out'[Next1].kind = "ref"
        /\ 1 \in DOMAIN out'[Next1].elems /\ Box(out', Next1) = z
    BY <1>2, <1>3, <2>2, <2>4, BoxNow DEF Next1
  <2>6. /\ \A a \in DOMAIN out' : a \in DOMAIN out \/ a = Next1
        /\ Next1 \in Nat
    BY <1>2, <2>5, HeapBasics DEF Next1
  <2>7. SameCells(out, out')
    BY <1>1, <1>4, CellsKept
  <2>8. TablesFed(out', agenda')
    BY <1>1, <1>4, <2>7, TablesTail
  <2>9. BoxMore(out, out', drefs', Next1)
    BY <2>3, <2>5, <2>6 DEF BoxMore, Refs
  <2>10. \A i \in Plain(drefs') : i \in Plain(drefs) /\ drefs'[i] = drefs[i]
    <3> DEFINE e == Entry("ref", Next1, Top.src)
    <3>1. e.ty = "ref"
      BY DEF Entry
    <3> HIDE DEF e
    <3>2. \A i \in DOMAIN drefs' : (i \in DOMAIN drefs /\ drefs'[i] = drefs[i]) \/ drefs'[i] = e
      BY <1>2, <2>1 DEF e
    <3> QED
      BY <3>1, <3>2 DEF Plain
  <2>11. BoxesOk(out', drefs')
    <3>1. EntryMore(out, drefs, drefs', 0)
      BY <2>10 DEF EntryMore
    <3> QED
      BY <1>2, <1>4, <2>7, <2>9, <3>1, BoxesMore
  <2>12. (\A a \in DOMAIN out : made'[a] = made[a]) /\ made'[Next1] = Top.src
    BY <1>2, <1>3, <2>1, MadeAppended
  <2>13. /\ pos - 1 \in Marks(input) /\ IdSrcs(input)[pos - 1] = Top.src
         /\ pos - 1 \in Cited(out', agenda', input, pos') \ Cited(out, agenda, input, pos)
    <3>1. pos \in Nat /\ DOMAIN input = 1..Len(input) /\ Len(input) \in Nat /\ pos <= Len(input) + 1
      BY AtPos DEF Inv, InputInv
    <3>2. pos - 1 > 1 /\ (pos - 1) - 1 = pos - 2
      BY <2>3, <3>1 DEF Follows
    <3>3. pos - 1 \in DOMAIN input /\ pos - 1 < pos'
      BY <1>1, <3>1, <3>2
    <3>4. pos - 1 \in Marks(input)
      BY <2>3, <3>3 DEF Marks, IdTokens, TakesId
    <3>5. IdSrcs(input)[pos - 1] = Top.src
      BY <2>3, <3>2, <3>3, ScalarSrc
    <3> QED
      BY <1>2, <2>3, <3>3, <3>4, <3>5 DEF Cited
  <2>14. Cited(out, agenda, input, pos) \subseteq Cited(out', agenda', input, pos')
    BY <1>1, <1>2, CitedMore
  <2>15. \A a \in Labelled(out', made') : a \in DOMAIN out \/ a = Next1
    BY <2>6 DEF Labelled
  <2> QED
    BY <1>1, <2>7, <2>8, <2>11, <2>12, <2>13, <2>14, <2>15, SharesMore
<1>7. CASE z.t = "arr"
  <2>1. /\ out' = Append(Put(out, Top.slot, Ref(Next1)), RefCell(z, TRUE)) /\ made' = Append(made, NoVal)
        /\ drefs' = drefs
    BY <1>7 DEF WrapReference
  <2>2. z \in Vals(Len(out))
    BY <1>2, <1>3, HeapBasics DEF SlotOK, In
  <2> HIDE DEF z
  <2>3. out' = Append(Put(out, Top.slot, Ref(Len(out) + 1)), RefCell(z, TRUE))
    BY <2>1 DEF Next1
  <2>4. /\ DOMAIN out' = 1..(Len(out) + 1) /\ out'[Next1].kind = "ref"
        /\ 1 \in DOMAIN out'[Next1].elems /\ Box(out', Next1) = z
    BY <1>2, <1>3, <2>2, <2>3, BoxNow DEF Next1
  <2>5. \A a \in DOMAIN out' : a \in DOMAIN out \/ a = Next1
    BY <1>2, <2>4, HeapBasics DEF Next1
  <2>6. SameCells(out, out')
    BY <1>1, <1>4, CellsKept
  <2>7. TablesFed(out', agenda')
    BY <1>1, <1>4, <2>6, TablesTail
  <2>8. BoxesOk(out', drefs')
    <3>1. BoxMore(out, out', drefs', Next1)
      BY <1>7, <2>4, <2>5 DEF BoxMore, Refs
    <3>2. EntryMore(out, drefs, drefs', 0)
      BY <2>1 DEF EntryMore
    <3> QED
      BY <1>2, <1>4, <2>6, <3>1, <3>2, BoxesMore
  <2>9. (\A a \in DOMAIN out : made'[a] = made[a]) /\ made'[Next1] = NoVal
    BY <1>2, <2>1, MadeAppended, NoValSrc
  <2>10. \A a \in Labelled(out', made') : a \in DOMAIN out
    BY <2>4, <2>5, <2>9 DEF Labelled
  <2> QED
    BY <1>1, <1>2, <2>6, <2>7, <2>8, <2>9, <2>10, UnnumberedShares
<1> QED
  BY <1>5, <1>6, <1>7

LEMMA ObjectShares ==
  ASSUME Inv, Inv', CountInv, CountOk', SharesOk, NEW tags, AtObject(tags), input' = input, pos' > pos, Stepped,
         NewNow("obj", Top.want), drefs' = Append(drefs, ObjectEntry), NEW s \in Seq(Srcs), made' = made \o s,
         1 \in DOMAIN s, s[1] = T.src, Top.want => 2 \in DOMAIN s /\ s[2] = NoVal,
         NEW items \in Seq(ItemT), Do(items),
         \A i \in DOMAIN items : Feeds(items[i]) => out'[Fed(items[i])].kind # "ref"
  PROVE  SharesOk'
<1>1. /\ At("zval") /\ More /\ T.tag \in {"obj", "objid"} /\ result = "reading" /\ agenda # << >>
      /\ T.src \in Srcs /\ Top.want \in BOOLEAN /\ HeapInv(out) /\ MadeInv /\ drefs \in Seq(RefT)
  <2>1. At("zval") /\ T.tag \in {"obj", "objid"}
    BY DEF AtObject, AtToken
  <2> QED
    BY <2>1, ObjectFacts, ZvalFacts, TopFacts DEF RefsInv
<1>2. TablesFed(out, agenda) /\ SameCells(out, out')
  BY <1>1, CellsKept DEF SharesOk
<1>3. TablesFed(out', agenda')
  BY <1>1, <1>2, TablesKept
<1>4. MadeNow("obj", T.src, Top.want)
  <2>1. Len(out) + 1 = Next1 /\ Len(out) + 2 = Next1 + 1
    BY <1>1, HeapBasics DEF Next1
  <2> QED
    BY <1>1, <2>1, MadeTail DEF MadeNow
<1>5. EntryNow("obj", Top.want)
  <2> DEFINE ty == IF Top.want THEN "ref" ELSE "obj"
             a == IF Top.want THEN Next1 + 1 ELSE Next1
  <2>1. ty \in {"obj", "arr", "empty", "ref"} /\ a \in Nat /\ (ty = "obj" => ~Top.want /\ a = Next1)
    BY <1>1, HeapBasics DEF Next1
  <2>2. ObjectEntry = Entry(ty, a, T.src)
    BY DEF ObjectEntry
  <2> HIDE DEF ty, a
  <2>3. ObjectEntry \in RefT /\ ObjectEntry.ty = ty /\ ObjectEntry.a = a
    BY <1>1, <2>1, <2>2, EntryFits
  <2> QED
    BY <1>1, <2>1, <2>3, EntryAppended
<1>6. BoxesOk(out', drefs')
  BY <1>1, <1>2, <1>5, NewBoxes
<1> QED
  BY <1>1, <1>2, <1>3, <1>4, <1>6, BuiltShares

LEMMA ObjectSrcs ==
  ASSUME NEW x \in Srcs, NEW want \in BOOLEAN
  PROVE  LET s == IF want THEN << x, NoVal >> ELSE << x >>
         IN  s \in Seq(Srcs) /\ 1 \in DOMAIN s /\ s[1] = x /\ (want => 2 \in DOMAIN s /\ s[2] = NoVal)
BY NoValSrc

LEMMA ObjectKinds == \A c \in Str : ObjCell(c, << >>).kind = "obj" /\ Created(c).kind = "obj"
BY DEF ObjCell, Created

LEMMA BuildShares ==
  ASSUME Inv, Inv', CountInv, CountOk', SharesOk, NEW tags, AtObject(tags), input' = input, pos' > pos, Stepped,
         NEW c, SmallCell(c, Len(out)), c.kind = "obj", BuildObject(c), NEW items \in Seq(ItemT), Do(items),
         \A i \in DOMAIN items : Feeds(items[i]) => Fed(items[i]) = Next1
  PROVE  SharesOk'
<1>1. At("zval") /\ T.src \in Srcs /\ Top.want \in BOOLEAN
  BY ObjectFacts, ZvalFacts
<1>2. out' = PutCell(out, Top.slot, c, Top.want) /\ drefs' = Append(drefs, ObjectEntry)
  BY DEF BuildObject, ObjectEntry
<1>3. NewNow("obj", Top.want)
  <2>1. NewNow(c.kind, Top.want)
    BY <1>1, <1>2, PutNow
  <2> QED
    BY <2>1
<1> DEFINE s == IF Top.want THEN << T.src, NoVal >> ELSE << T.src >>
<1>4. made' = made \o s
  BY DEF BuildObject
<1>5. s \in Seq(Srcs) /\ 1 \in DOMAIN s /\ s[1] = T.src /\ (Top.want => 2 \in DOMAIN s /\ s[2] = NoVal)
  BY <1>1, ObjectSrcs
<1> HIDE DEF s
<1>6. out'[Next1].kind # "ref"
  BY <1>3 DEF NewNow
<1> QED
  BY <1>2, <1>3, <1>4, <1>5, <1>6, ObjectShares

LEMMA WholeShares ==
  ASSUME Inv, Inv', CountInv, CountOk', SharesOk, NEW tags, AtObject(tags), input' = input, pos' > pos, Stepped,
         BuildObject(ObjCell(ClassName, << >>)), Do(<< >>)
  PROVE  SharesOk'
<1> DEFINE c == ObjCell(ClassName, << >>)
           none == << >>
<1>1. ClassName \in Str /\ Len(out) \in Nat
  BY ObjectFacts, HeapBasics DEF Inv
<1>2. SmallCell(c, Len(out)) /\ c.kind = "obj"
  BY <1>1, ObjectCells, ObjectKinds
<1>3. none \in Seq(ItemT) /\ DOMAIN none = {} /\ Do(none) /\ BuildObject(c)
  OBVIOUS
<1> HIDE DEF none, c
<1> QED
  BY <1>2, <1>3, BuildShares

LEMMA ReadSerializableShares ==
  ASSUME Inv, Inv', CountInv, CountOk', SharesOk, ReadSerializable
  PROVE  SharesOk'
<1>1. AtObject({"objser"}) /\ BuildObject(ObjCell(ClassName, << >>)) /\ Do(<< >>) /\ pos' = pos + 2 /\ input' = input
  BY DEF ReadSerializable
<1>2. pos' > pos
  BY <1>1, AtPos DEF Inv
<1> QED
  BY <1>1, <1>2, ReadSerializableStep, WholeShares

LEMMA ReadEnumCaseShares ==
  ASSUME Inv, Inv', CountInv, CountOk', SharesOk, ReadEnumCase
  PROVE  SharesOk'
<1>1. AtObject({"enum"}) /\ BuildObject(ObjCell(ClassName, << >>)) /\ Do(<< >>) /\ pos' = pos + 3 /\ input' = input
  BY DEF ReadEnumCase
<1>2. pos' > pos
  BY <1>1, AtPos DEF Inv
<1> QED
  BY <1>1, <1>2, ReadEnumCaseStep, WholeShares

LEMMA ReadObjectShares ==
  ASSUME Inv, Inv', CountInv, CountOk', SharesOk, ReadObject
  PROVE  SharesOk'
<1> DEFINE x == Fill(Next1, T2.v, Top.slot)
           y == Defer(Next1, 0)
           items == (IF T2.v = 0 THEN << >> ELSE << x >>) \o (IF KindOf(ClassName) = "wakeup" THEN << y >> ELSE << >>)
<1>1. /\ AtObject({"arr"}) /\ BuildObject(Created(ClassName)) /\ Do(items) /\ pos' = pos + 2 /\ input' = input
  BY DEF ReadObject
<1>2. /\ At("zval") /\ GoodTok(T2) /\ T2.tag = "arr" /\ ClassName \in Str /\ Len(out) \in Nat /\ pos' > pos
  BY <1>1, ObjectFacts, AtPos, HeapBasics DEF Inv
<1>3. SmallCell(Created(ClassName), Len(out)) /\ Created(ClassName).kind = "obj"
  BY <1>2, ObjectCells, ObjectKinds
<1>4. /\ x \in ItemT /\ Fed(x) = Next1 /\ Deep(x)
      /\ y \in ItemT /\ ~Feeds(y) /\ ~Deep(y)
  <2>1. Next1 \in Nat /\ T2.v \in Int /\ Top.slot \in Slots /\ 0 \in Nat
    BY <1>2, TokFacts, HeapBasics, ZvalFacts DEF Inv, Next1
  <2>2. x \in ItemT /\ y \in ItemT
    BY <2>1, ItemsFit
  <2> QED
    BY <2>1, <2>2 DEF Fill, Defer, Deep, Feeds, Fed
<1> HIDE DEF x, y
<1>5. items \in Seq(ItemT) /\ \A i \in DOMAIN items : items[i] = x \/ items[i] = y
  <2>1. items \in {<< >>, << x >>, << y >>, << x, y >>}
    <3>1. << x >> \o << y >> = << x, y >> /\ << >> \o << y >> = << y >> /\ << x >> \o << >> = << x >>
      BY <1>4, ListsOfItems
    <3>2. << >> \o << >> = << >>
      OBVIOUS
    <3> QED
      BY <3>1, <3>2
  <2> HIDE DEF items
  <2> QED
    BY <1>4, <2>1, LoopAndCall
<1> HIDE DEF items
<1> QED
  BY <1>1, <1>2, <1>3, <1>4, <1>5, ReadObjectStep, BuildShares

LEMMA ParameterSrcs ==
  ASSUME NEW x \in Srcs, NEW want \in BOOLEAN
  PROVE  LET s == (IF want THEN << x, NoVal >> ELSE << x >>) \o << NoVal, NoVal >>
         IN  s \in Seq(Srcs) /\ 1 \in DOMAIN s /\ s[1] = x /\ (want => 2 \in DOMAIN s /\ s[2] = NoVal)
<1> DEFINE t == << x, NoVal >>
           u == << x >>
           v == << NoVal, NoVal >>
<1>1. t \in Seq(Srcs) /\ u \in Seq(Srcs) /\ v \in Seq(Srcs) /\ Len(t) = 2 /\ Len(u) = 1 /\ Len(v) = 2
      /\ t[1] = x /\ t[2] = NoVal /\ u[1] = x
  BY NoValSrc
<1> HIDE DEF t, u, v
<1>2. t \o v \in Seq(Srcs) /\ 1 \in DOMAIN (t \o v) /\ 2 \in DOMAIN (t \o v) /\ (t \o v)[1] = x /\ (t \o v)[2] = NoVal
  BY <1>1, ConcatProperties
<1>3. u \o v \in Seq(Srcs) /\ 1 \in DOMAIN (u \o v) /\ (u \o v)[1] = x
  BY <1>1, ConcatProperties
<1> QED
  BY <1>2, <1>3 DEF t, u, v

LEMMA ReadParameterShares ==
  ASSUME Inv, Inv', CountInv, CountOk', SharesOk, ReadParameter
  PROVE  SharesOk'
<1> DEFINE c == ObjCell(ClassName, << >>)
           H == PutCell(out, Top.slot, c, Top.want)
           param == Len(H) + 1
           x == Fill(param + 1, T2.v, << param, 1 >>)
           y == Defer(Next1, param)
           items == (IF T2.v = 0 THEN << >> ELSE << x >>) \o << y >>
           s == (IF Top.want THEN << T.src, NoVal >> ELSE << T.src >>) \o << NoVal, NoVal >>
<1>1. /\ AtObject({"arr"}) /\ out' = Append(Append(H, HoldCell(Arr(param + 1))), ArrCell(<< >>))
      /\ Do(items) /\ pos' = pos + 2 /\ input' = input /\ drefs' = Append(drefs, ObjectEntry)
  BY DEF ReadParameter, ObjectEntry
<1>2. /\ At("zval") /\ GoodTok(T2) /\ T2.tag = "arr" /\ ClassName \in Str /\ pos' > pos /\ T.src \in Srcs
      /\ Top.want \in BOOLEAN /\ Len(out) \in Nat /\ MadeInv
  <2>1. At("zval") /\ result = "reading"
    BY <1>1, ObjectFacts, ZvalFacts
  <2>2. pos' > pos /\ Len(out) \in Nat /\ MadeInv
    BY <1>1, <2>1, AtPos, HeapBasics DEF Inv
  <2> QED
    BY <1>1, <2>1, <2>2, ObjectFacts, ZvalFacts
<1>3. HeapInv(H) /\ Len(H) \in Nat /\ DOMAIN H = 1..Len(H)
  BY <1>1, ObjectWithHolder
<1>4. made' = made \o s
  <2> DEFINE s1 == IF Top.want THEN << T.src, NoVal >> ELSE << T.src >>
             s2 == << NoVal, NoVal >>
  <2>1. made' = (made \o s1) \o s2
    BY DEF ReadParameter
  <2>2. made \in Seq(Srcs) /\ s1 \in Seq(Srcs) /\ s2 \in Seq(Srcs)
    BY <1>2, NoValSrc DEF MadeInv
  <2> HIDE DEF s1, s2
  <2>3. (made \o s1) \o s2 = made \o (s1 \o s2)
    BY <2>2, ConcatAssociative
  <2> QED
    BY <2>1, <2>3 DEF s1, s2
<1>5. s \in Seq(Srcs) /\ 1 \in DOMAIN s /\ s[1] = T.src /\ (Top.want => 2 \in DOMAIN s /\ s[2] = NoVal)
  BY <1>2, ParameterSrcs
<1>6. SmallCell(c, Len(out)) /\ c.kind = "obj"
  BY <1>2, ObjectCells, ObjectKinds
<1> HIDE DEF s, c
<1>7. /\ DOMAIN out' = 1..(Len(H) + 2) /\ \A a \in DOMAIN H : out'[a] = H[a]
      /\ out'[Len(H) + 1].kind = "hold" /\ out'[Len(H) + 2].kind = "arr"
  <2> HIDE DEF H
  <2>1. param + 1 = Len(H) + 2
    BY <1>3
  <2>2. out' = Append(Append(H, HoldCell(Arr(Len(H) + 2))), ArrCell(<< >>))
    BY <1>1, <2>1
  <2>3. /\ HeapInv(out') /\ Len(out') = Len(H) + 2 /\ \A a \in DOMAIN H : out'[a] = H[a]
        /\ out'[Len(H) + 1].kind = "hold" /\ out'[Len(H) + 2] = ArrCell(<< >>)
    BY <2>2, <1>3, ParameterOK
  <2> QED
    BY <2>3, HeapBasics DEF ArrCell
<1>8. NewNow("obj", Top.want)
  <2>1. DOMAIN H \subseteq DOMAIN out' /\ \A a \in DOMAIN out' \ DOMAIN H : out'[a].kind \notin {"obj", "ref"}
    <3> HIDE DEF H
    <3>1. \A a \in DOMAIN out' \ DOMAIN H : a = Len(H) + 1 \/ a = Len(H) + 2
      BY <1>3, <1>7
    <3> QED
      BY <3>1, <1>3, <1>7
  <2>2. NewNow(c.kind, Top.want)
    BY <1>2, <1>6, <1>7, <2>1, PutNow
  <2> QED
    BY <1>6, <2>2
<1> HIDE DEF H
<1>9. /\ x \in ItemT /\ Fed(x) = Len(H) + 2 /\ Deep(x)
      /\ y \in ItemT /\ ~Feeds(y) /\ ~Deep(y)
  <2>1. /\ Next1 \in Nat /\ T2.v \in Int /\ param \in Nat /\ param + 1 \in Nat /\ param + 1 = Len(H) + 2
        /\ << param, 1 >> \in Slots
    BY <1>2, <1>3, TokFacts DEF Inv, Next1, Slots
  <2> HIDE DEF param
  <2>2. x \in ItemT /\ y \in ItemT
    BY <2>1, ItemsFit
  <2> QED
    BY <2>1, <2>2 DEF Fill, Defer, Deep, Feeds, Fed
<1> HIDE DEF x, y
<1>10. items \in Seq(ItemT) /\ \A i \in DOMAIN items : items[i] = x \/ items[i] = y
  <2>1. items \in {<< >>, << x >>, << y >>, << x, y >>}
    BY <1>9, ListsOfItems
  <2> HIDE DEF items
  <2> QED
    BY <1>9, <2>1, LoopAndCall
<1> HIDE DEF items
<1>11. \A i \in DOMAIN items : Feeds(items[i]) => out'[Fed(items[i])].kind # "ref"
  BY <1>7, <1>9, <1>10
<1> QED
  BY <1>1, <1>2, <1>4, <1>5, <1>8, <1>10, <1>11, ReadParameterStep, ObjectShares

(***************************************************************************)
(* SharesInv holds from the start, and every step keeps it.                *)
(***************************************************************************)
KeptApart == BoxesApart(out) /\ (MarksApart(input) => LabelsApart(out, made))

LEMMA ApartFromShares == SharesOk => KeptApart
BY DEF SharesOk, BoxesOk, Traced, KeptApart

\* a call unsets what objects hold, and no reference
LEMMA CallKeepsCells ==
  ASSUME Inv, MakeCall
  PROVE  /\ DOMAIN out' = DOMAIN out /\ \A a \in DOMAIN out : out'[a].kind = out[a].kind
         /\ \A a \in Refs(out) : out'[a] = out[a]
<1>1. result = "calling" /\ out' \in Unsets
  BY DEF MakeCall
<1>2. /\ HeapInv(out) /\ agenda = << >> /\ CallsInv(out, deferred) /\ dtors \subseteq DOMAIN out
  BY <1>1 DEF Inv, Phases
<1>3. CASE out' # out
  <2>1. Live \subseteq DOMAIN out
    <3>1. AgendaInv(out, agenda)
      BY <1>2 DEF AgendaInv
    <3>2. Holders \subseteq DOMAIN out
      BY <3>1, <1>2, HoldersNow, HoldersTyped
    <3> QED
      BY <3>2, <1>2, ReachTyped DEF Live, Holders
  <2>2. \E a \in Live : out[a].kind = "obj" /\ \E i \in DOMAIN out[a].elems : out' = Put(out, << a, i >>, Undef)
    BY <1>1, <1>3 DEF Unsets
  <2>3. PICK a \in Live : out[a].kind = "obj" /\ \E i \in DOMAIN out[a].elems : out' = Put(out, << a, i >>, Undef)
    BY <2>2
  <2>4. PICK i \in DOMAIN out[a].elems : out' = Put(out, << a, i >>, Undef)
    BY <2>3
  <2> DEFINE s == << a, i >>
  <2>5. SlotOK(out, s) /\ out[s[1]].kind = "obj" /\ out' = Put(out, s, Undef)
    BY <2>1, <2>3, <2>4 DEF SlotOK
  <2> HIDE DEF s
  <2>6. Len(out) \in Nat /\ Heap(out, Len(out))
    BY <1>2, HeapBasics DEF HeapInv
  <2>7. /\ DOMAIN out' = DOMAIN out
        /\ \A b \in DOMAIN out : out'[b].kind = out[b].kind /\ (b # s[1] => out'[b] = out[b])
    BY <2>5, <2>6, PutFacts
  <2> QED
    BY <2>5, <2>7 DEF Refs
<1> QED
  BY <1>3 DEF Refs

LEMMA KeptByCells ==
  ASSUME KeptApart, DOMAIN out' = DOMAIN out, \A a \in DOMAIN out : out'[a].kind = out[a].kind,
         \A a \in Refs(out) : out'[a] = out[a], UNCHANGED << input, made >>
  PROVE  KeptApart'
<1>1. Refs(out') = Refs(out) /\ \A a \in Refs(out) : Box(out', a) = Box(out, a)
  BY DEF Refs, Box
<1>2. Labelled(out', made') = Labelled(out, made)
  BY DEF Labelled
<1>3. BoxesApart(out')
  BY <1>1 DEF KeptApart, BoxesApart
<1>4. MarksApart(input) => LabelsApart(out', made')
  BY <1>2 DEF KeptApart, LabelsApart
<1> QED
  BY <1>3, <1>4 DEF KeptApart

LEMMA AfterReading ==
  ASSUME Inv, SharesInv, StartStep \/ CallStep \/ Deinit, result' \in {"calling", "done"}
  PROVE  KeptApart'
<1>1. CASE StartStep
  BY <1>1, ApartFromShares DEF StartStep, SharesInv, KeptApart
<1>2. CASE CallStep \/ Deinit
  <2>1. result = "calling"
    BY <1>2, CallFacts
  <2>2. KeptApart
    BY <2>1 DEF SharesInv, KeptApart
  <2>3. CASE MakeCall
    BY <2>2, <2>3, CallKeepsCells, KeptByCells DEF MakeCall
  <2>4. CASE CallThrows \/ SkipCall \/ Deinit
    BY <2>2, <2>4 DEF CallThrows, SkipCall, Deinit, KeptApart
  <2> QED
    BY <1>2, <2>3, <2>4 DEF CallStep
<1> QED
  BY <1>1, <1>2

LEMMA WhileReading ==
  ASSUME Inv, Inv', CountInv, CountInv', SharesInv, ReadZval \/ DeferCall \/ TrailingData,
         result' \in {"reading", "calling", "done"}
  PROVE  result' = "reading" /\ SharesOk'
<1>1. result = "reading"
  BY ReadingFacts
<1>2. ~(CannotRead \/ UnknownString \/ ShortArray \/ CannotReadKey \/ CannotReadObject \/ ShortProperties
        \/ ShortParameter \/ UnknownId \/ TrailingData \/ MisreadCrash)
  BY DEF CannotRead, UnknownString, ShortArray, CannotReadKey, CannotReadObject, ShortProperties,
         ShortParameter, UnknownId, TrailingData, MisreadCrash, Fail, FailAndClear, FailWith
<1>3. result' = result
  BY <1>1, ReadingFacts
<1>4. SharesOk /\ CountOk'
  BY <1>1, <1>3 DEF SharesInv, CountInv
<1>5. CASE ReadScalar \/ ShareReference \/ MisreadValue \/ ReadReference \/ SkipKeyless \/ ReadNewKey \/ ReadOldKey \/ EndFill
  BY <1>1, <1>3, <1>4, <1>5, QuietReads
<1>6. CASE ReadArray \/ ReadObject \/ ReadParameter \/ ReadSerializable \/ ReadEnumCase
  BY <1>1, <1>3, <1>4, <1>6, ReadArrayShares, ReadObjectShares, ReadParameterShares, ReadSerializableShares, ReadEnumCaseShares
<1>7. CASE ShareValue \/ BoxTarget \/ WrapReference \/ DeferCall
  BY <1>1, <1>3, <1>4, <1>7, ShareValueShares, BoxTargetShares, WrapReferenceShares, DeferCallShares
<1>8. SharesOk'
  BY <1>2, <1>5, <1>6, <1>7 DEF ReadZval
<1> QED
  BY <1>1, <1>3, <1>8

LEMMA ReaderShares == ASSUME Inv, Inv', CountInv, CountInv', SharesInv, ReaderStep PROVE SharesInv'
<1>1. CASE ReadZval \/ DeferCall \/ TrailingData
  BY <1>1, WhileReading DEF SharesInv
<1>2. CASE StartStep \/ CallStep \/ Deinit
  <2>1. result' # "reading"
    BY <1>2, CallFails DEF StartStep
  <2> QED
    BY <1>2, <2>1, AfterReading DEF SharesInv, KeptApart
<1> QED
  BY <1>1, <1>2 DEF ReaderStep

\* nothing is made yet
LEMMA FirstShares ==
  ASSUME NEW H, H = << HoldCell(Null) >>, NEW ag, ag = << Read(<< 1, 1 >>, FALSE) >>
  PROVE  TablesFed(H, ag) /\ BoxesOk(H, << >>) /\ \A m, S, f : Traced(H, m, S, f)
<1>1. DOMAIN H = {1} /\ H[1].kind = "hold"
  BY DEF HoldCell
<1>2. Refs(H) = {} /\ \A m : Labelled(H, m) = {}
  BY <1>1 DEF Refs, Labelled
<1>3. DOMAIN ag = {1} /\ Fed(ag[1]) = 1
  BY DEF Read, Fed
<1>4. TablesFed(H, ag)
  BY <1>1, <1>3 DEF TablesFed
<1>5. BoxesOk(H, << >>)
  BY <1>2 DEF BoxesOk, BoxesApart, Plain
<1>6. \A m, S, f : Traced(H, m, S, f)
  BY <1>2 DEF Traced, LabelsApart
<1> QED
  BY <1>4, <1>5, <1>6

LEMMA SharesFromStart == ASSUME NEW b, Start(b) PROVE SharesInv
<1> DEFINE ag == << Read(<< 1, 1 >>, FALSE) >>
<1>1. agenda = ag /\ out = << HoldCell(Null) >> /\ drefs = << >> /\ result = "reading"
  BY DEF Start
<1> HIDE DEF ag
<1>2. TablesFed(out, ag) /\ BoxesOk(out, << >>) /\ \A m, S, f : Traced(out, m, S, f)
  BY <1>1, FirstShares DEF ag
<1> QED
  BY <1>1, <1>2 DEF SharesInv, SharesOk

LEMMA SameShares ==
  ASSUME SharesInv, UNCHANGED << out, made, agenda, input, pos, drefs, result >>
  PROVE  SharesInv'
BY DEF SharesInv, SharesOk

(***************************************************************************)
(* What the agenda has still to read is what is due at pos, by the grammar *)
(* of Format.  f[i] is due after i tokens of an input that may be cut.     *)
(***************************************************************************)
Stacks   == Seq([due : Int, sum : Nat])
Need(it) == IF it.op = "zval" THEN ValueDue ELSE IF it.op = "fill" THEN it.left ELSE 0

\* g[k] is due when the items from the k-th on are all that is left
Asks(ag, s) ==
    \E g \in [1..(Len(ag) + 1) -> Stacks] :
       /\ g[1] = s /\ g[Len(ag) + 1] = << >>
       /\ \A k \in 1..Len(ag) : g[k] = Await(Need(ag[k]), g[k + 1])
Turns(f) == \A i \in 1..Len(input) : f[i] = Leaves(f[i - 1], input[i])

LEMMA PairOfTwo ==
  ASSUME NEW S, NEW a \in S, NEW b \in S
  PROVE  << a, b >> = << a >> \o << b >>
<1> DEFINE p == << a, b >>
           q == << a >> \o << b >>
<1>1. p \in Seq(S) /\ Len(p) = 2 /\ p[1] = a /\ p[2] = b
  OBVIOUS
<1>2. q \in Seq(S) /\ Len(q) = 2 /\ q[1] = a /\ q[2] = b
  OBVIOUS
<1> HIDE DEF p, q
<1>3. \A i \in 1..Len(p) : p[i] = q[i]
  BY <1>1, <1>2
<1>4. p = q
  BY <1>1, <1>2, <1>3, SeqEqual
<1> QED
  BY <1>4 DEF p, q

LEMMA NeedTyped == \A it \in ItemT : Need(it) \in Int
<1> TAKE it \in ItemT
<1>1. CASE it.op = "fill"
  <2>1. it \in [op : {"fill"}, h : Nat, left : Int, slot : Slots]
    BY <1>1 DEF ItemT
  <2> QED
    BY <1>1, <2>1 DEF Need
<1>2. CASE it.op # "fill"
  BY <1>2 DEF Need, ValueDue
<1> QED
  BY <1>1, <1>2

LEMMA AskTyped ==
  ASSUME NEW s \in Stacks, NEW n \in Int
  PROVE  Ask(n, s) \in Stacks /\ Ask(n, s) # << >> /\ Head(Ask(n, s)).due = n /\ Tail(Ask(n, s)) = s
         /\ Await(n, s) \in Stacks
<1> DEFINE E == [due : Int, sum : Nat]
           e == [due |-> n, sum |-> AtLeast(n) + Weight(s)]
<1>1. s \in Seq(E)
  BY DEF Stacks
<1>2. Weight(s) \in Nat
  <2>1. CASE s = << >>
    BY <2>1 DEF Weight
  <2>2. CASE s # << >>
    <3>1. Head(s) \in E
      BY <1>1, <2>2, EmptySeq, LenProperties, HeadTailProperties, ElementOfSeq
    <3> QED
      BY <2>2, <3>1 DEF Weight
  <2> QED
    BY <2>1, <2>2
<1>3. e \in E /\ e.due = n
  BY <1>2 DEF AtLeast
<1>4. Ask(n, s) = << e >> \o s
  BY DEF Ask
<1> HIDE DEF E, e
<1>5. << e >> \o s \in Seq(E) /\ << e >> \o s # << >> /\ Head(<< e >> \o s) = e /\ Tail(<< e >> \o s) = s
  BY <1>1, <1>3
<1> QED
  BY <1>3, <1>4, <1>5 DEF Stacks, Await, E

LEMMA AsksFirst ==
  ASSUME NEW ag \in Seq(ItemT), ag # << >>, NEW s, Asks(ag, s)
  PROVE  \E r \in Stacks : s = Await(Need(Head(ag)), r) /\ Asks(Tail(ag), r)
<1> DEFINE n == Len(ag)
           u == Tail(ag)
<1>1. PICK g \in [1..(n + 1) -> Stacks] :
         /\ g[1] = s /\ g[n + 1] = << >>
         /\ \A k \in 1..n : g[k] = Await(Need(ag[k]), g[k + 1])
  BY DEF Asks
<1>2. n \in Nat \ {0} /\ Head(ag) = ag[1]
  BY EmptySeq, LenProperties, HeadTailProperties
<1>3. Len(u) = n - 1 /\ \A k \in 1..(n - 1) : u[k] = ag[k + 1]
  BY HeadTailProperties
<1> HIDE DEF n, u
<1> DEFINE h == [k \in 1..n |-> g[k + 1]]
<1>4. \A k \in 1..n : h[k] = g[k + 1] /\ h[k] \in Stacks
  BY <1>2
<1>5. h \in [1..((n - 1) + 1) -> Stacks] /\ h[1] = g[2] /\ h[(n - 1) + 1] = << >>
  <2>1. (n - 1) + 1 = n /\ 1 \in 1..n /\ n \in 1..n
    BY <1>2
  <2> QED
    BY <1>1, <1>4, <2>1
<1> HIDE DEF h
<1>6. ASSUME NEW k \in 1..(n - 1)
      PROVE  h[k] = Await(Need(u[k]), h[k + 1])
  <2>1. k \in 1..n /\ k + 1 \in 1..n
    BY <1>2
  <2>2. g[k + 1] = Await(Need(ag[k + 1]), g[(k + 1) + 1])
    BY <1>1, <2>1
  <2> QED
    BY <1>3, <1>4, <2>1, <2>2
<1>7. Asks(u, g[2])
  BY <1>3, <1>5, <1>6 DEF Asks
<1>8. g[1] = Await(Need(ag[1]), g[2]) /\ g[2] \in Stacks
  BY <1>1, <1>2
<1> QED
  BY <1>1, <1>2, <1>7, <1>8 DEF u

LEMMA AsksPut ==
  ASSUME NEW ag \in Seq(ItemT), NEW r, Asks(ag, r), NEW it \in ItemT
  PROVE  Asks(<< it >> \o ag, Await(Need(it), r))
<1> DEFINE n == Len(ag)
           u == << it >> \o ag
           s == Await(Need(it), r)
<1>1. PICK g \in [1..(n + 1) -> Stacks] :
         /\ g[1] = r /\ g[n + 1] = << >>
         /\ \A k \in 1..n : g[k] = Await(Need(ag[k]), g[k + 1])
  BY DEF Asks
<1>2. n \in Nat
  BY LenProperties
<1>3. Len(u) = n + 1 /\ u[1] = it /\ \A k \in 1..n : u[k + 1] = ag[k]
  <2>1. << it >> \in Seq(ItemT) /\ Len(<< it >>) = 1 /\ << it >>[1] = it
    OBVIOUS
  <2>2. /\ Len(u) = 1 + n
        /\ \A i \in 1..(1 + n) : u[i] = IF i <= 1 THEN << it >>[i] ELSE ag[i - 1]
    BY <2>1, ConcatProperties
  <2>3. ASSUME NEW k \in 1..n PROVE u[k + 1] = ag[k]
    <3>1. k + 1 \in 1..(1 + n) /\ ~(k + 1 <= 1) /\ (k + 1) - 1 = k
      BY <1>2
    <3> QED
      BY <2>2, <3>1
  <2> QED
    BY <1>2, <2>1, <2>2, <2>3
<1>4. s \in Stacks
  <2>1. r \in Stacks
    BY <1>1, <1>2
  <2> QED
    BY <2>1, AskTyped, NeedTyped
<1> HIDE DEF n, u, s
<1> DEFINE h == [k \in 1..((n + 1) + 1) |-> IF k = 1 THEN s ELSE g[k - 1]]
<1>5. h[1] = s /\ \A k \in 1..(n + 1) : h[k + 1] = g[k] /\ g[k] \in Stacks
  <2>1. 1 \in 1..((n + 1) + 1)
    BY <1>2
  <2>2. ASSUME NEW k \in 1..(n + 1) PROVE h[k + 1] = g[k] /\ g[k] \in Stacks
    <3>1. k + 1 \in 1..((n + 1) + 1) /\ k + 1 # 1 /\ (k + 1) - 1 = k
      BY <1>2
    <3> QED
      BY <3>1
  <2> QED
    BY <2>1, <2>2
<1>6. h \in [1..((n + 1) + 1) -> Stacks]
  <2>1. ASSUME NEW k \in 1..((n + 1) + 1) PROVE h[k] \in Stacks
    <3>1. CASE k = 1
      BY <1>4, <1>5, <3>1
    <3>2. CASE k # 1
      <4>1. k - 1 \in 1..(n + 1) /\ (k - 1) + 1 = k
        BY <1>2, <3>2
      <4> HIDE DEF h
      <4> QED
        BY <1>5, <4>1
    <3> QED
      BY <3>1, <3>2
  <2> QED
    BY <2>1
<1> HIDE DEF h
<1>7. h[(n + 1) + 1] = << >>
  <2>1. n + 1 \in 1..(n + 1)
    BY <1>2
  <2> QED
    BY <1>1, <1>5, <2>1
<1>8. ASSUME NEW k \in 1..(n + 1)
      PROVE  h[k] = Await(Need(u[k]), h[k + 1])
  <2>1. h[k + 1] = g[k]
    BY <1>5
  <2>2. CASE k = 1
    BY <1>1, <1>3, <1>5, <2>1, <2>2 DEF s
  <2>3. CASE k # 1
    <3>1. PICK j \in 1..n : k = j + 1
      <4>1. k - 1 \in 1..n /\ k = (k - 1) + 1
        BY <1>2, <2>3
      <4> QED
        BY <4>1
    <3>2. j \in 1..(n + 1)
      BY <1>2
    <3>3. h[j + 1] = g[j] /\ u[j + 1] = ag[j] /\ g[j] = Await(Need(ag[j]), g[j + 1])
      BY <1>1, <1>3, <1>5, <3>2
    <3> QED
      BY <2>1, <3>1, <3>3
  <2> QED
    BY <2>2, <2>3
<1>9. Asks(u, s)
  BY <1>3, <1>5, <1>6, <1>7, <1>8 DEF Asks
<1> QED
  BY <1>9 DEF u, s

LEMMA NothingAsked ==
  ASSUME NEW s
  PROVE  Asks(<< >>, s) <=> s = << >>
<1>1. Len(<< >>) = 0 /\ 1..0 = {}
  OBVIOUS
<1>2. ASSUME Asks(<< >>, s) PROVE s = << >>
  BY <1>1, <1>2 DEF Asks
<1>3. ASSUME s = << >> PROVE Asks(<< >>, s)
  <2> DEFINE g == [k \in 1..(0 + 1) |-> << >>]
  <2>1. g \in [1..(0 + 1) -> Stacks] /\ g[1] = << >> /\ g[0 + 1] = << >>
    BY DEF Stacks
  <2> QED
    BY <1>1, <1>3, <2>1 DEF Asks
<1> QED
  BY <1>2, <1>3

(***************************************************************************)
(* One action after the other.                                             *)
(***************************************************************************)
\* what the top of the agenda reads, and what a step leaves to be read
LEMMA AskedNow ==
  ASSUME Inv, result = "reading", agenda # << >>, NEW s, Asks(agenda, s)
  PROVE  \E r \in Stacks :
            /\ s = Await(Need(Top), r) /\ Asks(Tail(agenda), r)
            /\ Do(<< >>) => Asks(agenda', r)
            /\ \A i \in ItemT : Do(<< i >>) => Asks(agenda', Await(Need(i), r))
            /\ \A i, j \in ItemT : Do(<< i, j >>) => Asks(agenda', Await(Need(i), Await(Need(j), r)))
<1> DEFINE u == Tail(agenda)
<1>1. agenda \in Seq(ItemT)
  BY AgendaNow DEF AgendaInv
<1>2. PICK r \in Stacks : s = Await(Need(Top), r) /\ Asks(u, r)
  BY <1>1, AsksFirst DEF Top
<1>3. u \in Seq(ItemT) /\ << >> \o u = u
  BY <1>1, TailsAre
<1> HIDE DEF u
<1>4. ASSUME NEW i \in ItemT PROVE Asks(<< i >> \o u, Await(Need(i), r)) /\ << i >> \o u \in Seq(ItemT)
  BY <1>2, <1>3, AsksPut
<1>5. ASSUME NEW i \in ItemT, NEW j \in ItemT
      PROVE  Asks(<< i, j >> \o u, Await(Need(i), Await(Need(j), r)))
  <2>1. Asks(<< i >> \o (<< j >> \o u), Await(Need(i), Await(Need(j), r)))
    BY <1>4, AsksPut
  <2>2. << i >> \o (<< j >> \o u) = << i, j >> \o u
    <3>1. << i >> \in Seq(ItemT) /\ << j >> \in Seq(ItemT)
      OBVIOUS
    <3> QED
      BY <1>3, <3>1, PairOfTwo, ConcatAssociative
  <2> QED
    BY <2>1, <2>2
<1> QED
  BY <1>2, <1>3, <1>4, <1>5 DEF Do, u

\* a token where a value is due, one where an entry is, and what follows a class
LEMMA WhatIsLeft ==
  ASSUME NEW r \in Stacks, NEW t
  PROVE  /\ t.tag \in ScalarTags \cup {"refid", "objref"} => Leaves(Ask(ValueDue, r), t) = r
         /\ t.tag = "arr" => Leaves(Ask(ValueDue, r), t) = Await(t.v, r)
         /\ t.tag \in {"obj", "objid"} => Leaves(Ask(ValueDue, r), t) = Ask(BodyDue, r)
         /\ t.tag = "ref" => Leaves(Ask(ValueDue, r), t) = Ask(ValueDue, r)
         /\ t.tag = "objser" => Leaves(Ask(BodyDue, r), t) = r
         /\ t.tag = "arr" => Leaves(Ask(BodyDue, r), t) = Await(t.v, r)
         /\ t.tag = "enum" => Leaves(Ask(BodyDue, r), t) = Ask(ValueDue, r)
         /\ \A n \in Int : n > 0 => Leaves(Ask(n, r), t) =
               (IF t.tag = "null" THEN Await(n - 1, r) ELSE Ask(ValueDue, Await(n - 1, r)))
<1>1. ASSUME NEW n \in {ValueDue, BodyDue}
      PROVE  Leaves(Ask(n, r), t) = IF t.tag = "arr" THEN Await(t.v, r)
                                    ELSE IF t.tag \in {"obj", "objid"} THEN Ask(BodyDue, r)
                                    ELSE IF t.tag \in {"ref", "enum"} THEN Ask(ValueDue, r)
                                    ELSE r
  <2>1. n \in Int /\ ~(n > 0)
    BY DEF ValueDue, BodyDue
  <2>2. Head(Ask(n, r)).due = n /\ Tail(Ask(n, r)) = r
    BY <2>1, AskTyped
  <2> QED
    BY <2>1, <2>2 DEF Leaves
<1>2. ASSUME NEW n \in Int, n > 0
      PROVE  Leaves(Ask(n, r), t) =
                IF t.tag = "null" THEN Await(n - 1, r) ELSE Ask(ValueDue, Await(n - 1, r))
  <2>1. Head(Ask(n, r)).due = n /\ Tail(Ask(n, r)) = r
    BY AskTyped
  <2> QED
    BY <1>2, <2>1 DEF Leaves
<1> QED
  BY <1>1, <1>2 DEF ScalarTags

\* the token that is read next is turned into what is due after it
LEMMA NextTurn ==
  ASSUME Inv, NEW f, Turns(f)
  PROVE  /\ More => f[(pos + 1) - 1] = Leaves(f[pos - 1], T)
         /\ pos < Len(input) => f[(pos + 2) - 1] = Leaves(f[(pos + 1) - 1], T2)
         /\ pos + 1 < Len(input) => f[(pos + 3) - 1] = Leaves(f[(pos + 2) - 1], input[pos + 2])
<1>1. pos \in Nat /\ pos >= 1 /\ Len(input) \in Nat
  BY AtPos DEF Inv
<1>2. \A i \in 1..Len(input) : f[(i + 1) - 1] = Leaves(f[i - 1], input[i])
  BY DEF Turns
<1>3. More => pos \in 1..Len(input)
  BY <1>1 DEF More
<1>4. pos < Len(input) => pos + 1 \in 1..Len(input) /\ (pos + 1) + 1 = pos + 2
  BY <1>1
<1>5. pos + 1 < Len(input) => pos + 2 \in 1..Len(input) /\ (pos + 2) + 1 = pos + 3
  BY <1>1
<1> QED
  BY <1>2, <1>3, <1>4, <1>5 DEF T, T2

LEMMA NoneAwaited == \A n, s : (n = 0 => Await(n, s) = s) /\ (n # 0 => Await(n, s) = Ask(n, s))
BY DEF Await

LEMMA ValueIsAsked ==
  ASSUME Inv, At("zval"), NEW s, Asks(agenda, s)
  PROVE  \E r \in Stacks :
            /\ s = Ask(ValueDue, r)
            /\ Do(<< >>) => Asks(agenda', r)
            /\ \A i \in ItemT : Do(<< i >>) => Asks(agenda', Await(Need(i), r))
            /\ \A i, j \in ItemT : Do(<< i, j >>) => Asks(agenda', Await(Need(i), Await(Need(j), r)))
<1>1. result = "reading" /\ agenda # << >> /\ Need(Top) = ValueDue /\ ValueDue # 0
  BY DEF At, Top, Need, ValueDue
<1>2. \A r : Await(ValueDue, r) = Ask(ValueDue, r)
  BY <1>1, NoneAwaited
<1> QED
  BY <1>1, <1>2, AskedNow

LEMMA ReadOneAsks ==
  ASSUME Inv, NEW f, Turns(f), Asks(agenda, f[pos - 1]), At("zval"), More, pos' = pos + 1,
         \/ T.tag \in ScalarTags \cup {"refid", "objref"} /\ Do(<< >>)
         \/ T.tag = "ref" /\ Do(<< Read(Top.slot, TRUE), Wrap(Top.slot, T.src) >>)
         \/ T.tag = "arr" /\ Do(IF T.v = 0 THEN << >> ELSE << Fill(Next1, T.v, Top.slot) >>)
  PROVE  Asks(agenda', f[pos' - 1])
<1>1. PICK r \in Stacks :
            /\ f[pos - 1] = Ask(ValueDue, r)
            /\ Do(<< >>) => Asks(agenda', r)
            /\ \A i \in ItemT : Do(<< i >>) => Asks(agenda', Await(Need(i), r))
            /\ \A i, j \in ItemT : Do(<< i, j >>) => Asks(agenda', Await(Need(i), Await(Need(j), r)))
  BY ValueIsAsked
<1>2. f[pos' - 1] = Leaves(Ask(ValueDue, r), T)
  BY <1>1, NextTurn
<1>3. CASE T.tag \in ScalarTags \cup {"refid", "objref"} /\ Do(<< >>)
  BY <1>1, <1>2, <1>3, WhatIsLeft
<1>4. CASE T.tag = "ref" /\ Do(<< Read(Top.slot, TRUE), Wrap(Top.slot, T.src) >>)
  <2> DEFINE i == Read(Top.slot, TRUE)
             j == Wrap(Top.slot, T.src)
  <2>1. i \in ItemT /\ j \in ItemT
    <3>1. Top.slot \in Slots
      BY ZvalFacts
    <3>2. T.src \in Srcs
      BY AtPos, TokFacts DEF Inv
    <3> QED
      BY <3>1, <3>2 DEF ItemT, Read, Wrap
  <2>2. Need(i) = ValueDue /\ Need(j) = 0
    BY DEF Need, Read, Wrap
  <2> HIDE DEF i, j
  <2>3. Asks(agenda', Await(ValueDue, Await(0, r)))
    BY <1>1, <1>4, <2>1, <2>2 DEF i, j
  <2>4. Await(ValueDue, Await(0, r)) = Ask(ValueDue, r)
    BY NoneAwaited DEF ValueDue
  <2> QED
    BY <1>2, <1>4, <2>3, <2>4, WhatIsLeft
<1>5. CASE T.tag = "arr" /\ Do(IF T.v = 0 THEN << >> ELSE << Fill(Next1, T.v, Top.slot) >>)
  <2>1. f[pos' - 1] = Await(T.v, r)
    BY <1>2, <1>5, WhatIsLeft
  <2>2. CASE T.v = 0
    BY <1>1, <1>5, <2>1, <2>2, NoneAwaited
  <2>3. CASE T.v # 0
    <3> DEFINE i == Fill(Next1, T.v, Top.slot)
    <3>1. i \in ItemT /\ Need(i) = T.v
      <4>1. Top.slot \in Slots /\ T.v \in Nat /\ Next1 \in Nat
        BY <1>5, ZvalFacts, AtPos, TokFacts, HeapBasics DEF Inv, Next1
      <4> QED
        BY <4>1 DEF ItemT, Fill, Need
    <3> HIDE DEF i
    <3> QED
      BY <1>1, <1>5, <2>1, <2>3, <3>1 DEF i
  <2> QED
    BY <2>2, <2>3
<1> QED
  BY <1>3, <1>4, <1>5

LEMMA ReadEntryAsks ==
  ASSUME Inv, NEW f, Turns(f), Asks(agenda, f[pos - 1]), At("fill"), Top.left > 0, More, pos' = pos + 1,
         \/ T.tag = "null" /\ Do(<< OneLess >>)
         \/ T.tag \in KeyTags /\ \E i \in Nat : Do(<< Read(<< Top.h, i >>, FALSE), OneLess >>)
  PROVE  Asks(agenda', f[pos' - 1])
<1> DEFINE n == Top.left
           j == OneLess
<1>1. /\ result = "reading" /\ agenda # << >> /\ n \in Int /\ n > 0 /\ j \in ItemT
      /\ Need(Top) = n /\ Top.h \in Nat
  BY FillFacts, HeapBasics DEF Inv, Need
<1>2. Need(j) = n - 1
  <2>1. Top \in ItemT /\ Top.op = "fill"
    BY <1>1, TopFacts DEF At, Top
  <2>2. Top \in [op : {"fill"}, h : Nat, left : Int, slot : Slots]
    BY <2>1 DEF ItemT
  <2>3. j.op = "fill" /\ j.left = n - 1
    BY <2>2 DEF OneLess
  <2> QED
    BY <2>3 DEF Need
<1> HIDE DEF n, j
<1>3. PICK r \in Stacks :
            /\ f[pos - 1] = Await(n, r)
            /\ Do(<< j >>) => Asks(agenda', Await(n - 1, r))
            /\ \A i \in ItemT : Do(<< i, j >>) => Asks(agenda', Await(Need(i), Await(n - 1, r)))
  BY <1>1, <1>2, AskedNow
<1>4. f[pos' - 1] = Leaves(Ask(n, r), T)
  <2>1. Await(n, r) = Ask(n, r)
    BY <1>1, NoneAwaited
  <2> QED
    BY <1>3, <2>1, NextTurn
<1>5. f[pos' - 1] = IF T.tag = "null" THEN Await(n - 1, r) ELSE Ask(ValueDue, Await(n - 1, r))
  BY <1>1, <1>4, WhatIsLeft
<1>6. CASE T.tag = "null" /\ Do(<< OneLess >>)
  BY <1>3, <1>5, <1>6 DEF j
<1>7. ASSUME T.tag \in KeyTags, NEW k \in Nat, Do(<< Read(<< Top.h, k >>, FALSE), OneLess >>)
      PROVE  Asks(agenda', f[pos' - 1])
  <2> DEFINE i == Read(<< Top.h, k >>, FALSE)
  <2>1. i \in ItemT /\ Need(i) = ValueDue
    BY <1>1 DEF ItemT, Read, Slots, Need
  <2> HIDE DEF i
  <2>2. Asks(agenda', Await(ValueDue, Await(n - 1, r)))
    BY <1>3, <1>7, <2>1 DEF i, j
  <2>3. Await(ValueDue, Await(n - 1, r)) = Ask(ValueDue, Await(n - 1, r))
    BY NoneAwaited DEF ValueDue
  <2> QED
    BY <1>5, <1>7, <2>2, <2>3 DEF KeyTags
<1> QED
  BY <1>6, <1>7

\* a class name and what follows it
LEMMA ObjectTurn ==
  ASSUME Inv, NEW f, Turns(f), Asks(agenda, f[pos - 1]), AtObject({"arr", "objser", "enum"})
  PROVE  \E r \in Stacks :
            /\ Do(<< >>) => Asks(agenda', r)
            /\ \A i \in ItemT : Do(<< i >>) => Asks(agenda', Await(Need(i), r))
            /\ \A i, j \in ItemT : Do(<< i, j >>) => Asks(agenda', Await(Need(i), Await(Need(j), r)))
            /\ T2.tag = "arr" => f[(pos + 2) - 1] = Await(T2.v, r)
            /\ T2.tag = "objser" => f[(pos + 2) - 1] = r
            /\ T2.tag = "enum" => f[(pos + 2) - 1] = Ask(ValueDue, r)
<1>1. At("zval") /\ More /\ T.tag \in {"obj", "objid"} /\ pos < Len(input)
  BY DEF AtObject, AtToken
<1>2. PICK r \in Stacks :
            /\ f[pos - 1] = Ask(ValueDue, r)
            /\ Do(<< >>) => Asks(agenda', r)
            /\ \A i \in ItemT : Do(<< i >>) => Asks(agenda', Await(Need(i), r))
            /\ \A i, j \in ItemT : Do(<< i, j >>) => Asks(agenda', Await(Need(i), Await(Need(j), r)))
  BY <1>1, ValueIsAsked
<1>3. f[(pos + 1) - 1] = Ask(BodyDue, r)
  BY <1>1, <1>2, NextTurn, WhatIsLeft
<1>4. f[(pos + 2) - 1] = Leaves(Ask(BodyDue, r), T2)
  BY <1>1, <1>3, NextTurn
<1> QED
  BY <1>2, <1>4, WhatIsLeft

LEMMA ReadObjectAsks ==
  ASSUME Inv, NEW f, Turns(f), Asks(agenda, f[pos - 1]), ReadObject
  PROVE  Asks(agenda', f[pos' - 1])
<1> DEFINE n == T2.v
           x == Fill(Next1, n, Top.slot)
           y == Defer(Next1, 0)
           call == KindOf(ClassName) = "wakeup"
<1>1. AtObject({"arr"}) /\ pos' = pos + 2
      /\ Do((IF n = 0 THEN << >> ELSE << x >>) \o (IF call THEN << y >> ELSE << >>))
  BY DEF ReadObject
<1>2. At("zval") /\ GoodTok(T2) /\ T2.tag = "arr" /\ AtObject({"arr", "objser", "enum"})
  BY <1>1, ObjectFacts DEF AtObject
<1>3. n \in Nat /\ x \in ItemT /\ y \in ItemT /\ Need(x) = n /\ Need(y) = 0
  <2>1. n \in Nat /\ Top.slot \in Slots /\ Next1 \in Nat
    BY <1>2, TokFacts, HeapBasics, ZvalFacts DEF Inv, Next1
  <2> QED
    BY <2>1 DEF ItemT, Fill, Defer, Need
<1> HIDE DEF n, x, y, call
<1>4. PICK r \in Stacks :
            /\ Do(<< >>) => Asks(agenda', r)
            /\ \A i \in ItemT : Do(<< i >>) => Asks(agenda', Await(Need(i), r))
            /\ \A i, j \in ItemT : Do(<< i, j >>) => Asks(agenda', Await(Need(i), Await(Need(j), r)))
            /\ f[(pos + 2) - 1] = Await(n, r)
  BY <1>2, ObjectTurn DEF n
<1>5. \A s : Await(0, s) = s
  BY NoneAwaited
<1>6. CASE n = 0 /\ call
  BY <1>1, <1>3, <1>4, <1>5, <1>6
<1>7. CASE n = 0 /\ ~call
  BY <1>1, <1>3, <1>4, <1>5, <1>7
<1>8. CASE n # 0 /\ call
  <2>1. << x >> \o << y >> = << x, y >>
    BY <1>3, PairOfTwo
  <2>2. Do(<< x, y >>)
    BY <1>1, <1>8, <2>1
  <2> QED
    BY <1>1, <1>3, <1>4, <1>5, <2>2
<1>9. CASE n # 0 /\ ~call
  <2>1. << x >> \o << >> = << x >>
    OBVIOUS
  <2>2. Do(<< x >>)
    BY <1>1, <1>9, <2>1
  <2> QED
    BY <1>1, <1>3, <1>4, <1>5, <2>2
<1> QED
  BY <1>6, <1>7, <1>8, <1>9

LEMMA ReadParameterAsks ==
  ASSUME Inv, NEW f, Turns(f), Asks(agenda, f[pos - 1]), ReadParameter
  PROVE  Asks(agenda', f[pos' - 1])
<1> DEFINE n == T2.v
           param == Len(PutCell(out, Top.slot, ObjCell(ClassName, << >>), Top.want)) + 1
           x == Fill(param + 1, n, << param, 1 >>)
           y == Defer(Next1, param)
<1>1. AtObject({"arr"}) /\ pos' = pos + 2 /\ Do((IF n = 0 THEN << >> ELSE << x >>) \o << y >>)
  BY DEF ReadParameter
<1>2. At("zval") /\ GoodTok(T2) /\ T2.tag = "arr" /\ AtObject({"arr", "objser", "enum"})
  BY <1>1, ObjectFacts DEF AtObject
<1>3. n \in Nat /\ x \in ItemT /\ y \in ItemT /\ Need(x) = n /\ Need(y) = 0
  <2>1. n \in Nat /\ Next1 \in Nat
    BY <1>2, TokFacts, HeapBasics DEF Inv, Next1
  <2>2. param \in Nat
    <3>1. Len(PutCell(out, Top.slot, ObjCell(ClassName, << >>), Top.want)) \in Nat
      BY <1>1, ObjectWithHolder
    <3> QED
      BY <3>1
  <2> HIDE DEF param
  <2> QED
    BY <2>1, <2>2 DEF ItemT, Fill, Defer, Need, Slots
<1> HIDE DEF n, x, y, param
<1>4. PICK r \in Stacks :
            /\ \A i \in ItemT : Do(<< i >>) => Asks(agenda', Await(Need(i), r))
            /\ \A i, j \in ItemT : Do(<< i, j >>) => Asks(agenda', Await(Need(i), Await(Need(j), r)))
            /\ f[(pos + 2) - 1] = Await(n, r)
  BY <1>2, ObjectTurn DEF n
<1>5. \A s : Await(0, s) = s
  BY NoneAwaited
<1>6. CASE n = 0
  <2>1. << >> \o << y >> = << y >>
    OBVIOUS
  <2> QED
    BY <1>1, <1>3, <1>4, <1>5, <1>6, <2>1
<1>7. CASE n # 0
  <2>1. << x >> \o << y >> = << x, y >>
    BY <1>3, PairOfTwo
  <2>2. Do(<< x, y >>)
    BY <1>1, <1>7, <2>1
  <2> QED
    BY <1>1, <1>3, <1>4, <1>5, <2>2
<1> QED
  BY <1>6, <1>7

LEMMA ReadWholeAsks ==
  ASSUME Inv, NEW f, Turns(f), Asks(agenda, f[pos - 1]), ReadSerializable \/ ReadEnumCase
  PROVE  Asks(agenda', f[pos' - 1])
<1>1. CASE ReadSerializable
  <2>1. AtObject({"objser"}) /\ pos' = pos + 2 /\ Do(<< >>)
    BY <1>1 DEF ReadSerializable
  <2>2. T2.tag = "objser" /\ AtObject({"arr", "objser", "enum"})
    BY <2>1 DEF AtObject
  <2> QED
    BY <2>1, <2>2, ObjectTurn
<1>2. CASE ReadEnumCase
  <2>1. /\ AtObject({"enum"}) /\ pos' = pos + 3 /\ Do(<< >>) /\ pos + 1 < Len(input)
        /\ CaseKnown(input[pos + 2])
    BY <1>2 DEF ReadEnumCase
  <2>2. T2.tag = "enum" /\ AtObject({"arr", "objser", "enum"})
    BY <2>1 DEF AtObject
  <2>3. PICK r \in Stacks : Asks(agenda', r) /\ f[(pos + 2) - 1] = Ask(ValueDue, r)
    BY <2>1, <2>2, ObjectTurn
  <2>4. input[pos + 2].tag \in ScalarTags
    BY <2>1 DEF CaseKnown, ScalarTags
  <2> QED
    BY <2>1, <2>3, <2>4, NextTurn, WhatIsLeft
<1> QED
  BY <1>1, <1>2

\* an end of a loop, a box and a call to make read nothing
LEMMA NoTokenAsks ==
  ASSUME Inv, NEW f, Asks(agenda, f[pos - 1]), EndFill \/ WrapReference \/ DeferCall
  PROVE  Asks(agenda', f[pos' - 1])
<1>1. result = "reading" /\ agenda # << >> /\ Need(Top) = 0 /\ Do(<< >>) /\ pos' = pos
  BY DEF EndFill, WrapReference, DeferCall, At, Top, Need
<1>2. \A r : Await(0, r) = r
  BY NoneAwaited
<1> QED
  BY <1>1, <1>2, AskedNow

\* for any input that is the beginning of something well formed
LEMMA ReaderAsks ==
  ASSUME Inv, NEW f, Turns(f), Asks(agenda, f[pos - 1]), ReaderStep, result' = "reading"
  PROVE  Asks(agenda', f[pos' - 1])
<1>2. CASE CannotRead \/ UnknownString \/ ShortArray \/ CannotReadKey \/ CannotReadObject \/ ShortProperties
           \/ ShortParameter \/ UnknownId \/ MisreadCrash \/ TrailingData \/ StartStep
  <2>1. result' \in {"failed", "crashed", "calling"}
    BY <1>2 DEF CannotRead, UnknownString, ShortArray, CannotReadKey, CannotReadObject, ShortProperties,
                ShortParameter, UnknownId, MisreadCrash, TrailingData, StartStep, Fail, FailAndClear, FailWith
  <2> QED
    BY <2>1
<1>3. CASE CallStep \/ Deinit
  BY <1>3, CallFails
<1>4. CASE ReadScalar \/ ReadReference \/ ReadArray \/ ShareReference \/ ShareValue \/ MisreadValue
           \/ BoxTarget
  BY <1>4, ReadOneAsks DEF ReadScalar, ReadReference, ReadArray, ShareReference, ShareValue, MisreadValue,
     BoxTarget, AtBackRef, AtToken
<1>5. CASE SkipKeyless
  BY <1>5, ReadEntryAsks DEF SkipKeyless, AtKey
<1>6. CASE ReadNewKey
  <2>1. Len(out[Top.h].elems) + 1 \in Nat
    BY <1>6, FillFacts, HeapBasics DEF ReadNewKey, AtKey, Inv
  <2> QED
    BY <1>6, <2>1, ReadEntryAsks DEF ReadNewKey, AtKey
<1>7. CASE ReadOldKey
  <2>1. PICK i \in Indexes(Top.h, KeyIn(Top.h, T)) : Do(<< Read(<< Top.h, i >>, FALSE), OneLess >>)
    BY <1>7 DEF ReadOldKey
  <2>2. i \in Nat
    BY <1>7, FillFacts, HeapBasics DEF ReadOldKey, AtKey, Inv, Indexes
  <2> QED
    BY <1>7, <2>1, <2>2, ReadEntryAsks DEF ReadOldKey, AtKey
<1>8. CASE ReadObject \/ ReadParameter \/ ReadSerializable \/ ReadEnumCase
  BY <1>8, ReadObjectAsks, ReadParameterAsks, ReadWholeAsks
<1>9. CASE EndFill \/ WrapReference \/ DeferCall
  BY <1>9, NoTokenAsks
<1> QED
  BY <1>2, <1>3, <1>4, <1>5, <1>6, <1>7, <1>8, <1>9 DEF ReaderStep, ReadZval

\* before the first token one value is due, and when nothing is left to read
\* nothing is due
LEMMA AsksAtStart ==
  ASSUME agenda = << Read(<< 1, 1 >>, FALSE) >>
  PROVE  Asks(agenda, Ask(ValueDue, << >>))
<1> DEFINE i == Read(<< 1, 1 >>, FALSE)
<1>1. i \in ItemT /\ Need(i) = ValueDue
  BY DEF ItemT, Read, Slots, Need
<1> HIDE DEF i
<1>2. << >> \in Seq(ItemT) /\ Asks(<< >>, << >>) /\ << i >> \o << >> = << i >>
  BY <1>1, NothingAsked
<1>3. Asks(<< i >>, Await(ValueDue, << >>))
  BY <1>1, <1>2, AsksPut
<1>4. Await(ValueDue, << >>) = Ask(ValueDue, << >>)
  BY NoneAwaited DEF ValueDue
<1> QED
  BY <1>3, <1>4 DEF i

LEMMA AllIsRead ==
  ASSUME NEW f, Asks(agenda, f[pos - 1]), result = "reading", Next, result' = "calling"
  PROVE  ~More /\ f[pos - 1] = << >>
<1>1. CASE StartCalls
  BY <1>1, NothingAsked DEF StartCalls
<1>2. CASE CallStep \/ Deinit
  BY <1>2, CallFacts
<1>3. CASE ReadZval \/ DeferCall \/ TrailingData
  BY <1>3, ReadingFacts
<1> QED
  BY <1>1, <1>2, <1>3 DEF Next, FinishDeferredCalls, CallStep

(***************************************************************************)
(* What is not refused: an input that is one value by the grammar, where   *)
(* ids are known and what follows the name of a class goes with the class. *)
(***************************************************************************)
\* f[i] is due after i tokens, and nothing is due at the end
Accepts(f) == /\ Turns(f) /\ f[Len(input)] = << >>
              /\ \A i \in 1..Len(input) : Allows(f[i - 1], input[i])
              /\ \A i \in 0..Len(input) : Weight(f[i]) <= Len(input) - i

\* the string that a token carries or is the number of
Reads(p, s) ==
    \/ input[p].tag \in {"str", "obj"} /\ s = input[p].v
    \/ input[p].tag \in {"strid", "objid"}
         /\ \E j \in NameTokens(input) : /\ j < p /\ s = input[j].v
                                         /\ Below(NameTokens(input), j) = input[p].v

BodyRead(p) ==
    /\ input[p].tag \in {"obj", "objid"} =>
         \E s \in Str : /\ Reads(p, s)
                        /\ input[p + 1].tag = "arr" => KindOf(s) \notin {"enum", "banned"}
                        /\ input[p + 1].tag = "objser" => KindOf(s) = "serializable"
                        /\ input[p + 1].tag = "enum" => KindOf(s) = "enum"
    /\ input[p].tag = "enum" => /\ input[p + 1].tag \in {"str", "strid"}
                                /\ \E s \in EnumCases : Reads(p + 1, s)
BodiesRead == \A p \in DOMAIN input : p + 1 \in DOMAIN input => BodyRead(p)

IdsKnown == More => /\ T.tag \in {"strid", "objid"} => T.v < Len(dstrings)
                    /\ T.tag \in {"refid", "objref"} /\ At("zval") => T.v < Len(drefs)

\* a string id is that of the string it was given to
LEMMA NameRead ==
  ASSUME InputInv, NEW p \in DOMAIN input, NEW ds, NamesOk(input, p, ds), NEW s, Reads(p, s),
         input[p].tag \in {"strid", "objid"}
  PROVE  input[p].v < Len(ds) /\ ds[input[p].v + 1] = s
<1> DEFINE names == NameTokens(input)
<1>1. Len(input) \in Nat /\ names \in SUBSET (1..Len(input)) /\ p \in Nat
  BY TokensTyped DEF InputInv
<1>2. PICK j \in names : j < p /\ s = input[j].v /\ Below(names, j) = input[p].v
  BY DEF Reads
<1>3. NamesOf(input)[j] = s
  BY <1>2 DEF NamesOf, NameTokens
<1>4. Len(ds) = Below(names, p) /\ ds[Below(names, j) + 1] = NamesOf(input)[j]
  BY <1>2 DEF NamesOk, Listed
<1> HIDE DEF names
<1>5. Below(names, j) < Below(names, p)
  BY <1>1, <1>2, BelowFacts
<1> QED
  BY <1>2, <1>3, <1>4, <1>5

LEMMA ClassRead ==
  ASSUME Inv, CountInv, result = "reading", agenda # << >>, More, T.tag \in {"obj", "objid"},
         NEW s, Reads(pos, s)
  PROVE  ClassName = s
<1>1. InputInv /\ NamesOk(input, pos, dstrings) /\ pos \in DOMAIN input /\ T = input[pos]
  BY CountsAtValue, AtPos DEF Inv, T
<1>2. CASE T.tag = "obj"
  BY <1>1, <1>2 DEF Reads, ClassName, ClassAt
<1>3. CASE T.tag = "objid"
  <2>1. dstrings[T.v + 1] = s
    BY <1>1, <1>3, NameRead
  <2> QED
    BY <1>3, <2>1 DEF ClassName, ClassAt
<1> QED
  BY <1>2, <1>3

LEMMA CaseIsKnown ==
  ASSUME Inv, CountInv, result = "reading", agenda # << >>, pos + 1 < Len(input), T2.tag = "enum",
         input[pos + 2].tag \in {"str", "strid"}, NEW s \in EnumCases, Reads(pos + 2, s)
  PROVE  CaseKnown(input[pos + 2])
<1>1. /\ InputInv /\ dstrings \in Seq(Str) /\ NamesOk(input, pos, dstrings)
      /\ pos \in Nat /\ pos + 2 \in DOMAIN input
  BY CountsAtValue, AtPos DEF Inv
<1>2. pos \in DOMAIN input /\ pos + 1 \in DOMAIN input /\ (pos + 1) + 1 = pos + 2
  <2>1. pos < Len(input)
    BY <1>1, AtPos
  <2> QED
    BY <1>1, <2>1, AtPos
<1>3. NamesOk(input, pos + 1, Strings1(T))
  BY <1>1, <1>2, NamesNext
<1>4. NamesOk(input, pos + 2, Strings1(T))
  <2>1. input[pos + 1].tag \notin {"str", "obj"}
    BY DEF T2
  <2> QED
    BY <1>1, <1>2, <1>3, <2>1, NamesPass
<1>5. CASE input[pos + 2].tag = "str"
  BY <1>5 DEF Reads, CaseKnown
<1>6. CASE input[pos + 2].tag = "strid"
  <2> DEFINE t == input[pos + 2]
  <2>1. t.v < Len(Strings1(T)) /\ Strings1(T)[t.v + 1] = s
    BY <1>1, <1>4, <1>6, NameRead
  <2> QED
    BY <1>6, <2>1 DEF CaseKnown
<1> QED
  BY <1>5, <1>6

\* at least the entries of a table are still to come
LEMMA AwaitWeighs ==
  ASSUME NEW r \in Stacks, NEW n \in Nat
  PROVE  Weight(Await(n, r)) \in Nat /\ n <= Weight(Await(n, r))
<1>1. Weight(r) \in Nat
  <2>1. CASE r = << >>
    BY <2>1 DEF Weight
  <2>2. CASE r # << >>
    <3>1. Head(r) \in [due : Int, sum : Nat]
      BY <2>2, EmptySeq, LenProperties, HeadTailProperties, ElementOfSeq DEF Stacks
    <3> QED
      BY <2>2, <3>1 DEF Weight
  <2> QED
    BY <2>1, <2>2
<1>2. CASE n = 0
  BY <1>1, <1>2 DEF Await
<1>3. CASE n # 0
  <2> DEFINE e == [due |-> n, sum |-> AtLeast(n) + Weight(r)]
             p == << e >> \o r
  <2>1. AtLeast(n) = n
    BY DEF AtLeast
  <2>2. e \in [due : Int, sum : Nat] /\ e.sum = n + Weight(r)
    BY <1>1, <2>1
  <2>3. p # << >> /\ Head(p) = e
    <3> HIDE DEF e
    <3> QED
      BY <2>2 DEF Stacks
  <2>4. Await(n, r) = p
    BY <1>3 DEF Await, Ask
  <2> HIDE DEF p, e
  <2>5. Weight(Await(n, r)) = n + Weight(r)
    BY <2>2, <2>3, <2>4 DEF Weight
  <2> QED
    BY <1>1, <2>5
<1> QED
  BY <1>2, <1>3

LEMMA NotShort ==
  ASSUME InputInv, NEW f, Accepts(f), NEW i \in 0..Len(input), NEW r \in Stacks, NEW n \in Nat,
         f[i] = Await(n, r)
  PROVE  ~Short(n, i)
<1>1. Weight(f[i]) \in Nat /\ n <= Weight(f[i])
  BY AwaitWeighs
<1>2. Weight(f[i]) <= Len(input) - i /\ Len(input) \in Nat
  BY AtPos DEF Accepts
<1> QED
  BY <1>1, <1>2 DEF Short

\* something is due, so there is a token, which may be there
LEMMA TokenComes ==
  ASSUME Inv, NEW f, Accepts(f), f[pos - 1] # << >>
  PROVE  More /\ Allows(f[pos - 1], T)
<1>1. pos \in 1..(Len(input) + 1) /\ Len(input) \in Nat
  BY DEF Inv, InputInv
<1>2. More
  <2>1. SUFFICES ASSUME ~More PROVE FALSE
    OBVIOUS
  <2>2. pos - 1 = Len(input)
    BY <1>1, <2>1 DEF More
  <2> QED
    BY <2>2 DEF Accepts
<1>3. pos \in 1..Len(input)
  BY <1>1, <1>2 DEF More
<1> QED
  BY <1>2, <1>3 DEF Accepts, T

LEMMA BodyComes ==
  ASSUME Inv, NEW f, Accepts(f), NEW n \in {ValueDue, BodyDue}, NEW r \in Stacks,
         NEW k \in Nat, k \in 1..Len(input), f[k] = Ask(n, r)
  PROVE  /\ k < Len(input)
         /\ n = BodyDue => input[k + 1].tag \in {"arr", "objser", "enum"}
<1>1. n \in Int /\ Len(input) \in Nat /\ ~(n > 0)
  BY AtPos DEF Inv, ValueDue, BodyDue
<1>2. f[k] # << >> /\ Head(f[k]).due = n
  BY <1>1, AskTyped
<1>3. k < Len(input)
  BY <1>1, <1>2 DEF Accepts
<1>4. Allows(f[(k + 1) - 1], input[k + 1]) /\ (k + 1) - 1 = k
  <2>1. k + 1 \in 1..Len(input) /\ (k + 1) - 1 = k
    BY <1>1, <1>3
  <2> QED
    BY <2>1 DEF Accepts
<1> QED
  BY <1>1, <1>2, <1>3, <1>4 DEF Allows, ValueDue, BodyDue

LEMMA ValueComes ==
  ASSUME Inv, NEW f, Accepts(f), At("zval"), Asks(agenda, f[pos - 1])
  PROVE  /\ More /\ T.tag \in Tags \ {"objser", "enum"}
         /\ T.tag = "arr" => ~Short(T.v, pos)
         /\ T.tag \in {"obj", "objid"} =>
              /\ pos < Len(input) /\ T2.tag \in {"arr", "objser", "enum"}
              /\ T2.tag = "arr" => ~Short(T2.v, pos + 1)
              /\ T2.tag = "enum" => pos + 1 < Len(input)
<1>1. PICK r \in Stacks : f[pos - 1] = Ask(ValueDue, r)
  BY ValueIsAsked
<1>2. ValueDue \in Int /\ BodyDue \in Int
  BY DEF ValueDue, BodyDue
<1>3. f[pos - 1] # << >> /\ Head(f[pos - 1]).due = ValueDue
  BY <1>1, <1>2, AskTyped
<1>4. More /\ Allows(f[pos - 1], T)
  BY <1>3, TokenComes
<1>5. /\ InputInv /\ pos \in Nat /\ pos >= 1 /\ Len(input) \in Nat /\ pos <= Len(input)
      /\ GoodTok(T) /\ Turns(f) /\ dstrings \in Seq(Str)
  BY <1>4, AtPos DEF Inv, More, Accepts
<1>6. T.tag \in Tags \ {"objser", "enum"}
  <2>1. T.tag \in Tags
    BY <1>5 DEF GoodTok, Token
  <2>2. T.tag \notin {"objser", "enum"}
    BY <1>3, <1>4 DEF Allows, ValueDue, BodyDue
  <2> QED
    BY <2>1, <2>2
<1>7. f[pos] = Leaves(Ask(ValueDue, r), T)
  <2>1. (pos + 1) - 1 = pos
    BY <1>5
  <2> QED
    BY <1>1, <1>4, <1>5, <2>1, NextTurn
<1>8. CASE T.tag = "arr"
  <2>1. f[pos] = Await(T.v, r)
    BY <1>7, <1>8, WhatIsLeft
  <2>2. T.v \in Nat
    BY <1>5, <1>8, TokFacts
  <2>3. pos \in 0..Len(input)
    BY <1>5
  <2> QED
    BY <1>4, <1>5, <1>6, <1>8, <2>1, <2>2, <2>3, NotShort
<1>9. CASE T.tag \in {"obj", "objid"}
  <2>1. f[pos] = Ask(BodyDue, r) /\ pos \in 1..Len(input)
    BY <1>5, <1>7, <1>9, WhatIsLeft
  <2>2. pos < Len(input) /\ T2.tag \in {"arr", "objser", "enum"}
    BY <1>5, <2>1, BodyComes DEF T2
  <2>3. GoodTok(T2) /\ pos + 1 \in 1..Len(input) /\ pos + 1 \in 0..Len(input) /\ pos + 1 \in Nat
    BY <1>5, <2>2, AtPos
  <2>4. f[pos + 1] = Leaves(Ask(BodyDue, r), T2)
    <3>1. (pos + 1) - 1 = pos /\ (pos + 2) - 1 = pos + 1
      BY <1>5
    <3> QED
      BY <1>5, <2>1, <2>2, <3>1, NextTurn
  <2>5. ASSUME T2.tag = "arr" PROVE ~Short(T2.v, pos + 1)
    <3>1. f[pos + 1] = Await(T2.v, r) /\ T2.v \in Nat
      BY <1>5, <2>3, <2>4, <2>5, WhatIsLeft, TokFacts
    <3> QED
      BY <1>5, <2>3, <3>1, NotShort
  <2>6. ASSUME T2.tag = "enum" PROVE pos + 1 < Len(input)
    <3>1. f[pos + 1] = Ask(ValueDue, r)
      BY <2>4, <2>6, WhatIsLeft
    <3> QED
      BY <2>3, <3>1, BodyComes
  <2> QED
    BY <1>4, <1>6, <1>9, <2>2, <2>5, <2>6
<1> QED
  BY <1>4, <1>6, <1>8, <1>9

LEMMA EntryComes ==
  ASSUME Inv, NEW f, Accepts(f), At("fill"), Top.left > 0, Asks(agenda, f[pos - 1])
  PROVE  More /\ T.tag \in ScalarTags
<1>1. result = "reading" /\ agenda # << >> /\ Top.left \in Int /\ Need(Top) = Top.left
  BY FillFacts DEF Need
<1>2. PICK r \in Stacks : f[pos - 1] = Await(Top.left, r)
  BY <1>1, AskedNow
<1>3. f[pos - 1] = Ask(Top.left, r)
  BY <1>1, <1>2, NoneAwaited
<1>4. f[pos - 1] # << >> /\ Head(f[pos - 1]).due = Top.left
  BY <1>1, <1>3, AskTyped
<1>5. More /\ Allows(f[pos - 1], T)
  BY <1>4, TokenComes
<1> QED
  BY <1>1, <1>4, <1>5 DEF Allows, ValueDue, BodyDue

LEMMA NothingComes ==
  ASSUME Inv, NEW f, Accepts(f), agenda = << >>, Asks(agenda, f[pos - 1])
  PROVE  ~More
<1>1. f[pos - 1] = << >>
  BY NothingAsked
<1>2. SUFFICES ASSUME More PROVE FALSE
  OBVIOUS
<1>3. pos \in 1..Len(input)
  BY <1>2, AtPos DEF Inv, More
<1> QED
  BY <1>1, <1>3 DEF Accepts, Allows

\* what goes with the class
LEMMA BodyNotRefused ==
  ASSUME Inv, CountInv, BodiesRead, NEW f, Accepts(f), At("zval"), Asks(agenda, f[pos - 1]),
         ~CallsThrow \/ \A c \in Class : Kind[c] # "serializable",
         T.tag \in {"obj", "objid"}
  PROVE  /\ KindOf(ClassName) # "banned"
         /\ T2.tag = "arr" => KindOf(ClassName) # "enum"
         /\ T2.tag = "objser" => KindOf(ClassName) = "serializable" /\ ~CallsThrow
         /\ T2.tag = "enum" => /\ KindOf(ClassName) = "enum" /\ pos + 1 < Len(input)
                               /\ CaseKnown(input[pos + 2])
<1>1. /\ More /\ pos < Len(input) /\ T2.tag \in {"arr", "objser", "enum"}
      /\ T2.tag = "enum" => pos + 1 < Len(input)
  BY ValueComes
<1>2. /\ pos \in Nat /\ pos \in DOMAIN input /\ pos + 1 \in DOMAIN input
      /\ result = "reading" /\ agenda # << >> /\ T = input[pos] /\ T2 = input[pos + 1]
  BY <1>1, AtPos DEF Inv, At, T, T2
<1>3. BodyRead(pos)
  BY <1>2 DEF BodiesRead
<1>4. PICK s \in Str : /\ Reads(pos, s)
                       /\ T2.tag = "arr" => KindOf(s) \notin {"enum", "banned"}
                       /\ T2.tag = "objser" => KindOf(s) = "serializable"
                       /\ T2.tag = "enum" => KindOf(s) = "enum"
  BY <1>2, <1>3 DEF BodyRead
<1>5. ClassName = s
  BY <1>1, <1>2, <1>4, ClassRead
<1>6. ASSUME T2.tag = "objser" PROVE ~CallsThrow
  BY <1>4, <1>6 DEF KindOf
<1>7. ASSUME T2.tag = "enum" PROVE CaseKnown(input[pos + 2])
  <2>1. pos + 2 \in DOMAIN input /\ (pos + 1) + 1 = pos + 2 /\ pos + 1 < Len(input)
    BY <1>1, <1>2, <1>7, AtPos DEF Inv
  <2>2. BodyRead(pos + 1)
    BY <1>2, <2>1 DEF BodiesRead
  <2>3. input[pos + 2].tag \in {"str", "strid"} /\ \E c \in EnumCases : Reads(pos + 2, c)
    BY <1>2, <1>7, <2>1, <2>2 DEF BodyRead
  <2> QED
    BY <1>2, <1>7, <2>1, <2>3, CaseIsKnown
<1> QED
  BY <1>1, <1>4, <1>5, <1>6, <1>7

\* no reader refuses what is one value and stands together
LEMMA NotRefused ==
  ASSUME Inv, CountInv, BodiesRead, IdsKnown, result = "reading", MaxDepth = 0,
         ~CallsThrow \/ \A c \in Class : Kind[c] # "serializable",
         NEW f, Accepts(f), Asks(agenda, f[pos - 1]), ReaderStep
  PROVE  result' # "failed"
<1>1. ~TooDeep
  BY DEF TooDeep
<1>2. ASSUME At("zval")
      PROVE  ~CannotRead /\ ~UnknownString /\ ~ShortArray /\ ~UnknownId
             /\ ~CannotReadObject /\ ~ShortProperties /\ ~ShortParameter
  <2>1. /\ More /\ T.tag \in Tags \ {"objser", "enum"}
        /\ T.tag = "arr" => ~Short(T.v, pos)
        /\ T.tag \in {"obj", "objid"} =>
             /\ pos < Len(input) /\ T2.tag \in {"arr", "objser", "enum"}
             /\ T2.tag = "arr" => ~Short(T2.v, pos + 1)
             /\ T2.tag = "enum" => pos + 1 < Len(input)
    BY <1>2, ValueComes
  <2>2. ~CannotRead
    BY <1>1, <1>2, <2>1 DEF CannotRead, AtToken
  <2>3. ~UnknownString
    BY <2>1 DEF UnknownString, AtToken, StringKnown, IdsKnown
  <2>4. ~ShortArray
    BY <2>1 DEF ShortArray, AtToken
  <2>5. ~UnknownId
    <3>1. SUFFICES ASSUME UnknownId PROVE FALSE
      OBVIOUS
    <3>2. T.tag \in {"refid", "objref"} /\ T.v >= Len(drefs)
      BY <3>1 DEF UnknownId, AtBackRef, AtToken
    <3>3. T.v < Len(drefs)
      BY <1>2, <2>1, <3>2 DEF IdsKnown
    <3>4. T.v \in Nat /\ Len(drefs) \in Nat
      <4>1. GoodTok(T) /\ dstrings \in Seq(Str) /\ drefs \in Seq(RefT)
        BY <2>1, AtPos DEF Inv, RefsInv
      <4> QED
        BY <3>2, <4>1, TokFacts
    <3> QED
      BY <3>2, <3>3, <3>4
  <2>6. ~ShortProperties /\ ~ShortParameter
    BY <2>1 DEF ShortProperties, ShortParameter, AtObject, AtToken
  <2>7. ~CannotReadObject
    <3>1. SUFFICES ASSUME CannotReadObject PROVE FALSE
      OBVIOUS
    <3>2. T.tag \in {"obj", "objid"}
      BY <3>1 DEF CannotReadObject, AtToken
    <3>3. pos # Len(input)
      BY <2>1, <3>2, AtPos DEF Inv
    <3>4. /\ KindOf(ClassName) # "banned"
          /\ T2.tag = "arr" => KindOf(ClassName) # "enum"
          /\ T2.tag = "objser" => KindOf(ClassName) = "serializable" /\ ~CallsThrow
          /\ T2.tag = "enum" => /\ KindOf(ClassName) = "enum" /\ pos + 1 < Len(input)
                                /\ CaseKnown(input[pos + 2])
      BY <1>2, <3>2, BodyNotRefused
    <3> QED
      BY <2>1, <3>1, <3>2, <3>3, <3>4 DEF CannotReadObject
  <2> QED
    BY <2>2, <2>3, <2>4, <2>5, <2>6, <2>7
<1>3. ~At("zval") =>
         /\ ~CannotRead /\ ~UnknownString /\ ~ShortArray /\ ~UnknownId
         /\ ~CannotReadObject /\ ~ShortProperties /\ ~ShortParameter
  BY DEF CannotRead, UnknownString, ShortArray, UnknownId, CannotReadObject, ShortProperties,
         ShortParameter, AtBackRef, AtObject, AtToken
<1>4. ~CannotReadKey
  <2>1. SUFFICES ASSUME CannotReadKey PROVE FALSE
    OBVIOUS
  <2>2. At("fill") /\ Top.left > 0
    BY <2>1 DEF CannotReadKey
  <2>3. More /\ T.tag \in ScalarTags
    BY <2>2, EntryComes
  <2> QED
    BY <2>1, <2>3 DEF CannotReadKey, KeyTags, ScalarTags, StringKnown, IdsKnown
<1>5. ~TrailingData
  BY NothingComes DEF TrailingData
<1>6. CASE ReadScalar \/ ReadReference \/ WrapReference \/ ReadArray
  BY <1>6 DEF ReadScalar, ReadReference, WrapReference, ReadArray
<1>7. CASE SkipKeyless \/ ReadNewKey \/ ReadOldKey \/ EndFill
  BY <1>7 DEF SkipKeyless, ReadNewKey, ReadOldKey, EndFill
<1>8. CASE ReadObject \/ ReadParameter \/ ReadSerializable \/ ReadEnumCase
  BY <1>8 DEF ReadObject, ReadParameter, ReadSerializable, ReadEnumCase
<1>9. CASE ShareReference \/ ShareValue \/ MisreadCrash \/ MisreadValue \/ BoxTarget \/ DeferCall
  BY <1>9 DEF ShareReference, ShareValue, MisreadCrash, MisreadValue, BoxTarget, DeferCall
<1>10. CASE StartStep
  BY <1>10 DEF StartStep
<1>11. CASE CallStep \/ Deinit
  BY <1>11, CallFacts
<1> QED
  BY <1>2, <1>3, <1>4, <1>5, <1>6, <1>7, <1>8, <1>9, <1>10, <1>11 DEF ReaderStep, ReadZval
==============================================================================
