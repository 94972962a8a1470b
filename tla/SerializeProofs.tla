--------------------------- MODULE SerializeProofs ---------------------------
(***************************************************************************)
(* What holds of Serialize for every value of its constants: any set of    *)
(* values, any number of addresses, any user code.                         *)
(***************************************************************************)
EXTENDS Serialize, SequenceTheorems, FiniteSetTheorems, TLAPS

(***************************************************************************)
(* The 32-bit counters.                                                    *)
(***************************************************************************)
IdsInv == /\ references_id \in Nat /\ string_count \in Nat
          /\ IdsBelowWrap

LEMMA IdsInvInductive == Spec => []IdsInv
<1>1. Init => IdsInv
  BY SerializeAssumption DEF Init, IdsInv, IdsBelowWrap
<1>2. ASSUME IdsInv, [Next]_vars PROVE IdsInv'
  <2> USE <1>2 DEF IdsInv, IdsBelowWrap
  <2>1. CASE UNCHANGED tables
    BY <2>1 DEF tables
  <2>2. CASE SerializeStringNew
    BY <2>2 DEF SerializeStringNew
  <2>3. ASSUME IdFits, NEW z, FileRef(z), UNCHANGED << strings, string_count >>
        PROVE  IdsInv'
    BY <2>3 DEF IdFits, FileRef
  <2>4. ASSUME IdFits, NEW z, FileRef(z), NEW c, NameFits(c), FileName(c)
        PROVE  IdsInv'
    BY <2>4 DEF IdFits, FileRef, NameFits, FileName
  <2>5. CASE SerializeZval
    BY <2>1, <2>2, <2>3, <2>5
       DEF SerializeZval, SerializeScalar, SerializeStringAgain, TooManyStrings,
           SerializeArrayAgain, SerializeArrayNew, TooManyReferences, StackOverflows,
           SerializeReferenceUnshared, SerializeReferenceToObject,
           SerializeReferenceAgain, SerializeReferenceNew, Fail
  <2>6. CASE SerializeObject
    BY <2>1, <2>3, <2>4, <2>6
       DEF SerializeObject, SerializeObjectAgain, SerializeObjectPlain, SerializeObjectEnum,
           SerializeObjectMagic, SerializeObjectData, SerializeObjectNull,
           SerializeObjectSleep, SerializeObjectThrows, TooManyStringsForName,
           NewNamedObject, NewObject, Fail
  <2>7. CASE SerializeTable
    BY <2>1, <2>7
       DEF SerializeTable, SkipMagic, SkipDeleted, PadUnset, SerializeEntry, EndTable, ReleaseReturned,
           SleepNotAString, SleepProperty, SleepUninitialized, Fail
  <2>8. CASE Deinit
    BY <2>8 DEF Deinit
  <2>9. CASE UNCHANGED vars
    BY <2>1, <2>9 DEF vars
  <2>10. QED
    BY <1>2, <2>5, <2>6, <2>7, <2>8, <2>9 DEF Next
<1>3. QED
  BY <1>1, <1>2, PTL DEF Spec

\* No id that is handed out reaches the point where its 32-bit counter wraps,
\* whatever is serialized: the checks of igbinary_serialize_array_ref,
\* igbinary_serialize_string and igbinary_serialize_object_name come in time.
THEOREM IdsStayBelowWrap == Spec => []IdsBelowWrap
BY IdsInvInductive, PTL DEF IdsInv

(***************************************************************************)
(* Cells and what is alive.                                                *)
(***************************************************************************)
LEMMA PointersTyped ==
  ASSUME NEW c \in Cell, NEW z \in Pointers(c)
  PROVE  z \in Zval /\ z.t \in Counted /\ z.v \in Addr
<1>1. PICK i \in DOMAIN c.elems : z = c.elems[i].v /\ z.t \in Counted
  BY DEF Pointers
<1>2. c.elems \in Seq([k : Key \cup {Null}, v : Zval])
  BY DEF Cell, Elems
<1>3. c.elems[i] \in [k : Key \cup {Null}, v : Zval]
  BY <1>2, LenProperties, ElementOfSeq
<1>4. z \in Zval
  BY <1>1, <1>3
<1>5. QED
  BY <1>1, <1>4 DEF Zval, Null, Undef, Key, Counted

LEMMA HeldAreLive ==
  ASSUME NEW H, NEW S
  PROVE  /\ S \cap Addr \subseteq Live(H, S)
         /\ Immutable \subseteq Live(H, S)
         /\ Live(H, S) \subseteq Addr
BY ValuesAssumption DEF Live, Closure

\* what a live cell points to is alive
LEMMA LiveIsClosed ==
  ASSUME NEW H \in [Addr -> Cell], CellsOK(H), NEW S, NEW a \in Live(H, S)
  PROVE  Targets(H, a) \subseteq Live(H, S)
<1>1. CASE a \in Immutable
  BY <1>1, HeldAreLive DEF CellsOK
<1>2. CASE a \in Closure(H, S \cap Addr)
  <2>1. Targets(H, a) \subseteq Addr
    BY <1>2, PointersTyped DEF Targets, Closure
  <2>2. ASSUME NEW C \in SUBSET Addr, S \cap Addr \subseteq C, Closed(H, C)
        PROVE  Targets(H, a) \subseteq C
    BY <1>2, <2>2 DEF Closure, Closed
  <2>3. QED
    BY <2>1, <2>2 DEF Closure, Live
<1>3. QED
  BY <1>1, <1>2 DEF Live

\* a set of addresses that has what is held and what its members point to
\* has all that is alive
LEMMA LiveIsLeast ==
  ASSUME NEW H, NEW S, NEW A \in SUBSET Addr,
         S \cap Addr \subseteq A, Immutable \subseteq A, Closed(H, A)
  PROVE  Live(H, S) \subseteq A
BY DEF Live, Closure

(***************************************************************************)
(* What user code does to the heap.  Unsetting a property drops a pointer  *)
(* and changes nothing else ...                                            *)
(***************************************************************************)
UnsetOf(H) ==
    /\ H \in [Addr -> Cell]
    /\ CellsOK(H)
    /\ \A a \in Addr :
         /\ H[a].kind = heap[a].kind
         /\ Len(H[a].elems) = Len(heap[a].elems)
         /\ Pointers(H[a]) \subseteq Pointers(heap[a])
         /\ heap[a].kind = "ref" => H[a] = heap[a]
         /\ a \in Immutable => H[a] = heap[a]

LEMMA UnsetIsUnsetOf ==
  ASSUME heap \in [Addr -> Cell], CellsOK(heap),
         NEW a \in Addr, heap[a].kind # "ref", ~Fixed(heap[a]), a \notin Immutable,
         NEW i \in DOMAIN heap[a].elems
  PROVE  UnsetOf(Unset(heap, a, i))
<1> DEFINE es == heap[a].elems
           e  == [es[i] EXCEPT !.v = Undef]
           fs == [es EXCEPT ![i] = e]
           c  == [heap[a] EXCEPT !.elems = fs]
           H  == [heap EXCEPT ![a] = c]
           E  == [k : Key \cup {Null}, v : Zval]
<1>1. es \in Seq(E) /\ i \in 1..Len(es)
  BY LenProperties DEF Cell, Elems
<1>2. es[i] \in E /\ e \in E /\ e.v = Undef
  <2>1. es[i] \in E
    BY <1>1, ElementOfSeq
  <2>2. Undef \in Zval
    BY DEF Zval
  <2>3. QED
    BY <2>1, <2>2
<1>3. /\ fs \in Seq(E) /\ Len(fs) = Len(es) /\ DOMAIN fs = DOMAIN es
      /\ \A j \in DOMAIN es : fs[j] = IF j = i THEN e ELSE es[j]
  BY <1>1, <1>2, ExceptSeq, LenProperties
<1>4. c \in Cell /\ c.kind = heap[a].kind /\ c.cls = heap[a].cls /\ c.elems = fs
  <2>1. heap[a] \in Cell /\ fs \in Elems
    BY <1>3 DEF Elems
  <2>2. QED
    BY <2>1 DEF Cell
<1>5. Pointers(c) \subseteq Pointers(heap[a])
  BY SMTT(30), <1>2, <1>3, <1>4 DEF Pointers, Undef, Counted
<1>6. H \in [Addr -> Cell] /\ H[a] = c /\ \A b \in Addr \ {a} : H[b] = heap[b]
  BY <1>4
<1>7. CellsOK(H)
  <2>1. Keyed(c)
    <3>1. e.k = es[i].k
      BY <1>2
    <3> HIDE DEF e, fs
    <3> QED
      BY <1>3, <1>4, <3>1 DEF CellsOK, Keyed
  <2>2. \A b \in Addr : Keyed(H[b])
    BY <1>6, <2>1 DEF CellsOK
  <2> QED
    BY <1>3, <1>4, <1>6, <2>2, ValuesAssumption DEF CellsOK, Fixed, Targets
<1>8. Unset(heap, a, i) = H
  BY DEF Unset
<1>9. QED
  BY <1>3, <1>4, <1>5, <1>6, <1>7, <1>8 DEF UnsetOf

LEMMA UnsetsAreUnsetOf ==
  ASSUME heap \in [Addr -> Cell], CellsOK(heap), NEW held,
         PointersOK(heap, Live(heap, held)), "assign" \notin RefWrites,
         NEW H \in Unsets(held)
  PROVE  UnsetOf(H)
<1>1. CASE H = heap
  BY <1>1 DEF UnsetOf
<1>2. ASSUME NEW a \in Writable(heap, held), NEW i \in DOMAIN heap[a].elems,
             H = Unset(heap, a, i)
      PROVE  UnsetOf(H)
  <2>1. a \in Addr /\ heap[a].kind = "obj" /\ ~Fixed(heap[a])
    BY HeldAreLive DEF Writable
  <2>2. QED
    BY <1>2, <2>1, UnsetIsUnsetOf DEF CellsOK
<1>3. ASSUME NEW a \in InPlace(heap, held), NEW i \in DOMAIN heap[a].elems,
             H = Unset(heap, a, i)
      PROVE  UnsetOf(H)
  <2>1. PICK r \in LiveRefs(heap, held) :
               heap[r].elems[1].v = Arr(a) /\ OnlyHolder(heap, held, r, a)
    BY DEF InPlace
  <2>2. r \in Live(heap, held) /\ r \in Addr /\ heap[r].kind = "ref"
    BY HeldAreLive DEF LiveRefs
  <2>3. Arr(a) \in Pointers(heap[r])
    <3>1. Len(heap[r].elems) = 1 /\ heap[r].elems \in Elems
      BY <2>2 DEF CellsOK, Cell
    <3>2. 1 \in DOMAIN heap[r].elems
      BY <3>1, LenProperties DEF Elems
    <3>3. QED
      BY <2>1, <3>2 DEF Pointers, Arr, Counted
  <2>4. heap[a].kind = "arr"
    BY <2>2, <2>3 DEF PointersOK, PointsAt, Arr, Counted
  <2>5. QED
    BY <1>3, <2>1, <2>4, UnsetIsUnsetOf DEF InPlace, OnlyHolder, Fixed
<1>4. QED
  BY <1>1, <1>2, <1>3 DEF Unsets, UnsetsIn

(***************************************************************************)
(* ... and what it returns it allocates where nothing alive is.            *)
(***************************************************************************)
AllocatedIn(G, new, ret, H, held) ==
    LET live == Live(H, held)
    IN  /\ G \in [Addr -> Cell] /\ CellsOK(G)
        /\ \A a \in live : G[a] = H[a] /\ a \notin new
        /\ new \subseteq Addr /\ ret \in live \cup new
        /\ \A a \in new : \A z \in Pointers(G[a]) :
              z.v \in live \cup new /\ PointsAt(G, z)

LEMMA ArrayOfOne ==
  ASSUME NEW k \in Key, NEW z \in Zval
  PROVE  /\ Holding(k, z) \in Cell /\ Holding(k, z).kind = "arr"
         /\ Pointers(Holding(k, z)) \subseteq {z} /\ Keyed(Holding(k, z))
<1> DEFINE E  == [k : Key \cup {Null}, v : Zval]
           es == << Elem(k, z) >>
<1>1. Elem(k, z) \in E
  BY DEF Elem
<1>2. es \in Seq(E) /\ DOMAIN es = {1} /\ es[1].v = z
  BY <1>1 DEF Elem
<1>3. ArrCell(es) \in Cell /\ ArrCell(es).kind = "arr" /\ ArrCell(es).elems = es
  BY <1>2 DEF ArrCell, Cell, Elems, Counted
<1>4. Pointers(ArrCell(es)) \subseteq {z}
  BY <1>2, <1>3 DEF Pointers
<1>5. Keyed(ArrCell(es))
  BY <1>2, <1>3 DEF Keyed, Elem
<1>6. QED
  BY <1>3, <1>4, <1>5 DEF Holding

LEMMA TemporariesAreArrays ==
  ASSUME NEW H, NEW live \in SUBSET Addr, NEW c \in Temporaries(H, live)
  PROVE  /\ c \in Cell /\ c.kind = "arr" /\ Keyed(c)
         /\ \A z \in Pointers(c) : z.v \in live /\ PointsAt(H, z)
<1>1. CASE c = ArrCell(<< >>)
  <2>1. << >> \in Elems /\ DOMAIN << >> = {}
    BY DEF Elems
  <2>2. c \in Cell /\ c.kind = "arr" /\ c.elems = << >>
    BY <1>1, <2>1 DEF ArrCell, Cell, Counted
  <2>3. QED
    BY <2>1, <2>2 DEF Pointers, Keyed
<1>2. ASSUME NEW k \in TempKeys, NEW o \in live, H[o].kind = "obj", c = Holding(k, Obj(o))
      PROVE  /\ c \in Cell /\ c.kind = "arr" /\ Keyed(c)
             /\ \A z \in Pointers(c) : z.v \in live /\ PointsAt(H, z)
  <2>1. Obj(o) \in Zval
    BY DEF Zval, Obj, Counted
  <2>2. c \in Cell /\ c.kind = "arr" /\ Keyed(c) /\ Pointers(c) \subseteq {Obj(o)}
    BY <1>2, <2>1, ArrayOfOne, SerializeAssumption
  <2>3. QED
    BY <1>2, <2>2 DEF PointsAt, Obj
<1>3. QED
  BY <1>1, <1>2 DEF Temporaries

LEMMA TemporaryIsAllocated ==
  ASSUME NEW H \in [Addr -> Cell], CellsOK(H), NEW held,
         NEW t \in Addr \ Live(H, held), NEW c \in Temporaries(H, Live(H, held))
  PROVE  AllocatedIn([H EXCEPT ![t] = c], {t}, t, H, held)
<1> DEFINE live == Live(H, held)
           G    == [H EXCEPT ![t] = c]
<1>1. live \subseteq Addr /\ Immutable \subseteq live
  BY HeldAreLive
<1>2. /\ c \in Cell /\ c.kind = "arr" /\ Keyed(c)
      /\ \A z \in Pointers(c) : z.v \in live /\ PointsAt(H, z)
  BY <1>1, TemporariesAreArrays
<1>3. G \in [Addr -> Cell] /\ G[t] = c /\ \A a \in Addr \ {t} : G[a] = H[a]
  BY <1>2
<1>4. \A a \in Addr :
        /\ Keyed(G[a])
        /\ G[a].kind = "obj" => G[a].cls \in Class
        /\ G[a].kind = "ref" \/ Fixed(G[a]) => Len(G[a].elems) = 1
        /\ G[a].kind = "ref" => G[a].elems[1].v.t # "ref"
  BY <1>2, <1>3 DEF CellsOK, Fixed
<1>5. \A a \in Immutable : a \in Addr /\ G[a] = H[a]
  BY <1>1, <1>3
<1>6. CellsOK(G)
  BY <1>4, <1>5 DEF CellsOK, Targets
<1>7. \A z \in Pointers(c) : z.v \in live \cup {t} /\ PointsAt(G, z)
  BY <1>1, <1>2, <1>3 DEF PointsAt
<1>8. QED
  BY <1>1, <1>3, <1>6, <1>7 DEF AllocatedIn

LEMMA PairIsAllocated ==
  ASSUME NEW H \in [Addr -> Cell], CellsOK(H), NEW held,
         NEW t \in Addr \ Live(H, held), NEW u \in (Addr \ Live(H, held)) \ {t},
         NEW k \in TempKeys, NEW c \in TempCells
  PROVE  AllocatedIn(WithCell(H, t, u, k, c), {t, u}, t, H, held)
<1> DEFINE live == Live(H, held)
           G    == WithCell(H, t, u, k, c)
           z    == [t |-> c.kind, v |-> u]
           b    == Holding(k, z)
<1>1. live \subseteq Addr /\ Immutable \subseteq live
  BY HeldAreLive
<1>2. /\ c \in Cell /\ c.kind \in {"arr", "obj"} /\ ~Fixed(c) /\ Pointers(c) = {}
      /\ c.kind = "obj" => c.cls \in Class
      /\ Keyed(c)
  BY SerializeAssumption DEF Fixed
<1>3. z \in Zval
  BY <1>2 DEF Zval, Counted
<1>4. b \in Cell /\ b.kind = "arr" /\ Pointers(b) \subseteq {z} /\ Keyed(b)
  BY <1>3, ArrayOfOne, SerializeAssumption
<1>5. /\ G \in [Addr -> Cell] /\ G[t] = b /\ G[u] = c
      /\ \A a \in Addr \ {t, u} : G[a] = H[a]
  BY <1>2, <1>4 DEF WithCell
<1>6. \A a \in Addr :
        /\ Keyed(G[a])
        /\ G[a].kind = "obj" => G[a].cls \in Class
        /\ G[a].kind = "ref" \/ Fixed(G[a]) => Len(G[a].elems) = 1
        /\ G[a].kind = "ref" => G[a].elems[1].v.t # "ref"
  BY <1>2, <1>4, <1>5 DEF CellsOK, Fixed
<1>7. \A a \in Immutable : a \in Addr /\ G[a] = H[a]
  BY <1>1, <1>5
<1>8. CellsOK(G)
  BY <1>6, <1>7 DEF CellsOK, Targets
<1>9. QED
  BY <1>1, <1>2, <1>4, <1>5, <1>8 DEF AllocatedIn, PointsAt

(***************************************************************************)
(* Types of items, tokens and of what a step computes.                     *)
(***************************************************************************)
LEMMA ItemTypes ==
  ASSUME NEW it \in Item
  PROVE  /\ it.op = "zval"  => it.z \in Zval
         /\ it.op = "table" => it.h \in Addr /\ it.i \in Nat /\ it.n \in Nat /\ it.left \in Int
         /\ it.op = "sleep" => it.o \in Addr /\ it.names \in Seq(Str \cup {NoVal})
         /\ it.op = "dtor"  => it.a \in Addr
BY DEF Item

LEMMA TopIsItem ==
  ASSUME TypeOK, todo # << >>
  PROVE  /\ Head(todo) \in Item /\ Head(todo) = todo[1] /\ 1 \in DOMAIN todo
         /\ Len(todo) \in Nat \ {0} /\ DOMAIN todo = 1..Len(todo)
         /\ Tail(todo) \in Seq(Item) /\ Len(Tail(todo)) = Len(todo) - 1
         /\ \A j \in 1..(Len(todo) - 1) : Tail(todo)[j] = todo[j + 1]
<1>1. todo \in Seq(Item)
  BY DEF TypeOK
<1>2. QED
  BY <1>1, HeadTailProperties, LenProperties, EmptySeq, ElementOfSeq

LEMMA ScalarTyped ==
  ASSUME NEW z \in Zval
  PROVE  /\ z.t = "long" => z.v \in Ints
         /\ z.t = "str" => z.v \in Str
         /\ z.t \in Counted => z.v \in Addr
         /\ z.t \in Counted \cup {"null", "undef", "long", "str"}
BY DEF Zval, Null, Undef, Key, Counted

LEMMA CellTyped ==
  ASSUME NEW c \in Cell
  PROVE  /\ c.elems \in Seq([k : Key \cup {Null}, v : Zval])
         /\ Len(c.elems) \in Nat /\ DOMAIN c.elems = 1..Len(c.elems)
         /\ \A i \in DOMAIN c.elems : c.elems[i].k \in Key \cup {Null} /\ c.elems[i].v \in Zval
         /\ \A i \in DOMAIN c.elems : c.elems[i].v.t \in Counted => c.elems[i].v \in Pointers(c)
         /\ Count(c) \in Nat
<1> DEFINE E == [k : Key \cup {Null}, v : Zval]
<1>1. c.elems \in Seq(E)
  BY DEF Cell, Elems
<1>2. Len(c.elems) \in Nat /\ DOMAIN c.elems = 1..Len(c.elems) /\ \A i \in DOMAIN c.elems : c.elems[i] \in E
  BY <1>1, LenProperties, ElementOfSeq
<1>3. \A i \in DOMAIN c.elems : c.elems[i].v.t \in Counted => c.elems[i].v \in Pointers(c)
  BY DEF Pointers
<1>4. Count(c) \in Nat
  <2> DEFINE set == {i \in DOMAIN c.elems : c.elems[i].v # Undef}
  <2>1. IsFiniteSet(set)
    <3>1. IsFiniteSet(1..Len(c.elems)) /\ set \in SUBSET (1..Len(c.elems))
      BY <1>2, FS_Interval
    <3>2. QED
      BY <3>1, FS_Subset
  <2>2. QED
    BY <1>2, <2>1, FS_CardinalityType, LenProperties DEF Count
<1>5. QED
  BY <1>1, <1>2, <1>3, <1>4

LEMMA TokTyped ==
  ASSUME NEW tag \in Tags, NEW v \in Nat \cup Ints \cup Str \cup {NoVal},
         NEW src \in (Addr \X Nat) \cup Str \cup {NoVal}
  PROVE  Tok(tag, v, src) \in Token
BY DEF Tok, Token

LEMMA EmitTyped ==
  ASSUME TypeOK, NEW toks \in Seq(Token), Emit(toks)
  PROVE  buffer' \in Seq(Token)
BY ConcatProperties DEF TypeOK, Emit

LEMMA DoTyped ==
  ASSUME TypeOK, todo # << >>, NEW items \in Seq(Item), Do(items)
  PROVE  /\ todo' \in Seq(Item) /\ DOMAIN todo' = 1..Len(todo')
         /\ Len(items) \in Nat /\ Len(todo') = Len(items) + Len(todo) - 1
         /\ \A k \in 1..Len(items) : todo'[k] = items[k] /\ items[k] \in Item
         /\ \A k \in (Len(items) + 1)..Len(todo') : todo'[k] = todo[k - Len(items) + 1]
         /\ \A j \in 2..Len(todo) : todo'[j + Len(items) - 1] = todo[j]
<1>1. /\ Tail(todo) \in Seq(Item) /\ Len(Tail(todo)) = Len(todo) - 1 /\ Len(todo) \in Nat \ {0}
      /\ \A j \in 1..(Len(todo) - 1) : Tail(todo)[j] = todo[j + 1]
  BY TopIsItem
<1>2. /\ todo' \in Seq(Item) /\ Len(todo') = Len(items) + Len(Tail(todo))
      /\ \A i \in 1..(Len(items) + Len(Tail(todo))) :
           todo'[i] = IF i <= Len(items) THEN items[i] ELSE Tail(todo)[i - Len(items)]
  BY <1>1, ConcatProperties DEF Do
<1>3. Len(items) \in Nat /\ DOMAIN todo' = 1..Len(todo')
      /\ \A k \in 1..Len(items) : items[k] \in Item
  BY <1>2, LenProperties, ElementOfSeq
<1>4. \A k \in (Len(items) + 1)..Len(todo') : todo'[k] = todo[k - Len(items) + 1]
  <2> TAKE k \in (Len(items) + 1)..Len(todo')
  <2>1. k \in 1..(Len(items) + Len(Tail(todo))) /\ ~(k <= Len(items))
    BY <1>1, <1>2, <1>3
  <2>2. k - Len(items) \in 1..(Len(todo) - 1)
    BY <1>1, <1>2, <1>3
  <2>3. QED
    BY <1>1, <1>2, <2>1, <2>2
<1>5. \A j \in 2..Len(todo) : todo'[j + Len(items) - 1] = todo[j]
  <2> TAKE j \in 2..Len(todo)
  <2>1. j + Len(items) - 1 \in (Len(items) + 1)..Len(todo')
    BY <1>1, <1>2, <1>3
  <2>2. (j + Len(items) - 1) - Len(items) + 1 = j
    BY <1>1, <1>3
  <2>3. QED
    BY <1>4, <2>1, <2>2
<1>6. QED
  BY <1>1, <1>2, <1>3, <1>4, <1>5

(***************************************************************************)
(* The inductive invariant.  A table that is iterated is held: by the      *)
(* tracker, by a release still to come, or through a tracked reference to  *)
(* it; and a pointer waits in the agenda only behind its key, while no     *)
(* user code can run.                                                      *)
(***************************************************************************)
IsPointer(it) == it.op = "zval" /\ it.z.t \in Counted
IsKey(it)     == it.op = "zval" /\ it.z.t \notin Counted

BoxedIn(h, r) == heap[r].kind = "ref" /\ heap[r].elems[1].v = Arr(h)
Anchored(h, i) ==
    \/ h \in tracked \cup Immutable
    \/ \E j \in DOMAIN todo : j > i /\ todo[j] = Dtor(h)
    \/ \E r \in tracked : BoxedIn(h, r)

ItemInv(i) ==
    LET it == todo[i]
    IN  /\ IsPointer(it) => /\ i = 1 \/ (i = 2 /\ IsKey(todo[1]))
                            /\ it.z.v \in Live(heap, Held) /\ PointsAt(heap, it.z)
        /\ it.op = "table" => it.i >= 1 /\ it.n <= Len(heap[it.h].elems) /\ Anchored(it.h, i)
        /\ it.op = "sleep" => it.o \in tracked \cup Immutable /\ it.names # << >>
AgendaInv == \A i \in DOMAIN todo : ItemInv(i)

HeapInv  == CellsOK(heap) /\ PointersOK(heap, Live(heap, Held))
FiledInv == /\ \A a \in Addr : references[a] # NoId => a \in tracked \cup Immutable
            /\ NoStaleKey

WalkInv == TypeOK /\ HeapInv /\ AgendaInv /\ FiledInv

\* what a step must say of the items it puts on the agenda
NewItemInv(items, k) ==
    LET it == items[k]
    IN  /\ IsPointer(it) => /\ k = 1 \/ (k = 2 /\ IsKey(items[1]))
                            /\ it.z.v \in Live(heap, Held)' /\ PointsAt(heap', it.z)
        /\ it.op = "table" => /\ it.i >= 1 /\ it.n <= Len(heap'[it.h].elems)
                              /\ \/ Anchored(it.h, 1)
                                 \/ it.h \in tracked' \cup Immutable
                                 \/ \E j \in 1..Len(items) : j > k /\ items[j] = Dtor(it.h)
                                 \/ \E r \in tracked' : BoxedIn(it.h, r)'
        /\ it.op = "sleep" => it.o \in tracked' \cup Immutable /\ it.names # << >>

LEMMA AgendaStep ==
  ASSUME TypeOK, AgendaInv, todo # << >>,
         NEW items \in Seq(Item), Do(items),
         tracked \subseteq tracked', tracked' \subseteq Addr,
         \A r \in tracked : heap[r].kind = "ref" => heap'[r] = heap[r],
         \A h \in Addr : Anchored(h, 1) => Len(heap'[h].elems) = Len(heap[h].elems),
         ~IsKey(todo[1]) \/ (items = << >> /\ heap' = heap /\ Held \subseteq Held'),
         \A k \in 1..Len(items) : NewItemInv(items, k)
  PROVE  AgendaInv'
<1>1. /\ todo' \in Seq(Item) /\ DOMAIN todo' = 1..Len(todo')
      /\ Len(items) \in Nat /\ Len(todo') = Len(items) + Len(todo) - 1
      /\ \A k \in 1..Len(items) : todo'[k] = items[k] /\ items[k] \in Item
      /\ \A k \in (Len(items) + 1)..Len(todo') : todo'[k] = todo[k - Len(items) + 1]
      /\ \A j \in 2..Len(todo) : todo'[j + Len(items) - 1] = todo[j]
  BY DoTyped
<1>2. DOMAIN todo = 1..Len(todo) /\ Len(todo) \in Nat \ {0}
  BY TopIsItem
<1>3. \A i \in DOMAIN todo : todo[i] \in Item
  BY ElementOfSeq, <1>2 DEF TypeOK
<1>4. ASSUME NEW h \in Addr, NEW i \in 1..Len(todo), Anchored(h, i),
             NEW k \in 1..Len(todo'), i > 1 => k = i + Len(items) - 1,
             i = 1 => k <= Len(items)
      PROVE  Anchored(h, k)'
  <2>1. CASE h \in tracked \cup Immutable
    BY <2>1 DEF Anchored
  <2>2. CASE \E j \in DOMAIN todo : j > i /\ todo[j] = Dtor(h)
    <3>1. PICK j \in DOMAIN todo : j > i /\ todo[j] = Dtor(h)
      BY <2>2
    <3>2. j \in 2..Len(todo) /\ todo'[j + Len(items) - 1] = todo[j]
      BY SMTT(30), <1>1, <1>2, <3>1
    <3>3. j + Len(items) - 1 > k /\ j + Len(items) - 1 \in DOMAIN todo'
      BY SMTT(30), <1>1, <1>2, <1>4, <3>1, <3>2
    <3>4. QED
      BY <3>1, <3>2, <3>3 DEF Anchored
  <2>3. CASE \E r \in tracked : BoxedIn(h, r)
    BY <2>3 DEF Anchored, BoxedIn
  <2>4. QED
    BY <1>4, <2>1, <2>2, <2>3 DEF Anchored
<1>5. ASSUME NEW k \in 1..Len(items)
      PROVE  ItemInv(k)'
  <2>1. k \in 1..Len(todo') /\ todo'[k] = items[k] /\ NewItemInv(items, k) /\ items[k] \in Item
    BY <1>1, <1>2
  <2>2. items[k].op = "table" => Anchored(items[k].h, k)'
    <3> SUFFICES ASSUME items[k].op = "table" PROVE Anchored(items[k].h, k)'
      OBVIOUS
    <3>1. items[k].h \in Addr
      BY <2>1, ItemTypes
    <3>2. CASE Anchored(items[k].h, 1)
      BY <1>2, <1>4, <2>1, <3>1, <3>2
    <3>3. CASE items[k].h \in tracked' \cup Immutable
      BY <3>3 DEF Anchored
    <3>4. ASSUME NEW j \in 1..Len(items), j > k, items[j] = Dtor(items[k].h)
          PROVE  Anchored(items[k].h, k)'
      BY SMTT(30), <1>1, <1>2, <3>4 DEF Anchored
    <3>5. CASE \E r \in tracked' : BoxedIn(items[k].h, r)'
      BY <3>5 DEF Anchored
    <3>6. QED
      BY <2>1, <3>2, <3>3, <3>4, <3>5 DEF NewItemInv
  <2>3. todo'[1] = items[1]
    BY SMTT(30), <1>1
  <2>4. QED
    BY <2>1, <2>2, <2>3 DEF ItemInv, NewItemInv
<1>6. ASSUME NEW k \in (Len(items) + 1)..Len(todo')
      PROVE  ItemInv(k)'
  <2> DEFINE i == k - Len(items) + 1
  <2>0. i \in 2..Len(todo) /\ k = i + Len(items) - 1 /\ k \in 1..Len(todo')
    BY <1>1, <1>2
  <2>1. PICK it \in Item : it = todo[i]
    BY <1>2, <1>3, <2>0
  <2>2. i \in DOMAIN todo /\ todo'[k] = it /\ ItemInv(i)
    <3>1. i \in DOMAIN todo
      BY <1>2, <2>0
    <3>2. todo'[k] = todo[i]
      BY <1>1
    <3>3. QED
      BY <2>1, <3>1, <3>2 DEF AgendaInv
  <2>3. it.op = "table" => Anchored(it.h, k)' /\ it.n <= Len(heap'[it.h].elems)
    <3> SUFFICES ASSUME it.op = "table"
                 PROVE  Anchored(it.h, k)' /\ it.n <= Len(heap'[it.h].elems)
      OBVIOUS
    <3>1. it.h \in Addr /\ Anchored(it.h, i) /\ it.n <= Len(heap[it.h].elems)
      BY <2>1, <2>2, ItemTypes DEF ItemInv
    <3>2. Anchored(it.h, 1)
      BY <1>2, <2>0, <3>1 DEF Anchored
    <3>3. Anchored(it.h, k)'
      <4> HIDE DEF i
      <4>1. i \in 1..Len(todo) /\ i # 1
        BY <1>2, <2>0
      <4>2. QED
        BY <1>4, <2>0, <3>1, <4>1
    <3>4. QED
      BY <3>1, <3>2, <3>3
  <2>4. IsPointer(it) => k = 1 /\ it.z.v \in Live(heap, Held)' /\ PointsAt(heap', it.z)
    <3> SUFFICES ASSUME IsPointer(it)
                 PROVE  k = 1 /\ it.z.v \in Live(heap, Held)' /\ PointsAt(heap', it.z)
      OBVIOUS
    <3>1. i = 2 /\ IsKey(todo[1])
      BY <2>0, <2>1, <2>2 DEF ItemInv
    <3>2. items = << >> /\ heap' = heap /\ Held \subseteq Held'
      BY <3>1
    <3>3. k = 1
      BY <1>1, <2>0, <3>1, <3>2
    <3>4. Live(heap, Held) \subseteq Live(heap, Held)'
      BY <3>2 DEF Live, Closure
    <3>5. QED
      BY <2>1, <2>2, <3>2, <3>3, <3>4 DEF ItemInv
  <2>5. it.op = "sleep" => it.o \in tracked' \cup Immutable /\ it.names # << >>
    BY <2>1, <2>2 DEF ItemInv
  <2>6. it.op = "table" => it.i >= 1
    BY <2>1, <2>2 DEF ItemInv
  <2>7. QED
    BY <2>2, <2>3, <2>4, <2>5, <2>6 DEF ItemInv
<1>7. QED
  BY <1>1, <1>5, <1>6 DEF AgendaInv

LEMMA HeapStep ==
  ASSUME TypeOK, HeapInv, heap' = heap, Held' \cap Addr \subseteq Live(heap, Held)
  PROVE  HeapInv'
<1> DEFINE A == Live(heap, Held)
<1>1. A \subseteq Addr /\ Immutable \subseteq A
  BY HeldAreLive
<1>2. Closed(heap, A)
  BY LiveIsClosed DEF TypeOK, HeapInv, Closed
<1>3. Live(heap, Held') \subseteq A
  BY <1>1, <1>2, LiveIsLeast
<1>4. PointersOK(heap, Live(heap, Held'))
  BY <1>3 DEF HeapInv, PointersOK
<1>5. QED
  BY <1>4 DEF HeapInv

LEMMA HeldStep ==
  ASSUME TypeOK, todo # << >>, NEW items \in Seq(Item), Do(items), root' = root,
         NEW W, tracked' \subseteq tracked \cup W,
         \A k \in 1..Len(items) : items[k].op = "dtor" => items[k].a \in W
  PROVE  /\ Held' \subseteq Held \cup W
         /\ todo[1].op # "dtor" /\ tracked \subseteq tracked' => Held \subseteq Held'
<1>1. /\ DOMAIN todo' = 1..Len(todo')
      /\ Len(items) \in Nat /\ Len(todo') = Len(items) + Len(todo) - 1
      /\ \A k \in 1..Len(items) : todo'[k] = items[k]
      /\ \A k \in (Len(items) + 1)..Len(todo') : todo'[k] = todo[k - Len(items) + 1]
      /\ \A j \in 2..Len(todo) : todo'[j + Len(items) - 1] = todo[j]
  BY DoTyped
<1>2. DOMAIN todo = 1..Len(todo) /\ Len(todo) \in Nat \ {0}
  BY TopIsItem
<1>3. ASSUME NEW k \in DOMAIN todo', todo'[k].op = "dtor"
      PROVE  todo'[k].a \in Held \cup W
  <2>1. CASE k \in 1..Len(items)
    BY <1>1, <1>3, <2>1
  <2>2. CASE k \in (Len(items) + 1)..Len(todo')
    <3>1. k - Len(items) + 1 \in DOMAIN todo
      BY <1>1, <1>2, <2>2
    <3>2. todo'[k] = todo[k - Len(items) + 1]
      BY <1>1, <2>2
    <3>3. QED
      BY <1>3, <3>1, <3>2 DEF Held
  <2>3. QED
    BY <1>1, <2>1, <2>2
<1>4. ASSUME todo[1].op # "dtor", NEW j \in DOMAIN todo, todo[j].op = "dtor"
      PROVE  todo[j].a \in Held'
  <2>1. j \in 2..Len(todo)
    BY <1>2, <1>4
  <2>2. j + Len(items) - 1 \in DOMAIN todo' /\ todo'[j + Len(items) - 1] = todo[j]
    BY <1>1, <1>2, <2>1
  <2>3. QED
    BY <1>4, <2>2 DEF Held
<1>5. Held' \subseteq Held \cup W
  BY <1>3 DEF Held
<1>6. todo[1].op # "dtor" /\ tracked \subseteq tracked' => Held \subseteq Held'
  BY <1>4 DEF Held
<1>7. QED
  BY <1>5, <1>6

(***************************************************************************)
(* Steps that leave the heap alone.                                        *)
(***************************************************************************)
LEMMA QuietStep ==
  ASSUME WalkInv, todo # << >>, NEW items \in Seq(Item), Do(items),
         UNCHANGED << heap, root >>,
         tracked \subseteq tracked', tracked' \subseteq tracked \cup Live(heap, Held),
         ~IsKey(todo[1]) \/ items = << >>,
         \A k \in 1..Len(items) : items[k].op # "dtor" /\ NewItemInv(items, k)
  PROVE  HeapInv' /\ AgendaInv' /\ todo' \in Seq(Item)
<1>1. /\ Held' \subseteq Held \cup Live(heap, Held)
      /\ todo[1].op # "dtor" => Held \subseteq Held'
  BY HeldStep DEF WalkInv
<1>2. Held \cap Addr \subseteq Live(heap, Held) /\ Live(heap, Held) \subseteq Addr
  BY HeldAreLive
<1>3. HeapInv'
  BY <1>1, <1>2, HeapStep DEF WalkInv
<1>4. tracked' \subseteq Addr
  BY <1>2 DEF WalkInv, TypeOK
<1>5. IsKey(todo[1]) => todo[1].op # "dtor"
  BY DEF IsKey
<1>6. AgendaInv'
  BY <1>1, <1>4, <1>5, AgendaStep DEF WalkInv
<1>7. QED
  BY <1>3, <1>6, DoTyped DEF WalkInv

\* a step that files no reference
LEMMA PlainStep ==
  ASSUME WalkInv, todo # << >>, NEW items \in Seq(Item), Do(items),
         UNCHANGED << heap, root, compact, references, references_id, tracked, status, ghosts >>,
         buffer' \in Seq(Token),
         strings' \in [Str -> Nat \cup {NoId}], string_count' \in Nat,
         ~IsKey(todo[1]) \/ items = << >>,
         \A k \in 1..Len(items) : items[k].op # "dtor" /\ NewItemInv(items, k)
  PROVE  WalkInv'
<1>1. HeapInv' /\ AgendaInv' /\ todo' \in Seq(Item)
  BY QuietStep
<1>2. TypeOK'
  BY <1>1 DEF WalkInv, TypeOK, ghosts
<1>3. FiledInv'
  BY DEF WalkInv, FiledInv, NoStaleKey, ghosts
<1>4. QED
  BY <1>1, <1>2, <1>3 DEF WalkInv

LEMMA FileRefFacts ==
  ASSUME WalkInv, NEW z, z.v \in Live(heap, Held), FileRef(z)
  PROVE  /\ references' \in [Addr \cup {InvalidKey} -> Nat \cup {NoId}]
         /\ references_id' \in Nat /\ keyed' \in [Addr -> Nat]
         /\ tracked \subseteq tracked' /\ tracked' \subseteq tracked \cup Live(heap, Held)
         /\ tracked' \subseteq tracked \cup {z.v}
         /\ z.v \in tracked' \cup Immutable /\ tracked' \subseteq Addr
<1>1. z.v \in Addr
  BY HeldAreLive
<1>2. /\ references' \in [Addr \cup {InvalidKey} -> Nat \cup {NoId}]
      /\ references_id' \in Nat
  <2>1. /\ references \in [Addr \cup {InvalidKey} -> Nat \cup {NoId}] /\ references_id \in Nat
    BY DEF WalkInv, TypeOK
  <2>2. /\ references' = [references EXCEPT ![KeyOf(z)] = references_id]
        /\ references_id' = references_id + 1
    BY DEF FileRef
  <2>3. references_id \in Nat \cup {NoId} /\ references_id + 1 \in Nat
    BY <2>1
  <2> DEFINE key == KeyOf(z)
  <2> HIDE DEF key
  <2>4. [references EXCEPT ![key] = references_id] \in [Addr \cup {InvalidKey} -> Nat \cup {NoId}]
    BY <2>1, <2>3
  <2>5. QED
    BY <2>2, <2>3, <2>4 DEF key
<1>3. keyed' \in [Addr -> Nat]
  BY <1>1 DEF WalkInv, TypeOK, FileRef
<1>4. tracked' = tracked \/ tracked' = tracked \cup {z.v}
  BY DEF FileRef, Hold
<1>5. z.v \in tracked' \cup Immutable
  BY DEF FileRef, Hold
<1>6. tracked \subseteq Addr
  BY DEF WalkInv, TypeOK
<1>7. QED
  BY <1>1, <1>2, <1>3, <1>4, <1>5, <1>6

\* what has been filed keeps its address as long as nothing that is held, or
\* is being filed, is reallocated
LEMMA FiledStep ==
  ASSUME WalkInv, NEW z, z.v \in Live(heap, Held), FileRef(z), birth' \in [Addr -> Nat],
         \A a \in tracked \cup Immutable \cup {z.v} : birth'[a] = birth[a]
  PROVE  FiledInv'
<1>1. z.v \in Addr
  BY HeldAreLive
<1>2. ASSUME NEW a \in Addr, references'[a] # NoId
      PROVE  a \in tracked' \cup Immutable /\ keyed'[a] = birth'[a]
  <2>1. CASE a = z.v /\ KeyOf(z) = z.v
    BY <1>1, <2>1 DEF FileRef, Hold, WalkInv, TypeOK
  <2>2. CASE a # KeyOf(z)
    <3>1. references[a] # NoId
      BY <1>2, <2>2 DEF FileRef, WalkInv, TypeOK
    <3>2. a \in tracked \cup Immutable /\ keyed[a] = birth[a]
      BY <3>1 DEF WalkInv, FiledInv, NoStaleKey
    <3>3. QED
      BY <1>1, <3>2 DEF FileRef, Hold, WalkInv, TypeOK
  <2>3. CASE a = KeyOf(z) /\ KeyOf(z) # z.v
    BY <2>3, SerializeAssumption DEF KeyOf
  <2>4. QED
    BY <2>1, <2>2, <2>3
<1>3. QED
  BY <1>2 DEF FiledInv, NoStaleKey

\* a step that files a reference and runs no user code
LEMMA FilingStep ==
  ASSUME WalkInv, todo # << >>, NEW z, z.v \in Live(heap, Held), FileRef(z),
         NEW items \in Seq(Item), Do(items),
         UNCHANGED << heap, root, compact, status, birth >>,
         buffer' \in Seq(Token),
         strings' \in [Str -> Nat \cup {NoId}], string_count' \in Nat,
         ~IsKey(todo[1]),
         \A k \in 1..Len(items) : items[k].op # "dtor" /\ NewItemInv(items, k)
  PROVE  WalkInv'
<1>1. /\ references' \in [Addr \cup {InvalidKey} -> Nat \cup {NoId}]
      /\ references_id' \in Nat /\ keyed' \in [Addr -> Nat]
      /\ tracked \subseteq tracked' /\ tracked' \subseteq tracked \cup Live(heap, Held)
      /\ tracked' \subseteq Addr
  BY FileRefFacts
<1>2. HeapInv' /\ AgendaInv' /\ todo' \in Seq(Item)
  BY <1>1, QuietStep
<1>3. FiledInv'
  BY FiledStep DEF WalkInv, TypeOK
<1>4. TypeOK'
  BY <1>1, <1>2 DEF WalkInv, TypeOK
<1>5. QED
  BY <1>2, <1>3, <1>4 DEF WalkInv

(***************************************************************************)
(* Steps that run user code.  `H' is the heap after its unsets, `heap''    *)
(* the one after its allocations.                                          *)
(***************************************************************************)
UserCode(z, H, new, ret) ==
    /\ H \in Unsets(HeldWith(z.v))
    /\ AllocatedIn(heap', new, ret, H, HeldWith(z.v))
    /\ birth' \in [Addr -> Nat] /\ \A a \in Addr \ new : birth'[a] = birth[a]

LEMMA HeldWithIsLive ==
  ASSUME WalkInv, NEW z, z.v \in Live(heap, Held)
  PROVE  /\ Live(heap, HeldWith(z.v)) \subseteq Live(heap, Held)
         /\ HeldWith(z.v) \cap Addr \subseteq Live(heap, Held)
         /\ Closed(heap, Live(heap, Held))
<1> DEFINE A == Live(heap, Held)
<1>1. A \subseteq Addr /\ Immutable \subseteq A /\ Held \cap Addr \subseteq A
  BY HeldAreLive
<1>2. HeldWith(z.v) \cap Addr \subseteq A
  BY <1>1 DEF HeldWith
<1>3. Closed(heap, A)
  BY LiveIsClosed DEF Closed, WalkInv, TypeOK, HeapInv
<1>4. QED
  BY <1>1, <1>2, <1>3, LiveIsLeast

LEMMA UnsetsWhileHeld ==
  ASSUME WalkInv, NEW z, z.v \in Live(heap, Held), "assign" \notin RefWrites,
         NEW H \in Unsets(HeldWith(z.v))
  PROVE  UnsetOf(H)
<1>1. PointersOK(heap, Live(heap, HeldWith(z.v)))
  BY HeldWithIsLive DEF WalkInv, HeapInv, PointersOK
<1>2. QED
  BY <1>1, UnsetsAreUnsetOf DEF WalkInv, TypeOK, HeapInv

LEMMA UserHeap ==
  ASSUME WalkInv, NEW z, z.v \in Live(heap, Held), "assign" \notin RefWrites,
         NEW H, NEW new, NEW ret, UserCode(z, H, new, ret)
  PROVE  /\ UnsetOf(H)
         /\ Live(H, HeldWith(z.v)) \subseteq Live(heap, Held)
         /\ Closed(H, Live(H, HeldWith(z.v)))
         /\ tracked \cup Immutable \cup {z.v} \subseteq Live(H, HeldWith(z.v))
<1> DEFINE held == HeldWith(z.v)
           A    == Live(heap, Held)
<1>1. A \subseteq Addr /\ Immutable \subseteq A
  BY HeldAreLive
<1>2. UnsetOf(H)
  BY UnsetsWhileHeld DEF UserCode
<1>3. Closed(heap, A) /\ held \cap Addr \subseteq A
  BY HeldWithIsLive
<1>4. Closed(H, A)
  BY <1>1, <1>2, <1>3 DEF UnsetOf, Closed, Targets
<1>5. Live(H, held) \subseteq A
  BY <1>1, <1>3, <1>4, LiveIsLeast
<1>6. Closed(H, Live(H, held))
  BY <1>2, LiveIsClosed DEF UnsetOf, Closed
<1>7. tracked \cup Immutable \cup {z.v} \subseteq Live(H, held)
  BY <1>1, HeldAreLive DEF HeldWith, Held, WalkInv, TypeOK
<1>8. QED
  BY <1>2, <1>5, <1>6, <1>7

\* what anchors a table keeps it alive through user code
LEMMA AnchoredIsLive ==
  ASSUME WalkInv, NEW z, z.v \in Live(heap, Held), "assign" \notin RefWrites,
         NEW H, NEW new, NEW ret, UserCode(z, H, new, ret),
         NEW h \in Addr, Anchored(h, 1)
  PROVE  h \in Live(H, HeldWith(z.v))
<1> DEFINE live == Live(H, HeldWith(z.v))
<1>1. UnsetOf(H) /\ Closed(H, live) /\ tracked \cup Immutable \subseteq live
  BY UserHeap
<1>2. CASE \E j \in DOMAIN todo : j > 1 /\ todo[j] = Dtor(h)
  <2>1. h \in Held
    BY <1>2 DEF Held, Dtor
  <2>2. QED
    BY <2>1, HeldAreLive DEF HeldWith
<1>3. ASSUME NEW r \in tracked, BoxedIn(h, r)
      PROVE  h \in live
  <2>1. r \in Addr /\ H[r] = heap[r] /\ heap[r] \in Cell
    BY <1>1, <1>3 DEF UnsetOf, BoxedIn, WalkInv, TypeOK
  <2>2. Len(heap[r].elems) = 1
    BY <1>3, <2>1 DEF BoxedIn, WalkInv, HeapInv, CellsOK
  <2>3. Arr(h) \in Pointers(H[r])
    BY <1>3, <2>1, <2>2, CellTyped DEF BoxedIn, Arr, Counted
  <2>4. Arr(h).v = h
    BY DEF Arr
  <2>5. QED
    BY <1>1, <2>3, <2>4 DEF Closed, Targets
<1>4. QED
  BY <1>1, <1>2, <1>3 DEF Anchored

LEMMA UserStep ==
  ASSUME WalkInv, todo # << >>, NEW z, z.v \in Live(heap, Held), FileRef(z),
         "assign" \notin RefWrites,
         NEW H, NEW new, NEW ret, UserCode(z, H, new, ret),
         NEW items \in Seq(Item), Do(items),
         UNCHANGED << root, compact, status >>,
         buffer' \in Seq(Token),
         strings' \in [Str -> Nat \cup {NoId}], string_count' \in Nat,
         ~IsKey(todo[1]),
         \A k \in 1..Len(items) :
            /\ items[k].op = "dtor" => items[k].a = ret
            /\ NewItemInv(items, k)
  PROVE  WalkInv'
<1> DEFINE live == Live(H, HeldWith(z.v))
           A    == live \cup new
<1>1. /\ UnsetOf(H) /\ live \subseteq Live(heap, Held) /\ Closed(H, live)
      /\ tracked \cup Immutable \cup {z.v} \subseteq live
  BY UserHeap
<1>2. /\ references' \in [Addr \cup {InvalidKey} -> Nat \cup {NoId}]
      /\ references_id' \in Nat /\ keyed' \in [Addr -> Nat]
      /\ tracked \subseteq tracked' /\ tracked' \subseteq tracked \cup {z.v}
      /\ tracked' \subseteq Addr
  BY FileRefFacts
<1>3. /\ heap' \in [Addr -> Cell] /\ CellsOK(heap')
      /\ \A a \in live : heap'[a] = H[a] /\ a \notin new
      /\ new \subseteq Addr /\ ret \in A
      /\ \A a \in new : \A y \in Pointers(heap'[a]) : y.v \in A /\ PointsAt(heap', y)
      /\ birth' \in [Addr -> Nat] /\ \A a \in Addr \ new : birth'[a] = birth[a]
  BY DEF UserCode, AllocatedIn
<1>4. live \subseteq Addr /\ Immutable \subseteq live
  BY HeldAreLive
<1>5. HeapInv'
  <2>1. Held' \cap Addr \subseteq A
    <3>1. Held' \subseteq Held \cup {z.v, ret}
      <4>1. tracked' \subseteq tracked \cup {z.v, ret}
        BY <1>2
      <4>2. QED
        BY <4>1, HeldStep DEF WalkInv
    <3>2. Held \cap Addr \subseteq live
      BY HeldAreLive DEF HeldWith
    <3>3. QED
      BY <1>1, <1>3, <3>1, <3>2
  <2>2. Closed(heap', A)
    BY <1>1, <1>3 DEF Closed, Targets
  <2>3. Live(heap', Held') \subseteq A
    BY <1>3, <1>4, <2>1, <2>2, LiveIsLeast
  <2>4. ASSUME NEW a \in live, NEW y \in Pointers(heap'[a])
        PROVE  PointsAt(heap', y)
    <3>1. y \in Pointers(H[a]) /\ y \in Pointers(heap[a]) /\ a \in Live(heap, Held)
      BY <1>1, <1>3, <1>4, <2>4 DEF UnsetOf
    <3>2. PointsAt(heap, y)
      BY <3>1 DEF WalkInv, HeapInv, PointersOK
    <3>3. y.v \in live
      BY <1>1, <3>1 DEF Closed, Targets
    <3>4. heap'[y.v].kind = heap[y.v].kind
      BY <1>1, <1>3, <1>4, <3>3 DEF UnsetOf
    <3>5. QED
      BY <3>2, <3>4 DEF PointsAt
  <2>5. PointersOK(heap', Live(heap', Held'))
    BY <1>3, <2>3, <2>4 DEF PointersOK
  <2>6. QED
    BY <1>3, <2>5 DEF HeapInv
<1>6. AgendaInv'
  <2>1. \A r \in tracked : heap[r].kind = "ref" => heap'[r] = heap[r]
    BY <1>1, <1>3, <1>4 DEF UnsetOf
  <2>2. \A h \in Addr : Anchored(h, 1) => Len(heap'[h].elems) = Len(heap[h].elems)
    BY <1>1, <1>3, AnchoredIsLive DEF UnsetOf
  <2>3. QED
    BY <1>2, <2>1, <2>2, AgendaStep DEF WalkInv
<1>7. FiledInv'
  <2>1. \A a \in tracked \cup Immutable \cup {z.v} : birth'[a] = birth[a]
    BY <1>1, <1>3, <1>4
  <2>2. QED
    BY <1>3, <2>1, FiledStep
<1>8. TypeOK'
  <2>1. todo' \in Seq(Item)
    BY DoTyped DEF WalkInv
  <2>2. QED
    BY <1>2, <1>3, <2>1 DEF WalkInv, TypeOK
<1>9. QED
  BY <1>5, <1>6, <1>7, <1>8 DEF WalkInv

(***************************************************************************)
(* What the head of the agenda is, and what an action puts in its place.   *)
(***************************************************************************)
LEMMA AtHead ==
  ASSUME WalkInv, NEW op, At(op)
  PROVE  /\ todo # << >> /\ status = "running" /\ todo[1] = Head(todo) /\ todo[1].op = op
         /\ todo[1] \in Item /\ 1 \in DOMAIN todo /\ ItemInv(1)
<1>1. todo # << >> /\ status = "running" /\ Head(todo).op = op
  BY DEF At
<1>2. Head(todo) \in Item /\ Head(todo) = todo[1] /\ 1 \in DOMAIN todo
  BY <1>1, TopIsItem DEF WalkInv
<1>3. ItemInv(1)
  BY <1>2 DEF WalkInv, AgendaInv
<1>4. QED
  BY <1>1, <1>2, <1>3

LEMMA AtZvalFacts ==
  ASSUME WalkInv, At("zval")
  PROVE  /\ Z \in Zval
         /\ IsKey(todo[1]) <=> Z.t \notin Counted
         /\ Z.t \in Counted =>
              /\ Z.v \in Live(heap, Held) /\ Z.v \in Addr
              /\ heap[Z.v] \in Cell /\ heap[Z.v].kind = Z.t
<1>1. /\ todo[1] = Head(todo) /\ todo[1].op = "zval"
      /\ todo[1] \in Item /\ ItemInv(1)
  BY AtHead
<1>2. Z \in Zval /\ (IsKey(todo[1]) <=> Z.t \notin Counted)
  BY <1>1, ItemTypes DEF Z, IsKey
<1>3. Z.t \in Counted => Z.v \in Live(heap, Held) /\ PointsAt(heap, Z)
  BY <1>1 DEF ItemInv, IsPointer, Z
<1>4. Z.t \in Counted => Z.v \in Addr /\ heap[Z.v] \in Cell
  BY <1>2, ScalarTyped DEF WalkInv, TypeOK
<1>5. QED
  BY <1>2, <1>3, <1>4 DEF PointsAt

\* an element of a live cell is alive
LEMMA ElementIsLive ==
  ASSUME WalkInv, NEW h \in Live(heap, Held), NEW i \in DOMAIN heap[h].elems
  PROVE  LET z == heap[h].elems[i].v
         IN  /\ z \in Zval /\ heap[h].elems[i].k \in Key \cup {Null}
             /\ z.t \in Counted => z.v \in Live(heap, Held) /\ PointsAt(heap, z)
<1> DEFINE z == heap[h].elems[i].v
<1>1. h \in Addr /\ heap[h] \in Cell
  BY HeldAreLive DEF WalkInv, TypeOK
<1>2. /\ z \in Zval /\ heap[h].elems[i].k \in Key \cup {Null}
      /\ z.t \in Counted => z \in Pointers(heap[h])
  BY <1>1, CellTyped
<1>3. z.t \in Counted => z.v \in Live(heap, Held)
  <2>1. Targets(heap, h) \subseteq Live(heap, Held)
    BY LiveIsClosed DEF WalkInv, TypeOK, HeapInv
  <2>2. QED
    BY <1>2, <2>1 DEF Targets
<1>4. z.t \in Counted => PointsAt(heap, z)
  BY <1>2 DEF WalkInv, HeapInv, PointersOK
<1>5. QED
  BY <1>2, <1>3, <1>4

LEMMA BoxedIsLive ==
  ASSUME WalkInv, AtZval({"ref"})
  PROVE  /\ Z.v \in Live(heap, Held) /\ 1 \in DOMAIN heap[Z.v].elems /\ heap[Z.v].kind = "ref"
         /\ Boxed(Z) \in Zval
         /\ Boxed(Z).t \in Counted => Boxed(Z).v \in Live(heap, Held) /\ PointsAt(heap, Boxed(Z))
<1>1. Z.v \in Live(heap, Held) /\ Z.v \in Addr /\ heap[Z.v] \in Cell /\ heap[Z.v].kind = "ref"
  BY AtZvalFacts DEF AtZval, Counted, Z
<1>2. 1 \in DOMAIN heap[Z.v].elems
  BY <1>1, CellTyped DEF WalkInv, HeapInv, CellsOK
<1>3. QED
  BY <1>1, <1>2, ElementIsLive DEF Boxed

LEMMA AnchoredNow ==
  ASSUME WalkInv, NEW h \in Addr, NEW i \in Nat, Anchored(h, i)
  PROVE  h \in Live(heap, Held)
<1>1. tracked \cup Immutable \subseteq Live(heap, Held)
  BY HeldAreLive DEF Held, WalkInv, TypeOK
<1>2. CASE \E j \in DOMAIN todo : j > i /\ todo[j] = Dtor(h)
  <2>1. h \in Held
    BY <1>2 DEF Held, Dtor
  <2>2. QED
    BY <2>1, HeldAreLive
<1>3. ASSUME NEW r \in tracked, BoxedIn(h, r)
      PROVE  h \in Live(heap, Held)
  <2>1. r \in Live(heap, Held) /\ r \in Addr /\ heap[r] \in Cell
    BY <1>1 DEF WalkInv, TypeOK
  <2>2. 1 \in DOMAIN heap[r].elems
    BY <1>3, <2>1, CellTyped DEF BoxedIn, WalkInv, HeapInv, CellsOK
  <2>3. QED
    BY <1>3, <2>1, <2>2, ElementIsLive DEF BoxedIn, Arr, Counted
<1>4. QED
  BY <1>1, <1>2, <1>3 DEF Anchored

LEMMA ItemShapes ==
  /\ \A z \in Zval : Value(z) \in Item /\ Value(z).op = "zval" /\ Value(z).z = z
  /\ \A h \in Addr, i \in Nat, n \in Nat, left \in Int :
       /\ Table(h, i, n, left) \in Item /\ Table(h, i, n, left).op = "table"
       /\ Table(h, i, n, left).h = h /\ Table(h, i, n, left).i = i /\ Table(h, i, n, left).n = n
  /\ \A o \in Addr, names \in Seq(Str \cup {NoVal}) :
       /\ Sleep(o, names) \in Item /\ Sleep(o, names).op = "sleep"
       /\ Sleep(o, names).o = o /\ Sleep(o, names).names = names
  /\ \A a \in Addr : Dtor(a) \in Item /\ Dtor(a).op = "dtor" /\ Dtor(a).a = a
BY DEF Item, Value, Table, Sleep, Dtor

LEMMA NoItems ==
  /\ << >> \in Seq(Item)
  /\ \A k \in 1..Len(<< >>) : FALSE
OBVIOUS

\* what is alive stays so when nothing is released
LEMMA LiveGrows ==
  ASSUME WalkInv, todo # << >>, NEW items \in Seq(Item), Do(items), UNCHANGED << heap, root >>,
         tracked \subseteq tracked', todo[1].op # "dtor"
  PROVE  Live(heap, Held) \subseteq Live(heap, Held)'
<1>1. Held \subseteq Held'
  <2> DEFINE W == tracked' \cup {items[k].a : k \in 1..Len(items)}
  <2>1. tracked' \subseteq tracked \cup W
    OBVIOUS
  <2>2. QED
    BY <2>1, HeldStep DEF WalkInv
<1>2. QED
  BY <1>1 DEF Live, Closure

LEMMA OneValue ==
  ASSUME WalkInv, todo # << >>, NEW z \in Zval, Do(<< Value(z) >>), UNCHANGED << heap, root >>,
         tracked \subseteq tracked', todo[1].op # "dtor",
         z.t \in Counted => z.v \in Live(heap, Held) /\ PointsAt(heap, z)
  PROVE  /\ << Value(z) >> \in Seq(Item)
         /\ \A k \in 1..Len(<< Value(z) >>) :
              << Value(z) >>[k].op # "dtor" /\ NewItemInv(<< Value(z) >>, k)
<1>1. Value(z) \in Item /\ Value(z).op = "zval" /\ Value(z).z = z
  BY ItemShapes
<1>2. << Value(z) >> \in Seq(Item) /\ Len(<< Value(z) >>) = 1 /\ << Value(z) >>[1] = Value(z)
  BY <1>1
<1>3. Live(heap, Held) \subseteq Live(heap, Held)'
  BY <1>2, LiveGrows
<1>4. NewItemInv(<< Value(z) >>, 1)
  BY <1>1, <1>2, <1>3 DEF NewItemInv, IsPointer, PointsAt
<1>5. QED
  BY <1>1, <1>2, <1>4

LEMMA LoopItems ==
  ASSUME NEW h \in Addr, NEW c \in Cell, heap'[h] = c,
         h \in tracked' \cup Immutable \/ \E r \in tracked' : BoxedIn(h, r)'
  PROVE  /\ Loop(h, c) \in Seq(Item)
         /\ \A k \in 1..Len(Loop(h, c)) :
              Loop(h, c)[k].op # "dtor" /\ NewItemInv(Loop(h, c), k)
<1>1. Len(c.elems) \in Nat /\ Count(c) \in Nat
  BY CellTyped
<1>2. CASE Count(c) = 0
  BY <1>2, NoItems DEF Loop
<1>3. CASE Count(c) # 0
  <2> DEFINE it == Table(h, 1, Len(c.elems), Count(c))
  <2>1. it \in Item /\ it.op = "table" /\ it.h = h /\ it.i = 1 /\ it.n = Len(c.elems)
    BY <1>1, ItemShapes
  <2>2. Loop(h, c) = << it >>
    BY <1>3 DEF Loop
  <2> HIDE DEF it
  <2>3. << it >> \in Seq(Item) /\ Len(<< it >>) = 1 /\ << it >>[1] = it
    BY <2>1
  <2>4. NewItemInv(<< it >>, 1)
    BY <1>1, <2>1, <2>3 DEF NewItemInv, IsPointer
  <2>5. QED
    BY <2>1, <2>2, <2>3, <2>4
<1>4. QED
  BY <1>2, <1>3

LEMMA SrcTyped ==
  ASSUME WalkInv, NEW a \in Addr
  PROVE  Src(a) \in Addr \X Nat
BY DEF WalkInv, TypeOK, Src

LEMMA EmitOne ==
  ASSUME WalkInv, NEW tag \in Tags, NEW v \in Nat \cup Ints \cup Str \cup {NoVal},
         NEW src \in (Addr \X Nat) \cup Str \cup {NoVal}, Emit(<< Tok(tag, v, src) >>)
  PROVE  buffer' \in Seq(Token)
<1>1. << Tok(tag, v, src) >> \in Seq(Token)
  BY TokTyped
<1>2. QED
  BY <1>1, EmitTyped DEF WalkInv

LEMMA EmitTwo ==
  ASSUME WalkInv, NEW tok \in Token, NEW tak \in Token, Emit(<< tok, tak >>)
  PROVE  buffer' \in Seq(Token)
<1>1. << tok, tak >> \in Seq(Token)
  OBVIOUS
<1>2. QED
  BY <1>1, EmitTyped DEF WalkInv

\* a step that is done with the head of the agenda and files nothing
LEMMA DropStep ==
  ASSUME WalkInv, todo # << >>, Do(<< >>),
         UNCHANGED << heap, root, compact, references, references_id, tracked, status, ghosts >>,
         buffer' \in Seq(Token),
         strings' \in [Str -> Nat \cup {NoId}], string_count' \in Nat
  PROVE  WalkInv'
BY NoItems, PlainStep

\* a step that goes on with a value and files nothing
LEMMA ValueStep ==
  ASSUME WalkInv, todo # << >>, NEW z \in Zval, Do(<< Value(z) >>),
         UNCHANGED << heap, root, compact, tables, tracked, status, ghosts >>,
         buffer' \in Seq(Token), ~IsKey(todo[1]), todo[1].op # "dtor",
         z.t \in Counted => z.v \in Live(heap, Held) /\ PointsAt(heap, z)
  PROVE  WalkInv'
<1>1. /\ << Value(z) >> \in Seq(Item)
      /\ \A k \in 1..Len(<< Value(z) >>) :
           << Value(z) >>[k].op # "dtor" /\ NewItemInv(<< Value(z) >>, k)
  BY OneValue
<1>2. strings' \in [Str -> Nat \cup {NoId}] /\ string_count' \in Nat
  BY DEF WalkInv, TypeOK, tables
<1>3. QED
  BY <1>1, <1>2, PlainStep DEF tables

\* a step after which only the status, or nothing, has changed
LEMMA StillStep ==
  ASSUME WalkInv, status' \in {"running", "failed", "done", "error"},
         UNCHANGED << heap, root, todo, buffer, compact, tables, tracked, ghosts >>
  PROVE  WalkInv'
<1>1. Held' = Held
  BY DEF Held
<1>2. TypeOK'
  BY DEF WalkInv, TypeOK, tables, ghosts
<1>3. HeapInv'
  BY <1>1 DEF WalkInv, HeapInv
<1>4. AgendaInv'
  BY <1>1 DEF WalkInv, AgendaInv, ItemInv, IsPointer, IsKey, Anchored, BoxedIn
<1>5. FiledInv'
  BY DEF WalkInv, FiledInv, NoStaleKey, tables, ghosts
<1>6. QED
  BY <1>2, <1>3, <1>4, <1>5 DEF WalkInv

LEMMA BackRefTyped ==
  ASSUME WalkInv, NEW z \in Zval, z.t \in Counted, Seen(z)
  PROVE  BackRef(z) \in Token
<1>1. z.v \in Addr
  BY ScalarTyped
<1>2. references[KeyOf(z)] \in Nat
  BY <1>1 DEF Seen, KeyOf, WalkInv, TypeOK
<1>3. QED
  BY <1>1, <1>2, SrcTyped, TokTyped DEF BackRef, Tags

LEMMA HeaderTyped ==
  ASSUME NEW c \in Cell, NEW src \in (Addr \X Nat) \cup {NoVal}
  PROVE  Header(c, src) \in Token
BY CellTyped, TokTyped DEF Header, Tags

(***************************************************************************)
(* Every action keeps the invariant.                                       *)
(***************************************************************************)
LEMMA ZvalKeepsWalkInv ==
  ASSUME WalkInv, SerializeZval
  PROVE  WalkInv'
<1> DEFINE Strs == strings' \in [Str -> Nat \cup {NoId}] /\ string_count' \in Nat
<1>1. UNCHANGED << strings, string_count >> => Strs
  BY DEF WalkInv, TypeOK
<1>2. ASSUME NEW ts, AtZval(ts)
      PROVE  At("zval") /\ Z.t \in ts /\ todo # << >> /\ todo[1].op = "zval"
  BY <1>2, AtHead DEF AtZval, Z
<1>3. CASE SerializeScalar
  <2>1. AtZval({"null", "undef", "long"})
    BY <1>3 DEF SerializeScalar
  <2>2. Z \in Zval /\ todo # << >>
    BY <1>2, <2>1, AtZvalFacts
  <2>3. buffer' \in Seq(Token)
    <3>1. Z.t = "long" => Emit(<< Tok("long", Z.v, NoVal) >>) /\ Z.v \in Ints
      BY <1>3, <2>2, ScalarTyped DEF SerializeScalar
    <3>2. Z.t # "long" => Emit(<< Tok("null", NoVal, NoVal) >>)
      BY <1>3 DEF SerializeScalar
    <3>3. QED
      BY <3>1, <3>2, EmitOne DEF Tags, ScalarTags
  <2>4. QED
    BY <1>1, <1>3, <2>2, <2>3, DropStep DEF SerializeScalar, tables
<1>4. CASE SerializeStringAgain
  <2>1. AtZval({"str"})
    BY <1>4 DEF SerializeStringAgain
  <2>2. Z \in Zval /\ todo # << >> /\ Z.v \in Str
    BY <1>2, <2>1, AtZvalFacts, ScalarTyped
  <2>3. buffer' \in Seq(Token)
    <3>1. CASE Z.v = EmptyStr
      <4>1. Emit(<< Tok("empty", NoVal, NoVal) >>)
        BY <1>4, <3>1 DEF SerializeStringAgain
      <4>2. QED
        BY <4>1, EmitOne DEF Tags, ScalarTags
    <3>2. CASE Z.v # EmptyStr
      <4>1. Emit(<< Tok("strid", strings[Z.v], Z.v) >>) /\ strings[Z.v] \in Nat
        BY <1>4, <2>2, <3>2 DEF SerializeStringAgain, Known, WalkInv, TypeOK
      <4>2. QED
        BY <2>2, <4>1, EmitOne DEF Tags, ScalarTags
    <3>3. QED
      BY <3>1, <3>2
  <2>4. QED
    BY <1>1, <1>4, <2>2, <2>3, DropStep DEF SerializeStringAgain, tables
<1>5. CASE SerializeStringNew
  <2>1. AtZval({"str"})
    BY <1>5 DEF SerializeStringNew
  <2>2. Z \in Zval /\ todo # << >> /\ Z.v \in Str
    BY <1>2, <2>1, AtZvalFacts, ScalarTyped
  <2>3. buffer' \in Seq(Token)
    BY <1>5, <2>2, EmitOne DEF SerializeStringNew, Tags, ScalarTags
  <2>4. Strs
    BY <1>5, <2>2 DEF SerializeStringNew, WalkInv, TypeOK
  <2>5. QED
    BY <1>5, <2>2, <2>3, <2>4, DropStep DEF SerializeStringNew
<1>6. CASE StackOverflows \/ TooManyStrings \/ TooManyReferences
  BY <1>6, StillStep DEF StackOverflows, TooManyStrings, TooManyReferences, Fail
<1>7. CASE SerializeArrayAgain \/ SerializeReferenceAgain
  <2>1. AtZval({"arr", "ref"}) /\ Seen(Z)
    BY <1>7 DEF SerializeArrayAgain, SerializeReferenceAgain, AtZval
  <2>2. Z \in Zval /\ todo # << >> /\ Z.t \in Counted /\ Z.v \in Addr
    BY <1>2, <2>1, AtZvalFacts DEF Counted
  <2>3. BackRef(Z) \in Token
    BY <2>1, <2>2, BackRefTyped
  <2>4. RefTok(Z) \in Token
    BY <2>2, SrcTyped, TokTyped DEF RefTok, Tags
  <2>5. buffer' \in Seq(Token)
    <3>1. CASE SerializeArrayAgain
      <4>1. << BackRef(Z) >> \in Seq(Token) /\ Emit(<< BackRef(Z) >>)
        BY <2>3, <3>1 DEF SerializeArrayAgain
      <4>2. QED
        BY <4>1, EmitTyped DEF WalkInv
    <3>2. CASE SerializeReferenceAgain
      BY <2>3, <2>4, <3>2, EmitTwo DEF SerializeReferenceAgain
    <3>3. QED
      BY <1>7, <3>1, <3>2
  <2>6. QED
    BY <1>1, <1>7, <2>2, <2>5, DropStep DEF SerializeArrayAgain, SerializeReferenceAgain, tables
<1>8. CASE SerializeArrayNew
  <2>1. AtZval({"arr"})
    BY <1>8 DEF SerializeArrayNew
  <2>2. /\ todo # << >> /\ ~IsKey(todo[1]) /\ todo[1].op = "zval"
        /\ Z.v \in Live(heap, Held) /\ Z.v \in Addr /\ heap[Z.v] \in Cell
    BY <1>2, <2>1, AtZvalFacts DEF Counted
  <2>3. Z.v \in tracked' \cup Immutable
    BY <1>8, <2>2, FileRefFacts DEF SerializeArrayNew
  <2>4. /\ Loop(Z.v, heap[Z.v]) \in Seq(Item)
        /\ \A k \in 1..Len(Loop(Z.v, heap[Z.v])) :
             /\ Loop(Z.v, heap[Z.v])[k].op # "dtor"
             /\ NewItemInv(Loop(Z.v, heap[Z.v]), k)
    BY <1>8, <2>2, <2>3, LoopItems DEF SerializeArrayNew
  <2>5. buffer' \in Seq(Token)
    <3>1. Header(heap[Z.v], Src(Z.v)) \in Token
      BY <2>2, SrcTyped, HeaderTyped
    <3>2. << Header(heap[Z.v], Src(Z.v)) >> \in Seq(Token)
      BY <3>1
    <3>3. QED
      BY <1>8, <3>2, EmitTyped DEF WalkInv, SerializeArrayNew
  <2>6. QED
    BY <1>1, <1>8, <2>2, <2>4, <2>5, FilingStep DEF SerializeArrayNew
<1>9. CASE SerializeReferenceUnshared \/ SerializeReferenceToObject
  <2>1. AtZval({"ref"})
    BY <1>9 DEF SerializeReferenceUnshared, SerializeReferenceToObject
  <2>2. /\ todo # << >> /\ ~IsKey(todo[1]) /\ todo[1].op # "dtor" /\ Z \in Zval
        /\ Z.v \in Addr
    BY <1>2, <2>1, AtZvalFacts DEF Counted
  <2>3. /\ Boxed(Z) \in Zval
        /\ Boxed(Z).t \in Counted => Boxed(Z).v \in Live(heap, Held) /\ PointsAt(heap, Boxed(Z))
    BY <2>1, BoxedIsLive
  <2>4. buffer' \in Seq(Token)
    <3>1. CASE SerializeReferenceUnshared
      BY <3>1 DEF SerializeReferenceUnshared, WalkInv, TypeOK
    <3>2. CASE SerializeReferenceToObject
      BY <2>2, <3>2, SrcTyped, EmitOne DEF SerializeReferenceToObject, RefTok, Tags
    <3>3. QED
      BY <1>9, <3>1, <3>2
  <2>5. QED
    BY <1>9, <2>2, <2>3, <2>4, ValueStep
       DEF SerializeReferenceUnshared, SerializeReferenceToObject
<1>10. CASE SerializeReferenceNew
  <2>1. AtZval({"ref"})
    BY <1>10 DEF SerializeReferenceNew
  <2>2. /\ todo # << >> /\ ~IsKey(todo[1]) /\ todo[1].op = "zval" /\ Z \in Zval
        /\ Z.v \in Live(heap, Held) /\ Z.v \in Addr /\ heap[Z.v].kind = "ref"
    BY <1>2, <2>1, AtZvalFacts DEF Counted
  <2>3. /\ Boxed(Z) \in Zval
        /\ Boxed(Z).t \in Counted => Boxed(Z).v \in Live(heap, Held) /\ PointsAt(heap, Boxed(Z))
    BY <2>1, BoxedIsLive
  <2>4. /\ Z.v \in tracked' \cup Immutable /\ tracked \subseteq tracked'
        /\ Z.v \notin Immutable
    <3>1. Z.v \notin Immutable
      BY <2>2 DEF WalkInv, HeapInv, CellsOK
    <3>2. QED
      BY <1>10, <2>2, <3>1, FileRefFacts DEF SerializeReferenceNew
  <2>5. RefTok(Z) \in Token
    BY <2>2, SrcTyped, TokTyped DEF RefTok, Tags
  <2>6. CASE Boxed(Z).t = "arr"
    <3>1. PICK h \in Addr, c \in Cell : h = Boxed(Z).v /\ c = heap[h]
      BY <2>3, <2>6, ScalarTyped DEF Counted, WalkInv, TypeOK
    <3>2. /\ FileRef(Z) /\ heap' = heap /\ Do(Loop(h, c))
          /\ Emit(<< RefTok(Z), Header(c, Src(Z.v)) >>)
      BY <1>10, <2>6, <3>1 DEF SerializeReferenceNew
    <3>3. \E r \in tracked' : BoxedIn(h, r)'
      <4>1. PICK r \in tracked' : r = Z.v
        BY <2>4
      <4>2. heap[r].elems[1].v = Arr(h) /\ heap[r].kind = "ref"
        BY <2>2, <2>3, <2>6, <3>1, <4>1 DEF Boxed, Zval, Null, Undef, Key, Arr
      <4>3. BoxedIn(h, r)'
        BY <3>2, <4>2 DEF BoxedIn
      <4>4. QED
        BY <4>3
    <3>4. /\ Loop(h, c) \in Seq(Item)
          /\ \A k \in 1..Len(Loop(h, c)) :
               Loop(h, c)[k].op # "dtor" /\ NewItemInv(Loop(h, c), k)
      BY <3>1, <3>2, <3>3, LoopItems
    <3>5. buffer' \in Seq(Token)
      <4>1. Header(c, Src(Z.v)) \in Token
        BY <2>2, SrcTyped, HeaderTyped
      <4>2. QED
        BY <2>5, <3>2, <4>1, EmitTwo
    <3>6. QED
      BY <1>1, <1>10, <2>2, <3>2, <3>4, <3>5, FilingStep DEF SerializeReferenceNew
  <2>7. CASE Boxed(Z).t # "arr"
    <3>1. Do(<< Value(Boxed(Z)) >>) /\ Emit(<< RefTok(Z) >>)
      BY <1>10, <2>7 DEF SerializeReferenceNew
    <3>2. /\ << Value(Boxed(Z)) >> \in Seq(Item)
          /\ \A k \in 1..Len(<< Value(Boxed(Z)) >>) :
               /\ << Value(Boxed(Z)) >>[k].op # "dtor"
               /\ NewItemInv(<< Value(Boxed(Z)) >>, k)
      BY <1>10, <2>2, <2>3, <2>4, <3>1, OneValue DEF SerializeReferenceNew
    <3>3. buffer' \in Seq(Token)
      <4>1. << RefTok(Z) >> \in Seq(Token)
        BY <2>5
      <4>2. QED
        BY <3>1, <4>1, EmitTyped DEF WalkInv
    <3>4. QED
      BY <1>1, <1>10, <2>2, <3>1, <3>2, <3>3, FilingStep DEF SerializeReferenceNew
  <2>8. QED
    BY <2>6, <2>7
<1>11. QED
  BY <1>3, <1>4, <1>5, <1>6, <1>7, <1>8, <1>9, <1>10 DEF SerializeZval

LEMMA ObjectFacts ==
  ASSUME WalkInv, AtZval({"obj"})
  PROVE  /\ todo # << >> /\ ~IsKey(todo[1]) /\ todo[1].op = "zval"
         /\ Z \in Zval /\ Z.t = "obj" /\ Z.v \in Live(heap, Held) /\ Z.v \in Addr
         /\ heap[Z.v] \in Cell /\ Cls \in Class
         /\ Cls \in Str /\ ClassName \in Str
<1>1. At("zval") /\ Z.t = "obj"
  BY DEF AtZval, Z
<1>2. todo # << >> /\ todo[1].op = "zval"
  BY <1>1, AtHead
<1>3. /\ ~IsKey(todo[1]) /\ Z \in Zval /\ Z.v \in Live(heap, Held) /\ Z.v \in Addr
      /\ heap[Z.v] \in Cell /\ heap[Z.v].kind = "obj"
  BY <1>1, AtZvalFacts DEF Counted
<1>4. Cls \in Class
  BY <1>3 DEF Cls, WalkInv, HeapInv, CellsOK
<1>5. ClassName \in Str
  <2> DEFINE c == heap[Z.v]
             i == CHOOSE j \in NameKeepers(c) : TRUE
  <2>1. CASE Incomplete(c) /\ NameKeepers(c) # {}
    <3>1. i \in DOMAIN c.elems /\ c.elems[i].v.t = "str"
      BY <2>1 DEF NameKeepers
    <3>2. c.elems[i].v \in Zval
      BY <1>3, <3>1, CellTyped
    <3>3. c.elems[i].v.v \in Str
      BY <3>1, <3>2 DEF Zval, Null, Undef, Key, Counted
    <3>4. QED
      BY <2>1, <3>3 DEF ClassName, WrittenName
  <2>2. CASE ~(Incomplete(c) /\ NameKeepers(c) # {})
    <3>1. ClassName = Cls
      BY <2>2 DEF ClassName, WrittenName, Cls
    <3>2. QED
      BY <1>4, <3>1, ValuesAssumption
  <2>3. QED
    BY <2>1, <2>2
<1>6. QED
  BY <1>1, <1>2, <1>3, <1>4, <1>5, ValuesAssumption

LEMMA NameFacts ==
  ASSUME WalkInv, NEW c \in Str
  PROVE  /\ \A src \in Addr \X Nat : NameTok(c, src) \in Token
         /\ FileName(c) => strings' \in [Str -> Nat \cup {NoId}] /\ string_count' \in Nat
<1>1. c \in Str /\ strings \in [Str -> Nat \cup {NoId}] /\ string_count \in Nat
  BY DEF WalkInv, TypeOK
<1>2. ASSUME NEW src \in Addr \X Nat
      PROVE  NameTok(c, src) \in Token
  BY <1>1, TokTyped DEF NameTok, Tags
<1>3. ASSUME FileName(c)
      PROVE  strings' \in [Str -> Nat \cup {NoId}] /\ string_count' \in Nat
  BY <1>1, <1>3 DEF FileName
<1>4. QED
  BY <1>2, <1>3

LEMMA LoopThenDtor ==
  ASSUME NEW h \in Addr, NEW c \in Cell, heap'[h] = c
  PROVE  LET items == Loop(h, c) \o << Dtor(h) >>
         IN  /\ items \in Seq(Item)
             /\ \A k \in 1..Len(items) :
                  /\ items[k].op = "dtor" => items[k].a = h
                  /\ NewItemInv(items, k)
<1> DEFINE items == Loop(h, c) \o << Dtor(h) >>
<1>1. Len(c.elems) \in Nat /\ Count(c) \in Nat
  BY CellTyped
<1>2. Dtor(h) \in Item /\ Dtor(h).op = "dtor" /\ Dtor(h).a = h
  BY ItemShapes
<1>3. CASE Count(c) = 0
  <2>1. items = << Dtor(h) >>
    BY <1>3 DEF Loop
  <2> HIDE DEF items
  <2>2. items \in Seq(Item) /\ Len(items) = 1 /\ items[1] = Dtor(h)
    BY <1>2, <2>1
  <2>3. NewItemInv(items, 1)
    BY <1>2, <2>2 DEF NewItemInv, IsPointer
  <2>4. QED
    BY <1>2, <2>2, <2>3 DEF items
<1>4. CASE Count(c) # 0
  <2> DEFINE it == Table(h, 1, Len(c.elems), Count(c))
  <2>1. it \in Item /\ it.op = "table" /\ it.h = h /\ it.i = 1 /\ it.n = Len(c.elems)
    BY <1>1, ItemShapes
  <2>2. Loop(h, c) = << it >>
    BY <1>4 DEF Loop
  <2> HIDE DEF it
  <2>3. /\ items \in Seq(Item) /\ Len(items) = 2
        /\ items[1] = it /\ items[2] = Dtor(h)
    BY <1>2, <2>1, <2>2
  <2> HIDE DEF items
  <2>4. NewItemInv(items, 1)
    BY <1>1, <2>1, <2>3 DEF NewItemInv, IsPointer
  <2>5. NewItemInv(items, 2)
    BY <1>2, <2>3 DEF NewItemInv, IsPointer
  <2>6. QED
    BY <1>2, <2>1, <2>3, <2>4, <2>5 DEF items
<1>5. QED
  BY <1>3, <1>4

\* user code that returns no array
LEMMA NothingAllocated ==
  ASSUME WalkInv, NEW z, z.v \in Live(heap, Held), "assign" \notin RefWrites,
         heap' \in Unsets(HeldWith(z.v)), birth' = birth
  PROVE  UserCode(z, heap', {}, z.v)
<1>1. UnsetOf(heap')
  BY UnsetsWhileHeld
<1>2. z.v \in Live(heap', HeldWith(z.v))
  <2>1. z.v \in Addr
    BY HeldAreLive
  <2>2. QED
    BY <2>1, HeldAreLive DEF HeldWith
<1>3. AllocatedIn(heap', {}, z.v, heap', HeldWith(z.v))
  BY <1>1, <1>2 DEF AllocatedIn, UnsetOf
<1>4. QED
  BY <1>3 DEF UserCode, WalkInv, TypeOK

LEMMA MagicKeepsWalkInv ==
  ASSUME WalkInv, "assign" \notin RefWrites, SerializeObjectMagic
  PROVE  WalkInv'
<1>1. AtZval({"obj"}) /\ FileRef(Z) /\ FileName(Cls) /\ UNCHANGED << root, compact, status >>
  BY DEF SerializeObjectMagic, NewNamedObject, NewObject
<1>2. /\ todo # << >> /\ ~IsKey(todo[1]) /\ Z.v \in Live(heap, Held) /\ Z.v \in Addr
      /\ Cls \in Str
  BY <1>1, ObjectFacts
<1>3. strings' \in [Str -> Nat \cup {NoId}] /\ string_count' \in Nat
  BY <1>1, <1>2, NameFacts
<1>4. ASSUME NEW H \in Unsets(HeldWith(Z.v)), NEW G, NEW new, NEW ret,
             AllocatedIn(G, new, ret, H, HeldWith(Z.v)), Returned(G, new, ret)
      PROVE  WalkInv'
  <2>1. /\ heap' = G /\ Do(Loop(ret, G[ret]) \o << Dtor(ret) >>)
        /\ birth' = [a \in Addr |-> IF a \in new THEN birth[a] + 1 ELSE birth[a]]
        /\ Emit(<< NameTok(Cls, Src(Z.v)), Header(G[ret], NoVal) >>)
    BY <1>4 DEF Returned
  <2>2. ret \in Addr /\ G \in [Addr -> Cell]
    BY <1>4, HeldAreLive DEF AllocatedIn
  <2>3. PICK c \in Cell : c = G[ret]
    BY <2>2
  <2>4. UserCode(Z, H, new, ret)
    BY <1>4, <2>1 DEF UserCode, WalkInv, TypeOK
  <2> DEFINE items == Loop(ret, c) \o << Dtor(ret) >>
  <2>5. /\ items \in Seq(Item)
        /\ \A k \in 1..Len(items) :
             /\ items[k].op = "dtor" => items[k].a = ret
             /\ NewItemInv(items, k)
    BY <2>1, <2>2, <2>3, LoopThenDtor
  <2>6. buffer' \in Seq(Token)
    <3>1. NameTok(Cls, Src(Z.v)) \in Token /\ Header(c, NoVal) \in Token
      BY <1>2, SrcTyped, NameFacts, HeaderTyped
    <3>2. QED
      BY <2>1, <2>3, <3>1, EmitTwo
  <2>7. Do(items)
    BY <2>1, <2>3
  <2> HIDE DEF items
  <2>8. QED
    BY <1>1, <1>2, <1>3, <2>4, <2>5, <2>6, <2>7, UserStep
<1>5. PICK H \in Unsets(HeldWith(Z.v)) :
        LET live == Live(H, HeldWith(Z.v))
            free == Addr \ live
        IN  \/ \E a \in live : H[a].kind = "arr" /\ Returned(H, {}, a)
            \/ \E t \in free, c \in Temporaries(H, live) : Returned([H EXCEPT ![t] = c], {t}, t)
            \/ \E t \in free : \E u \in free \ {t}, k \in TempKeys, c \in TempCells :
                 Returned(WithCell(H, t, u, k, c), {t, u}, t)
  BY DEF SerializeObjectMagic
<1> DEFINE live == Live(H, HeldWith(Z.v))
           free == Addr \ live
<1>6. H \in [Addr -> Cell] /\ CellsOK(H)
  BY <1>2, UnsetsWhileHeld DEF UnsetOf
<1>7. ASSUME NEW a \in live, Returned(H, {}, a)
      PROVE  WalkInv'
  <2>1. AllocatedIn(H, {}, a, H, HeldWith(Z.v))
    BY <1>6 DEF AllocatedIn
  <2>2. QED
    BY <1>4, <1>7, <2>1
<1>8. ASSUME NEW t \in free, NEW c \in Temporaries(H, live), Returned([H EXCEPT ![t] = c], {t}, t)
      PROVE  WalkInv'
  BY <1>4, <1>6, <1>8, TemporaryIsAllocated
<1>9. ASSUME NEW t \in free, NEW u \in free \ {t}, NEW k \in TempKeys, NEW c \in TempCells,
             Returned(WithCell(H, t, u, k, c), {t, u}, t)
      PROVE  WalkInv'
  BY <1>4, <1>6, <1>9, PairIsAllocated
<1>10. QED
  BY <1>5, <1>7, <1>8, <1>9

\* the names that __sleep returns
LEMMA SleepTyped ==
  ASSUME NEW o, NEW names \in SleepResults(o)
  PROVE  names \in Seq(Str \cup {NoVal}) /\ Len(names) \in Nat
<1> DEFINE S   == Str \cup {NoVal}
           one == Names(o) \cup {Absent, NoVal}
<1>1. one \subseteq S
  BY SerializeAssumption DEF Names
<1> HIDE DEF S
<1>2. << >> \in Seq(S) /\ \A x, y \in S : << x >> \in Seq(S) /\ << x, y >> \in Seq(S)
  OBVIOUS
<1>3. names = << >> \/ \E x, y \in one : names = << x >> \/ names = << x, y >>
  BY DEF SleepResults
<1> HIDE DEF one
<1>4. names \in Seq(S)
  BY <1>1, <1>2, <1>3
<1>5. QED
  BY <1>4, LenProperties DEF S

LEMMA ObjectKeepsWalkInv ==
  ASSUME WalkInv, "assign" \notin RefWrites, SerializeObject
  PROVE  WalkInv'
<1>1. CASE SerializeObjectMagic
  BY <1>1, MagicKeepsWalkInv
<1>2. CASE SerializeObjectThrows \/ TooManyStringsForName
  BY <1>2, StillStep DEF SerializeObjectThrows, TooManyStringsForName, Fail
<1> USE DEF NewNamedObject, NewObject
<1>3. CASE SerializeObjectAgain
  <2>1. AtZval({"obj"}) /\ Seen(Z) /\ Emit(<< BackRef(Z) >>)
    BY <1>3 DEF SerializeObjectAgain
  <2>2. todo # << >> /\ Z \in Zval /\ Z.t \in Counted
    BY <2>1, ObjectFacts DEF Counted
  <2>3. << BackRef(Z) >> \in Seq(Token)
    BY <2>1, <2>2, BackRefTyped
  <2>4. buffer' \in Seq(Token)
    BY <2>1, <2>3, EmitTyped DEF WalkInv
  <2>5. QED
    BY <1>3, <2>2, <2>4, DropStep DEF SerializeObjectAgain, tables, WalkInv, TypeOK
<1>4. ASSUME AtZval({"obj"}), FileRef(Z),
             FileName(Cls) \/ FileName(ClassName) \/ UNCHANGED << strings, string_count >>
      PROVE  /\ todo # << >> /\ ~IsKey(todo[1]) /\ todo[1].op # "dtor"
             /\ Z.v \in Live(heap, Held) /\ Z.v \in Addr /\ heap[Z.v] \in Cell
             /\ NameTok(Cls, Src(Z.v)) \in Token /\ NameTok(ClassName, Src(Z.v)) \in Token
             /\ Z.v \in tracked' \cup Immutable /\ tracked \subseteq tracked'
             /\ strings' \in [Str -> Nat \cup {NoId}] /\ string_count' \in Nat
  <2>1. /\ todo # << >> /\ ~IsKey(todo[1]) /\ todo[1].op # "dtor"
        /\ Z.v \in Live(heap, Held) /\ Z.v \in Addr /\ heap[Z.v] \in Cell
        /\ Cls \in Str /\ ClassName \in Str
    BY <1>4, ObjectFacts
  <2>2. NameTok(Cls, Src(Z.v)) \in Token /\ NameTok(ClassName, Src(Z.v)) \in Token
    BY <2>1, SrcTyped, NameFacts
  <2>3. Z.v \in tracked' \cup Immutable /\ tracked \subseteq tracked'
    BY <1>4, <2>1, FileRefFacts
  <2>4. strings' \in [Str -> Nat \cup {NoId}] /\ string_count' \in Nat
    BY <1>4, <2>1, NameFacts DEF WalkInv, TypeOK
  <2>5. QED
    BY <2>1, <2>2, <2>3, <2>4
<1>5. CASE SerializeObjectPlain
  <2>1. AtZval({"obj"}) /\ FileRef(Z) /\ FileName(ClassName) /\ heap' = heap
    BY <1>5 DEF SerializeObjectPlain, NewObject
  <2>2. PICK h \in Addr, c \in Cell : h = Z.v /\ c = heap[h]
    BY <1>4, <2>1
  <2>3. /\ Do(Loop(h, c)) /\ Emit(<< NameTok(ClassName, Src(Z.v)), Header(c, NoVal) >>)
        /\ UNCHANGED << heap, root, compact, status, birth >>
    BY <1>5, <2>2 DEF SerializeObjectPlain
  <2>4. /\ Loop(h, c) \in Seq(Item)
        /\ \A k \in 1..Len(Loop(h, c)) :
             Loop(h, c)[k].op # "dtor" /\ NewItemInv(Loop(h, c), k)
    BY <1>4, <2>1, <2>2, LoopItems
  <2>5. buffer' \in Seq(Token)
    BY <1>4, <2>1, <2>3, HeaderTyped, EmitTwo
  <2>6. QED
    BY <1>4, <2>1, <2>3, <2>4, <2>5, FilingStep
<1>6. CASE SerializeObjectEnum
  <2>1. /\ AtZval({"obj"}) /\ FileRef(Z) /\ FileName(Cls) /\ Kind[Cls] = "enum"
        /\ UNCHANGED << heap, root, compact, status, birth >>
        /\ Emit(<< NameTok(Cls, Src(Z.v)), Tok("enum", NoVal, NoVal) >>)
        /\ Do(<< Value(heap[Z.v].elems[1].v) >>)
    BY <1>6 DEF SerializeObjectEnum
  <2>2. 1 \in DOMAIN heap[Z.v].elems
    <3>1. heap[Z.v].kind = "obj"
      BY <2>1, AtZvalFacts DEF AtZval, Z, Counted
    <3>2. Len(heap[Z.v].elems) = 1
      BY <1>4, <2>1, <3>1 DEF WalkInv, HeapInv, CellsOK, Fixed, Cls
    <3>3. QED
      BY <1>4, <2>1, <3>2, CellTyped
  <2>3. PICK z \in Zval : /\ z = heap[Z.v].elems[1].v
                          /\ z.t \in Counted => z.v \in Live(heap, Held) /\ PointsAt(heap, z)
    BY <1>4, <2>1, <2>2, ElementIsLive
  <2>4. /\ << Value(z) >> \in Seq(Item)
        /\ \A k \in 1..Len(<< Value(z) >>) :
             << Value(z) >>[k].op # "dtor" /\ NewItemInv(<< Value(z) >>, k)
    BY <1>4, <2>1, <2>3, OneValue
  <2>5. buffer' \in Seq(Token)
    <3>1. Tok("enum", NoVal, NoVal) \in Token
      BY TokTyped DEF Tags
    <3>2. QED
      BY <1>4, <2>1, <3>1, EmitTwo
  <2>6. QED
    BY <1>4, <2>1, <2>3, <2>4, <2>5, FilingStep
<1>7. CASE SerializeObjectData \/ SerializeObjectNull
  <2>1. /\ AtZval({"obj"}) /\ FileRef(Z)
        /\ FileName(Cls) \/ UNCHANGED << strings, string_count >>
        /\ UNCHANGED << root, compact, status, birth >> /\ Do(<< >>)
        /\ heap' \in Unsets(HeldWith(Z.v))
    BY <1>7 DEF SerializeObjectData, SerializeObjectNull
  <2>2. buffer' \in Seq(Token)
    <3>1. CASE SerializeObjectData
      <4>1. Tok("objser", NoVal, NoVal) \in Token
        BY TokTyped DEF Tags
      <4>2. QED
        BY <1>4, <2>1, <3>1, <4>1, EmitTwo DEF SerializeObjectData
    <3>2. CASE SerializeObjectNull
      BY <3>2, EmitOne DEF SerializeObjectNull, Tags, ScalarTags
    <3>3. QED
      BY <1>7, <3>1, <3>2
  <2>3. UserCode(Z, heap', {}, Z.v)
    BY <1>4, <2>1, NothingAllocated
  <2>4. QED
    BY <1>4, <2>1, <2>2, <2>3, NoItems, UserStep
<1>8. CASE SerializeObjectSleep
  <2>1. /\ AtZval({"obj"}) /\ FileRef(Z) /\ FileName(Cls)
        /\ UNCHANGED << root, compact, status, birth >>
        /\ heap' \in Unsets(HeldWith(Z.v))
    BY <1>8 DEF SerializeObjectSleep
  <2>2. PICK names \in SleepResults(Z.v) :
          /\ Emit(<< NameTok(Cls, Src(Z.v)), Tok("arr", Len(names), NoVal) >>)
          /\ Do(IF names = << >> THEN << >> ELSE << Sleep(Z.v, names) >>)
    BY <1>8 DEF SerializeObjectSleep
  <2>3. names \in Seq(Str \cup {NoVal}) /\ Len(names) \in Nat
    BY SleepTyped
  <2>4. buffer' \in Seq(Token)
    <3>1. Tok("arr", Len(names), NoVal) \in Token
      BY <2>3, TokTyped DEF Tags
    <3>2. QED
      BY <1>4, <2>1, <2>2, <3>1, EmitTwo
  <2>5. UserCode(Z, heap', {}, Z.v)
    BY <1>4, <2>1, NothingAllocated
  <2>6. CASE names = << >>
    BY <1>4, <2>1, <2>2, <2>4, <2>5, <2>6, NoItems, UserStep
  <2>7. CASE names # << >>
    <3>1. PICK it \in Item : /\ it = Sleep(Z.v, names) /\ it.op = "sleep"
                             /\ it.o = Z.v /\ it.names = names
      BY <1>4, <2>1, <2>3, ItemShapes
    <3>2. /\ << it >> \in Seq(Item) /\ Len(<< it >>) = 1 /\ << it >>[1] = it
          /\ Do(<< it >>)
      BY <2>2, <2>7, <3>1
    <3>3. it.o \in tracked' \cup Immutable
      BY <1>4, <2>1, <3>1
    <3>4. NewItemInv(<< it >>, 1)
      BY <2>7, <3>1, <3>2, <3>3 DEF NewItemInv, IsPointer
    <3> DEFINE items == << it >>
    <3>5. \A k \in 1..Len(items) :
             /\ items[k].op = "dtor" => items[k].a = Z.v
             /\ NewItemInv(items, k)
      BY <3>1, <3>2, <3>4
    <3>6. items \in Seq(Item) /\ Do(items)
      BY <3>2
    <3> HIDE DEF items
    <3>7. QED
      BY <1>4, <2>1, <2>4, <2>5, <3>5, <3>6, UserStep
  <2>8. QED
    BY <2>6, <2>7
<1>9. QED
  BY <1>1, <1>2, <1>3, <1>5, <1>6, <1>7, <1>8 DEF SerializeObject

LEMMA TableKeepsWalkInv ==
  ASSUME WalkInv, SerializeTable
  PROVE  WalkInv'
<1> DEFINE Typed == /\ strings' \in [Str -> Nat \cup {NoId}] /\ string_count' \in Nat
                    /\ buffer \in Seq(Token)
<1>1. UNCHANGED tables => Typed
  BY DEF WalkInv, TypeOK, tables
<1>2. ASSUME NEW op, At(op), op # "zval"
      PROVE  todo # << >> /\ todo[1].op = op /\ ~IsKey(todo[1]) /\ Top = todo[1]
  BY <1>2, AtHead DEF IsKey, Top
<1>3. ASSUME At("table")
      PROVE  /\ Top.h \in Addr /\ Top.h \in Live(heap, Held) /\ heap[Top.h] \in Cell
             /\ Top.i \in Nat /\ Top.n \in Nat /\ Top.left \in Int
             /\ Top.i >= 1 /\ Top.n <= Len(heap[Top.h].elems) /\ Anchored(Top.h, 1)
  <2>1. Top = todo[1] /\ todo[1].op = "table" /\ todo[1] \in Item /\ ItemInv(1)
    BY <1>2, <1>3, AtHead
  <2>2. /\ Top.h \in Addr /\ Top.i \in Nat /\ Top.n \in Nat /\ Top.left \in Int
        /\ Top.i >= 1 /\ Top.n <= Len(heap[Top.h].elems) /\ Anchored(Top.h, 1)
    BY <2>1, ItemTypes DEF ItemInv
  <2>3. QED
    BY <2>2, AnchoredNow DEF WalkInv, TypeOK
<1>4. ASSUME At("table"), heap' = heap, NEW left \in Int
      PROVE  /\ Advance(left) \in Item /\ Advance(left).op = "table"
             /\ Advance(left).h = Top.h /\ Advance(left).i >= 1 /\ Advance(left).n = Top.n
             /\ Advance(left).n <= Len(heap'[Top.h].elems)
  BY <1>3, <1>4 DEF Advance, Table, Item
<1>5. CASE SkipMagic \/ SkipDeleted \/ PadUnset
  <2>1. At("table") /\ heap' = heap
    BY <1>5 DEF SkipMagic, SkipDeleted, PadUnset, AtBucket
  <2>2. PICK left \in Int : Do(<< Advance(left) >>)
    BY <1>3, <1>5, <2>1 DEF SkipMagic, SkipDeleted, PadUnset
  <2>3. PICK it \in Item : /\ it = Advance(left) /\ it.op = "table" /\ it.h = Top.h
                           /\ it.i >= 1 /\ it.n <= Len(heap'[it.h].elems)
    BY <1>4, <2>1
  <2> DEFINE items == << it >>
  <2>4. items \in Seq(Item) /\ Len(items) = 1 /\ items[1] = it /\ Do(items)
    BY <2>2, <2>3
  <2> HIDE DEF items
  <2>5. \A k \in 1..Len(items) : items[k].op # "dtor" /\ NewItemInv(items, k)
    BY <1>3, <2>1, <2>3, <2>4 DEF NewItemInv, IsPointer
  <2>6. buffer' \in Seq(Token)
    <3>1. CASE SkipMagic \/ SkipDeleted
      BY <3>1 DEF SkipMagic, SkipDeleted, WalkInv, TypeOK
    <3>2. CASE PadUnset
      BY <3>2, EmitOne DEF PadUnset, Tags, ScalarTags
    <3>3. QED
      BY <1>5, <3>1, <3>2
  <2>7. QED
    BY <1>1, <1>2, <1>5, <2>1, <2>4, <2>5, <2>6, PlainStep DEF SkipMagic, SkipDeleted, PadUnset, tables
<1>6. CASE SerializeEntry
  <2>1. /\ At("table") /\ Top.i <= Top.n /\ heap' = heap
        /\ UNCHANGED << heap, root, buffer, compact, tables, tracked, status, ghosts >>
        /\ Do(<< Value(Entry.k), Value(Entry.v), Advance(Top.left - 1) >>)
    BY <1>6 DEF SerializeEntry, AtBucket
  <2>2. Top.i \in DOMAIN heap[Top.h].elems
    BY <1>3, <2>1, CellTyped
  <2>3. PICK k \in Key \cup {Null}, z \in Zval :
          /\ k = Entry.k /\ z = Entry.v
          /\ z.t \in Counted => z.v \in Live(heap, Held) /\ PointsAt(heap, z)
    BY <1>3, <2>1, <2>2, ElementIsLive DEF Entry
  <2>4. k \in Zval /\ k.t \notin Counted
    BY DEF Zval, Key, Null, Counted
  <2>5. PICK it \in Item : /\ it = Advance(Top.left - 1) /\ it.op = "table" /\ it.h = Top.h
                           /\ it.i >= 1 /\ it.n <= Len(heap'[it.h].elems)
    BY <1>3, <1>4, <2>1
  <2> DEFINE items == << Value(k), Value(z), it >>
  <2>6. /\ Value(k) \in Item /\ Value(k).op = "zval" /\ Value(k).z = k
        /\ Value(z) \in Item /\ Value(z).op = "zval" /\ Value(z).z = z
    BY <2>4, ItemShapes
  <2>7. /\ items \in Seq(Item) /\ Len(items) = 3 /\ Do(items)
        /\ items[1] = Value(k) /\ items[2] = Value(z) /\ items[3] = it
    BY <2>1, <2>3, <2>5, <2>6
  <2> HIDE DEF items
  <2>8. Live(heap, Held) \subseteq Live(heap, Held)'
    BY <1>2, <2>1, <2>7, LiveGrows
  <2>9. NewItemInv(items, 1) /\ items[1].op # "dtor"
    BY <2>4, <2>6, <2>7 DEF NewItemInv, IsPointer
  <2>10. NewItemInv(items, 2) /\ items[2].op # "dtor"
    BY <2>1, <2>3, <2>4, <2>6, <2>7, <2>8 DEF NewItemInv, IsPointer, IsKey, PointsAt
  <2>11. NewItemInv(items, 3) /\ items[3].op # "dtor"
    BY <1>3, <2>1, <2>5, <2>7 DEF NewItemInv, IsPointer
  <2>12. \A j \in 1..Len(items) : items[j].op # "dtor" /\ NewItemInv(items, j)
    BY <2>7, <2>9, <2>10, <2>11
  <2>13. QED
    BY <1>1, <1>2, <2>1, <2>7, <2>12, PlainStep DEF tables
<1>7. CASE EndTable \/ ReleaseReturned
  BY <1>1, <1>2, <1>7, DropStep DEF EndTable, ReleaseReturned, tables
<1>8. CASE SleepUninitialized
  BY <1>8, StillStep DEF SleepUninitialized, Fail
<1>9. ASSUME At("sleep"), UNCHANGED << heap, root, tracked >>
      PROVE  /\ Top.o \in Addr /\ Top.o \in Live(heap, Held) /\ heap[Top.o] \in Cell
             /\ Name \in Str \cup {NoVal}
             /\ \E n \in {0, 1}, it \in Item :
                  /\ RestOfNames = IF n = 0 THEN << >> ELSE << it >>
                  /\ it.op = "sleep" /\ it.o \in tracked' \cup Immutable /\ it.names # << >>
  <2>1. Top = todo[1] /\ todo[1].op = "sleep" /\ todo[1] \in Item /\ ItemInv(1)
    BY <1>2, <1>9, AtHead
  <2>2. /\ Top.o \in Addr /\ Top.o \in tracked \cup Immutable /\ Top.names # << >>
        /\ Top.names \in Seq(Str \cup {NoVal})
    BY <2>1, ItemTypes DEF ItemInv
  <2>3. Top.o \in Live(heap, Held) /\ heap[Top.o] \in Cell
    BY <2>2, HeldAreLive DEF Held, WalkInv, TypeOK
  <2> DEFINE S == Str \cup {NoVal}
  <2> HIDE DEF S
  <2>4. PICK names \in Seq(S) : names = Top.names /\ names # << >>
    BY <2>2 DEF S
  <2>5. /\ Head(names) \in S /\ Tail(names) \in Seq(S) /\ Len(names) \in Nat
        /\ Len(Tail(names)) = Len(names) - 1
    BY <2>4, HeadTailProperties, LenProperties
  <2>6. CASE Len(names) = 1
    <3>1. RestOfNames = << >>
      BY <2>4, <2>6 DEF RestOfNames
    <3>2. todo[1] \in Item /\ todo[1].op = "sleep"
          /\ todo[1].o \in tracked' \cup Immutable /\ todo[1].names # << >>
      BY <1>9, <2>1, <2>2
    <3>3. QED
      BY <2>2, <2>3, <2>4, <2>5, <3>1, <3>2 DEF Name, S
  <2>7. CASE Len(names) # 1
    <3>1. Tail(names) # << >>
      <4>1. Len(names) # 0 /\ Len(<< >>) = 0
        BY <2>4, EmptySeq
      <4>2. QED
        BY <2>5, <2>7, <4>1
    <3>2. PICK rest \in Seq(S) : rest = Tail(names) /\ rest # << >>
      BY <2>5, <3>1
    <3>3. RestOfNames = << Sleep(Top.o, rest) >>
      BY <2>4, <2>7, <3>2 DEF RestOfNames
    <3> DEFINE it == Sleep(Top.o, rest)
    <3>4. it \in Item /\ it.op = "sleep" /\ it.o = Top.o /\ it.names = rest
      BY <2>2, <3>2 DEF S, Sleep, Item
    <3> HIDE DEF it
    <3>5. /\ RestOfNames = IF 1 = 0 THEN << >> ELSE << it >>
          /\ it.op = "sleep" /\ it.o \in tracked' \cup Immutable /\ it.names # << >>
      BY <1>9, <2>2, <3>2, <3>3, <3>4 DEF it
    <3>6. QED
      BY <2>2, <2>3, <2>4, <2>5, <3>4, <3>5 DEF Name, S
  <2>8. QED
    BY <2>6, <2>7
<1>10. CASE SleepNotAString
  <2>1. /\ At("sleep") /\ Do(RestOfNames) /\ Emit(<< Tok("null", NoVal, NoVal) >>)
        /\ UNCHANGED << heap, root, compact, tables, tracked, status, ghosts >>
    BY <1>10 DEF SleepNotAString
  <2>2. buffer' \in Seq(Token)
    BY <2>1, EmitOne DEF Tags, ScalarTags
  <2>3. PICK n \in {0, 1}, it \in Item :
          /\ RestOfNames = IF n = 0 THEN << >> ELSE << it >>
          /\ it.op = "sleep" /\ it.o \in tracked' \cup Immutable /\ it.names # << >>
    BY <1>9, <2>1
  <2>4. CASE n = 0
    BY <1>1, <1>2, <2>1, <2>2, <2>3, <2>4, DropStep DEF tables
  <2>5. CASE n = 1
    <3> DEFINE items == << it >>
    <3>1. items \in Seq(Item) /\ Len(items) = 1 /\ items[1] = it /\ Do(items)
      BY <2>1, <2>3, <2>5
    <3> HIDE DEF items
    <3>2. \A k \in 1..Len(items) : items[k].op # "dtor" /\ NewItemInv(items, k)
      BY <2>3, <3>1 DEF NewItemInv, IsPointer
    <3>3. QED
      BY <1>1, <1>2, <2>1, <2>2, <3>1, <3>2, PlainStep DEF tables
  <2>6. QED
    BY <2>4, <2>5
<1>11. CASE SleepProperty
  <2>1. /\ At("sleep") /\ Name # NoVal
        /\ UNCHANGED << heap, root, buffer, compact, tables, tracked, status, ghosts >>
    BY <1>11 DEF SleepProperty
  <2>2. PICK z : /\ z \in {heap[Top.o].elems[i].v : i \in Slots} \cup {Null}
                 /\ Do(<< Value(Text(Name)), Value(z) >> \o RestOfNames)
    BY <1>11 DEF SleepProperty
  <2>3. /\ z \in Zval
        /\ z.t \in Counted => z.v \in Live(heap, Held) /\ PointsAt(heap, z)
    <3>1. CASE z = Null
      BY <3>1 DEF Zval, Null, Counted
    <3>2. CASE z \in {heap[Top.o].elems[i].v : i \in Slots}
      BY <1>9, <2>1, <3>2, ElementIsLive DEF Slots
    <3>3. QED
      BY <2>2, <3>1, <3>2
  <2>4. PICK k \in Zval : k = Text(Name) /\ k.t \notin Counted
    <3>1. Name \in Str
      BY <1>9, <2>1
    <3>2. Text(Name) \in Zval /\ Text(Name).t \notin Counted
      BY <3>1 DEF Text, Zval, Key, Counted
    <3>3. QED
      BY <3>2
  <2>5. PICK n \in {0, 1}, it \in Item :
          /\ RestOfNames = IF n = 0 THEN << >> ELSE << it >>
          /\ it.op = "sleep" /\ it.o \in tracked' \cup Immutable /\ it.names # << >>
    BY <1>9, <2>1
  <2>6. /\ Value(k) \in Item /\ Value(k).op = "zval" /\ Value(k).z = k
        /\ Value(z) \in Item /\ Value(z).op = "zval" /\ Value(z).z = z
    BY <2>3, <2>4, ItemShapes
  <2> DEFINE items == IF n = 0 THEN << Value(k), Value(z) >> ELSE << Value(k), Value(z), it >>
  <2>7. /\ items \in Seq(Item) /\ Len(items) = 2 + n
        /\ items[1] = Value(k) /\ items[2] = Value(z)
        /\ n = 1 => items[3] = it
    BY <2>6
  <2>8. Do(items)
    <3>1. Do(<< Value(k), Value(z) >> \o RestOfNames)
      BY <2>2, <2>4
    <3>2. PICK a \in Item, b \in Item : a = Value(k) /\ b = Value(z)
      BY <2>6
    <3>3. << a, b >> \o << >> = << a, b >>
      <4>1. << a, b >> \in Seq(Item)
        OBVIOUS
      <4>2. QED
        BY <4>1, ConcatEmptySeq
    <3>4. << a, b >> \o << it >> = << a, b, it >>
      <4> DEFINE s == << a, b >>
                 t == << it >>
                 u == << a, b, it >>
      <4>1. /\ s \in Seq(Item) /\ Len(s) = 2 /\ s[1] = a /\ s[2] = b
            /\ t \in Seq(Item) /\ Len(t) = 1 /\ t[1] = it
            /\ u \in Seq(Item) /\ Len(u) = 3 /\ u[1] = a /\ u[2] = b /\ u[3] = it
        OBVIOUS
      <4> HIDE DEF s, t, u
      <4>2. /\ s \o t \in Seq(Item) /\ Len(s \o t) = 3
            /\ \A i \in 1..3 : (s \o t)[i] = IF i <= 2 THEN s[i] ELSE t[i - 2]
        <5>1. /\ s \o t \in Seq(Item) /\ Len(s \o t) = Len(s) + Len(t)
              /\ \A i \in 1..(Len(s) + Len(t)) :
                   (s \o t)[i] = IF i <= Len(s) THEN s[i] ELSE t[i - Len(s)]
          BY <4>1, ConcatProperties
        <5> DEFINE st == s \o t
        <5> HIDE DEF st
        <5>2. QED
          BY <4>1, <5>1 DEF st
      <4>3. \A i \in 1..3 : (s \o t)[i] = u[i]
        BY <4>1, <4>2
      <4>4. s \o t = u
        BY <4>1, <4>2, <4>3, SeqEqual
      <4>5. QED
        BY <4>4 DEF s, t, u
    <3>5. << a, b >> \o RestOfNames = items
      BY <2>5, <3>2, <3>3, <3>4
    <3>6. QED
      BY <3>1, <3>2, <3>5
  <2> HIDE DEF items
  <2>9. Live(heap, Held) \subseteq Live(heap, Held)'
    BY <1>2, <2>1, <2>7, <2>8, LiveGrows
  <2>10. NewItemInv(items, 1) /\ items[1].op # "dtor"
    BY <2>4, <2>6, <2>7 DEF NewItemInv, IsPointer
  <2>11. NewItemInv(items, 2) /\ items[2].op # "dtor"
    BY <2>1, <2>3, <2>4, <2>6, <2>7, <2>9 DEF NewItemInv, IsPointer, IsKey, PointsAt
  <2>12. n = 1 => NewItemInv(items, 3) /\ items[3].op # "dtor"
    BY <2>5, <2>7 DEF NewItemInv, IsPointer
  <2>13. \A j \in 1..Len(items) : items[j].op # "dtor" /\ NewItemInv(items, j)
    BY <2>7, <2>10, <2>11, <2>12
  <2>14. QED
    BY <1>1, <1>2, <2>1, <2>7, <2>8, <2>13, PlainStep DEF tables
<1>12. QED
  BY <1>5, <1>6, <1>7, <1>8, <1>10, <1>11 DEF SerializeTable

LEMMA WalkAtStart ==
  ASSUME Init
  PROVE  WalkInv
<1>1. PICK g \in Graphs : heap = g.heap /\ root = g.root
  BY DEF Init
<1>2. /\ heap \in [Addr -> Cell] /\ root \in Zval /\ CellsOK(heap) /\ PointersOK(heap, Addr)
      /\ PointsAt(heap, root)
  BY <1>1, SerializeAssumption
<1>3. Value(root) \in Item /\ Value(root).op = "zval" /\ Value(root).z = root
  BY <1>2, ItemShapes
<1>4. todo \in Seq(Item) /\ DOMAIN todo = {1} /\ todo[1] = Value(root)
  BY <1>3 DEF Init
<1>5. TypeOK
  <2>1. strings \in [Str -> Nat \cup {NoId}] /\ string_count \in Nat
    BY DEF Init
  <2>2. references \in [Addr \cup {InvalidKey} -> Nat \cup {NoId}] /\ references_id \in Nat
    BY DEF Init
  <2>3. birth \in [Addr -> Nat] /\ keyed \in [Addr -> Nat] /\ compact \in BOOLEAN
    BY DEF Init
  <2>4. QED
    BY <1>2, <1>4, <2>1, <2>2, <2>3 DEF Init, TypeOK
<1>6. HeapInv
  BY <1>2, HeldAreLive DEF HeapInv, PointersOK
<1>7. AgendaInv
  <2>1. root.t \in Counted => root.v \in Addr /\ root.v \in Held
    BY <1>2, ScalarTyped DEF Held
  <2>2. root.t \in Counted => root.v \in Live(heap, Held)
    BY <2>1, HeldAreLive
  <2>3. ItemInv(1)
    BY <1>2, <1>3, <1>4, <2>2 DEF ItemInv, IsPointer
  <2>4. QED
    BY <1>4, <2>3 DEF AgendaInv
<1>8. FiledInv
  BY DEF Init, FiledInv, NoStaleKey
<1>9. QED
  BY <1>5, <1>6, <1>7, <1>8 DEF WalkInv

LEMMA WalkStep ==
  ASSUME "assign" \notin RefWrites, WalkInv, [Next]_vars
  PROVE  WalkInv'
<1>1. CASE SerializeZval
  BY <1>1, ZvalKeepsWalkInv
<1>2. CASE SerializeObject
  BY <1>2, ObjectKeepsWalkInv
<1>3. CASE SerializeTable
  BY <1>3, TableKeepsWalkInv
<1>4. CASE Deinit
  <2>1. /\ todo' = << >> /\ tracked' = {} /\ heap' = heap /\ root' = root
        /\ status' \in {"running", "failed", "done", "error"}
        /\ strings' = [s \in Str |-> NoId]
        /\ references' = [k \in Addr \cup {InvalidKey} |-> NoId]
        /\ UNCHANGED << buffer, compact, string_count, references_id, ghosts >>
    BY <1>4 DEF Deinit
  <2>2. Held' \subseteq Held
    BY <2>1 DEF Held
  <2>3. HeapInv'
    <3>1. Held' \cap Addr \subseteq Live(heap, Held)
      BY <2>2, HeldAreLive
    <3>2. QED
      BY <2>1, <3>1, HeapStep DEF WalkInv
  <2>4. AgendaInv'
    BY <2>1 DEF AgendaInv
  <2>5. FiledInv'
    BY <2>1 DEF FiledInv, NoStaleKey
  <2>6. TypeOK'
    <3>1. todo' \in Seq(Item)
      BY <2>1, NoItems
    <3>2. /\ strings' \in [Str -> Nat \cup {NoId}]
          /\ references' \in [Addr \cup {InvalidKey} -> Nat \cup {NoId}]
      BY <2>1
    <3>3. QED
      BY <2>1, <3>1, <3>2 DEF WalkInv, TypeOK, ghosts
  <2>7. QED
    BY <2>3, <2>4, <2>5, <2>6 DEF WalkInv
<1>5. CASE UNCHANGED vars
  BY <1>5, StillStep DEF vars, WalkInv, TypeOK
<1>6. QED
  BY <1>1, <1>2, <1>3, <1>4, <1>5 DEF Next

LEMMA WalkInvInductive ==
  ASSUME "assign" \notin RefWrites
  PROVE  Spec => []WalkInv
<1>1. Init => WalkInv
  BY WalkAtStart
<1>2. WalkInv /\ [Next]_vars => WalkInv'
  BY WalkStep
<1>3. QED
  BY <1>1, <1>2, PTL DEF Spec

(***************************************************************************)
(* The theorems.  User code that assigns to a reference while the array    *)
(* it boxes is being iterated breaks them (see the run reference_assigned),*)
(* and is excluded by the hypothesis.                                      *)
(***************************************************************************)
\* The walk keeps the types of its state: in particular a back-reference is
\* never written for a cell that has no id, and every cell the loops reach
\* is a cell.
THEOREM SerializeTyped ==
  ASSUME "assign" \notin RefWrites
  PROVE  Spec => []TypeOK
BY WalkInvInductive, PTL DEF WalkInv

\* An address filed in igsd->references still belongs to the cell it was filed
\* for, whatever __serialize, __sleep and Serializable::serialize drop, unset
\* and allocate: igsd_addref_and_defer_dtor holds every such cell.
THEOREM FiledAddressesStay ==
  ASSUME "assign" \notin RefWrites
  PROVE  Spec => []NoStaleKey
BY WalkInvInductive, PTL DEF WalkInv, FiledInv

\* The plain pointers the C loops keep across calls of user code, to the table
\* being iterated, the object whose names are looked up and the next values,
\* lead to live cells, and the table still has the buckets left to visit.
THEOREM WalkStaysOnLiveCells ==
  ASSUME "assign" \notin RefWrites
  PROVE  Spec => []WalkOnLiveCells
<1>1. WalkInv => WalkOnLiveCells
  <2> SUFFICES ASSUME WalkInv, NEW i \in DOMAIN todo
               PROVE  OnLiveCell(todo[i])
    BY DEF WalkOnLiveCells
  <2>1. todo[i] \in Item /\ ItemInv(i) /\ i \in Nat
    BY ElementOfSeq, LenProperties DEF WalkInv, TypeOK, AgendaInv
  <2>2. CASE todo[i].op = "zval"
    BY <2>1, <2>2 DEF OnLiveCell, ItemInv, IsPointer, PointsAt
  <2>3. CASE todo[i].op = "table"
    BY <2>1, <2>3, ItemTypes, AnchoredNow DEF OnLiveCell, ItemInv
  <2>4. CASE todo[i].op = "sleep"
    <3>1. todo[i].o \in tracked \cup Immutable
      BY <2>1, <2>4 DEF ItemInv
    <3>2. tracked \cup Immutable \subseteq Live(heap, Held)
      BY HeldAreLive DEF Held, WalkInv, TypeOK
    <3>3. QED
      BY <2>4, <3>1, <3>2 DEF OnLiveCell
  <2>5. CASE todo[i].op = "dtor"
    BY <2>5 DEF OnLiveCell
  <2>6. QED
    BY <2>1, <2>2, <2>3, <2>4, <2>5 DEF Item
<1>2. QED
  BY <1>1, WalkInvInductive, PTL
=============================================================================
