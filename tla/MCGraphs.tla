------------------------------ MODULE MCGraphs ------------------------------
(***************************************************************************)
(* The values the models start from: every value of up to three cells      *)
(* whose first cell is the root.                                           *)
(***************************************************************************)
EXTENDS Values

CONSTANTS
    s1, s2, x, empty,  \* property names
    A, B, C, D, E, \* class names
    Family         \* which values ModelGraphs has

Cells3 == 1..3
PtrTo(K, a) == [t |-> K[a], v |-> a]
Vals(K, plain) == plain \cup {PtrTo(K, a) : a \in Cells3}

\* the tables of a cell of each kind: keys are fixed by their position, and
\* properties have names
Entries(n, key2, vals) ==
    {[i \in 1..m |-> Elem(IF i = 1 THEN Text(s1) ELSE key2, f[i])] :
        <<m, f>> \in (0..n) \X [1..n -> vals]}
\* an object of a class that does not exist keeps its name first
Kept(c) == IF c = IncompleteClass THEN << Elem(Text(MagicMember), Text(x)) >> ELSE << >>
CellsOf(kind, n, vals, classes) ==
    CASE kind = "arr" -> {ArrCell(es) : es \in Entries(n, Long(0), vals)}
      [] kind = "obj" -> {ObjCell(c, Kept(c) \o es) : c \in {d \in classes : Kind[d] # "enum"},
                                                     es \in Entries(n, Text(s2), vals)}
                         \cup {ObjCell(c, << Elem(Text(s1), Text(s1)) >>) :
                                 c \in {d \in classes : Kind[d] = "enum"}}
      [] kind = "ref" -> {RefCell(z, m) : z \in {v \in vals : v.t \notin {"ref", "undef"}}, m \in BOOLEAN}

HeapOf(c1, c2, c3) ==
    [a \in Addr |-> CASE a = 1 -> c1 [] a = 2 -> c2 [] a = 3 -> c3
                      [] a \in Immutable -> ArrCell(<< >>) [] OTHER -> FreeCell]

\* a reference with refcount 1 has one holder
Slots1(H, a) == {p \in Cells3 \X (1..2) :
                   p[2] \in DOMAIN H[p[1]].elems /\ H[p[1]].elems[p[2]].v = Ref(a)}
Sound(H) ==
    /\ \A a \in Cells3 : H[a].kind = "ref" /\ ~H[a].shared => Cardinality(Slots1(H, a)) = 1
    \* nothing unsets a property of an incomplete object
    /\ \A a \in Cells3 : Incomplete(H[a]) => Undef \notin {H[a].elems[i].v : i \in DOMAIN H[a].elems}
    \* an enum case is one object
    /\ Cardinality({a \in Cells3 : H[a].cls \in {c \in Class : Kind[c] = "enum"}}) < 2

GraphsOf(classes, kinds1, plain, n1, n2) ==
    UNION {LET K == [a \in Cells3 |-> CASE a = 1 -> k1 [] a = 2 -> k2 [] OTHER -> k3]
               vs == Vals(K, plain)
           IN  {[heap |-> HeapOf(c[1], c[2], c[3]), root |-> PtrTo(K, 1)] :
                 c \in {d \in CellsOf(k1, n1, vs, classes) \X CellsOf(k2, n2, vs, classes)
                           \X CellsOf(k3, n2, vs, classes) :
                         LET H == HeapOf(d[1], d[2], d[3])
                         IN  Cells3 \subseteq Reach(H, {1}) /\ Sound(H)}} :
           <<k1, k2, k3>> \in kinds1 \X Counted \X Counted}
GraphsOver(kinds1, plain, n1, n2) == GraphsOf(Class \ {IncompleteClass}, kinds1, plain, n1, n2)

\* an incomplete object that does not know its class: what igbinary_unserialize
\* makes of an object of the class __PHP_Incomplete_Class
Nameless(n) == [heap |-> HeapOf(ObjCell(IncompleteClass,
                                        [i \in 1..n |-> Elem(Text(IF i = 1 THEN s1 ELSE s2), Null)]),
                                FreeCell, FreeCell),
                root |-> Obj(1)]

\* an array behind a shared reference holds an object with user code
ArrayOfTwo(a, b) == ArrCell(<< Elem(Text(s1), a), Elem(Long(0), b) >>)
WriteGraph(z) ==
    [heap |-> [HeapOf(ArrCell(<< Elem(Long(0), Ref(2)) >>), RefCell(Arr(3), TRUE),
                      ArrayOfTwo(Obj(4), z)) EXCEPT ![4] = ObjCell(A, << >>)],
     root |-> Arr(1)]

\* an incomplete object holds an object with user code
IncompleteHolder ==
    [heap |-> HeapOf(ArrCell(<< Elem(Text(s1), Obj(2)) >>),
                     ObjCell(IncompleteClass, Kept(IncompleteClass) \o << Elem(Text(s1), Obj(3)) >>),
                     ObjCell(A, << >>)),
     root |-> Arr(1)]

IsObj(g, a) == g.heap[a].kind = "obj"
RunsCode(g, a) == IsObj(g, a) /\ Kind[g.heap[a].cls] # "plain"
First(g) == g.heap[1].elems[1].v

(***************************************************************************)
(* The families.                                                           *)
(*   trips:  no user code, and those of `calls'                            *)
(*   nameless: an incomplete object without its magic member               *)
(*   user:   an array of up to two, objects that run user code in it; and  *)
(*           an object whose property leads to one that does               *)
(*   small:  those of `user' whose first element leads to something, and   *)
(*           an array behind a reference, one element of it deleted or     *)
(*           not, and an incomplete object that holds one with user code   *)
(*   calls:  an array whose first element is an object, not two with       *)
(*           __sleep                                                       *)
(*   owners: an object that holds objects                                  *)
(*   write:  an array behind a reference                                   *)
(***************************************************************************)
ShapeGraphs ==
    GraphsOf({D, E}, {"arr"}, {Text(s1)} \cup {Arr(a) : a \in Immutable}, 2, 1)
    \cup GraphsOf({D, E}, {"obj"}, {Undef, Text(s1)}, 2, 1)
    \cup GraphsOf({IncompleteClass, E}, {"obj"}, {Undef, Text(s1)}, 2, 1)
    \cup {[heap |-> HeapOf(FreeCell, FreeCell, FreeCell), root |-> z] :
            z \in {Null, Long(0), Text(s1), Text(EmptyStr)}}
CallGraphs ==
    {g \in GraphsOf(Class \cap {A, B, C}, {"arr"}, {Null}, 2, 1) :
       /\ First(g) = Obj(2)
       /\ \A a \in {2, 3} : g.heap[a].kind # "arr"
       /\ \E a \in {2, 3} : ~(IsObj(g, a) /\ Kind[g.heap[a].cls] = "sleep")}
ModelGraphs ==
    CASE Family = "trips" -> ShapeGraphs \cup CallGraphs
      [] Family = "calls" -> CallGraphs
      [] Family = "nameless" -> {Nameless(n) : n \in 0..2}
      [] Family = "user" ->
           {g \in GraphsOver({"arr"}, {Null}, 2, 1) : \E a \in {2, 3} : RunsCode(g, a)}
           \cup {g \in GraphsOver({"obj"}, {Null}, 1, 1) : RunsCode(g, 3)}
      [] Family = "small" ->
           {g \in GraphsOver({"arr"}, {Null}, 2, 1) :
              /\ \E a \in {2, 3} : RunsCode(g, a)
              /\ First(g) = Ref(2) \/ (First(g) = Obj(2) /\ g.heap[2].elems # << >>)}
           \cup {WriteGraph(z) : z \in {Undef, Obj(4)}} \cup {IncompleteHolder}
      [] Family = "owners" ->
           {g \in GraphsOver({"obj"}, {Null}, 2, 1) : \A a \in Cells3 : IsObj(g, a)}
      [] Family = "write" ->
           {WriteGraph(z) : z \in {Null, Long(0), Obj(4), Ref(2)}}

(***************************************************************************)
(* What the classes do, and what user code builds.                         *)
(***************************************************************************)
UserKind  == [c \in Class |-> CASE c = A -> "serialize" [] c = B -> "sleep"
                                [] c \in {C, IncompleteClass} -> "plain" [] OTHER -> "serializable"]
EndKind   == [UserKind EXCEPT ![B] = "enum"]
CallKind  == [c \in Class |-> CASE c = A -> "serialize" [] c = B -> "wakeup"
                                [] c = C -> "plain" [] OTHER -> "serializable"]
TripKind  == [CallKind EXCEPT ![C] = "sleep", ![D] = "plain", ![E] = "enum", ![IncompleteClass] = "plain"]
NamelessKind == [c \in Class |-> "plain"]

\* the one integer there is, as a property name
IntNames == [n \in Ints |-> s2]

UserTempKeys  == {Long(0)}
EmptyArrays   == {ArrCell(<< >>)}
UserTempCells == EmptyArrays
                 \cup {ObjCell(c, << >>) : c \in {d \in Class \ {IncompleteClass} : Kind[d] = "plain"}}
=============================================================================
