------------------------------ MODULE Serialize ------------------------------
(***************************************************************************)
(* igbinary_serialize_zval and what it calls: the walk over a PHP value    *)
(* that writes the tokens of the binary format.  The C recursion is an     *)
(* explicit agenda, `todo': each item is a call still to make or a loop to *)
(* resume.  User code (__serialize, __sleep, Serializable::serialize) runs *)
(* in the middle of the walk and may allocate, drop and unset values.      *)
(***************************************************************************)
EXTENDS Values

CONSTANTS
    NoId,          \* "not in the table"
    InvalidKey,    \* &INVALID_KEY, the key under which a root array is filed
    IdSpace,       \* 2^32: where references_id and string_count wrap to 0
    Graphs,        \* the values to serialize: heaps with a root
    TempKeys,      \* keys of the arrays that user code builds
    TempCells,     \* cells that user code allocates inside them
    Absent,        \* a property name no object has
    NullResult,    \* whether Serializable::serialize may return null
    StackLimited,  \* whether the C stack may run out
    RefWrites      \* how user code writes through references: "unset", "assign"

ASSUME SerializeAssumption ==
    /\ NoId \notin Nat
    /\ InvalidKey \notin Addr
    /\ IdSpace \in Nat \ {0}
    /\ Graphs \subseteq [heap : [Addr -> Cell], root : Zval]
    /\ \A g \in Graphs :
         /\ CellsOK(g.heap) /\ PointersOK(g.heap, Addr)
         /\ g.root.t \notin {"ref", "undef"} /\ PointsAt(g.heap, g.root)
    /\ TempKeys \subseteq Key
    /\ TempCells \subseteq {c \in Cell :
         /\ c.kind \in {"arr", "obj"} /\ ~Fixed(c)
         /\ c.kind = "obj" => c.cls \in Class
         /\ Pointers(c) = {} /\ Keyed(c)}
    /\ Absent \in Str
    /\ NullResult \in BOOLEAN /\ StackLimited \in BOOLEAN
    /\ RefWrites \subseteq {"unset", "assign"}

VARIABLES
    heap,           \* [Addr -> Cell]
    root,           \* the zval passed to igbinary_serialize
    todo,           \* agenda of calls and loops, the innermost first
    buffer,         \* igsd->buffer, as tokens
    compact,        \* igsd->compact_strings, off in scalar mode
    strings,        \* igsd->strings
    string_count,   \* igsd->string_count
    references,     \* igsd->references
    references_id,  \* igsd->references_id
    tracked,        \* igsd->deferred_dtor_tracker: cells it holds
    status,         \* "running", "failed" (returning 1), "done", "error"
    birth,          \* ghost: how often each address has been (re)allocated
    keyed           \* ghost: the birth each address had when it was filed

tables == << strings, string_count, references, references_id >>
ghosts == << birth, keyed >>
vars == << heap, root, todo, buffer, compact, tables, tracked, status, ghosts >>

(***************************************************************************)
(* Agenda items.                                                           *)
(***************************************************************************)
Value(z)       == [op |-> "zval", z |-> z]
Table(h, i, n, left) == [op |-> "table", h |-> h, i |-> i, n |-> n, left |-> left]
Sleep(o, names) == [op |-> "sleep", o |-> o, names |-> names]
Dtor(a)        == [op |-> "dtor", a |-> a]

Item == [op : {"zval"}, z : Zval]
        \cup [op : {"table"}, h : Addr, i : Nat, n : Nat, left : Int]
        \cup [op : {"sleep"}, o : Addr, names : Seq(Str \cup {NoVal})]
        \cup [op : {"dtor"}, a : Addr]

At(op) == status = "running" /\ todo # << >> /\ Head(todo).op = op
Do(items) == todo' = items \o Tail(todo)
Emit(toks) == buffer' = buffer \o toks
Fail == /\ status' = "failed"
        /\ UNCHANGED << heap, root, todo, buffer, compact, tables, tracked, ghosts >>

AtZval(ts) == At("zval") /\ Head(todo).z.t \in ts
Z == Head(todo).z
Src(a) == << a, birth[a] >>

\* igbinary_serialize_check_stack_limit, before each value: the depth at which
\* the stack runs out is not known here (a key, which needs no call, may fail
\* as well, one step before its value)
StackOverflows == At("zval") /\ StackLimited /\ Fail

(***************************************************************************)
(* Scalars and strings.                                                    *)
(***************************************************************************)
SerializeScalar ==
    /\ AtZval({"null", "undef", "long"})
    /\ Emit(<< IF Z.t = "long" THEN Tok("long", Z.v, NoVal) ELSE Tok("null", NoVal, NoVal) >>)
    /\ Do(<< >>)
    /\ UNCHANGED << heap, root, compact, tables, tracked, status, ghosts >>

\* mutant: the insertion's answer, found or new, is ignored
KnownUnchecked(s) == s # EmptyStr /\ compact
Known(s) == s # EmptyStr /\ compact /\ strings[s] # NoId

\* igbinary_serialize_string: a string seen before, or the empty string
SerializeStringAgain ==
    /\ AtZval({"str"})
    /\ Z.v = EmptyStr \/ Known(Z.v)
    /\ Emit(<< IF Z.v = EmptyStr THEN Tok("empty", NoVal, NoVal)
                                 ELSE Tok("strid", strings[Z.v], Z.v) >>)
    /\ Do(<< >>)
    /\ UNCHANGED << heap, root, compact, tables, tracked, status, ghosts >>

\* a new string takes the next id, also when it is not filed for reuse
SerializeStringNew ==
    /\ AtZval({"str"})
    /\ Z.v # EmptyStr /\ ~Known(Z.v)
    /\ string_count + 1 < IdSpace
    /\ strings' = IF compact THEN [strings EXCEPT ![Z.v] = string_count] ELSE strings
    /\ string_count' = string_count + 1
    /\ Emit(<< Tok("str", Z.v, NoVal) >>)
    /\ Do(<< >>)
    /\ UNCHANGED << heap, root, compact, references, references_id, tracked, status, ghosts >>

TooManyStrings ==
    /\ AtZval({"str"}) /\ Z.v # EmptyStr /\ ~Known(Z.v)
    /\ string_count + 1 >= IdSpace
    /\ Fail

\* igbinary_serialize_object_name: files the name whatever compact_strings says
NameFits(c) == strings[c] # NoId \/ string_count + 1 < IdSpace
NameTok(c, src) == IF strings[c] # NoId THEN Tok("objid", strings[c], src)
                                        ELSE Tok("obj", c, src)
\* mutant: class names are counted only when strings are compacted
FileNameIfCompact(c) ==
    IF strings[c] # NoId
    THEN UNCHANGED << strings, string_count >>
    ELSE /\ strings' = [strings EXCEPT ![c] = string_count]
         /\ string_count' = IF compact THEN string_count + 1 ELSE string_count
FileName(c) ==
    IF strings[c] # NoId
    THEN UNCHANGED << strings, string_count >>
    ELSE /\ strings' = [strings EXCEPT ![c] = string_count]
         /\ string_count' = string_count + 1

(***************************************************************************)
(* igbinary_serialize_array_ref: a cell met before becomes its id, a new   *)
(* one takes the next id and is held until the walk is over.               *)
(***************************************************************************)
\* mutant: the key of the root array is used for every array and reference
KeyOfAnyDepth(z) == IF z.t # "obj" THEN InvalidKey ELSE z.v
KeyOf(z) == IF references_id = 0 /\ z.t # "obj" THEN InvalidKey ELSE z.v
\* mutant: an object that is found is walked again
SeenArrays(z) == z.t # "obj" /\ references[KeyOf(z)] # NoId
Seen(z)  == references[KeyOf(z)] # NoId
\* mutant: off by one
IdFitsLate == references_id < IdSpace
IdFits   == references_id + 1 < IdSpace

BackRef(z) == Tok(IF z.t = "obj" THEN "objref" ELSE "refid", references[KeyOf(z)], Src(z.v))

\* mutants: nothing, only objects, only arrays are held until the walk is over
HoldNothing(a) == tracked
HoldObjects(a) == IF heap[a].kind = "obj" THEN tracked \cup {a} ELSE tracked
HoldArrays(a)  == IF heap[a].kind = "arr" /\ a \notin Immutable THEN tracked \cup {a} ELSE tracked

\* igsd_addref_and_defer_dtor
Hold(a) == IF a \in Immutable THEN tracked ELSE tracked \cup {a}

FileRef(z) ==
    /\ references' = [references EXCEPT ![KeyOf(z)] = references_id]
    /\ references_id' = references_id + 1
    /\ tracked' = Hold(z.v)
    /\ keyed' = [keyed EXCEPT ![z.v] = birth[z.v]]

(***************************************************************************)
(* igbinary_serialize_array: the header counts the elements, then the loop *)
(* visits the buckets there were at the start.  A deleted bucket of an     *)
(* array is not counted; an unset property of an object is.                *)
(***************************************************************************)
\* mutant: the magic member is counted
CountMagic(c) == IF c.kind = "obj" THEN Len(c.elems)
                 ELSE Cardinality({i \in DOMAIN c.elems : c.elems[i].v # Undef})
\* an incomplete object's magic member is not written as an element
Count(c) == IF Incomplete(c) /\ c.elems # << >> THEN Len(c.elems) - 1
            ELSE IF c.kind = "obj" THEN Len(c.elems)
            ELSE Cardinality({i \in DOMAIN c.elems : c.elems[i].v # Undef})
Header(c, src) == Tok("arr", Count(c), src)
Loop(a, c) == IF Count(c) = 0 THEN << >> ELSE << Table(a, 1, Len(c.elems), Count(c)) >>

\* the array itself, or a shared reference to it, has been met before
SerializeArrayAgain ==
    /\ AtZval({"arr"}) /\ Seen(Z)
    /\ Emit(<< BackRef(Z) >>)
    /\ Do(<< >>)
    /\ UNCHANGED << heap, root, compact, tables, tracked, status, ghosts >>

SerializeArrayNew ==
    /\ AtZval({"arr"}) /\ ~Seen(Z) /\ IdFits
    /\ FileRef(Z)
    /\ Emit(<< Header(heap[Z.v], Src(Z.v)) >>)
    /\ Do(Loop(Z.v, heap[Z.v]))
    /\ UNCHANGED << heap, root, compact, strings, string_count, status, birth >>

TooManyReferences ==
    /\ \/ AtZval({"arr", "obj"})
       \/ AtZval({"ref"}) /\ heap[Z.v].shared /\ heap[Z.v].elems[1].v.t # "obj"
    /\ ~Seen(Z) /\ ~IdFits
    /\ Fail

(***************************************************************************)
(* A reference.  With refcount 1 it is transparent; a shared one is marked *)
(* `ref' and filed under its own address, unless it boxes an object.       *)
(***************************************************************************)
Boxed(z) == heap[z.v].elems[1].v
RefTok(z) == Tok("ref", NoVal, Src(z.v))

SerializeReferenceUnshared ==
    /\ AtZval({"ref"}) /\ ~heap[Z.v].shared
    /\ Do(<< Value(Boxed(Z)) >>)
    /\ UNCHANGED << heap, root, buffer, compact, tables, tracked, status, ghosts >>

\* mutant: a reference to an object is filed as well as the object
ReferenceToObjectFiled ==
    /\ AtZval({"ref"}) /\ heap[Z.v].shared /\ Boxed(Z).t = "obj" /\ ~Seen(Z) /\ IdFits
    /\ FileRef(Z)
    /\ Emit(<< RefTok(Z) >>)
    /\ Do(<< Value(Boxed(Z)) >>)
    /\ UNCHANGED << heap, root, compact, strings, string_count, status, birth >>

SerializeReferenceToObject ==
    /\ AtZval({"ref"}) /\ heap[Z.v].shared /\ Boxed(Z).t = "obj"
    /\ Emit(<< RefTok(Z) >>)
    /\ Do(<< Value(Boxed(Z)) >>)
    /\ UNCHANGED << heap, root, compact, tables, tracked, status, ghosts >>

SerializeReferenceAgain ==
    /\ AtZval({"ref"}) /\ heap[Z.v].shared /\ Boxed(Z).t # "obj" /\ Seen(Z)
    /\ Emit(<< RefTok(Z), BackRef(Z) >>)
    /\ Do(<< >>)
    /\ UNCHANGED << heap, root, compact, tables, tracked, status, ghosts >>

SerializeReferenceNew ==
    /\ AtZval({"ref"}) /\ heap[Z.v].shared /\ Boxed(Z).t # "obj" /\ ~Seen(Z) /\ IdFits
    /\ FileRef(Z)
    /\ IF Boxed(Z).t = "arr"
       THEN /\ Emit(<< RefTok(Z), Header(heap[Boxed(Z).v], Src(Z.v)) >>)
            /\ Do(Loop(Boxed(Z).v, heap[Boxed(Z).v]))
       ELSE /\ Emit(<< RefTok(Z) >>)
            /\ Do(<< Value(Boxed(Z)) >>)
    /\ UNCHANGED << heap, root, compact, strings, string_count, status, birth >>

(***************************************************************************)
(* User code.  It runs while the walk holds `held', may unset a property   *)
(* of a live object, and what is then unreachable is freed: its address    *)
(* may be given to the next value allocated.                               *)
(***************************************************************************)
Held == tracked \cup {root.v} \cup
        {todo[i].a : i \in {j \in DOMAIN todo : todo[j].op = "dtor"}}
Live(H, held) == Closure(H, held \cap Addr) \cup Immutable

Unset(H, a, i) == [H EXCEPT ![a].elems[i].v = Undef]
UnsetsIn(H, A) == UNION {{Unset(H, a, i) : i \in DOMAIN H[a].elems} : a \in A}

\* A reference that user code holds: assigning to it drops the value it has;
\* an array that only it holds is changed in place, with no copy.
LiveRefs(H, held) == {r \in Live(H, held) : H[r].kind = "ref"}
OnlyHolder(H, held, r, a) ==
    /\ a \notin held \cup Immutable
    /\ \A b \in Live(H, held) : a \in Targets(H, b) => b = r
InPlace(H, held) ==
    {a \in Addr : \E r \in LiveRefs(H, held) :
       H[r].elems[1].v = Arr(a) /\ OnlyHolder(H, held, r, a)}
Assigns(H, held) == {[H EXCEPT ![r].elems[1].v = Null] : r \in LiveRefs(H, held)}

Writable(H, held) ==
    {a \in Live(H, held) : H[a].kind = "obj" /\ ~Fixed(H[a]) /\ ~Incomplete(H[a])}
Unsets(held) ==
    {heap} \cup UnsetsIn(heap, Writable(heap, held))
           \cup (IF "unset" \in RefWrites THEN UnsetsIn(heap, InPlace(heap, held)) ELSE {})
           \cup (IF "assign" \in RefWrites THEN Assigns(heap, held) ELSE {})

\* a temporary array is empty, holds an object there was, or holds a cell that
\* was allocated with it
Holding(k, z) == ArrCell(<< Elem(k, z) >>)
Temporaries(H, live) ==
    {ArrCell(<< >>)}
    \cup {Holding(k, Obj(o)) : k \in TempKeys, o \in {b \in live : H[b].kind = "obj"}}
WithCell(H, t, u, k, c) ==
    [H EXCEPT ![t] = Holding(k, [t |-> c.kind, v |-> u]), ![u] = c]

(***************************************************************************)
(* igbinary_serialize_object.                                              *)
(***************************************************************************)
Cls == heap[Z.v].cls
NewObject(kinds) == AtZval({"obj"}) /\ ~Seen(Z) /\ IdFits /\ Kind[Cls] \in kinds
NewNamedObject(kinds) == NewObject(kinds) /\ NameFits(Cls)
HeldWith(a) == Held \cup {a}

\* PHP_SET_CLASS_ATTRIBUTES: the name kept in the magic member, when it is a string
NameKeepers(c) == {i \in DOMAIN c.elems : IsMagicMember(c.elems[i]) /\ c.elems[i].v.t = "str"}
WrittenName(c) == IF Incomplete(c) /\ NameKeepers(c) # {}
                  THEN c.elems[CHOOSE i \in NameKeepers(c) : TRUE].v.v
                  ELSE c.cls
ClassName == WrittenName(heap[Z.v])

SerializeObjectAgain ==
    /\ AtZval({"obj"}) /\ Seen(Z)
    /\ Emit(<< BackRef(Z) >>)
    /\ Do(<< >>)
    /\ UNCHANGED << heap, root, compact, tables, tracked, status, ghosts >>

SerializeObjectPlain ==
    /\ NewObject({"plain", "wakeup"}) /\ NameFits(ClassName)
    /\ FileRef(Z) /\ FileName(ClassName)
    /\ Emit(<< NameTok(ClassName, Src(Z.v)), Header(heap[Z.v], NoVal) >>)
    /\ Do(Loop(Z.v, heap[Z.v]))
    /\ UNCHANGED << heap, root, compact, status, birth >>

SerializeObjectEnum ==
    /\ NewNamedObject({"enum"})
    /\ FileRef(Z) /\ FileName(Cls)
    /\ Emit(<< NameTok(Cls, Src(Z.v)), Tok("enum", NoVal, NoVal) >>)
    /\ Do(<< Value(heap[Z.v].elems[1].v) >>)
    /\ UNCHANGED << heap, root, compact, status, birth >>

\* __serialize returned the array `ret', the cells `new' being allocated: it is
\* written like properties, then released
Returned(H, new, ret) ==
    /\ heap' = H
    /\ birth' = [a \in Addr |-> IF a \in new THEN birth[a] + 1 ELSE birth[a]]
    /\ Emit(<< NameTok(Cls, Src(Z.v)), Header(H[ret], NoVal) >>)
    /\ Do(Loop(ret, H[ret]) \o << Dtor(ret) >>)

SerializeObjectMagic ==
    /\ NewNamedObject({"serialize"})
    /\ FileRef(Z) /\ FileName(Cls)
    /\ \E H \in Unsets(HeldWith(Z.v)) :
         LET live == Live(H, HeldWith(Z.v))
             free == Addr \ live
         IN  \/ \E a \in live : H[a].kind = "arr" /\ Returned(H, {}, a)
             \/ \E t \in free, c \in Temporaries(H, live) : Returned([H EXCEPT ![t] = c], {t}, t)
             \/ \E t \in free : \E u \in free \ {t}, k \in TempKeys, c \in TempCells :
                  Returned(WithCell(H, t, u, k, c), {t, u}, t)
    /\ UNCHANGED << root, compact, status >>

\* Serializable::serialize returned a string
SerializeObjectData ==
    /\ NewNamedObject({"serializable"})
    /\ FileRef(Z) /\ FileName(Cls)
    /\ heap' \in Unsets(HeldWith(Z.v))
    /\ Emit(<< NameTok(Cls, Src(Z.v)), Tok("objser", NoVal, NoVal) >>)
    /\ Do(<< >>)
    /\ UNCHANGED << root, compact, status, birth >>

\* Serializable::serialize returned null: a null in place of the object
SerializeObjectNull ==
    /\ NewObject({"serializable"}) /\ NullResult
    /\ FileRef(Z)
    /\ heap' \in Unsets(HeldWith(Z.v))
    /\ Emit(<< Tok("null", NoVal, NoVal) >>)
    /\ Do(<< >>)
    /\ UNCHANGED << root, compact, strings, string_count, status, birth >>

\* __sleep: names, one of them possibly absent or not a string; a value that
\* is not an array counts as the empty one
Names(o) == {heap[o].elems[i].k.v : i \in DOMAIN heap[o].elems} \cap Str
SleepResults(o) ==
    LET one == Names(o) \cup {Absent, NoVal}
    IN  {<< >>} \cup {<< x >> : x \in one} \cup {<< x, y >> : x \in one, y \in one}

SerializeObjectSleep ==
    /\ NewNamedObject({"sleep"})
    /\ FileRef(Z) /\ FileName(Cls)
    /\ heap' \in Unsets(HeldWith(Z.v))
    /\ \E names \in SleepResults(Z.v) :
         /\ Emit(<< NameTok(Cls, Src(Z.v)), Tok("arr", Len(names), NoVal) >>)
         /\ Do(IF names = << >> THEN << >> ELSE << Sleep(Z.v, names) >>)
    /\ UNCHANGED << root, compact, status, birth >>

\* user code threw, or the class may not be serialized
SerializeObjectThrows ==
    /\ NewObject({"serialize", "serializable", "sleep", "banned"})
    /\ Fail

TooManyStringsForName ==
    /\ NewObject(ClassKinds \ {"banned"}) /\ ~NameFits(ClassName)
    /\ Fail

(***************************************************************************)
(* One turn of the loop of igbinary_serialize_array.                       *)
(***************************************************************************)
Top == Head(todo)
Entry == heap[Top.h].elems[Top.i]
Advance(left) == Table(Top.h, Top.i + 1, Top.n, left)
AtBucket == At("table") /\ Top.i <= Top.n
AtMagic == Incomplete(heap[Top.h]) /\ IsMagicMember(Entry)

SkipMagic ==
    /\ AtBucket /\ AtMagic
    /\ Do(<< Advance(Top.left) >>)
    /\ UNCHANGED << heap, root, buffer, compact, tables, tracked, status, ghosts >>

\* the iteration macro passes over a deleted bucket
SkipDeleted ==
    /\ AtBucket /\ heap[Top.h].kind # "obj" /\ Entry.v = Undef
    /\ Do(<< Advance(Top.left) >>)
    /\ UNCHANGED << heap, root, buffer, compact, tables, tracked, status, ghosts >>

\* mutant: an unset property is passed over, as a deleted bucket is
PadUnsetNever ==
    /\ AtBucket /\ ~AtMagic /\ heap[Top.h].kind = "obj" /\ Entry.v = Undef
    /\ Do(<< Advance(Top.left) >>)
    /\ UNCHANGED << heap, root, buffer, compact, tables, tracked, status, ghosts >>

\* an unset property is padded with a null that has no key
PadUnset ==
    /\ AtBucket /\ ~AtMagic /\ heap[Top.h].kind = "obj" /\ Entry.v = Undef
    /\ Emit(<< Tok("null", NoVal, NoVal) >>)
    /\ Do(<< Advance(Top.left - 1) >>)
    /\ UNCHANGED << heap, root, compact, tables, tracked, status, ghosts >>

SerializeEntry ==
    /\ AtBucket /\ ~AtMagic /\ Entry.v # Undef
    /\ Do(<< Value(Entry.k), Value(Entry.v), Advance(Top.left - 1) >>)
    /\ UNCHANGED << heap, root, buffer, compact, tables, tracked, status, ghosts >>

EndTable ==
    /\ At("table") /\ Top.i > Top.n
    /\ Do(<< >>)
    /\ UNCHANGED << heap, root, buffer, compact, tables, tracked, status, ghosts >>

\* zval_ptr_dtor(&retval)
ReleaseReturned ==
    /\ At("dtor")
    /\ Do(<< >>)
    /\ UNCHANGED << heap, root, buffer, compact, tables, tracked, status, ghosts >>

(***************************************************************************)
(* One turn of the loop of igbinary_serialize_array_sleep_inner.           *)
(***************************************************************************)
Name == Head(Top.names)
Slots == {i \in DOMAIN heap[Top.o].elems : heap[Top.o].elems[i].k = Text(Name)}
RestOfNames == IF Len(Top.names) = 1 THEN << >> ELSE << Sleep(Top.o, Tail(Top.names)) >>

SleepNotAString ==
    /\ At("sleep") /\ Name = NoVal
    /\ Emit(<< Tok("null", NoVal, NoVal) >>)
    /\ Do(RestOfNames)
    /\ UNCHANGED << heap, root, compact, tables, tracked, status, ghosts >>

\* an absent property, and an unset one that is not typed, are written as null
SleepProperty ==
    /\ At("sleep") /\ Name # NoVal
    /\ \E z \in {heap[Top.o].elems[i].v : i \in Slots} \cup (IF Slots = {} THEN {Null} ELSE {}) :
         Do(<< Value(Text(Name)), Value(z) >> \o RestOfNames)
    /\ UNCHANGED << heap, root, buffer, compact, tables, tracked, status, ghosts >>

SleepUninitialized ==
    /\ At("sleep") /\ Name # NoVal
    /\ \E i \in Slots : heap[Top.o].elems[i].v = Undef
    /\ Fail

(***************************************************************************)
(* The end of the walk, and igbinary_serialize_data_deinit.                *)
(***************************************************************************)
\* mutant: the early return of a failure releases nothing
DeinitLeaks ==
    /\ status = "failed" \/ (status = "running" /\ todo = << >>)
    /\ status' = IF status = "failed" THEN "error" ELSE "done"
    /\ strings' = [s \in Str |-> NoId]
    /\ references' = [k \in Addr \cup {InvalidKey} |-> NoId]
    /\ tracked' = IF status = "failed" THEN tracked ELSE {}
    /\ todo' = << >>
    /\ UNCHANGED << heap, root, buffer, compact, string_count, references_id, ghosts >>

Deinit ==
    /\ status = "failed" \/ (status = "running" /\ todo = << >>)
    /\ status' = IF status = "failed" THEN "error" ELSE "done"
    /\ strings' = [s \in Str |-> NoId]
    /\ references' = [k \in Addr \cup {InvalidKey} |-> NoId]
    /\ tracked' = {}
    /\ todo' = << >>
    /\ UNCHANGED << heap, root, buffer, compact, string_count, references_id, ghosts >>

Init ==
    /\ \E g \in Graphs : heap = g.heap /\ root = g.root
    /\ todo = << Value(root) >>
    /\ buffer = << >>
    /\ compact \in IF root.t \in {"arr", "obj"} THEN BOOLEAN ELSE {FALSE}
    /\ strings = [s \in Str |-> NoId] /\ string_count = 0
    /\ references = [k \in Addr \cup {InvalidKey} |-> NoId] /\ references_id = 0
    /\ tracked = {}
    /\ status = "running"
    /\ birth = [a \in Addr |-> 0] /\ keyed = [a \in Addr |-> 0]

SerializeZval ==
    \/ StackOverflows
    \/ SerializeScalar \/ SerializeStringAgain \/ SerializeStringNew \/ TooManyStrings
    \/ SerializeArrayAgain \/ SerializeArrayNew \/ TooManyReferences
    \/ SerializeReferenceUnshared \/ SerializeReferenceToObject
    \/ SerializeReferenceAgain \/ SerializeReferenceNew

SerializeObject ==
    \/ SerializeObjectAgain \/ SerializeObjectPlain \/ SerializeObjectEnum
    \/ SerializeObjectMagic \/ SerializeObjectData \/ SerializeObjectNull
    \/ SerializeObjectSleep \/ SerializeObjectThrows \/ TooManyStringsForName

SerializeTable ==
    \/ SkipMagic \/ SkipDeleted \/ PadUnset \/ SerializeEntry \/ EndTable \/ ReleaseReturned
    \/ SleepNotAString \/ SleepProperty \/ SleepUninitialized

Next == SerializeZval \/ SerializeObject \/ SerializeTable \/ Deinit

Spec == Init /\ [][Next]_vars
FairSpec == Spec /\ WF_vars(Next)

(***************************************************************************)
(* Properties.                                                             *)
(***************************************************************************)
\* Every variable has its type.
TypeOK ==
    /\ heap \in [Addr -> Cell] /\ root \in Zval
    /\ todo \in Seq(Item) /\ buffer \in Seq(Token)
    /\ compact \in BOOLEAN
    /\ strings \in [Str -> Nat \cup {NoId}] /\ string_count \in Nat
    /\ references \in [Addr \cup {InvalidKey} -> Nat \cup {NoId}]
    /\ references_id \in Nat
    /\ tracked \subseteq Addr
    /\ status \in {"running", "failed", "done", "error"}
    /\ birth \in [Addr -> Nat] /\ keyed \in [Addr -> Nat]

\* An address filed in `references' still belongs to the cell it was filed
\* for: user code cannot free that cell and have its address handed to another
\* value, which would then be written as a back-reference to the wrong cell.
\* This is what igsd_addref_and_defer_dtor is for.
NoStaleKey == \A a \in Addr : references[a] # NoId => keyed[a] = birth[a]

\* The tables being iterated, the object whose __sleep names are looked up and
\* the values about to be written are alive and of the kind the walk takes them
\* for, although the C loops keep plain pointers to them while user code runs.
OnLiveCell(item) ==
    CASE item.op = "zval"  -> item.z.t \in Counted =>
                                 /\ item.z.v \in Live(heap, Held)
                                 /\ heap[item.z.v].kind = item.z.t
      [] item.op = "table" -> /\ item.h \in Live(heap, Held)
                              /\ item.n <= Len(heap[item.h].elems)
      [] item.op = "sleep" -> item.o \in Live(heap, Held)
      [] item.op = "dtor"  -> TRUE
WalkOnLiveCells == \A i \in DOMAIN todo : OnLiveCell(todo[i])

\* How igbinary_unserialize numbers what it reads: an array that is not the
\* property list of an object, an object, and a scalar that follows `ref'.
After(b, i, tags) == i > 1 /\ b[i - 1].tag \in tags
Numbered(b, i) ==
    \/ b[i].tag \in {"obj", "objid"}
    \/ b[i].tag = "arr" /\ ~After(b, i, {"obj", "objid"})
    \/ b[i].tag \in ScalarTags /\ After(b, i, {"ref"})
NumberOf(b, i) == Cardinality({j \in 1..(i - 1) : Numbered(b, j)})
NumberedSrc(b, i) == IF After(b, i, {"ref"}) /\ b[i].tag \notin {"obj", "objid"}
                     THEN b[i - 1].src ELSE b[i].src

\* A back-reference names, in the reader's numbering, the very cell that the
\* writer met again: the ids of the two sides never drift apart, whatever
\* mixture of references, shared arrays, objects and user code came before.
BackRefsExact ==
    \A p \in DOMAIN buffer : buffer[p].tag \in {"refid", "objref"} =>
       \E q \in 1..(p - 1) :
          /\ Numbered(buffer, q) /\ NumberOf(buffer, q) = buffer[p].v
          /\ NumberedSrc(buffer, q) = buffer[p].src

\* references_id counts what the reader will number: a reference to a scalar
\* is counted by the writer one token before the scalar is written.
Pending == IF /\ buffer # << >> /\ buffer[Len(buffer)].tag = "ref"
              /\ At("zval") /\ Z.t \notin Counted THEN 1 ELSE 0
IdsCountWhatIsRead == status = "running" =>
    references_id = Cardinality({i \in DOMAIN buffer : Numbered(buffer, i)}) + Pending

\* The reader numbers strings and new class names alike, in the order it reads
\* them; an id in `strings' is the number of the token that carries the string.
StringNumbers(b) == {i \in DOMAIN b : b[i].tag \in {"str", "obj"}}
StringsExact ==
    /\ string_count = Cardinality(StringNumbers(buffer))
    /\ \A s \in Str : strings[s] # NoId =>
         \E i \in StringNumbers(buffer) :
            /\ buffer[i].v = s
            /\ Cardinality({j \in StringNumbers(buffer) : j < i}) = strings[s]

\* When a loop over a table ends it has written as many entries as the header
\* announced, although user code may have unset entries meanwhile.
HeadersHonoured == At("table") /\ Top.i > Top.n => Top.left = 0

\* No id that is handed out reaches the point where a 32-bit counter wraps.
IdsBelowWrap == references_id < IdSpace /\ string_count < IdSpace

\* The recursion over cyclic values is cut by what has been filed, not by the stack
\* or the ids running out: a table is walked inside its own walk at most once for
\* each key it was filed under (its own, that of a root array, that of a reference
\* to it) and each __serialize that returned it.
Walks(a) == {i \in DOMAIN todo : \/ (todo[i].op = "table" /\ todo[i].h = a)
                                 \/ (todo[i].op = "sleep" /\ todo[i].o = a)}
KeysOf(a) == {k \in Addr : /\ references[k] # NoId
                           /\ k = a \/ (heap[k].kind = "ref" /\ heap[k].elems[1].v = Arr(a))}
             \cup (IF heap[a].kind = "arr" /\ references[InvalidKey] # NoId THEN {InvalidKey} ELSE {})
Returns(a) == {i \in DOMAIN todo : todo[i].op = "dtor" /\ todo[i].a = a}
CyclesCut == \A a \in Addr :
    Cardinality(Walks(a)) <= Cardinality(KeysOf(a)) + Cardinality(Returns(a))

\* The walk always ends, by success or by a failure that returns through all of
\* it, and everything it held is released.
Ends == <>(status \in {"done", "error"} /\ tracked = {})
=============================================================================
