------------------------------- MODULE Values -------------------------------
(***************************************************************************)
(* The data igbinary works on: PHP values (zvals), the refcounted cells    *)
(* they point to, and the tokens of the binary format.                     *)
(*                                                                         *)
(* A zval is a scalar or a pointer to a cell of the Zend heap: an array,   *)
(* an object or a reference (the shared box that `&' creates).  Only what  *)
(* igbinary's control flow tells apart is kept: booleans, doubles and      *)
(* resources behave as "null" does, and a token is one tagged element, its *)
(* 8/16/32/64-bit width and the bytes of its payload abstracted.           *)
(***************************************************************************)
EXTENDS Integers, Sequences, FiniteSets

CONSTANTS
    Addr,       \* addresses of heap cells (the uintptr_t keys of hash_si_ptr)
    Immutable,  \* those holding immutable (not refcounted) arrays
    Str,        \* strings, the class names among them
    EmptyStr,   \* the string of length 0
    Class,      \* class names
    Kind,       \* how a class serializes, see ClassKinds
    IncompleteClass,  \* __PHP_Incomplete_Class: objects whose class does not exist
    MagicMember,      \* __PHP_Incomplete_Class_Name: the property with that class's name
    Ints,       \* integers used as array keys and values
    NoVal       \* filler of fields that do not apply

ClassKinds == {"plain",        \* properties are serialized
               "sleep",        \* __sleep names the properties
               "serialize",    \* __serialize / __unserialize
               "serializable", \* Serializable::serialize / unserialize
               "wakeup",       \* plain, with a __wakeup
               "enum",         \* PHP 8.1 enum
               "banned"}       \* ZEND_ACC_NOT_SERIALIZABLE

ASSUME ValuesAssumption ==
    /\ Immutable \subseteq Addr
    /\ Class \subseteq Str
    /\ EmptyStr \in Str \ Class
    /\ Ints \subseteq Int
    /\ Kind \in [Class -> ClassKinds]
    /\ {IncompleteClass, MagicMember} \subseteq Str
    /\ IncompleteClass \in Class => Kind[IncompleteClass] = "plain"
    /\ NoVal \notin Addr \cup Str \cup Ints

(***************************************************************************)
(* Zvals.                                                                  *)
(***************************************************************************)
Null    == [t |-> "null", v |-> NoVal]
Undef   == [t |-> "undef", v |-> NoVal]   \* unset declared property, deleted bucket
Long(n) == [t |-> "long", v |-> n]
Text(s) == [t |-> "str", v |-> s]
Arr(a)  == [t |-> "arr", v |-> a]
Obj(a)  == [t |-> "obj", v |-> a]
Ref(a)  == [t |-> "ref", v |-> a]

Counted == {"arr", "obj", "ref"}

Key  == [t : {"long"}, v : Ints] \cup [t : {"str"}, v : Str]
Zval == {Null, Undef} \cup Key \cup [t : Counted, v : Addr]

(***************************************************************************)
(* Cells.  An array or an object has an ordered table of elements, a       *)
(* reference has one element, its value, and `shared' says that its        *)
(* refcount is at least 2.                                                 *)
(***************************************************************************)
Elem(k, v) == [k |-> k, v |-> v]

Elems == Seq([k : Key \cup {Null}, v : Zval])   \* a reference's value has no key
Cell  == [kind : Counted \cup {"free"}, cls : Class \cup {NoVal},
          shared : BOOLEAN, elems : Elems]

FreeCell     == [kind |-> "free", cls |-> NoVal, shared |-> FALSE, elems |-> << >>]
ArrCell(es)  == [kind |-> "arr", cls |-> NoVal, shared |-> FALSE, elems |-> es]
ObjCell(c, es) == [kind |-> "obj", cls |-> c, shared |-> FALSE, elems |-> es]
RefCell(z, many) == [kind |-> "ref", cls |-> NoVal, shared |-> many,
                     elems |-> << Elem(Null, z) >>]

\* an enum case has no property to unset
Fixed(c) == c.kind = "obj" /\ Kind[c.cls] = "enum"

\* an object of __PHP_Incomplete_Class; user code cannot change its properties
Incomplete(c)    == c.kind = "obj" /\ c.cls = IncompleteClass
IsMagicMember(e) == e.k = Text(MagicMember)

(***************************************************************************)
(* Pointers.  What the Zend heap guarantees of the cells: an object has a *)
(* class, a reference and an enum case have one value, that of a reference *)
(* is no reference, what a table holds has a key, a pointer leads to a     *)
(* cell of its type, and immutable arrays hold no refcounted value.        *)
(***************************************************************************)
Pointers(c)   == {c.elems[i].v : i \in {j \in DOMAIN c.elems : c.elems[j].v.t \in Counted}}
Targets(H, a) == {z.v : z \in Pointers(H[a])}

PointsAt(H, z) == z.t \in Counted => H[z.v].kind = z.t
PointersOK(H, live) == \A a \in live : \A z \in Pointers(H[a]) : PointsAt(H, z)
Keyed(c) == c.kind # "ref" => \A i \in DOMAIN c.elems : c.elems[i].k \in Key
CellsOK(H) ==
    /\ \A a \in Addr : Keyed(H[a])
    /\ \A a \in Addr : H[a].kind = "obj" => H[a].cls \in Class
    /\ \A a \in Addr : H[a].kind = "ref" \/ Fixed(H[a]) => Len(H[a].elems) = 1
    /\ \A a \in Addr : H[a].kind = "ref" => H[a].elems[1].v.t # "ref"
    /\ \A a \in Immutable : H[a].kind = "arr" /\ Targets(H, a) \subseteq Immutable

(***************************************************************************)
(* What is alive.  A refcounted cell lives as long as a live holder points *)
(* to it: the cells reachable from a set S of held addresses, the least    *)
(* set that holds S and what its members point to.                         *)
(***************************************************************************)
Closed(H, S)  == \A a \in S : Targets(H, a) \subseteq S
Closure(H, S) == {a \in Addr : \A C \in SUBSET Addr : S \subseteq C /\ Closed(H, C) => a \in C}

\* The same over the cells there are, where what is a few steps away needs no
\* search: every closed set that holds S holds Near.
OneStep(H, S) == S \cup UNION {Targets(H, a) : a \in S}
Near(H, S)    == OneStep(H, OneStep(H, OneStep(H, OneStep(H, S))))
Reach(H, S)   ==
    LET far == DOMAIN H \ Near(H, S)
    IN  Near(H, S) \cup {a \in far : \A D \in SUBSET far : Closed(H, Near(H, S) \cup D) => a \in D}

(***************************************************************************)
(* Tokens of the format.  `src' is a ghost, not in the bytes: what the     *)
(* token stands for, a cell (an address and which of its successive        *)
(* occupants) or the string of a string id.                                *)
(***************************************************************************)
ScalarTags == {"null", "long", "str", "strid", "empty"}
Tags == ScalarTags \cup {"arr", "obj", "objid", "objser", "objref", "refid",
                         "ref", "enum"}

Tok(tag, v, src) == [tag |-> tag, v |-> v, src |-> src]
Token == [tag : Tags, v : Nat \cup Ints \cup Str \cup {NoVal},
          src : (Addr \X Nat) \cup Str \cup {NoVal}]

\* the operand of a token, as the bytes hold it
WellFormed(tok) ==
    CASE tok.tag = "long" -> tok.v \in Ints
      [] tok.tag \in {"str", "obj"} -> tok.v \in Str
      [] tok.tag \in {"strid", "objid", "arr", "refid", "objref"} -> tok.v \in Nat
      [] OTHER -> TRUE
=============================================================================
