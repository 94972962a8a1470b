---------------------------- MODULE MCUnserialize ----------------------------
(***************************************************************************)
(* Callers on input that no writer made: well-formed token sequences in    *)
(* which two tokens in a row have been replaced, and their beginnings.     *)
(***************************************************************************)
EXTENDS Callers, MCGraphs

T1(tag, v) == Tok(tag, v, NoVal)
NullTok == T1("null", NoVal)
IntTok  == T1("long", 0)
StrTok  == T1("str", s1)
RefTok  == T1("ref", NoVal)

\* an array with one key twice, a shared reference, an array with one key twice
\* and references under it, the second to an array that holds itself, an object
\* that holds itself under a property named twice, and one of each kind of object
Whole == {
    << T1("arr", 3), IntTok, T1("arr", 1), IntTok, NullTok, IntTok, NullTok, StrTok, T1("refid", 1) >>,
    << T1("arr", 2), IntTok, RefTok, StrTok, StrTok, RefTok, T1("refid", 1) >>,
    << T1("arr", 3), IntTok, RefTok, T1("refid", 0), IntTok, RefTok, T1("arr", 1), IntTok,
       T1("objref", 1), StrTok, RefTok, T1("refid", 1) >>,
    << T1("obj", B), T1("arr", 2), StrTok, T1("objref", 0), T1("strid", 1), RefTok, T1("objref", 0) >>,
    << T1("arr", 2), IntTok, T1("obj", A), T1("arr", 1), StrTok, T1("objid", 0), T1("arr", 0),
       StrTok, RefTok, T1("arr", 0) >>,
    << T1("arr", 2), IntTok, T1("obj", D), T1("objser", NoVal), StrTok, T1("obj", C), T1("enum", NoVal),
       T1("strid", 1) >> }

Damage == {NullTok, IntTok, StrTok, RefTok, T1("strid", 0), T1("strid", 1), T1("empty", NoVal),
           T1("arr", 0), T1("arr", 1), T1("arr", 2), T1("refid", 0), T1("objref", 1),
           T1("obj", A), T1("obj", B), T1("obj", x), T1("objid", 0), T1("objser", NoVal),
           T1("enum", NoVal)}

\* after "enum" an id is a "strid", which stands for either tag of it
CasesByName(b) == \A i \in 2..Len(b) : b[i - 1].tag = "enum" => b[i].tag # "objid"
DamagedInputs ==
    UNION {{c \in {[b EXCEPT ![i] = t, ![i - 1] = u] : i \in DOMAIN b \ {1}, t, u \in Damage} :
              CasesByName(c)} : b \in Whole}
    \cup UNION {{SubSeq(b, 1, n) : n \in 0..Len(b)} : b \in Whole}

\* the one integer and the one property name written as a string are the same name
DamagedNames == [n \in Ints |-> s1]

DamagedKind == [c \in Class |-> CASE c = A -> "serialize" [] c = B -> "wakeup"
                                  [] c = C -> "enum" [] OTHER -> "serializable"]
=============================================================================
