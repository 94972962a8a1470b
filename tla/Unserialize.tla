----------------------------- MODULE Unserialize -----------------------------
(***************************************************************************)
(* igbinary_unserialize: reads tokens, builds cells, then makes the        *)
(* deferred calls to __unserialize and __wakeup.  The C recursion is an    *)
(* explicit agenda, as in Serialize.  A place where a value goes (a zval   *)
(* pointer) is a slot: an entry of the table of a cell.  Cell 1 holds the  *)
(* result, and each __unserialize parameter has a holder of its own.       *)
(***************************************************************************)
EXTENDS Values

CONSTANTS
    Inputs,     \* token sequences to read
    MaxDepth,   \* unserialize_max_depth, 0 for none
    CallsThrow, \* whether __unserialize, __wakeup and unserialize may throw
    CallsUnset, \* whether they may unset properties of what was just built
    EnumCases,  \* names of the cases that enums have
    Decimal     \* zend_long_to_str

ASSUME UnserializeAssumption ==
    /\ Inputs \subseteq Seq({tok \in Token : WellFormed(tok)})
    \* an id that names an enum case is "strid", whichever tag it has: see CaseKnown
    /\ \A b \in Inputs : \A i \in 2..Len(b) : b[i - 1].tag = "enum" => b[i].tag # "objid"
    /\ MaxDepth \in Nat
    /\ CallsThrow \in BOOLEAN /\ CallsUnset \in BOOLEAN
    /\ EnumCases \subseteq Str
    /\ Decimal \in [Ints -> Str]

VARIABLES
    input,      \* the bytes to read, as tokens
    pos,        \* igsd->buffer_ptr
    out,        \* the cells built, a sequence indexed by their address
    made,       \* ghost: the source cell each of them stands for
    agenda,     \* calls and loops to resume, the innermost first
    dstrings,   \* igsd->strings
    drefs,      \* igsd->references
    deferred,   \* igsd->deferred
    dtors,      \* igsd->deferred_dtor_tracker: cells it holds
    called,     \* how many deferred calls have been considered
    throws,     \* delayed_call_failed
    flagged,    \* objects marked IS_OBJ_DESTRUCTOR_CALLED
    result      \* "reading", "calling", "failed", "done", "error", "crashed"

vars == << input, pos, out, made, agenda, dstrings, drefs, deferred, dtors,
           called, throws, flagged, result >>
calls == << called, throws, flagged >>

\* a zval that no table holds
HoldCell(z) == [kind |-> "hold", cls |-> NoVal, shared |-> FALSE, elems |-> << Elem(Null, z) >>]
At(op)   == result = "reading" /\ agenda # << >> /\ Head(agenda).op = op
Top      == Head(agenda)
More     == pos <= Len(input)
T        == input[pos]
Do(items) == agenda' = items \o Tail(agenda)

\* slots are << cell, index >>
In(H, s)     == H[s[1]].elems[s[2]].v
Put(H, s, z) == [H EXCEPT ![s[1]].elems[s[2]].v = z]
Next1        == Len(out) + 1

\* struct igbinary_value_ref: what a back-reference id stands for
Entry(ty, a, src) == [ty |-> ty, a |-> a, src |-> src]

Read(slot, want)      == [op |-> "zval", slot |-> slot, want |-> want]
Wrap(slot, src)       == [op |-> "wrap", slot |-> slot, src |-> src]
Fill(h, n, slot)      == [op |-> "fill", h |-> h, left |-> n, slot |-> slot]
Defer(o, param)       == [op |-> "defer", o |-> o, param |-> param]

(***************************************************************************)
(* Failure.  Every active call returns 1.  igbinary_unserialize_object     *)
(* defers __unserialize even when reading its parameter failed.            *)
(***************************************************************************)
MagicItems == {i \in DOMAIN agenda : agenda[i].op = "defer" /\ agenda[i].param # 0}
InOrder == {p \in [1..Cardinality(MagicItems) -> MagicItems] :
              \A i, j \in DOMAIN p : i < j => p[i] < p[j]}
\* the calls that the failing calls still defer, the innermost first
DeferPending(first) ==
    \E p \in InOrder :
       deferred' = first \o [i \in DOMAIN p |-> [o |-> agenda[p[i]].o, param |-> agenda[p[i]].param]]
FailWith(H) ==
    /\ result' = "failed"
    /\ out' = H
    /\ DeferPending(deferred)
    /\ agenda' = << >>
    /\ UNCHANGED << input, pos, made, dstrings, drefs, dtors, calls >>
Fail == FailWith(out)
\* the `cleanup' label: destroy what was built in the slot, leave null there
FailAndClear == FailWith(Put(out, Top.slot, Null))

(***************************************************************************)
(* igbinary_unserialize_zval: the depth limit, then one token.             *)
(***************************************************************************)
\* mutant: a reference does not count
DepthOfTables(items) == Cardinality({i \in DOMAIN items : items[i].op = "fill"})
\* igsd->cur_depth: the arrays, objects and references that are being read
Depth(items) == Cardinality({i \in DOMAIN items : items[i].op \in {"fill", "wrap"}})
TooDeep == MaxDepth > 0 /\ Depth(Tail(agenda)) >= MaxDepth
AtToken(tags) == At("zval") /\ ~TooDeep /\ More /\ T.tag \in tags

\* mutant: the end of the input is not checked
CannotReadDeep == At("zval") /\ TooDeep /\ Fail
CannotRead == At("zval") /\ ~AtToken(Tags \ {"objser", "enum"}) /\ Fail

StringAt(tok) == IF tok.tag = "strid" THEN dstrings[tok.v + 1] ELSE tok.v
StringKnown(tok) == tok.tag \in {"strid", "objid"} => tok.v < Len(dstrings)
Strings1(tok) == IF tok.tag \in {"str", "obj"} THEN Append(dstrings, tok.v) ELSE dstrings
Scalar(tok) == CASE tok.tag = "null" -> Null
                 [] tok.tag = "long" -> Long(tok.v)
                 [] tok.tag = "empty" -> Text(EmptyStr)
                 [] OTHER -> Text(StringAt(tok))

ReadScalar ==
    /\ AtToken(ScalarTags) /\ StringKnown(T)
    /\ out' = Put(out, Top.slot, Scalar(T))
    /\ dstrings' = Strings1(T)
    /\ pos' = pos + 1
    /\ Do(<< >>)
    /\ UNCHANGED << input, made, drefs, deferred, dtors, calls, result >>

UnknownString ==
    /\ AtToken({"strid", "obj", "objid"}) /\ ~StringKnown(T)
    /\ Fail

\* igbinary_type_ref: read the value, then box it if it is not boxed yet
ReadReference ==
    /\ AtToken({"ref"})
    /\ pos' = pos + 1
    /\ Do(<< Read(Top.slot, TRUE), Wrap(Top.slot, T.src) >>)
    /\ UNCHANGED << input, out, made, dstrings, drefs, deferred, dtors, calls, result >>

WrapReference ==
    /\ At("wrap")
    /\ LET z == In(out, Top.slot)
       IN  IF z.t = "ref"
           THEN UNCHANGED << out, made, drefs >>
           ELSE /\ out' = Append(Put(out, Top.slot, Ref(Next1)), RefCell(z, TRUE))
                /\ made' = Append(made, IF z.t \in {"arr", "obj"} THEN NoVal ELSE Top.src)
                /\ drefs' = IF z.t \in {"arr", "obj"} THEN drefs
                            ELSE Append(drefs, Entry("ref", Next1, Top.src))
    /\ Do(<< >>)
    /\ UNCHANGED << input, pos, dstrings, deferred, dtors, calls, result >>

(***************************************************************************)
(* igbinary_unserialize_array, called for a value.                         *)
(***************************************************************************)
\* put a new cell, boxed when a reference is wanted, into a slot
PutCell(H, slot, cell, want) ==
    LET a == Len(H) + 1
    IN  IF want
        THEN Append(Append(Put(H, slot, Ref(a + 1)), cell), RefCell([t |-> cell.kind, v |-> a], TRUE))
        ELSE Append(Put(H, slot, [t |-> cell.kind, v |-> a]), cell)
Make(src, want) == made \o (IF want THEN << NoVal, src >> ELSE << src >>)

\* fewer bytes than elements are left
Short(n, p) == Len(input) - p < n
ShortArray == /\ AtToken({"arr"}) /\ Short(T.v, pos) /\ Fail

\* mutant: the test for a reference is the wrong way round
BoxedAgain == Top.want /\ (T.v = 0 \/ In(out, Top.slot).t = "ref")
\* an array goes into a new reference; but one with elements that is the second
\* value of its key goes into the place of the first, when that is a reference
Boxed == Top.want /\ (T.v = 0 \/ In(out, Top.slot).t # "ref")
\* `the zval is a reference by now', says its entry
ReadArray ==
    /\ AtToken({"arr"})
    /\ pos' = pos + 1
    /\ out' = PutCell(out, Top.slot, ArrCell(<< >>), Boxed)
    /\ made' = Make(T.src, Boxed)
    /\ drefs' = Append(drefs, Entry(IF Top.want THEN "ref" ELSE IF T.v = 0 THEN "empty" ELSE "arr",
                                    IF Boxed THEN Next1 + 1 ELSE Next1, T.src))
    /\ Do(IF T.v = 0 THEN << >> ELSE << Fill(Next1, T.v, Top.slot) >>)
    /\ UNCHANGED << input, dstrings, deferred, dtors, calls, result >>

(***************************************************************************)
(* The loops of igbinary_unserialize_array and                             *)
(* igbinary_unserialize_object_properties.                                 *)
(***************************************************************************)
KeyTags == {"long", "str", "strid", "empty"}
OneLess == [Top EXCEPT !.left = @ - 1]
AtKey(tags) == At("fill") /\ Top.left > 0 /\ More /\ T.tag \in tags
\* a property's name is a string, also when it was written as an integer
KeyIn(h, tok) == IF out[h].kind = "obj" /\ tok.tag = "long" THEN Text(Decimal[tok.v]) ELSE Scalar(tok)
Indexes(h, k) == {i \in DOMAIN out[h].elems : out[h].elems[i].k = k}

CannotReadKey ==
    /\ At("fill") /\ Top.left > 0
    /\ More => \/ T.tag \notin KeyTags \cup {"null"}
               \/ T.tag = "strid" /\ ~StringKnown(T)
    /\ FailAndClear

SkipKeyless ==
    /\ AtKey({"null"})
    /\ pos' = pos + 1
    /\ Do(<< OneLess >>)
    /\ UNCHANGED << input, out, made, dstrings, drefs, deferred, dtors, calls, result >>

ReadNewKey ==
    /\ AtKey(KeyTags) /\ StringKnown(T) /\ Indexes(Top.h, KeyIn(Top.h, T)) = {}
    /\ pos' = pos + 1
    /\ dstrings' = Strings1(T)
    /\ out' = [out EXCEPT ![Top.h].elems = Append(@, Elem(KeyIn(Top.h, T), Null))]
    /\ Do(<< Read(<< Top.h, Len(out[Top.h].elems) + 1 >>, FALSE), OneLess >>)
    /\ UNCHANGED << input, made, drefs, deferred, dtors, calls, result >>

\* mutants: no overwritten value, or only an overwritten array, is kept
KeepNone(z)   == dtors
KeepArrays(z) == IF z.t = "arr" THEN dtors \cup {z.v} ELSE dtors

\* the key exists: the old value must outlive the back-references to it
KeepOld(z) == IF z.t \in Counted THEN dtors \cup {z.v} ELSE dtors
ReadOldKey ==
    /\ AtKey(KeyTags) /\ StringKnown(T)
    /\ pos' = pos + 1
    /\ dstrings' = Strings1(T)
    /\ \E i \in Indexes(Top.h, KeyIn(Top.h, T)) :
         /\ dtors' = KeepOld(out[Top.h].elems[i].v)
         /\ out' = IF out[Top.h].kind = "obj" THEN Put(out, << Top.h, i >>, Null) ELSE out
         /\ Do(<< Read(<< Top.h, i >>, FALSE), OneLess >>)
    /\ UNCHANGED << input, made, drefs, deferred, calls, result >>

\* mutant: the end of the input ends the loop
EndFillAtEnd ==
    /\ At("fill") /\ (Top.left = 0 \/ ~More)
    /\ Do(<< >>)
    /\ UNCHANGED << input, pos, out, made, dstrings, drefs, deferred, dtors, calls, result >>

EndFill ==
    /\ At("fill") /\ Top.left = 0
    /\ Do(<< >>)
    /\ UNCHANGED << input, pos, out, made, dstrings, drefs, deferred, dtors, calls, result >>

(***************************************************************************)
(* igbinary_unserialize_object: the class name, a place in references, and *)
(* by the next token properties, an __unserialize parameter, the string of *)
(* Serializable::unserialize or an enum case.                              *)
(***************************************************************************)
ClassAt(tok) == IF tok.tag = "objid" THEN dstrings[tok.v + 1] ELSE tok.v
ClassName == ClassAt(T)
\* a class that does not exist becomes __PHP_Incomplete_Class
KindOf(c) == IF c \in Class THEN Kind[c] ELSE "plain"
\* object_init_ex, and php_store_class_name when the class does not exist
Created(c) == IF c \in Class THEN ObjCell(c, << >>)
              ELSE ObjCell(IncompleteClass, << Elem(Text(MagicMember), Text(c)) >>)
T2 == input[pos + 1]
AtObject(tags) == /\ AtToken({"obj", "objid"}) /\ StringKnown(T)
                  /\ pos < Len(input) /\ T2.tag \in tags

\* mutant: off by one
BuildObjectPast(cell) ==
    /\ out' = PutCell(out, Top.slot, cell, Top.want)
    /\ made' = made \o (IF Top.want THEN << T.src, NoVal >> ELSE << T.src >>)
    /\ drefs' = Append(drefs, Entry(IF Top.want THEN "ref" ELSE "obj", Next1 + 1, T.src))
BuildObject(cell) ==
    /\ out' = PutCell(out, Top.slot, cell, Top.want)
    /\ made' = made \o (IF Top.want THEN << T.src, NoVal >> ELSE << T.src >>)
    /\ drefs' = Append(drefs, Entry(IF Top.want THEN "ref" ELSE "obj",
                                    IF Top.want THEN Next1 + 1 ELSE Next1, T.src))

\* The case name is read as a string, from the table or new.  The switch takes every
\* tag that is no string for igbinary_unserialize_string's, which reads object_id8 as it
\* does string_id8: after "enum" the token "strid" stands for both.
CaseKnown(tok) == /\ tok.tag \in {"str", "strid"}
                  /\ tok.tag = "strid" => tok.v < Len(Strings1(T))
                  /\ (IF tok.tag = "strid" THEN Strings1(T)[tok.v + 1] ELSE tok.v) \in EnumCases

\* the object's data is missing, short, of an unknown kind, or refused
CannotReadObject ==
    /\ AtToken({"obj", "objid"}) /\ StringKnown(T)
    /\ \/ pos = Len(input)
       \/ KindOf(ClassName) = "banned"
       \/ pos < Len(input) /\ T2.tag \notin {"arr", "objser", "enum"}
       \/ pos < Len(input) /\ T2.tag = "arr" /\ KindOf(ClassName) = "enum"  \* object_init_ex
       \/ pos < Len(input) /\ T2.tag = "objser" /\ (KindOf(ClassName) # "serializable" \/ CallsThrow)
       \/ pos < Len(input) /\ T2.tag = "enum"
          /\ ~(KindOf(ClassName) = "enum" /\ pos + 1 < Len(input) /\ CaseKnown(input[pos + 2]))
    /\ Fail

\* the property list is cut: the object has been put in its place already
ShortProperties ==
    /\ AtObject({"arr"}) /\ KindOf(ClassName) \notin {"serialize", "banned", "enum"} /\ Short(T2.v, pos + 1)
    /\ FailWith(PutCell(out, Top.slot, Created(ClassName), Top.want))

\* so is __unserialize's parameter, which is deferred all the same
ShortParameter ==
    /\ AtObject({"arr"}) /\ KindOf(ClassName) = "serialize" /\ Short(T2.v, pos + 1)
    /\ result' = "failed"
    /\ out' = Append(PutCell(out, Top.slot, ObjCell(ClassName, << >>), Top.want), HoldCell(Null))
    /\ DeferPending(Append(deferred, [o |-> Next1, param |-> Len(out')]))
    /\ agenda' = << >>
    /\ UNCHANGED << input, pos, made, dstrings, drefs, dtors, calls >>

ReadObject ==
    /\ AtObject({"arr"}) /\ KindOf(ClassName) \notin {"serialize", "banned", "enum"}
    /\ pos' = pos + 2
    /\ dstrings' = Strings1(T)
    /\ BuildObject(Created(ClassName))
    /\ Do((IF T2.v = 0 THEN << >> ELSE << Fill(Next1, T2.v, Top.slot) >>)
          \o (IF KindOf(ClassName) = "wakeup" THEN << Defer(Next1, 0) >> ELSE << >>))
    /\ UNCHANGED << input, deferred, dtors, calls, result >>

\* the array read for __unserialize is not numbered: create_ref is false
ReadParameter ==
    /\ AtObject({"arr"}) /\ KindOf(ClassName) = "serialize"
    /\ pos' = pos + 2
    /\ dstrings' = Strings1(T)
    /\ LET H     == PutCell(out, Top.slot, ObjCell(ClassName, << >>), Top.want)
           param == Len(H) + 1
       IN  /\ out' = Append(Append(H, HoldCell(Arr(param + 1))), ArrCell(<< >>))
           /\ made' = made \o (IF Top.want THEN << T.src, NoVal >> ELSE << T.src >>) \o << NoVal, NoVal >>
           /\ Do((IF T2.v = 0 THEN << >> ELSE << Fill(param + 1, T2.v, << param, 1 >>) >>)
                 \o << Defer(Next1, param) >>)
    /\ drefs' = Append(drefs, Entry(IF Top.want THEN "ref" ELSE "obj",
                                    IF Top.want THEN Next1 + 1 ELSE Next1, T.src))
    /\ UNCHANGED << input, deferred, dtors, calls, result >>

ReadSerializable ==
    /\ AtObject({"objser"}) /\ KindOf(ClassName) = "serializable"
    /\ pos' = pos + 2
    /\ dstrings' = Strings1(T)
    /\ BuildObject(ObjCell(ClassName, << >>))
    /\ Do(<< >>)
    /\ UNCHANGED << input, deferred, dtors, calls, result >>

ReadEnumCase ==
    /\ AtObject({"enum"}) /\ KindOf(ClassName) = "enum" /\ pos + 1 < Len(input)
    /\ LET name == input[pos + 2]
       IN  /\ CaseKnown(name)
           /\ dstrings' = Strings1(T) \o (IF name.tag = "str" THEN << name.v >> ELSE << >>)
    /\ pos' = pos + 3
    /\ BuildObject(ObjCell(ClassName, << >>))
    /\ Do(<< >>)
    /\ UNCHANGED << input, deferred, dtors, calls, result >>

(***************************************************************************)
(* igbinary_unserialize_ref.  Wanted as a reference, the entry itself      *)
(* becomes one, so that every later use of the id shares it.               *)
(***************************************************************************)
Target == drefs[T.v + 1]
\* mutant: an entry that has become a reference is passed on as it is
SharedBox(e, a) == CASE e.ty = "obj" -> Obj(e.a)
                     [] e.ty = "arr" -> Arr(e.a)
                     [] e.ty = "empty" -> Arr(a)
                     [] OTHER -> Ref(e.a)
Shared(e, a) == CASE e.ty = "obj" -> Obj(e.a)
                  [] e.ty = "arr" -> Arr(e.a)
                  [] e.ty = "empty" -> Arr(a)
                  [] OTHER -> In(out, << e.a, 1 >>)
AtBackRef == AtToken({"refid", "objref"})

UnknownId == AtBackRef /\ T.v >= Len(drefs) /\ Fail

ShareReference ==
    /\ AtBackRef /\ T.v < Len(drefs) /\ Target.ty = "ref" /\ Top.want
    /\ out' = Put(out, Top.slot, Ref(Target.a))
    /\ pos' = pos + 1
    /\ Do(<< >>)
    /\ UNCHANGED << input, made, dstrings, drefs, deferred, dtors, calls, result >>

\* an array filed as a reference: its address passes for a zend_reference
Mistaken == Target.ty = "ref" /\ out[Target.a].kind # "ref"

\* an empty array is not shared: each use of its id makes another one
ShareValue ==
    /\ AtBackRef /\ T.v < Len(drefs) /\ ~Top.want /\ ~Mistaken
    /\ LET fresh == Target.ty = "empty"
       IN  /\ out' = LET H == Put(out, Top.slot, Shared(Target, Next1))
                     IN  IF fresh THEN Append(H, ArrCell(<< >>)) ELSE H
           /\ made' = IF fresh THEN Append(made, Target.src) ELSE made
    /\ pos' = pos + 1
    /\ Do(<< >>)
    /\ UNCHANGED << input, dstrings, drefs, deferred, dtors, calls, result >>

\* what is at the place of `val' in a zend_array is undefined: copying it as a
\* zval kills the process, or gives a value that nobody wrote.  (A pointer found
\* there leads to no cell: it counts as the crash that it comes to.)
MisreadCrash ==
    /\ AtBackRef /\ T.v < Len(drefs) /\ ~Top.want /\ Mistaken
    /\ result' = "crashed"
    /\ agenda' = << >>
    /\ UNCHANGED << input, pos, out, made, dstrings, drefs, deferred, dtors, calls >>
MisreadValue ==
    /\ AtBackRef /\ T.v < Len(drefs) /\ ~Top.want /\ Mistaken
    /\ \E z \in {Null, Undef} \cup Key : out' = Put(out, Top.slot, z)
    /\ pos' = pos + 1
    /\ Do(<< >>)
    /\ UNCHANGED << input, made, dstrings, drefs, deferred, dtors, calls, result >>

\* mutant: the entry does not become the reference made for it
BoxTargetOnce ==
    /\ AtBackRef /\ T.v < Len(drefs) /\ Target.ty # "ref" /\ Top.want
    /\ LET fresh == Target.ty = "empty"
           r == IF fresh THEN Next1 + 1 ELSE Next1
           H == Put(out, Top.slot, Ref(r))
       IN  /\ out' = (IF fresh THEN Append(H, ArrCell(<< >>)) ELSE H)
                     \o << RefCell(Shared(Target, Next1), TRUE) >>
           /\ made' = made \o (IF fresh THEN << NoVal, NoVal >> ELSE << NoVal >>)
    /\ pos' = pos + 1
    /\ Do(<< >>)
    /\ UNCHANGED << input, dstrings, drefs, deferred, dtors, calls, result >>

BoxTarget ==
    /\ AtBackRef /\ T.v < Len(drefs) /\ Target.ty # "ref" /\ Top.want
    /\ LET fresh == Target.ty = "empty"
           r == IF fresh THEN Next1 + 1 ELSE Next1
           H == Put(out, Top.slot, Ref(r))
       IN  /\ out' = (IF fresh THEN Append(H, ArrCell(<< >>)) ELSE H)
                     \o << RefCell(Shared(Target, Next1), TRUE) >>
           /\ made' = made \o (IF fresh THEN << NoVal, NoVal >> ELSE << NoVal >>)
           /\ drefs' = [drefs EXCEPT ![T.v + 1] = Entry("ref", r, @.src)]
    /\ pos' = pos + 1
    /\ Do(<< >>)
    /\ UNCHANGED << input, dstrings, deferred, dtors, calls, result >>

(***************************************************************************)
(* Deferring calls, and making them once everything has been read.         *)
(***************************************************************************)
\* mutants: no call for an empty parameter; the latest call is made first
DeferCallNotEmpty ==
    /\ At("defer")
    /\ deferred' = IF Top.param # 0 /\ out[out[Top.param].elems[1].v.v].elems = << >>
                   THEN deferred ELSE Append(deferred, [o |-> Top.o, param |-> Top.param])
    /\ Do(<< >>)
    /\ UNCHANGED << input, pos, out, made, dstrings, drefs, dtors, calls, result >>
DeferCallFirst ==
    /\ At("defer")
    /\ deferred' = << [o |-> Top.o, param |-> Top.param] >> \o deferred
    /\ Do(<< >>)
    /\ UNCHANGED << input, pos, out, made, dstrings, drefs, dtors, calls, result >>

DeferCall ==
    /\ At("defer")
    /\ deferred' = Append(deferred, [o |-> Top.o, param |-> Top.param])
    /\ Do(<< >>)
    /\ UNCHANGED << input, pos, out, made, dstrings, drefs, dtors, calls, result >>

TrailingData == result = "reading" /\ agenda = << >> /\ More /\ Fail

StartCalls ==
    /\ result = "reading" /\ agenda = << >> /\ ~More
    /\ result' = "calling"
    /\ UNCHANGED << input, pos, out, made, agenda, dstrings, drefs, deferred, dtors, calls >>

\* what holds cells: the result, the tracker, parameters not yet passed
Params == {deferred[i].param : i \in {j \in DOMAIN deferred : j > called}}
          \cup {agenda[i].param : i \in {j \in DOMAIN agenda : agenda[j].op = "defer"}}
Live == Reach(out, ({1} \cup dtors \cup Params) \ {0})

\* user code in a call: it may unset one property of an object that is live
Unsets == {out} \cup (IF CallsUnset
                      THEN UNION {{Put(out, << a, i >>, Undef) : i \in DOMAIN out[a].elems} :
                                  a \in {b \in Live : out[b].kind = "obj" /\ ~Incomplete(out[b])}}
                      ELSE {})

\* after one call has thrown the others are skipped, and their objects and the
\* thrower's are marked so that their destructors do not run
MakeCall ==
    /\ result = "calling" /\ called < Len(deferred) /\ ~throws
    /\ called' = called + 1
    /\ out' \in Unsets
    /\ UNCHANGED << throws, flagged >>
    /\ UNCHANGED << input, pos, made, agenda, dstrings, drefs, deferred, dtors, result >>

CallThrows ==
    /\ result = "calling" /\ called < Len(deferred) /\ ~throws /\ CallsThrow
    /\ called' = called + 1
    /\ throws' = TRUE
    /\ flagged' = flagged \cup {deferred[called + 1].o}
    /\ UNCHANGED << input, pos, out, made, agenda, dstrings, drefs, deferred, dtors, result >>

\* mutant: an object whose call is skipped is not marked
SkipCallUnmarked ==
    /\ result = "calling" /\ called < Len(deferred) /\ throws
    /\ called' = called + 1
    /\ UNCHANGED << input, pos, out, made, agenda, dstrings, drefs, deferred, dtors, throws,
                    flagged, result >>
SkipCall ==
    /\ result = "calling" /\ called < Len(deferred) /\ throws
    /\ called' = called + 1
    /\ flagged' = flagged \cup {deferred[called + 1].o}
    /\ UNCHANGED << input, pos, out, made, agenda, dstrings, drefs, deferred, dtors, throws, result >>

(***************************************************************************)
(* igbinary_unserialize_data_deinit: pending __unserialize calls are       *)
(* dropped with a mark on their objects; a pending __wakeup leaves none.   *)
(***************************************************************************)
Deinit ==
    /\ \/ result = "failed"
       \/ result = "calling" /\ called = Len(deferred)
    /\ result' = IF result = "failed" \/ throws THEN "error" ELSE "done"
    /\ flagged' = IF result = "failed"
                  THEN flagged \cup {deferred[i].o : i \in {j \in DOMAIN deferred : deferred[j].param # 0}}
                  ELSE flagged
    /\ called' = Len(deferred)
    /\ dtors' = {}
    /\ drefs' = << >> /\ dstrings' = << >>
    /\ UNCHANGED << input, pos, out, made, agenda, deferred, throws >>

Start(b) ==
    /\ input = b /\ pos = 1
    /\ out = << HoldCell(Null) >> /\ made = << NoVal >>
    /\ agenda = << Read(<< 1, 1 >>, FALSE) >>
    /\ dstrings = << >> /\ drefs = << >> /\ deferred = << >>
    /\ dtors = {} /\ called = 0 /\ throws = FALSE /\ flagged = {}
    /\ result = "reading"

Init == \E b \in Inputs : Start(b)

ReadZval ==
    \/ CannotRead \/ ReadScalar \/ UnknownString \/ ReadReference \/ WrapReference
    \/ ShortArray \/ ReadArray
    \/ CannotReadKey \/ SkipKeyless \/ ReadNewKey \/ ReadOldKey \/ EndFill
    \/ CannotReadObject \/ ShortProperties \/ ShortParameter
    \/ ReadObject \/ ReadParameter \/ ReadSerializable \/ ReadEnumCase
    \/ UnknownId \/ ShareReference \/ ShareValue \/ MisreadCrash \/ MisreadValue \/ BoxTarget

FinishDeferredCalls == StartCalls \/ MakeCall \/ CallThrows \/ SkipCall

Next == ReadZval \/ DeferCall \/ TrailingData \/ FinishDeferredCalls \/ Deinit

Spec == Init /\ [][Next]_vars

(***************************************************************************)
(* Properties.                                                             *)
(***************************************************************************)
\* Every variable has its type.
Built == {Null, Undef} \cup Key \cup [t : Counted, v : DOMAIN out]
TypeOK ==
    /\ pos \in 1..(Len(input) + 1)
    /\ out \in Seq([kind : Counted \cup {"hold"}, cls : Str \cup {NoVal}, shared : BOOLEAN,
                    elems : Seq([k : Key \cup {Null}, v : Built])])
    /\ result \in {"reading", "calling", "done"} => Len(made) = Len(out)
    /\ \A i \in DOMAIN agenda : agenda[i].op \in {"zval", "wrap", "fill", "defer"}
    /\ dstrings \in Seq(Str)
    /\ \A i \in DOMAIN drefs : /\ drefs[i].ty \in {"obj", "arr", "empty", "ref"}
                               /\ drefs[i].a \in DOMAIN out
    /\ \A i \in DOMAIN deferred : /\ deferred[i].o \in DOMAIN out
                                  /\ deferred[i].param \in 0..Len(out)
    /\ called \in 0..Len(deferred) /\ throws \in BOOLEAN
    /\ dtors \cup flagged \subseteq DOMAIN out
    /\ result \in {"reading", "calling", "failed", "done", "error", "crashed"}

\* The entries of `references' are pointers that hold no refcount: as long as
\* there is input to read, each still points to a live cell, also when a
\* property that __sleep named twice has been read over the first value.  An
\* object is filed as an object and an array as an array; what is filed as a
\* reference is one, or is an array (EntriesAsFiled says that it never is).
Filed == {i \in DOMAIN drefs : drefs[i].ty # "empty"}
KeptPointersLive ==
    result = "reading" =>
       /\ {drefs[i].a : i \in Filed} \cup {deferred[i].o : i \in DOMAIN deferred} \subseteq Live
       /\ \A i \in Filed : \/ out[drefs[i].a].kind = drefs[i].ty
                           \/ drefs[i].ty = "ref" /\ out[drefs[i].a].kind = "arr"

\* Each entry of `references' is of the type that it was filed with: a back-
\* reference reads a zend_array as a zend_array and a zend_reference as one.
EntriesAsFiled ==
    result = "reading" => \A i \in Filed : out[drefs[i].a].kind = drefs[i].ty

\* A deferred call is made on an object that is still alive.
CallsOnLiveObjects ==
    result = "calling" /\ called < Len(deferred) => deferred[called + 1].o \in Live

\* The reader's recursion is bounded by unserialize_max_depth, on input of any
\* shape: arrays, objects, references and the arrays kept for __unserialize all
\* count, and counting them wrong on one path would let the C stack grow.
NestedWithinLimit ==
    MaxDepth > 0 =>
       Cardinality({i \in DOMAIN agenda : agenda[i].op \in {"fill", "wrap"}}) <= MaxDepth

\* Once a call has thrown, its object and the objects of all later calls are
\* marked, so that no destructor sees a half-built object; the objects whose
\* calls were made keep theirs.
MarkedFromThrower ==
    throws => \E t \in 1..called :
                 flagged = {deferred[i].o : i \in t..called}
\* An object is called after the objects that it, or the array kept for its
\* __unserialize, holds, when these were made while it was read: __wakeup of a
\* container finds its contents woken.
Contents(H, call) == Targets(H, call.o) \cup
                     (IF call.param = 0 THEN {} ELSE Targets(H, H[call.param].elems[1].v.v))
ChildrenFirst ==
    result = "calling" =>
       \A i, j \in DOMAIN deferred :
          deferred[j].o \in Contents(out, deferred[i]) /\ deferred[j].o > deferred[i].o => j < i

\* On success each object with __wakeup or __unserialize got exactly one call.
HasCall(c) == c.kind = "obj" /\ KindOf(c.cls) \in {"serialize", "wakeup"}
Due(H)     == {a \in DOMAIN H : HasCall(H[a])}
CalledOnce ==
    result = "done" =>
       /\ {deferred[i].o : i \in DOMAIN deferred} = Due(out)
       /\ \A i, j \in DOMAIN deferred : deferred[i].o = deferred[j].o => i = j

\* The parameter kept for __unserialize is an array.
ParameterIsArray ==
    \A i \in DOMAIN deferred : deferred[i].param # 0 =>
       out[deferred[i].param].elems[1].v.t = "arr"
=============================================================================
