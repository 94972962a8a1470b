------------------------------ MODULE RoundTrip ------------------------------
(***************************************************************************)
(* A value is serialized, the bytes are stored (whole or cut short), and   *)
(* unserialized: Serialize and Unserialize composed.                       *)
(***************************************************************************)
EXTENDS Values

CONSTANTS NoId, InvalidKey, IdSpace, Graphs, TempKeys, TempCells, Absent,
          NullResult, StackLimited, RefWrites,  \* see Serialize
          Inputs, MaxDepth, CallsThrow, CallsUnset, EnumCases, Decimal,  \* see Unserialize
          WholeOnly          \* what is stored whole: the output for a value with
                             \* an object of one of these classes

VARIABLES heap, root, todo, buffer, compact, strings, string_count,
          references, references_id, tracked, status, birth, keyed
VARIABLES input, pos, out, made, agenda, dstrings, drefs, deferred, dtors,
          called, throws, flagged, result

Writer == INSTANCE Serialize
Reader == INSTANCE Unserialize

ASSUME RoundTripAssumption == Writer!SerializeAssumption /\ Reader!UnserializeAssumption

wvars == << heap, root, todo, buffer, compact, strings, string_count,
            references, references_id, tracked, status, birth, keyed >>
rvars == << input, pos, out, made, agenda, dstrings, drefs, deferred, dtors,
            called, throws, flagged, result >>
vars == << wvars, rvars >>

Init == Writer!Init /\ Reader!Start(<< >>)

Write == result = "reading" /\ input = << >> /\ Writer!Next /\ UNCHANGED rvars

\* the caller passes what it stored to igbinary_unserialize
Pass ==
    /\ status = "done" /\ input = << >> /\ result = "reading"
    /\ \E n \in 1..Len(buffer) :
          /\ n < Len(buffer) => \A a \in Addr : heap[a].cls \notin WholeOnly
          /\ input' = SubSeq(buffer, 1, n)
    /\ UNCHANGED << wvars, pos, out, made, agenda, dstrings, drefs, deferred, dtors,
                    called, throws, flagged, result >>

ReadBack == input # << >> /\ Reader!Next /\ UNCHANGED wvars

Next == Write \/ Pass \/ ReadBack

Spec == Init /\ [][Next]_vars

\* The reader's safety properties, stated in Unserialize, for input that the
\* writer produced.
KeptPointersLive == Reader!KeptPointersLive
EntriesAsFiled == Reader!EntriesAsFiled
CallsOnLiveObjects == Reader!CallsOnLiveObjects
ParameterIsArray == Reader!ParameterIsArray
ChildrenFirst == Reader!ChildrenFirst
CalledOnce == Reader!CalledOnce

\* What igbinary_serialize wrote, igbinary_unserialize accepts: reading never
\* fails before the deferred calls are made.
ReadsOwnOutput == input = buffer => result # "failed"

\* Cut anywhere, it refuses it instead of returning part of the value.
RefusesCutOutput == input # buffer => result \notin {"calling", "done"}

\* Each id read stands for what it stood for when it was written: a back-
\* reference finds the same cell, a string id the same string.
IdsAgree ==
    (result = "reading" /\ input # << >> /\ agenda # << >> /\ pos <= Len(input)) =>
       LET t == input[pos]
       IN  /\ t.tag \in {"refid", "objref"} /\ Head(agenda).op = "zval" =>
                t.v < Len(drefs) /\ drefs[t.v + 1].src = t.src
           /\ t.tag = "strid" => t.v < Len(dstrings) /\ dstrings[t.v + 1] = t.src
           /\ t.tag = "objid" => t.v < Len(dstrings)
                /\ (birth[t.src[1]] = t.src[2] => dstrings[t.v + 1] = Writer!WrittenName(heap[t.src[1]]))

\* The value read back shares as the value written did: one object per object
\* and one reference per reference group, where the references to one object
\* are one group.
Made(kind) == {a \in DOMAIN out : out[a].kind = kind}
SharingKept ==
    result = "done" =>
       /\ \A a, b \in Made("obj") : made[a] = made[b] => a = b
       /\ \A a, b \in Made("ref") :
             (made[a] = made[b] /\ made[a] # NoVal) \/
             (out[a].elems[1].v.t = "obj" /\ out[a].elems[1].v = out[b].elems[1].v) => a = b

\* The value read back has the contents of the value written: equal scalars
\* under equal keys in the same order, and pointers to the cells made for the
\* cells pointed to; references with refcount 1 and unset entries are gone.  This
\* is said of values whose classes have no user code.
Same(z, w) ==
    LET y == IF z.t = "ref" /\ ~heap[z.v].shared THEN heap[z.v].elems[1].v ELSE z
    IN  CASE y.t \in {"null", "long", "str"} -> w = y
          [] y.t \in {"arr", "obj"} -> w.t = y.t /\ made[w.v] = << y.v, 0 >>
          [] y.t = "ref" /\ heap[y.v].elems[1].v.t = "obj" ->
               LET u == out[w.v].elems[1].v
               IN  w.t = "ref" /\ u.t = "obj" /\ made[u.v] = << heap[y.v].elems[1].v.v, 0 >>
          [] y.t = "ref" /\ heap[y.v].elems[1].v.t # "obj" -> w.t = "ref" /\ made[w.v] = << y.v, 0 >>
          [] OTHER -> FALSE
SameTable(c, d) ==
    LET Set(e) == e.v # Undef
        es == SelectSeq(c.elems, Set)
    IN  /\ DOMAIN es = DOMAIN d.elems
        /\ \A i \in DOMAIN es : es[i].k = d.elems[i].k /\ Same(es[i].v, d.elems[i].v)
NoUserCode == \A a \in Addr : heap[a].kind = "obj" => Kind[heap[a].cls] \in {"plain", "enum"}
ContentsKept ==
    result = "done" /\ NoUserCode =>
       /\ Same(root, out[1].elems[1].v)
       /\ \A a \in DOMAIN out : made[a] # NoVal =>
            LET c == heap[made[a][1]]
                boxed == c.elems[1].v
            IN  CASE out[a].kind = "obj" ->
                       out[a].cls = c.cls /\ (Kind[c.cls] # "enum" => SameTable(c, out[a]))
                  [] out[a].kind = "arr" -> SameTable(c, out[a])
                  [] out[a].kind = "ref" ->
                       IF boxed.t = "arr" THEN SameTable(heap[boxed.v], out[out[a].elems[1].v.v])
                       ELSE Same(boxed, out[a].elems[1].v)
=============================================================================
