------------------------------ MODULE MCStorage ------------------------------
(***************************************************************************)
(* Storage with the numbers on both sides of every boundary.               *)
(***************************************************************************)
EXTENDS Storage

CONSTANTS a, b   \* names

\* one name hashes to an integer key, the other to the slot of one
NameHash == [n \in Names |-> IF n = a THEN 1 ELSE 5]

\* elements as Bytes writes them, with a byte of two values
NumberOf(k, n) == [kind |-> k, v |-> << << "number", n >> >>]
TextOf(k, len) == [kind |-> k, v |-> [i \in 1..len |-> << "byte", len % 2 >>]]
PlainOf(k)     == [kind |-> k, v |-> << >>]

\* 1, 3, 15 and 255 are the largest numbers of a width
Edges == {0, 1, 2, 3, 4, 15, 16, 127}
StreamElements ==
    {NumberOf("long", l) : l \in Edges \cup {-n : n \in Edges} \cup {-128}}
    \cup {NumberOf(k, n) : k \in {"string_id", "object_id", "ref", "objref", "array"}, n \in {1, 2, 4, 15}}
    \cup {NumberOf("double", n) : n \in {1, 255}}
    \cup {TextOf("string", n) : n \in {0, 1, 3, 4, 15, 16}}
    \cup {TextOf(k, n) : k \in {"object", "object_ser"}, n \in {1, 4, 15, 16}}
    \cup {PlainOf(k) : k \in {"null", "bool_false", "bool_true"}}
=============================================================================
