------------------------------- MODULE Storage -------------------------------
(***************************************************************************)
(* What the two walks stand on, side by side: the table of strings, the    *)
(* table of addresses, the arrays that are filled, and the bytes.  These   *)
(* share nothing, so that a behaviour exercises one of them.               *)
(***************************************************************************)
EXTENDS Integers

CONSTANTS Key, NoKey, Value, Absent, Hash, InitSize,                 \* see HashSi
          Longs, Names, StrHash, NoString, Word, Hints, MaxCalls,    \* see ZendTable
          Base, Elements, MaxElems, Capacity, StringsCapacity        \* see Bytes

VARIABLES unit     \* "strings", "pointers", "entries", "bytes"
VARIABLES s_hash, s_size, s_used, s_data, s_old, s_old_size, s_i, s_pc,
          s_key, s_value, s_hv, s_answer, refs
VARIABLES p_hash, p_size, p_used, p_data, p_old, p_old_size, p_i, p_pc,
          p_key, p_value, p_hv, p_answer
VARIABLES ht, calls, answer
VARIABLES elems, chunks, buffer, buffer_capacity, input, pos, read,
          strings_count, strings_capacity, status

StringTable == INSTANCE HashSi WITH
    hash <- s_hash, size <- s_size, used <- s_used, data <- s_data, old <- s_old,
    old_size <- s_old_size, i <- s_i, pc <- s_pc, key_zstr <- s_key, value <- s_value,
    hv <- s_hv, answer <- s_answer
PointerTable == INSTANCE HashSiPtr WITH
    hash <- p_hash, size <- p_size, used <- p_used, data <- p_data, old <- p_old,
    old_size <- p_old_size, i <- p_i, pc <- p_pc, key <- p_key, value <- p_value,
    hv <- p_hv, answer <- p_answer
Array == INSTANCE ZendTable
Stream == INSTANCE Bytes

ASSUME StorageAssumption ==
    /\ StringTable!HashSiAssumption /\ PointerTable!HashSiPtrAssumption
    /\ Array!ZendTableAssumption /\ Stream!BytesAssumption

s_vars == << s_hash, s_size, s_used, s_data, s_old, s_old_size, s_i, s_pc,
             s_key, s_value, s_hv, s_answer, refs >>
p_vars == << p_hash, p_size, p_used, p_data, p_old, p_old_size, p_i, p_pc,
             p_key, p_value, p_hv, p_answer >>
a_vars == << ht, calls, answer >>
b_vars == << elems, chunks, buffer, buffer_capacity, input, pos, read,
             strings_count, strings_capacity, status >>
vars == << unit, s_vars, p_vars, a_vars, b_vars >>

\* Keys differ in nothing but their hashes, so that one of the orders in which
\* hashes can be given to them is enough.
Sorted(hash) == \A k, l \in Key : k < l => hash[k] <= hash[l]
Equal(hash)  == \A k, l \in Key : hash[k] = hash[l] /\ \A h \in Hash : hash[k] <= h

Init ==
    /\ unit \in {"strings", "pointers", "entries", "bytes"}
    /\ StringTable!Init /\ PointerTable!Init /\ Array!Init /\ Stream!Init
    /\ IF unit = "strings" THEN Sorted(s_hash) ELSE Equal(s_hash)
    /\ IF unit = "pointers" THEN Sorted(p_hash) ELSE Equal(p_hash)
    /\ unit # "entries" => \A n \in Hints : ht.nTableSize <= n

\* the walk files each new string and address under the next number
Strings ==
    /\ unit = "strings"
    /\ \/ StringTable!Step \/ StringTable!Deinit
       \/ \E k \in Key, v \in Value : v = s_used /\ StringTable!Call(k, v)
    /\ UNCHANGED << unit, p_vars, a_vars, b_vars >>

Pointers ==
    /\ unit = "pointers"
    /\ \/ PointerTable!Step \/ PointerTable!Deinit
       \/ \E k \in Key, v \in Value : v = p_used /\ PointerTable!Call(k, v)
    /\ UNCHANGED << unit, s_vars, a_vars, b_vars >>

FillArray ==
    /\ unit = "entries" /\ Array!Next
    /\ UNCHANGED << unit, s_vars, p_vars, b_vars >>

WriteAndRead ==
    /\ unit = "bytes" /\ Stream!Next
    /\ UNCHANGED << unit, s_vars, p_vars, a_vars >>

Next == Strings \/ Pointers \/ FillArray \/ WriteAndRead

\* a call runs on to its end: nothing can suspend it
Spec == /\ Init /\ [][Next]_vars
        /\ WF_vars(Strings /\ StringTable!Step)
        /\ WF_vars(Pointers /\ PointerTable!Step)

(***************************************************************************)
(* The properties of the parts, stated in their modules.                   *)
(***************************************************************************)
\* hash_si: a gap is left while a probe is under way, references are given
\* back, and the table is a map.
ProbesMeetGap      == StringTable!ProbesMeetGap
StringRefsBalanced == StringTable!StringRefsBalanced
StringsIntern      == StringTable!StringsIntern

\* hash_si_ptr: a gap is left while a probe is under way, and the table is a map.
PointersMeetGap == PointerTable!PointersMeetGap
PointersIntern  == PointerTable!PointersIntern

\* igbinary_zend_hash: buckets are inside the table, in the order they were added
\* in, under the right next free element, and the table is a map.
EntriesInTable == Array!EntriesInTable
OrderKept      == Array!OrderKept
NextFreeExact  == Array!NextFreeExact
EntriesIntern  == Array!EntriesIntern

\* The bytes: no access is out of bounds, what was written is read back, and
\* nothing that was cut is.
WritesInBuffer == Stream!WritesInBuffer
ReadsInBounds  == Stream!ReadsInBounds
WrittenIsRead  == Stream!WrittenIsRead
CutIsRefused   == Stream!CutIsRefused

\* Every call of the two tables returns: no probe goes round for ever, and every
\* growth comes to its end.
CallsReturn == /\ StringTable!Busy ~> ~StringTable!Busy
               /\ PointerTable!Busy ~> ~PointerTable!Busy
=============================================================================
