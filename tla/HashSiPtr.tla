------------------------------ MODULE HashSiPtr ------------------------------
(***************************************************************************)
(* hash_si_ptr.c: the table the serializer files addresses in, to find     *)
(* what it has written before.  Linear probing as in HashSi, one step of a *)
(* loop per action; a slot has no hash of its own, and key 0 marks a gap.  *)
(***************************************************************************)
EXTENDS Integers

CONSTANTS Key,       \* addresses
          Value,     \* what is filed: references_id
          Absent,    \* SIZE_MAX, the answer for a new key
          Hash,      \* the values of inline_hash_of_address, cut to 32 bits
          InitSize   \* what nextpow2 makes of the size asked for, 16 in the code

HASH_PTR_KEY_INVALID == 0

HashSiPtrAssumption ==
    /\ HASH_PTR_KEY_INVALID \notin Key
    /\ Absent \notin Value
    /\ Hash \subseteq Nat
    /\ InitSize \in Nat \ {0}

VARIABLES
    hash,      \* inline_hash_of_address
    size,      \* h->size
    used,      \* h->used
    data,      \* h->data
    old, old_size, i,    \* hash_si_ptr_rehash: old_data, old_size, i
    pc,        \* "idle", "probe", "rehash", "place", "freed"
    key, value, hv,      \* hash_si_ptr_find_or_insert: its parameters and hv
    answer     \* what the last call returned, and for which key

vars == << hash, size, used, data, old, old_size, i, pc, key, value, hv, answer >>
call == << key, value >>
growth == << old, old_size, i >>

Slot == [key : Key \cup {HASH_PTR_KEY_INVALID}, value : Value \cup {Absent}]
Gap  == [key |-> HASH_PTR_KEY_INVALID, value |-> Absent]
Gaps(n) == [j \in 0..(n - 1) |-> Gap]

Home(k, n) == hash[k] % n
After(j) == IF j + 1 = size THEN 0 ELSE j + 1

Init ==
    /\ hash \in [Key -> Hash]
    /\ size = InitSize /\ used = 0 /\ data = Gaps(InitSize)
    /\ old = Gaps(0) /\ old_size = 0 /\ i = 0
    /\ pc = "idle" /\ key = HASH_PTR_KEY_INVALID /\ value = Absent /\ hv = 0
    /\ answer = << >>

(***************************************************************************)
(* hash_si_ptr_find_or_insert.                                             *)
(***************************************************************************)
Call(k, v) ==
    /\ pc = "idle"
    /\ pc' = "probe"
    /\ key' = k /\ value' = v
    /\ hv' = Home(k, size)
    /\ UNCHANGED << hash, size, used, data, growth, answer >>

IsGap(j) == data[j].key = HASH_PTR_KEY_INVALID

Exists ==
    /\ pc = "probe" /\ ~IsGap(hv) /\ data[hv].key = key
    /\ pc' = "idle"
    /\ answer' = << key, data[hv].value >>
    /\ UNCHANGED << hash, size, used, data, growth, call, hv >>

ProbeNext ==
    /\ pc = "probe" /\ ~IsGap(hv) /\ data[hv].key # key
    /\ hv' = After(hv)
    /\ UNCHANGED << hash, size, used, data, growth, pc, call, answer >>

Filled == [data EXCEPT ![hv] = [key |-> key, value |-> value]]
\* mutant: never
TooFullNever(n) == FALSE
TooFull(n) == size \div 2 < n

Insert ==
    /\ pc = "probe" /\ IsGap(hv) /\ ~TooFull(used + 1)
    /\ data' = Filled /\ used' = used + 1
    /\ pc' = "idle" /\ answer' = << key, Absent >>
    /\ UNCHANGED << hash, size, growth, call, hv >>

InsertAndGrow ==
    /\ pc = "probe" /\ IsGap(hv) /\ TooFull(used + 1)
    /\ used' = used + 1
    /\ old' = Filled /\ old_size' = size /\ i' = 0
    /\ size' = size * 2 /\ data' = Gaps(size * 2)
    /\ pc' = "rehash"
    /\ UNCHANGED << hash, call, hv, answer >>

(***************************************************************************)
(* hash_si_ptr_rehash: the entries of the old slots, in their order.       *)
(***************************************************************************)
SkipGap ==
    /\ pc = "rehash" /\ i < old_size /\ old[i].key = HASH_PTR_KEY_INVALID
    /\ i' = i + 1
    /\ UNCHANGED << hash, size, used, data, old, old_size, pc, call, hv, answer >>

TakeEntry ==
    /\ pc = "rehash" /\ i < old_size /\ old[i].key # HASH_PTR_KEY_INVALID
    /\ hv' = Home(old[i].key, size)
    /\ pc' = "place"
    /\ UNCHANGED << hash, size, used, data, growth, call, answer >>

PlaceNext ==
    /\ pc = "place" /\ ~IsGap(hv)
    /\ hv' = After(hv)
    /\ UNCHANGED << hash, size, used, data, growth, pc, call, answer >>

\* mutant: an entry is copied to the slot it is looked for first
PlaceHome ==
    /\ pc = "place"
    /\ data' = [data EXCEPT ![Home(old[i].key, size)] = old[i]]
    /\ i' = i + 1 /\ pc' = "rehash"
    /\ UNCHANGED << hash, size, used, old, old_size, call, hv, answer >>
Place ==
    /\ pc = "place" /\ IsGap(hv)
    /\ data' = [data EXCEPT ![hv] = old[i]]
    /\ i' = i + 1 /\ pc' = "rehash"
    /\ UNCHANGED << hash, size, used, old, old_size, call, hv, answer >>

EndRehash ==
    /\ pc = "rehash" /\ i = old_size
    /\ old' = Gaps(0) /\ old_size' = 0 /\ i' = 0
    /\ pc' = "idle" /\ answer' = << key, Absent >>
    /\ UNCHANGED << hash, size, used, data, call, hv >>

\* hash_si_ptr_deinit
Deinit ==
    /\ pc = "idle"
    /\ pc' = "freed"
    /\ UNCHANGED << hash, size, used, data, growth, call, hv, answer >>

Step == \/ Exists \/ ProbeNext \/ Insert \/ InsertAndGrow
        \/ SkipGap \/ TakeEntry \/ PlaceNext \/ Place \/ EndRehash

Next == Deinit \/ Step \/ \E k \in Key, v \in Value : Call(k, v)

Spec == Init /\ [][Next]_vars

(***************************************************************************)
(* Properties.                                                             *)
(***************************************************************************)
Busy == pc \in {"probe", "rehash", "place"}

\* While a probe is under way, and while a growth moves entries, the table has
\* a gap: without one the probe would go round for ever.
PointersMeetGap == Busy => \E j \in 0..(size - 1) : IsGap(j)

\* The table is a map from addresses to ids: an address that was filed is found
\* with its id, a new one is not, however addresses collide and through every
\* growth.
Pairs(d, js) == {<< d[j].key, d[j].value >> :
                   j \in {m \in js : d[m].key # HASH_PTR_KEY_INVALID}}
Growing == pc \in {"rehash", "place"}
Contents ==
    IF pc = "freed" THEN {}
    ELSE {p \in Pairs(data, 0..(size - 1)) \cup Pairs(old, i..(old_size - 1)) :
            \* a call that makes the table grow has not returned yet
            Growing => p[1] # key}
Map == INSTANCE InternTable WITH table <- Contents
PointersIntern == Map!Spec
=============================================================================
