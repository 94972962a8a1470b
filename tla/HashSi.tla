------------------------------- MODULE HashSi -------------------------------
(***************************************************************************)
(* hash_si.c: the table the serializer interns strings in.  Open           *)
(* addressing with linear probing, one step of a loop per action, so that  *)
(* a growth moves the entries while the insertion that caused it is still  *)
(* under way.                                                              *)
(***************************************************************************)
EXTENDS Integers, FiniteSets

CONSTANTS Key,       \* strings
          NoKey,     \* key_zstr = NULL
          Value,     \* what is filed: string_count
          Absent,    \* hash_si_code_inserted
          Hash,      \* the values a 32-bit hash takes
          InitSize   \* the size given to hash_si_init, 16 in the code

HashSiAssumption ==
    /\ NoKey \notin Key
    /\ Absent \notin Value
    /\ Hash \subseteq Nat
    /\ InitSize \in Nat \ {0}

VARIABLES
    hash,      \* ZSTR_HASH of each string, cut to 32 bits
    size,      \* h->mask + 1
    used,      \* h->used
    data,      \* h->data
    old, old_size, i,    \* hash_si_rehash: old_data, old_size, i
    pc,        \* "idle", "probe", "rehash", "place", "freed"
    key_zstr, value, hv, \* hash_si_find_or_insert: its parameters, the slot it looks at
    answer,    \* what the last call returned, and for which key
    refs       \* how many references the table holds on each string

vars == << hash, size, used, data, old, old_size, i, pc, key_zstr, value, hv, answer, refs >>
call == << key_zstr, value >>
growth == << old, old_size, i >>

Slot == [key_zstr : Key \cup {NoKey}, key_hash : Nat, value : Value \cup {Absent}]
Gap  == [key_zstr |-> NoKey, key_hash |-> 0, value |-> Absent]
Gaps(n) == [j \in 0..(n - 1) |-> Gap]

\* mutant: the hash is taken as it is
get_key_hash_raw(k) == hash[k]
\* a gap is a slot whose hash is 0, so no string may have that hash
get_key_hash(k) == IF hash[k] = 0 THEN 1 ELSE hash[k]

\* the slot a hash probes first (mask + 1 is a power of 2)
Home(h, n) == h % n
After(j) == IF j + 1 = size THEN 0 ELSE j + 1

Init ==
    /\ hash \in [Key -> Hash]
    /\ size = InitSize /\ used = 0 /\ data = Gaps(InitSize)
    /\ old = Gaps(0) /\ old_size = 0 /\ i = 0
    /\ pc = "idle" /\ key_zstr = NoKey /\ value = Absent /\ hv = 0
    /\ answer = << >>
    /\ refs = [k \in Key |-> 0]

(***************************************************************************)
(* hash_si_find_or_insert.                                                 *)
(***************************************************************************)
Call(k, v) ==
    /\ pc = "idle"
    /\ pc' = "probe"
    /\ key_zstr' = k /\ value' = v
    /\ hv' = Home(get_key_hash(k), size)
    /\ UNCHANGED << hash, size, used, data, growth, answer, refs >>

IsGap(j) == data[j].key_hash = 0
Matches(j) == data[j].key_hash = get_key_hash(key_zstr) /\ data[j].key_zstr = key_zstr

Exists ==
    /\ pc = "probe" /\ ~IsGap(hv) /\ Matches(hv)
    /\ pc' = "idle"
    /\ answer' = << key_zstr, data[hv].value >>
    /\ UNCHANGED << hash, size, used, data, growth, call, hv, refs >>

ProbeNext ==
    /\ pc = "probe" /\ ~IsGap(hv) /\ ~Matches(hv)
    /\ hv' = After(hv)
    /\ UNCHANGED << hash, size, used, data, growth, pc, call, answer, refs >>

Filled == [data EXCEPT ![hv] = [key_zstr |-> key_zstr, key_hash |-> get_key_hash(key_zstr),
                                value |-> value]]
\* mutant: the table only grows when its last slot has been taken
TooFullLate(n) == size - 1 < n - 1
TooFull(n) == ((size - 1) * 3) \div 4 < n

\* the key is new: hash_si_code_inserted, and a reference on the string
Return ==
    /\ pc' = "idle"
    /\ answer' = << key_zstr, Absent >>
    /\ refs' = [refs EXCEPT ![key_zstr] = @ + 1]

Insert ==
    /\ pc = "probe" /\ IsGap(hv) /\ ~TooFull(used + 1)
    /\ data' = Filled /\ used' = used + 1
    /\ Return
    /\ UNCHANGED << hash, size, growth, call, hv >>

InsertAndGrow ==
    /\ pc = "probe" /\ IsGap(hv) /\ TooFull(used + 1)
    /\ used' = used + 1
    /\ old' = Filled /\ old_size' = size /\ i' = 0
    /\ size' = size * 2 /\ data' = Gaps(size * 2)
    /\ pc' = "rehash"
    /\ UNCHANGED << hash, call, hv, answer, refs >>

(***************************************************************************)
(* hash_si_rehash: the entries of the old slots, in their order.           *)
(***************************************************************************)
SkipGap ==
    /\ pc = "rehash" /\ i < old_size /\ old[i].key_zstr = NoKey
    /\ i' = i + 1
    /\ UNCHANGED << hash, size, used, data, old, old_size, pc, call, hv, answer, refs >>

\* mutant: the slot is computed with the old mask
TakeEntryOldMask ==
    /\ pc = "rehash" /\ i < old_size /\ old[i].key_zstr # NoKey
    /\ hv' = Home(old[i].key_hash, old_size)
    /\ pc' = "place"
    /\ UNCHANGED << hash, size, used, data, growth, call, answer, refs >>
TakeEntry ==
    /\ pc = "rehash" /\ i < old_size /\ old[i].key_zstr # NoKey
    /\ hv' = Home(old[i].key_hash, size)
    /\ pc' = "place"
    /\ UNCHANGED << hash, size, used, data, growth, call, answer, refs >>

PlaceNext ==
    /\ pc = "place" /\ ~IsGap(hv)
    /\ hv' = After(hv)
    /\ UNCHANGED << hash, size, used, data, growth, pc, call, answer, refs >>

Place ==
    /\ pc = "place" /\ IsGap(hv)
    /\ data' = [data EXCEPT ![hv] = old[i]]
    /\ i' = i + 1 /\ pc' = "rehash"
    /\ UNCHANGED << hash, size, used, old, old_size, call, hv, answer, refs >>

EndRehash ==
    /\ pc = "rehash" /\ i = old_size
    /\ old' = Gaps(0) /\ old_size' = 0 /\ i' = 0
    /\ Return
    /\ UNCHANGED << hash, size, used, data, call, hv >>

Holders(k) == {j \in 0..(size - 1) : data[j].key_zstr = k}

\* hash_si_deinit
Deinit ==
    /\ pc = "idle"
    /\ pc' = "freed"
    /\ refs' = IF used > 0 THEN [k \in Key |-> refs[k] - Cardinality(Holders(k))] ELSE refs
    /\ UNCHANGED << hash, size, used, data, growth, call, hv, answer >>

Step == \/ Exists \/ ProbeNext \/ Insert \/ InsertAndGrow
        \/ SkipGap \/ TakeEntry \/ PlaceNext \/ Place \/ EndRehash

Next == Deinit \/ Step \/ \E k \in Key, v \in Value : Call(k, v)

Spec == Init /\ [][Next]_vars
FairSpec == Spec /\ WF_vars(Step)

(***************************************************************************)
(* Properties.                                                             *)
(***************************************************************************)
Busy == pc \in {"probe", "rehash", "place"}

\* A probe looks for a gap and has no other way to end: while one is under
\* way, and while a growth moves entries, the table has one.
ProbesMeetGap == Busy => \E j \in 0..(size - 1) : IsGap(j)

\* The table holds one reference on each string in it, and none once freed.
StringRefsBalanced ==
    /\ pc = "idle" => \A k \in Key : refs[k] = Cardinality(Holders(k)) /\ refs[k] <= 1
    /\ pc = "freed" => \A k \in Key : refs[k] = 0

\* The table is a map from strings to values: a string that was filed is found
\* with its value, a new one is not, however strings collide and through every
\* growth.
Pairs(d, js) == {<< d[j].key_zstr, d[j].value >> : j \in {m \in js : d[m].key_zstr # NoKey}}
Growing == pc \in {"rehash", "place"}
Contents ==
    IF pc = "freed" THEN {}
    ELSE {p \in Pairs(data, 0..(size - 1)) \cup Pairs(old, i..(old_size - 1)) :
            \* a call that makes the table grow has not returned yet
            Growing => p[1] # key_zstr}
Map == INSTANCE InternTable WITH table <- Contents
StringsIntern == Map!Spec
=============================================================================
