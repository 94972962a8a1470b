------------------------------ MODULE ZendTable ------------------------------
(***************************************************************************)
(* igbinary_zend_hash.h on 64-bit PHP 7.3 to 8.0: find-or-add on the array *)
(* that igbinary_unserialize_array fills, which is packed (the key is the  *)
(* place) for as long as its keys allow it and then mixed (chains of       *)
(* buckets by hash).  A call runs no other code, so it is one action.      *)
(***************************************************************************)
EXTENDS Integers, Sequences

CONSTANTS Longs,     \* integer keys, as the zend_ulong they are passed as
          Names,     \* string keys
          StrHash,   \* ZSTR_H of each
          NoString,  \* p->key = NULL
          Word,      \* how many values a zend_ulong has
          Hints,     \* nTableSize that array_init_size makes of a count
          MaxCalls,  \* bound on the calls of a behaviour
          Absent     \* the answer for a key that was added

VARIABLES ht,        \* the HashTable
          calls,     \* how many calls were made
          answer     \* the last one: its key, and the entry it found

vars == << ht, calls, answer >>

IntKey(h) == [h |-> h, key |-> NoString]
StrKey(s) == [h |-> StrHash[s], key |-> s]
Keys == {IntKey(h) : h \in Longs} \cup {StrKey(s) : s \in Names}

LONG_MAX  == Word \div 2 - 1
Signed(h) == IF h > LONG_MAX THEN h - Word ELSE h

\* A string's key is not the absence of one, a hash is not negative, and tables stay
\* so small that their places are positive keys (HT_MAX_SIZE): one is at most
\* as large as it was made, or four times the number of calls.
ZendTableAssumption ==
    /\ Word \in Nat /\ MaxCalls \in Nat /\ 4 * MaxCalls <= LONG_MAX
    /\ Longs \subseteq 0..(Word - 1)
    /\ NoString \notin Names
    /\ StrHash \in [Names -> Nat]
    /\ Hints \subseteq 1..LONG_MAX

\* An entry's value stands for the call that added it.  Buckets are numbered
\* from 1, and 0 is HT_INVALID_IDX.
UNDEF == 0
Bucket(k, v, next) == [k |-> k, val |-> v, next |-> next]
Hole == Bucket(IntKey(0), UNDEF, 0)

Init ==
    /\ \E n \in Hints :
          ht = [flags |-> "uninitialized", nTableSize |-> n, nNumUsed |-> 0,
                nNumOfElements |-> 0, nNextFreeElement |-> 0,
                arData |-> << >>, arHash |-> << >>]
    /\ calls = 0 /\ answer = << >>

(***************************************************************************)
(* Chains.  The slot of a hash is h | nTableMask.                          *)
(***************************************************************************)
Slots(t)   == 0..(2 * t.nTableSize - 1)
SlotOf(t, k) == k.h % (2 * t.nTableSize)
Chain(t, s) ==
    LET idx[m \in 0..t.nNumUsed] ==
          IF m = 0 THEN t.arHash[s]
          ELSE IF idx[m - 1] = 0 THEN 0 ELSE t.arData[idx[m - 1]].next
    IN  {idx[m] : m \in 0..t.nNumUsed} \ {0}

\* igbinary_zend_hash_find_bucket, zend_hash_index_find_bucket
Find(t, k) == {i \in Chain(t, SlotOf(t, k)) : t.arData[i].k = k}

\* zend_hash_rehash: holes are closed, chains built anew
Latest(is) == IF is = {} THEN 0 ELSE CHOOSE i \in is : \A j \in is : j <= i
Chained(t, ar) ==
    LET InSlot(s, n) == {j \in 1..n : SlotOf(t, ar[j].k) = s}
    IN  [t EXCEPT !.nNumUsed = Len(ar),
                  !.arData = [i \in DOMAIN ar |->
                                 [ar[i] EXCEPT !.next = Latest(InSlot(SlotOf(t, ar[i].k), i - 1))]],
                  !.arHash = [s \in Slots(t) |-> Latest(InSlot(s, Len(ar)))]]
IsSet(b) == b.val # UNDEF
Compact(ar) ==
    LET to[i \in 0..Len(ar)] ==
          IF i = 0 THEN << >>
          ELSE IF IsSet(ar[i]) THEN Append(to[i - 1], ar[i]) ELSE to[i - 1]
    IN  to[Len(ar)]
Rehash(t) == Chained(t, Compact(t.arData))

Doubled(t) == [t EXCEPT !.nTableSize = 2 * @]
\* igbinary_zend_hash_do_resize
DoResize(t) == IF t.nNumUsed > t.nNumOfElements + t.nNumOfElements \div 32
               THEN Rehash(t) ELSE Rehash(Doubled(t))
IsFull(t) == t.nNumUsed >= t.nTableSize
Room(t) == IF IsFull(t) THEN DoResize(t) ELSE t

\* zend_hash_real_init_mixed, zend_hash_packed_to_hash
InitMixed(t) == [t EXCEPT !.flags = "mixed", !.arHash = [s \in Slots(t) |-> 0]]
\* mutant: holes become entries
PackedToHashHoles(t) == Chained([t EXCEPT !.flags = "mixed"], t.arData)
PackedToHash(t) == Rehash([t EXCEPT !.flags = "mixed"])

\* mutant: the next free element is compared as unsigned
NextFreeUnsigned(t, h) == IF h >= t.nNextFreeElement THEN h + 1 ELSE t.nNextFreeElement
NextFree(t, h) ==
    IF Signed(h) >= t.nNextFreeElement
    THEN IF Signed(h) < LONG_MAX THEN h + 1 ELSE LONG_MAX
    ELSE t.nNextFreeElement

AddToHash(t, k, v) ==
    LET s == SlotOf(t, k)
    IN  [t EXCEPT !.nNumUsed = @ + 1,
                  !.nNumOfElements = @ + 1,
                  !.arData = Append(@, Bucket(k, v, t.arHash[s])),
                  !.arHash[s] = t.nNumUsed + 1]
AddIndex(t, h, v) == [AddToHash(t, IntKey(h), v) EXCEPT !.nNextFreeElement = NextFree(t, h)]

\* add_to_packed
AddToPacked(t, h, v) ==
    [t EXCEPT !.flags = "packed",
              !.arData = @ \o [i \in 1..(h - t.nNumUsed) |-> Hole] \o << Bucket(IntKey(h), v, 0) >>,
              !.nNumUsed = h + 1,
              !.nNextFreeElement = h + 1,
              !.nNumOfElements = @ + 1]

(***************************************************************************)
(* What a call answers.                                                    *)
(***************************************************************************)
Calling == calls < MaxCalls /\ calls' = calls + 1
Found(k, i) == /\ answer' = << k, ht.arData[i].val >>
               /\ UNCHANGED ht
Added(k, t) == /\ answer' = << k, Absent >>
               /\ ht' = t
New == calls + 1

(***************************************************************************)
(* igbinary_zend_hash_add_or_find.                                         *)
(***************************************************************************)
FindString(s) ==
    /\ Calling /\ ht.flags = "mixed"
    /\ \E i \in Find(ht, StrKey(s)) : Found(StrKey(s), i)

AddString(s) ==
    /\ Calling
    /\ ht.flags = "mixed" => Find(ht, StrKey(s)) = {}
    /\ LET t == CASE ht.flags = "uninitialized" -> InitMixed(ht)
                  [] ht.flags = "packed" -> Room(PackedToHash(ht))
                  [] ht.flags = "mixed" -> Room(ht)
       IN  Added(StrKey(s), AddToHash(t, StrKey(s), New))

(***************************************************************************)
(* igbinary_zend_hash_index_add_or_find.                                   *)
(***************************************************************************)
Inside(h) == ht.flags = "packed" /\ h < ht.nNumUsed
Beyond(h) == ht.flags = "packed" /\ h >= ht.nTableSize
MayGrow(h) == h \div 2 < ht.nTableSize /\ ht.nTableSize \div 2 < ht.nNumOfElements

FindIndexPacked(h) ==
    /\ Calling /\ Inside(h) /\ IsSet(ht.arData[h + 1])
    /\ Found(IntKey(h), h + 1)

AddIndexPacked(h) ==
    /\ Calling /\ ht.flags \in {"uninitialized", "packed"} /\ ~Inside(h) /\ h < ht.nTableSize
    /\ Added(IntKey(h), AddToPacked(ht, h, New))

GrowPacked(h) ==
    /\ Calling /\ Beyond(h) /\ MayGrow(h)
    /\ Added(IntKey(h), AddToPacked(Doubled(ht), h, New))

\* mutant: a hole is filled
FillHole(h) ==
    /\ Calling /\ Inside(h) /\ ~IsSet(ht.arData[h + 1])
    /\ Added(IntKey(h), [ht EXCEPT !.arData[h + 1] = Bucket(IntKey(h), New, 0),
                                   !.nNumOfElements = @ + 1])
\* the key is a hole: entries keep their order
HoleToHash(h) ==
    /\ Calling /\ Inside(h) /\ ~IsSet(ht.arData[h + 1])
    /\ Added(IntKey(h), AddIndex(PackedToHash(ht), h, New))

\* mutant: a full table is not doubled
FarToFullHash(h) ==
    /\ Calling /\ Beyond(h) /\ ~MayGrow(h)
    /\ Added(IntKey(h), AddIndex(PackedToHash(ht), h, New))
FarToHash(h) ==
    /\ Calling /\ Beyond(h) /\ ~MayGrow(h)
    /\ Added(IntKey(h), AddIndex(PackedToHash(IF IsFull(ht) THEN Doubled(ht) ELSE ht), h, New))

FirstFar(h) ==
    /\ Calling /\ ht.flags = "uninitialized" /\ h >= ht.nTableSize
    /\ Added(IntKey(h), AddIndex(InitMixed(ht), h, New))

FindIndex(h) ==
    /\ Calling /\ ht.flags = "mixed"
    /\ \E i \in Find(ht, IntKey(h)) : Found(IntKey(h), i)

AddIndexMixed(h) ==
    /\ Calling /\ ht.flags = "mixed" /\ Find(ht, IntKey(h)) = {}
    /\ Added(IntKey(h), AddIndex(Room(ht), h, New))

IndexAddOrFind(h) ==
    \/ FindIndexPacked(h) \/ AddIndexPacked(h) \/ GrowPacked(h) \/ HoleToHash(h)
    \/ FarToHash(h) \/ FirstFar(h) \/ FindIndex(h) \/ AddIndexMixed(h)
AddOrFind(s) == FindString(s) \/ AddString(s)

Next == (\E s \in Names : AddOrFind(s)) \/ (\E h \in Longs : IndexAddOrFind(h))

Spec == Init /\ [][Next]_vars

(***************************************************************************)
(* Properties.                                                             *)
(***************************************************************************)
Entries == {i \in DOMAIN ht.arData : IsSet(ht.arData[i])}

\* No bucket is past the end of the table, also where the code adds one without
\* asking whether there is room.
EntriesInTable == ht.nNumUsed = Len(ht.arData) /\ ht.nNumUsed <= ht.nTableSize

\* Entries stay in the order they were added in, as PHP arrays must.
OrderKept == \A i, j \in Entries : i < j => ht.arData[i].val < ht.arData[j].val

\* The key of the next append is one more than the largest integer key, and
\* stays at the largest there is.
NextFreeExact ==
    LET after == {Signed(h) + 1 : h \in {g \in Longs : Signed(g) >= 0 /\
                                           \E i \in Entries : ht.arData[i].k = IntKey(g)}}
    IN  ht.nNextFreeElement = IF after = {} THEN 0
                              ELSE IF Latest(after) > LONG_MAX THEN LONG_MAX ELSE Latest(after)

\* The array is a map: a key has one entry, found again through every change of
\* layout; a hole is not an entry.
Map == INSTANCE InternTable WITH
         Key <- Keys, Value <- 1..MaxCalls,
         table <- {<< ht.arData[i].k, ht.arData[i].val >> : i \in Entries}
EntriesIntern == Map!Spec
=============================================================================
