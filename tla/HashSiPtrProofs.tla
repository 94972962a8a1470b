---------------------------- MODULE HashSiPtrProofs ----------------------------
(***************************************************************************)
(* What holds of HashSiPtr for any set of addresses, any hash function and *)
(* any initial size: a probe meets a gap, and the table is the map         *)
(* InternTable says it is.  The argument is that of HashSiProofs.          *)
(***************************************************************************)
EXTENDS HashSiPtr, FiniteSetTheorems, TLAPS

(***************************************************************************)
(* The slots a probe from a passes before it comes to b.                   *)
(***************************************************************************)
Passes(a, m, b) == IF a <= b THEN a <= m /\ m < b ELSE a <= m \/ m < b

LEMMA PassesOneMore ==
  ASSUME size \in Nat \ {0}, NEW a \in 0..(size - 1), NEW m \in 0..(size - 1),
         NEW b \in 0..(size - 1), Passes(a, m, After(b)), m # b
  PROVE  Passes(a, m, b)
BY DEF Passes, After

\* Of two slots, a probe comes to one before the other.
LEMMA PassesOneFirst ==
  ASSUME NEW n \in Nat, NEW a \in 0..(n - 1), NEW m \in 0..(n - 1),
         NEW b \in 0..(n - 1), m # b
  PROVE  Passes(a, m, b) \/ Passes(a, b, m)
BY DEF Passes

LEMMA HomeInTable ==
  ASSUME hash \in [Key -> Nat], NEW k \in Key, NEW n \in Nat \ {0}
  PROVE  Home(k, n) \in 0..(n - 1)
BY DEF Home

(***************************************************************************)
(* A table that can be probed: no address is in two slots, and no gap lies *)
(* between the slot an address is looked for first and the slot it is in.  *)
(***************************************************************************)
Taken(s) == s \in Slot /\ s.key \in Key /\ s.value \in Value
Reaches(d, n, k, b) == \A m \in 0..(n - 1) : Passes(Home(k, n), m, b) =>
                          d[m].key # HASH_PTR_KEY_INVALID
Probed(d, n) ==
    /\ d \in [0..(n - 1) -> Slot]
    /\ \A j \in 0..(n - 1) : d[j] = Gap \/ Taken(d[j])
    /\ \A j, m \in 0..(n - 1) : d[j].key = d[m].key /\ d[j] # Gap => j = m
    /\ \A j \in 0..(n - 1) : d[j] # Gap => Reaches(d, n, d[j].key, j)
Without(d, js, k) == \A j \in js : d[j].key # k
NoneOn(d, n, k, b) == \A m \in 0..(n - 1) : Passes(Home(k, n), m, b) =>
                         d[m].key # HASH_PTR_KEY_INVALID /\ d[m].key # k

LEMMA GapOrTaken ==
  ASSUME HashSiPtrAssumption
  PROVE  /\ Gap \in Slot /\ Gap.key = HASH_PTR_KEY_INVALID
         /\ \A s : Taken(s) => s.key # HASH_PTR_KEY_INVALID /\ s # Gap
BY DEF HashSiPtrAssumption, Gap, Slot, Taken

LEMMA NewTableProbed ==
  ASSUME HashSiPtrAssumption, hash \in [Key -> Nat], NEW n \in Nat
  PROVE  Probed(Gaps(n), n)
BY GapOrTaken DEF Probed, Gaps

\* A probe for k that has come to a gap has shown that k is not in the table.
LEMMA NotInTable ==
  ASSUME HashSiPtrAssumption, hash \in [Key -> Nat],
         NEW n \in Nat \ {0}, NEW d, Probed(d, n), NEW k \in Key,
         NEW b \in 0..(n - 1), d[b].key = HASH_PTR_KEY_INVALID, NoneOn(d, n, k, b)
  PROVE  Without(d, 0..(n - 1), k)
<1> SUFFICES ASSUME NEW j \in 0..(n - 1), d[j].key = k PROVE FALSE
  BY DEF Without
<1>1. Taken(d[j]) /\ d[j] # Gap /\ d[j].key = k
  BY GapOrTaken DEF Probed, HashSiPtrAssumption, Taken
<1>2. j # b
  BY <1>1, GapOrTaken
<1> DEFINE a == Home(k, n)
<1>3. a \in 0..(n - 1)
  BY HomeInTable
<1>4. CASE Passes(a, j, b)
  BY <1>4 DEF NoneOn
<1>5. CASE Passes(a, b, j)
  BY <1>1, <1>5 DEF Probed, Reaches
<1>6. QED
  BY <1>2, <1>3, <1>4, <1>5, PassesOneFirst

\* Filing an entry in the gap its probe has come to leaves the table as it must be.
LEMMA FillGap ==
  ASSUME HashSiPtrAssumption, hash \in [Key -> Nat],
         NEW n \in Nat \ {0}, NEW d, Probed(d, n), NEW s, Taken(s),
         NEW b \in 0..(n - 1), d[b].key = HASH_PTR_KEY_INVALID,
         Reaches(d, n, s.key, b), Without(d, 0..(n - 1), s.key)
  PROVE  Probed([d EXCEPT ![b] = s], n)
<1> DEFINE e == [d EXCEPT ![b] = s]
<1>1. /\ d \in [0..(n - 1) -> Slot] /\ s \in Slot /\ s # Gap /\ s.key # HASH_PTR_KEY_INVALID
      /\ \A j \in 0..(n - 1) : d[j] = Gap \/ Taken(d[j])
  BY GapOrTaken DEF Probed, Taken
<1>2. /\ e \in [0..(n - 1) -> Slot] /\ e[b] = s
      /\ \A j \in 0..(n - 1) : j # b => e[j] = d[j]
  BY <1>1
<1>3. \A j \in 0..(n - 1) : e[j] = Gap \/ Taken(e[j])
  BY <1>1, <1>2
<1>4. ASSUME NEW j \in 0..(n - 1), NEW m \in 0..(n - 1),
             e[j].key = e[m].key, e[j] # Gap
      PROVE  j = m
  BY <1>2, <1>4 DEF Probed, Without
<1>5. ASSUME NEW j \in 0..(n - 1), e[j] # Gap
      PROVE  Reaches(e, n, e[j].key, j)
  <2>1. \A m \in 0..(n - 1) : d[m].key # HASH_PTR_KEY_INVALID => e[m].key # HASH_PTR_KEY_INVALID
    BY <1>1, <1>2
  <2>2. Reaches(d, n, e[j].key, j)
    BY <1>2, <1>5 DEF Probed
  <2>3. QED
    BY <2>1, <2>2 DEF Reaches
<1>6. QED
  BY <1>2, <1>3, <1>4, <1>5 DEF Probed

(***************************************************************************)
(* How many slots are taken.                                               *)
(***************************************************************************)
Occupied(d, js) == {j \in js : d[j] # Gap}

LEMMA IntervalFinite ==
  ASSUME NEW a \in Int, NEW b \in Int
  PROVE  IsFiniteSet(a..b)
BY FS_Interval

LEMMA OccupiedFinite ==
  ASSUME NEW d, NEW a \in Int, NEW b \in Int
  PROVE  /\ IsFiniteSet(Occupied(d, a..b))
         /\ Cardinality(Occupied(d, a..b)) \in Nat
<1>1. IsFiniteSet(a..b) /\ Occupied(d, a..b) \subseteq a..b
  BY IntervalFinite DEF Occupied
<1>2. QED
  BY <1>1, FS_Subset, FS_CardinalityType

\* With fewer entries than slots there is a gap.
LEMMA RoomForGap ==
  ASSUME NEW n \in Nat, NEW d, Cardinality(Occupied(d, 0..(n - 1))) < n
  PROVE  \E j \in 0..(n - 1) : d[j] = Gap
<1> SUFFICES ASSUME \A j \in 0..(n - 1) : d[j] # Gap PROVE FALSE
  OBVIOUS
<1>1. Occupied(d, 0..(n - 1)) = 0..(n - 1)
  BY DEF Occupied
<1>2. Cardinality(0..(n - 1)) = n
  BY FS_Interval
<1>3. QED
  BY <1>1, <1>2

LEMMA FillCounts ==
  ASSUME NEW n \in Nat, NEW d, NEW e, NEW b \in 0..(n - 1), d[b] = Gap, e[b] # Gap,
         \A j \in 0..(n - 1) : j # b => e[j] = d[j]
  PROVE  Cardinality(Occupied(e, 0..(n - 1))) = Cardinality(Occupied(d, 0..(n - 1))) + 1
<1>1. Occupied(e, 0..(n - 1)) = Occupied(d, 0..(n - 1)) \cup {b}
  BY DEF Occupied
<1>2. b \notin Occupied(d, 0..(n - 1))
  BY DEF Occupied
<1>3. IsFiniteSet(Occupied(d, 0..(n - 1)))
  BY OccupiedFinite
<1>4. QED
  BY <1>1, <1>2, <1>3, FS_AddElement

\* The slots that a growth has still to move, without the next one.
LEMMA LaterSlots ==
  ASSUME NEW d, NEW n \in Nat, NEW a \in 0..(n - 1)
  PROVE  /\ d[a] = Gap => Occupied(d, (a + 1)..(n - 1)) = Occupied(d, a..(n - 1))
         /\ d[a] # Gap => Cardinality(Occupied(d, (a + 1)..(n - 1)))
                            = Cardinality(Occupied(d, a..(n - 1))) - 1
<1>1. a..(n - 1) = ((a + 1)..(n - 1)) \cup {a} /\ a \notin (a + 1)..(n - 1)
  OBVIOUS
<1>2. ASSUME d[a] = Gap
      PROVE  Occupied(d, (a + 1)..(n - 1)) = Occupied(d, a..(n - 1))
  BY <1>1, <1>2 DEF Occupied
<1>3. ASSUME d[a] # Gap
      PROVE  Cardinality(Occupied(d, (a + 1)..(n - 1)))
               = Cardinality(Occupied(d, a..(n - 1))) - 1
  <2>1. /\ Occupied(d, a..(n - 1)) = Occupied(d, (a + 1)..(n - 1)) \cup {a}
        /\ a \notin Occupied(d, (a + 1)..(n - 1))
    BY <1>1, <1>3 DEF Occupied
  <2>2. Cardinality(Occupied(d, a..(n - 1))) = Cardinality(Occupied(d, (a + 1)..(n - 1))) + 1
    BY <2>1, OccupiedFinite, FS_AddElement
  <2>3. QED
    BY <2>2, OccupiedFinite
<1>4. QED
  BY <1>2, <1>3

LEMMA NothingOccupied ==
  ASSUME NEW n \in Nat
  PROVE  /\ Cardinality(Occupied(Gaps(n), 0..(n - 1))) = 0
         /\ \A d : Cardinality(Occupied(d, n..(n - 1))) = 0
<1>1. Occupied(Gaps(n), 0..(n - 1)) = {} /\ \A d : Occupied(d, n..(n - 1)) = {}
  BY DEF Occupied, Gaps
<1>2. QED
  BY <1>1, FS_EmptySet

(***************************************************************************)
(* The inductive invariant.                                                *)
(***************************************************************************)
Typed ==
    /\ hash \in [Key -> Nat]
    /\ size \in Nat \ {0} /\ used \in Nat /\ old_size \in Nat /\ i \in 0..old_size
    /\ pc \in {"idle", "probe", "rehash", "place", "freed"}
    /\ Busy => key \in Key /\ value \in Value
    /\ pc \in {"probe", "place"} => hv \in 0..(size - 1)
    /\ ~Growing => old_size = 0 /\ i = 0

Tables == Probed(data, size) /\ Probed(old, old_size)

\* what the probe under way has passed
Searching == pc = "probe" => NoneOn(data, size, key, hv)
Placing == pc = "place" => /\ i < old_size /\ old[i] # Gap
                           /\ Reaches(data, size, old[i].key, hv)

\* what a growth has still to move is not in the new table yet, and what made
\* the table grow is in one of the two
Waiting == i..(old_size - 1)
Moving == Growing =>
    /\ \A m \in Waiting : old[m] # Gap => Without(data, 0..(size - 1), old[m].key)
    /\ \/ \E j \in 0..(size - 1) : data[j].key = key
       \/ \E m \in Waiting : old[m].key = key

Counts ==
    LET here  == Cardinality(Occupied(data, 0..(size - 1)))
        there == Cardinality(Occupied(old, Waiting))
    IN  /\ ~Growing => used = here /\ used < size
        /\ Growing => used = here + there /\ used <= old_size /\ size = 2 * old_size

Inv == Typed /\ Tables /\ Searching /\ Placing /\ Moving /\ Counts

LEMMA InitInv == ASSUME HashSiPtrAssumption, Init PROVE Inv
<1> USE DEF Init
<1>1. Typed
  <2>1. hash \in [Key -> Nat]
    BY DEF HashSiPtrAssumption
  <2>2. QED
    BY <2>1 DEF Typed, Busy, Growing, HashSiPtrAssumption
<1>2. Tables
  BY <1>1, NewTableProbed DEF Tables, Typed
<1>3. Searching /\ Placing /\ Moving
  BY DEF Searching, Placing, Moving, Growing
<1>4. Counts
  BY <1>1, NothingOccupied DEF Counts, Growing, Typed
<1>5. QED
  BY <1>1, <1>2, <1>3, <1>4 DEF Inv

(***************************************************************************)
(* Each step preserves it.                                                 *)
(***************************************************************************)
LEMMA CallInv ==
  ASSUME HashSiPtrAssumption, Inv, NEW k \in Key, NEW v \in Value, Call(k, v)
  PROVE  Inv'
<1> USE DEF Call, Inv, call, growth
<1>1. Typed'
  BY HomeInTable DEF Typed, Busy, Growing
<1>2. Searching'
  <2>1. Home(k, size) \in 0..(size - 1)
    BY HomeInTable DEF Typed
  <2>2. QED
    BY <2>1 DEF Searching, NoneOn, Passes, Home
<1>3. Tables'
  BY DEF Tables, Probed, Taken, Reaches, Home
<1>4. Placing' /\ Moving' /\ Counts'
  BY DEF Placing, Moving, Counts, Growing, Waiting, Occupied
<1>5. QED
  BY <1>1, <1>2, <1>3, <1>4

LEMMA QuietInv ==
  ASSUME HashSiPtrAssumption, Inv, Exists \/ Deinit \/ UNCHANGED vars
  PROVE  Inv'
<1> USE DEF Exists, Deinit, Inv, vars, call, growth
<1>1. Typed'
  BY DEF Typed, Busy, Growing
<1>2. Tables'
  BY DEF Tables, Probed, Taken, Reaches, Home
<1>3. Searching' /\ Placing'
  BY DEF Searching, NoneOn, Placing, Reaches, Home
<1>4. Moving' /\ Counts'
  BY DEF Moving, Counts, Growing, Waiting, Occupied, Without
<1>5. QED
  BY <1>1, <1>2, <1>3, <1>4

LEMMA ProbeNextInv ==
  ASSUME HashSiPtrAssumption, Inv, ProbeNext
  PROVE  Inv'
<1> USE DEF ProbeNext, Inv, call, growth
<1>1. /\ hash \in [Key -> Nat] /\ size \in Nat \ {0}
      /\ hv \in 0..(size - 1) /\ key \in Key
  BY DEF Typed, Busy
<1>2. Typed'
  BY <1>1 DEF Typed, Busy, Growing, After
<1>3. data[hv].key # HASH_PTR_KEY_INVALID /\ data[hv].key # key
  <2>1. data[hv].key # HASH_PTR_KEY_INVALID /\ Taken(data[hv])
    BY <1>1, GapOrTaken DEF Tables, Probed, IsGap
  <2>2. QED
    BY <2>1 DEF Taken
<1>4. Searching'
  <2>1. Home(key, size) \in 0..(size - 1)
    BY <1>1, HomeInTable
  <2>2. ASSUME NEW m \in 0..(size - 1),
               Passes(Home(key, size), m, After(hv))
        PROVE  data[m].key # HASH_PTR_KEY_INVALID /\ data[m].key # key
    BY <1>1, <1>3, <2>1, <2>2, PassesOneMore DEF Searching, NoneOn
  <2>3. QED
    BY <2>2 DEF Searching, NoneOn, Home
<1>5. Tables'
  BY DEF Tables, Probed, Taken, Reaches, Home
<1>6. Placing' /\ Moving' /\ Counts'
  BY DEF Placing, Moving, Counts, Growing, Waiting, Occupied
<1>7. QED
  BY <1>2, <1>4, <1>5, <1>6

\* The probe that has come to a gap files its address there.
LEMMA NewEntry ==
  ASSUME HashSiPtrAssumption, Inv, pc = "probe", IsGap(hv)
  PROVE  /\ data[hv] = Gap
         /\ Without(data, 0..(size - 1), key)
         /\ Probed(Filled, size)
         /\ Cardinality(Occupied(Filled, 0..(size - 1))) = used + 1
         /\ Filled[hv].key = key /\ Filled[hv].value = value
         /\ \A j \in 0..(size - 1) : j # hv => Filled[j] = data[j]
<1> USE DEF Inv
<1> DEFINE s == [key |-> key, value |-> value]
<1>1. /\ hash \in [Key -> Nat] /\ size \in Nat \ {0} /\ used \in Nat
      /\ hv \in 0..(size - 1) /\ key \in Key /\ value \in Value
  BY DEF Typed, Busy
<1>2. Probed(data, size) /\ DOMAIN data = 0..(size - 1)
  BY DEF Tables, Probed
<1>3. data[hv] = Gap /\ data[hv].key = HASH_PTR_KEY_INVALID
  BY <1>1, <1>2, GapOrTaken DEF Probed, IsGap
<1>4. Taken(s) /\ s # Gap
  BY <1>1, GapOrTaken DEF Taken, Slot
<1>5. Without(data, 0..(size - 1), key)
  BY <1>1, <1>2, <1>3, NotInTable DEF Searching
<1>6. Reaches(data, size, s.key, hv)
  BY DEF Searching, NoneOn, Reaches
<1>7. /\ Filled = [data EXCEPT ![hv] = s] /\ Filled[hv] = s
      /\ \A j \in 0..(size - 1) : j # hv => Filled[j] = data[j]
  BY <1>1, <1>2 DEF Filled
<1>8. Probed(Filled, size)
  BY <1>1, <1>2, <1>3, <1>4, <1>5, <1>6, <1>7, FillGap
<1>9. Cardinality(Occupied(Filled, 0..(size - 1))) = used + 1
  <2>1. Cardinality(Occupied(Filled, 0..(size - 1)))
          = Cardinality(Occupied(data, 0..(size - 1))) + 1
    BY <1>1, <1>3, <1>4, <1>7, FillCounts
  <2>2. QED
    BY <2>1 DEF Counts, Growing
<1>10. QED
  BY <1>3, <1>5, <1>7, <1>8, <1>9

LEMMA InsertInv ==
  ASSUME HashSiPtrAssumption, Inv, Insert
  PROVE  Inv'
<1> USE DEF Insert, Inv, call, growth
<1>1. /\ Probed(Filled, size)
      /\ Cardinality(Occupied(Filled, 0..(size - 1))) = used + 1
  BY NewEntry
<1>2. Typed'
  BY DEF Typed, Busy, Growing
<1>3. Tables'
  BY <1>1 DEF Tables, Probed, Taken, Reaches, Home
<1>4. Searching' /\ Placing' /\ Moving'
  BY DEF Searching, Placing, Moving, Growing
<1>5. Counts'
  <2>1. used + 1 < size
    BY DEF TooFull, Typed
  <2>2. QED
    BY <1>1, <2>1 DEF Counts, Growing, Waiting, Occupied
<1>6. QED
  BY <1>2, <1>3, <1>4, <1>5

LEMMA InsertAndGrowInv ==
  ASSUME HashSiPtrAssumption, Inv, InsertAndGrow
  PROVE  Inv'
<1> USE DEF InsertAndGrow, Inv, call
<1>1. /\ Probed(Filled, size) /\ hv \in 0..(size - 1)
      /\ Cardinality(Occupied(Filled, 0..(size - 1))) = used + 1
      /\ Filled[hv].key = key
  BY NewEntry DEF Typed
<1>2. Typed'
  BY DEF Typed, Busy, Growing
<1>3. Probed(Gaps(size * 2), size * 2)
  BY NewTableProbed DEF Typed
<1>4. Tables'
  BY <1>1, <1>3 DEF Tables, Probed, Taken, Reaches, Home
<1>5. Searching' /\ Placing'
  BY DEF Searching, Placing
<1>6. Moving'
  <2>1. \A m \in 0..(size - 1) : Filled[m] # Gap =>
           Without(Gaps(size * 2), 0..(size * 2 - 1), Filled[m].key)
    BY <1>1, GapOrTaken DEF Probed, Without, Gaps, Typed
  <2>2. QED
    BY <1>1, <2>1 DEF Moving, Growing, Waiting, Without
<1>7. Counts'
  <2>1. Cardinality(Occupied(Gaps(size * 2), 0..(size * 2 - 1))) = 0
    BY NothingOccupied DEF Typed
  <2>2. used + 1 <= size /\ used \in Nat /\ size \in Nat
    BY DEF Counts, Growing, Typed
  <2>3. QED
    BY <1>1, <2>1, <2>2 DEF Counts, Growing, Waiting, Occupied
<1>8. QED
  BY <1>2, <1>4, <1>5, <1>6, <1>7

LEMMA SkipGapInv ==
  ASSUME HashSiPtrAssumption, Inv, SkipGap
  PROVE  Inv'
<1> USE DEF SkipGap, Inv, call
<1>1. /\ i \in 0..(old_size - 1) /\ old_size \in Nat /\ key \in Key
      /\ hash \in [Key -> Nat]
  BY DEF Typed, Busy
<1>2. old[i] = Gap /\ old[i].key # key
  BY <1>1, GapOrTaken DEF Tables, Probed, HashSiPtrAssumption
<1>3. Typed'
  BY DEF Typed, Busy, Growing
<1>4. Tables' /\ Searching' /\ Placing'
  BY DEF Tables, Searching, Placing, Probed, Taken, Reaches, Home
<1>5. Moving'
  BY <1>1, <1>2 DEF Moving, Growing, Waiting, Without
<1>6. Counts'
  <2>1. Occupied(old, (i + 1)..(old_size - 1)) = Occupied(old, i..(old_size - 1))
    BY <1>1, <1>2, LaterSlots
  <2>2. QED
    BY <2>1 DEF Counts, Growing, Waiting, Occupied
<1>7. QED
  BY <1>3, <1>4, <1>5, <1>6

LEMMA TakeEntryInv ==
  ASSUME HashSiPtrAssumption, Inv, TakeEntry
  PROVE  Inv'
<1> USE DEF TakeEntry, Inv, call, growth
<1>1. /\ i \in 0..(old_size - 1) /\ old_size \in Nat /\ size \in Nat \ {0}
      /\ hash \in [Key -> Nat]
  BY DEF Typed
<1>2. old[i] # Gap /\ old[i].key \in Key
  BY <1>1, GapOrTaken DEF Tables, Probed, Taken
<1>3. Home(old[i].key, size) \in 0..(size - 1)
  BY <1>1, <1>2, HomeInTable
<1>4. Typed'
  BY <1>3 DEF Typed, Busy, Growing
<1>5. Placing'
  <2>1. Reaches(data, size, old[i].key, Home(old[i].key, size))
    BY <1>3 DEF Reaches, Passes
  <2>2. QED
    BY <1>1, <1>2, <2>1 DEF Placing, Reaches, Home
<1>6. Tables' /\ Searching'
  BY DEF Tables, Searching, Probed, Taken, Reaches, Home
<1>7. Moving' /\ Counts'
  BY DEF Moving, Counts, Growing, Waiting, Occupied, Without
<1>8. QED
  BY <1>4, <1>5, <1>6, <1>7

LEMMA PlaceNextInv ==
  ASSUME HashSiPtrAssumption, Inv, PlaceNext
  PROVE  Inv'
<1> USE DEF PlaceNext, Inv, call, growth
<1>1. /\ size \in Nat \ {0} /\ hv \in 0..(size - 1) /\ i \in 0..(old_size - 1)
      /\ hash \in [Key -> Nat] /\ old_size \in Nat
  BY DEF Typed, Placing
<1>2. Typed'
  BY <1>1 DEF Typed, Busy, Growing, After
<1>3. Placing'
  <2>1. old[i].key \in Key
    BY <1>1 DEF Tables, Probed, Taken, Placing
  <2>2. Home(old[i].key, size) \in 0..(size - 1)
    BY <1>1, <2>1, HomeInTable
  <2>3. ASSUME NEW m \in 0..(size - 1),
               Passes(Home(old[i].key, size), m, After(hv))
        PROVE  data[m].key # HASH_PTR_KEY_INVALID
    BY <1>1, <2>2, <2>3, PassesOneMore DEF Placing, Reaches, IsGap
  <2>4. QED
    BY <2>3 DEF Placing, Reaches, Home
<1>4. Tables' /\ Searching'
  BY DEF Tables, Searching, Probed, Taken, Reaches, Home
<1>5. Moving' /\ Counts'
  BY DEF Moving, Counts, Growing, Waiting, Occupied, Without
<1>6. QED
  BY <1>2, <1>3, <1>4, <1>5

LEMMA PlaceInv ==
  ASSUME HashSiPtrAssumption, Inv, Place
  PROVE  Inv'
<1> USE DEF Place, Inv, call
<1> DEFINE new == [data EXCEPT ![hv] = old[i]]
<1>1. /\ size \in Nat \ {0} /\ hv \in 0..(size - 1) /\ i \in 0..(old_size - 1)
      /\ old_size \in Nat /\ used \in Nat /\ hash \in [Key -> Nat]
      /\ Probed(data, size) /\ DOMAIN data = 0..(size - 1) /\ Probed(old, old_size)
      /\ old[i] # Gap
  BY DEF Typed, Tables, Placing, Probed
<1>2. data[hv] = Gap /\ data[hv].key = HASH_PTR_KEY_INVALID /\ Taken(old[i])
  BY <1>1, GapOrTaken DEF Probed, IsGap
<1>3. Without(data, 0..(size - 1), old[i].key)
  BY <1>1 DEF Moving, Growing, Waiting
<1>4. Probed(new, size)
  BY <1>1, <1>2, <1>3, FillGap DEF Placing
<1>5. new[hv] = old[i] /\ \A j \in 0..(size - 1) : j # hv => new[j] = data[j]
  BY <1>1
<1>6. Cardinality(Occupied(new, 0..(size - 1))) = Cardinality(Occupied(data, 0..(size - 1))) + 1
  BY <1>1, <1>2, <1>5, FillCounts
<1>7. Typed'
  BY <1>1 DEF Typed, Busy, Growing
<1>8. Tables' /\ Searching' /\ Placing'
  BY <1>1, <1>4 DEF Tables, Searching, Placing, Probed, Taken, Reaches, Home
<1>9. Moving'
  <2>1. ASSUME NEW m \in (i + 1)..(old_size - 1), old[m] # Gap
        PROVE  Without(new, 0..(size - 1), old[m].key)
    <3>1. old[m].key # old[i].key
      BY <1>1, <2>1 DEF Probed
    <3>2. Without(data, 0..(size - 1), old[m].key)
      BY <1>1, <2>1 DEF Moving, Growing, Waiting
    <3>3. QED
      BY <1>5, <3>1, <3>2 DEF Without
  <2>2. \/ \E j \in 0..(size - 1) : new[j].key = key
        \/ \E m \in (i + 1)..(old_size - 1) : old[m].key = key
    <3>1. CASE \E j \in 0..(size - 1) : data[j].key = key
      <4>1. key # HASH_PTR_KEY_INVALID /\ Gap.key = HASH_PTR_KEY_INVALID
        BY <1>1, GapOrTaken DEF Typed, Busy, HashSiPtrAssumption
      <4>2. QED
        BY <1>2, <1>5, <3>1, <4>1
    <3>2. CASE \E m \in Waiting : old[m].key = key
      BY <1>1, <1>5, <3>2 DEF Waiting
    <3>3. QED
      BY <3>1, <3>2 DEF Moving, Growing
  <2>3. QED
    BY <2>1, <2>2 DEF Moving, Growing, Waiting, Without
<1>10. Counts'
  <2>1. Cardinality(Occupied(old, (i + 1)..(old_size - 1)))
          = Cardinality(Occupied(old, i..(old_size - 1))) - 1
    BY <1>1, LaterSlots
  <2>2. /\ Cardinality(Occupied(data, 0..(size - 1))) \in Nat
        /\ Cardinality(Occupied(old, i..(old_size - 1))) \in Nat
    BY <1>1, OccupiedFinite
  <2>3. QED
    BY <1>1, <1>6, <2>1, <2>2 DEF Counts, Growing, Waiting, Occupied
<1>11. QED
  BY <1>7, <1>8, <1>9, <1>10

LEMMA EndRehashInv ==
  ASSUME HashSiPtrAssumption, Inv, EndRehash
  PROVE  Inv'
<1> USE DEF EndRehash, Inv, call
<1>1. Typed'
  BY DEF Typed, Busy, Growing
<1>2. Probed(Gaps(0), 0)
  BY NewTableProbed DEF Typed
<1>3. Tables'
  BY <1>2 DEF Tables, Probed, Taken, Reaches, Home
<1>4. Searching' /\ Placing' /\ Moving'
  BY DEF Searching, Placing, Moving, Growing
<1>5. Counts'
  <2>1. Cardinality(Occupied(old, old_size..(old_size - 1))) = 0
    BY NothingOccupied DEF Typed
  <2>2. Cardinality(Occupied(data, 0..(size - 1))) \in Nat
    BY OccupiedFinite DEF Typed
  <2>3. used = Cardinality(Occupied(data, 0..(size - 1))) /\ used < size
    BY <2>1, <2>2 DEF Counts, Growing, Waiting, Typed
  <2>4. QED
    BY <2>3 DEF Counts, Growing, Waiting, Occupied
<1>6. QED
  BY <1>1, <1>3, <1>4, <1>5

LEMMA NextInv == ASSUME HashSiPtrAssumption, Inv, [Next]_vars PROVE Inv'
BY CallInv, QuietInv, ProbeNextInv, InsertInv, InsertAndGrowInv, SkipGapInv, TakeEntryInv,
   PlaceNextInv, PlaceInv, EndRehashInv DEF Next, Step

THEOREM InvHolds == ASSUME HashSiPtrAssumption PROVE Spec => []Inv
<1>1. Init => Inv
  BY InitInv
<1>2. Inv /\ [Next]_vars => Inv'
  BY NextInv
<1>3. QED
  BY <1>1, <1>2, PTL DEF Spec

(***************************************************************************)
(* What follows from it.                                                   *)
(***************************************************************************)
LEMMA GapsAreLeft == ASSUME HashSiPtrAssumption, Inv PROVE PointersMeetGap
<1> SUFFICES ASSUME Busy PROVE \E j \in 0..(size - 1) : IsGap(j)
  BY DEF PointersMeetGap
<1> USE DEF Inv
<1>1. /\ Cardinality(Occupied(data, 0..(size - 1))) \in Nat
      /\ Cardinality(Occupied(old, Waiting)) \in Nat
  BY OccupiedFinite DEF Typed, Waiting
<1>2. Cardinality(Occupied(data, 0..(size - 1))) < size
  BY <1>1 DEF Counts, Typed, Growing
<1>3. \E j \in 0..(size - 1) : data[j] = Gap
  BY <1>2, RoomForGap DEF Typed
<1>4. QED
  BY <1>3 DEF IsGap, Gap

\* hash_si_ptr: a probe is never under way in a table without a gap, for any set of
\* addresses, any hash function and any initial size, so the loops of
\* hash_si_ptr_find_or_insert and hash_si_ptr_rehash end.
THEOREM PointerProbesMeetGap == ASSUME HashSiPtrAssumption PROVE Spec => []PointersMeetGap
<1>1. Inv => PointersMeetGap
  BY GapsAreLeft
<1>2. QED
  BY <1>1, InvHolds, PTL

(***************************************************************************)
(* The table is the map.                                                   *)
(***************************************************************************)
LEMMA PairsLater ==
  ASSUME NEW d, NEW n \in Nat, NEW a \in 0..(n - 1)
  PROVE  Pairs(d, a..(n - 1)) = Pairs(d, (a + 1)..(n - 1)) \cup
           (IF d[a].key = HASH_PTR_KEY_INVALID THEN {} ELSE {<< d[a].key, d[a].value >>})
<1>1. a..(n - 1) = ((a + 1)..(n - 1)) \cup {a}
  OBVIOUS
<1>2. QED
  BY <1>1 DEF Pairs

LEMMA PairsOfGaps ==
  ASSUME NEW n \in Nat
  PROVE  /\ Pairs(Gaps(n), 0..(n - 1)) = {}
         /\ \A d : Pairs(d, n..(n - 1)) = {}
BY DEF Pairs, Gaps, Gap

LEMMA PairsWithout ==
  ASSUME NEW d, NEW js, NEW k, k # HASH_PTR_KEY_INVALID, Without(d, js, k)
  PROVE  \A p \in Pairs(d, js) : p[1] # k
BY DEF Pairs, Without

\* while the table does not grow, the map is what its slots hold
LEMMA ContentsAtRest ==
  ASSUME Inv, ~Growing, pc # "freed"
  PROVE  Contents = Pairs(data, 0..(size - 1))
<1>1. Pairs(old, i..(old_size - 1)) = {}
  BY DEF Inv, Typed, Pairs
<1>2. QED
  BY <1>1 DEF Contents

LEMMA InitMaps == ASSUME HashSiPtrAssumption, Init PROVE Map!Init
<1>1. Inv
  BY InitInv
<1>2. Contents = Pairs(Gaps(InitSize), 0..(InitSize - 1))
  BY <1>1, ContentsAtRest DEF Init, Growing
<1>3. QED
  BY <1>2, PairsOfGaps DEF Map!Init, Init, HashSiPtrAssumption

\* steps that the map does not see
LEMMA StutterMaps ==
  ASSUME HashSiPtrAssumption, Inv,
         \/ ProbeNext \/ TakeEntry \/ PlaceNext \/ UNCHANGED vars
         \/ \E k \in Key, v \in Value : Call(k, v)
  PROVE  UNCHANGED Map!vars
<1>1. CASE UNCHANGED vars
  BY <1>1 DEF vars, Map!vars, Contents, Growing, Pairs
<1>2. CASE ProbeNext
  BY <1>2 DEF ProbeNext, growth, call, Map!vars, Contents, Growing, Pairs
<1>3. CASE TakeEntry
  BY <1>3 DEF TakeEntry, growth, call, Map!vars, Contents, Growing, Pairs
<1>4. CASE PlaceNext
  BY <1>4 DEF PlaceNext, growth, call, Map!vars, Contents, Growing, Pairs
<1>5. ASSUME NEW k \in Key, NEW v \in Value, Call(k, v)
      PROVE  UNCHANGED Map!vars
  BY <1>5 DEF Call, growth, Map!vars, Contents, Growing, Pairs
<1>6. QED
  BY <1>1, <1>2, <1>3, <1>4, <1>5

\* a growth moves pairs and changes none
LEMMA MoveMaps ==
  ASSUME HashSiPtrAssumption, Inv, SkipGap \/ Place
  PROVE  UNCHANGED Map!vars
<1> USE DEF Inv, call
<1> DEFINE here(d) == Pairs(d, 0..(size - 1))
           there(m) == Pairs(old, m..(old_size - 1))
<1>1. old_size \in Nat /\ size \in Nat \ {0} /\ i \in 0..old_size /\ hash \in [Key -> Nat]
  BY DEF Typed
<1>2. here(data) \cup there(i) = here(data') \cup there(i + 1)
  <2>1. CASE SkipGap
    <3>1. i \in 0..(old_size - 1) /\ old[i].key = HASH_PTR_KEY_INVALID
      BY <1>1, <2>1 DEF SkipGap
    <3>2. there(i) = there(i + 1) \cup {}
      BY <1>1, <3>1, PairsLater
    <3>3. QED
      BY <2>1, <3>2 DEF SkipGap
  <2>2. CASE Place
    <3>1. /\ i \in 0..(old_size - 1) /\ hv \in 0..(size - 1) /\ Taken(old[i])
          /\ Probed(data, size) /\ data[hv] = Gap
      BY <1>1, <2>2, GapOrTaken DEF Place, Placing, Typed, Tables, Probed, IsGap
    <3>2. /\ data'[hv] = old[i] /\ old[i].key # HASH_PTR_KEY_INVALID /\ data[hv].key = HASH_PTR_KEY_INVALID
          /\ \A j \in 0..(size - 1) : j # hv => data'[j] = data[j]
      BY <1>1, <2>2, <3>1, GapOrTaken DEF Place, Probed
    <3>3. here(data') = here(data) \cup {<< old[i].key, old[i].value >>}
      <4>1. here(data') = here(data) \cup {<< data'[hv].key, data'[hv].value >>}
        BY <1>1, <3>1, <3>2 DEF Pairs
      <4>2. QED
        BY <3>2, <4>1
    <3>4. there(i) = there(i + 1) \cup {<< old[i].key, old[i].value >>}
      BY <1>1, <3>1, <3>2, PairsLater
    <3>5. QED
      BY <3>3, <3>4
  <2>3. QED
    BY <2>1, <2>2
<1>3. /\ UNCHANGED << size, old, old_size, key, answer >> /\ i' = i + 1
      /\ Growing /\ Growing' /\ pc # "freed" /\ pc' # "freed"
  BY DEF SkipGap, Place, Growing
<1>4. Contents' = {p \in here(data') \cup there(i + 1) : p[1] # key}
  BY <1>3 DEF Contents, Pairs
<1>5. Contents = {p \in here(data) \cup there(i) : p[1] # key}
  BY <1>3 DEF Contents
<1>6. QED
  BY <1>2, <1>3, <1>4, <1>5 DEF Map!vars

LEMMA ExistsMaps ==
  ASSUME HashSiPtrAssumption, Inv, Exists
  PROVE  \E k \in Key : Map!Find(k)
<1> USE DEF Exists, Inv, call, growth
<1>1. /\ key \in Key /\ hash \in [Key -> Nat] /\ hv \in 0..(size - 1)
      /\ Taken(data[hv]) /\ data[hv].key = key
  BY GapOrTaken DEF Typed, Busy, Tables, Probed, IsGap
<1>2. Contents = Pairs(data, 0..(size - 1))
  BY ContentsAtRest DEF Growing
<1>3. << key, data[hv].value >> \in Contents /\ data[hv].value \in Value
  BY <1>1, <1>2 DEF Pairs, Taken, HashSiPtrAssumption
<1>4. UNCHANGED Contents
  BY DEF Contents, Growing, Pairs
<1>5. QED
  BY <1>1, <1>3, <1>4 DEF Map!Find

LEMMA InsertMaps ==
  ASSUME HashSiPtrAssumption, Inv, Insert
  PROVE  \E k \in Key : Map!Insert(k)
<1> USE DEF Inv
<1>1. /\ key \in Key /\ value \in Value /\ key # HASH_PTR_KEY_INVALID
      /\ hv \in 0..(size - 1) /\ size \in Nat \ {0} /\ hash \in [Key -> Nat]
  BY DEF Typed, Busy, HashSiPtrAssumption, Insert
<1>2. /\ data[hv].key = HASH_PTR_KEY_INVALID /\ Without(data, 0..(size - 1), key)
      /\ Filled[hv].key = key /\ Filled[hv].value = value
      /\ \A j \in 0..(size - 1) : j # hv => Filled[j] = data[j]
  BY <1>1, NewEntry, GapOrTaken DEF Insert
<1>3. Contents = Pairs(data, 0..(size - 1))
  BY ContentsAtRest DEF Growing, Insert
<1>4. \A w \in Value : << key, w >> \notin Contents
  BY <1>1, <1>2, <1>3, PairsWithout
<1>5. Contents' = Pairs(Filled, 0..(size - 1))
  <2>1. Inv'
    BY InsertInv
  <2>2. Contents' = Pairs(data, 0..(size - 1))'
    BY <2>1, ContentsAtRest DEF Insert, Growing, Contents, Pairs, Typed
  <2>3. QED
    BY <2>2 DEF Insert, Pairs
<1>6. Pairs(Filled, 0..(size - 1)) = Pairs(data, 0..(size - 1)) \cup {<< key, value >>}
  <2>1. Pairs(Filled, 0..(size - 1)) =
          Pairs(data, 0..(size - 1)) \cup {<< Filled[hv].key, Filled[hv].value >>}
    BY <1>1, <1>2 DEF Pairs
  <2>2. QED
    BY <1>2, <2>1
<1>7. answer' = << key, Absent >>
  BY DEF Insert
<1>8. QED
  BY <1>1, <1>3, <1>4, <1>5, <1>6, <1>7 DEF Map!Insert

LEMMA GrowMaps ==
  ASSUME HashSiPtrAssumption, Inv, InsertAndGrow
  PROVE  UNCHANGED Map!vars
<1> USE DEF Inv
<1>1. /\ key \in Key /\ key # HASH_PTR_KEY_INVALID
      /\ hv \in 0..(size - 1) /\ size \in Nat \ {0} /\ hash \in [Key -> Nat]
  BY DEF Typed, Busy, HashSiPtrAssumption, InsertAndGrow
<1>2. /\ data[hv].key = HASH_PTR_KEY_INVALID /\ Without(data, 0..(size - 1), key)
      /\ Filled[hv].key = key /\ Filled[hv].value = value
      /\ \A j \in 0..(size - 1) : j # hv => Filled[j] = data[j]
  BY <1>1, NewEntry, GapOrTaken DEF InsertAndGrow
<1>3. Contents = Pairs(data, 0..(size - 1))
  BY ContentsAtRest DEF Growing, InsertAndGrow
<1>4. \A p \in Pairs(data, 0..(size - 1)) : p[1] # key
  BY <1>1, <1>2, PairsWithout
<1>5. Contents' = {p \in Pairs(Gaps(size * 2), 0..(size * 2 - 1))
                          \cup Pairs(Filled, 0..(size - 1)) : p[1] # key}
  BY DEF InsertAndGrow, call, Contents, Growing, Pairs
<1>6. Pairs(Gaps(size * 2), 0..(size * 2 - 1)) = {}
  BY <1>1, PairsOfGaps
<1>7. Pairs(Filled, 0..(size - 1)) = Pairs(data, 0..(size - 1)) \cup {<< key, value >>}
  <2>1. Pairs(Filled, 0..(size - 1)) =
          Pairs(data, 0..(size - 1)) \cup {<< Filled[hv].key, Filled[hv].value >>}
    BY <1>1, <1>2 DEF Pairs
  <2>2. QED
    BY <1>2, <2>1
<1>8. Contents' = Pairs(data, 0..(size - 1))
  BY <1>4, <1>5, <1>6, <1>7
<1>9. QED
  BY <1>3, <1>8 DEF Map!vars, InsertAndGrow

LEMMA EndRehashMaps ==
  ASSUME HashSiPtrAssumption, Inv, EndRehash
  PROVE  \E k \in Key : Map!Insert(k)
<1> USE DEF Inv
<1>1. /\ key \in Key /\ key # HASH_PTR_KEY_INVALID /\ old_size \in Nat
      /\ size \in Nat \ {0} /\ hash \in [Key -> Nat] /\ Probed(data, size)
  BY DEF Typed, Busy, HashSiPtrAssumption, EndRehash, Tables
<1>2. PICK j \in 0..(size - 1) : data[j].key = key
  BY <1>1 DEF Moving, Growing, Waiting, EndRehash
<1>3. Taken(data[j]) /\ data[j] # Gap /\ data[j].value \in Value
  BY <1>1, <1>2, GapOrTaken DEF Probed, Taken, HashSiPtrAssumption
<1> DEFINE new == << key, data[j].value >>
<1>4. new \in Pairs(data, 0..(size - 1))
  BY <1>1, <1>2 DEF Pairs
<1>5. \A p \in Pairs(data, 0..(size - 1)) : p[1] = key => p = new
  BY <1>1, <1>2, <1>3, GapOrTaken DEF Pairs, Probed
<1>6. Contents = {p \in Pairs(data, 0..(size - 1)) : p[1] # key}
  <2>1. Pairs(old, i..(old_size - 1)) = {}
    BY <1>1, PairsOfGaps DEF EndRehash
  <2>2. QED
    BY <2>1 DEF EndRehash, Contents, Growing
<1>7. Contents' = Pairs(data, 0..(size - 1))
  <2>1. Pairs(old', i'..(old_size' - 1)) = {}
    BY DEF EndRehash, Pairs
  <2>2. Contents' = Pairs(data, 0..(size - 1)) \cup Pairs(old', i'..(old_size' - 1))
    BY DEF EndRehash, Contents, Growing, Pairs
  <2>3. QED
    BY <2>1, <2>2
<1>8. Contents' = Contents \cup {new}
  BY <1>4, <1>5, <1>6, <1>7
<1>9. \A w \in Value : << key, w >> \notin Contents
  BY <1>6
<1>10. answer' = << key, Absent >>
  BY DEF EndRehash
<1>11. QED
  BY <1>1, <1>3, <1>8, <1>9, <1>10 DEF Map!Insert

LEMMA NextMaps ==
  ASSUME HashSiPtrAssumption, Inv, [Next]_vars
  PROVE  [Map!Next]_(Map!vars)
<1>1. CASE Deinit
  BY <1>1 DEF Deinit, Map!Next, Map!Free, Contents
<1>2. QED
  BY <1>1, StutterMaps, MoveMaps, ExistsMaps, InsertMaps, GrowMaps, EndRehashMaps
     DEF Next, Step, Map!Next

\* hash_si_ptr is a map: for any set of addresses, any hash function and any initial
\* size, its calls answer as those of InternTable do, growths included.
THEOREM PointersAreInterned == ASSUME HashSiPtrAssumption PROVE Spec => PointersIntern
<1>1. Init => Map!Init
  BY InitMaps
<1>2. Inv /\ [Next]_vars => [Map!Next]_(Map!vars)
  BY NextMaps
<1>3. QED
  BY <1>1, <1>2, InvHolds, PTL DEF Spec, PointersIntern, Map!Spec
=============================================================================
