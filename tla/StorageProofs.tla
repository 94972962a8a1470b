---------------------------- MODULE StorageProofs ----------------------------
(***************************************************************************)
(* What HashSiProofs and HashSiPtrProofs show of the two tables, for the   *)
(* tables as Storage composes them: filed under the numbers the walk gives *)
(* out, beside the other parts.  A behaviour of the whole is, for each     *)
(* table, a behaviour of its own module.  What ZendTable promises of the   *)
(* arrays is shown here from its own definitions.                          *)
(***************************************************************************)
EXTENDS Storage, FiniteSetTheorems, FunctionTheorems, SequenceTheorems, TLAPS

(***************************************************************************)
(* The table of strings.                                                   *)
(***************************************************************************)
StringProofs == INSTANCE HashSiProofs WITH
    hash <- s_hash, size <- s_size, used <- s_used, data <- s_data, old <- s_old,
    old_size <- s_old_size, i <- s_i, pc <- s_pc, key_zstr <- s_key, value <- s_value,
    hv <- s_hv, answer <- s_answer

LEMMA StringsInit == StringTable!Init => StringProofs!Init
BY DEF StringTable!Init, StringProofs!Init, StringTable!Gaps, StringProofs!Gaps,
    StringTable!Gap, StringProofs!Gap

LEMMA StringsDeinit == StringTable!Deinit => StringProofs!Deinit
BY DEF StringTable!Deinit, StringProofs!Deinit, StringTable!Holders,
    StringProofs!Holders, StringTable!Cardinality, StringProofs!Cardinality,
    StringTable!growth, StringProofs!growth, StringTable!call, StringProofs!call

LEMMA StringsNext == StringTable!Next => StringProofs!Next
BY StringsDeinit DEF StringTable!vars, StringProofs!vars, StringTable!call, StringProofs!call,
    StringTable!growth, StringProofs!growth, StringTable!Gap, StringProofs!Gap,
    StringTable!Gaps, StringProofs!Gaps, StringTable!Home, StringProofs!Home,
    StringTable!After, StringProofs!After, StringTable!IsGap, StringProofs!IsGap,
    StringTable!Filled, StringProofs!Filled, StringTable!TooFull,
    StringProofs!TooFull, StringTable!get_key_hash, StringProofs!get_key_hash,
    StringTable!Matches, StringProofs!Matches, StringTable!Return,
    StringProofs!Return, StringTable!Call, StringProofs!Call, StringTable!Exists,
    StringProofs!Exists, StringTable!ProbeNext, StringProofs!ProbeNext,
    StringTable!Insert, StringProofs!Insert, StringTable!InsertAndGrow,
    StringProofs!InsertAndGrow, StringTable!SkipGap, StringProofs!SkipGap,
    StringTable!TakeEntry, StringProofs!TakeEntry, StringTable!PlaceNext,
    StringProofs!PlaceNext, StringTable!Place, StringProofs!Place,
    StringTable!EndRehash, StringProofs!EndRehash, StringTable!Step,
    StringProofs!Step, StringTable!Next, StringProofs!Next

\* a step of the whole is a step of the table or leaves it alone
LEMMA StringsSteps == ASSUME [Next]_vars PROVE [StringProofs!Next]_(StringProofs!vars)
<1>1. CASE Strings
  BY <1>1, StringsNext DEF Strings, StringTable!Next
<1>2. CASE UNCHANGED s_vars
  BY <1>2 DEF s_vars, StringProofs!vars
<1>3. QED
  BY <1>1, <1>2 DEF Next, vars, Pointers, FillArray, WriteAndRead

LEMMA StringsAssumed == StringProofs!HashSiAssumption
BY StorageAssumption
   DEF StorageAssumption, StringTable!HashSiAssumption, StringProofs!HashSiAssumption

LEMMA StringsInv == Spec => []StringProofs!Inv
<1>1. Init => StringProofs!Inv
  BY StringsAssumed, StringsInit, StringProofs!InitInv DEF Init
<1>2. StringProofs!Inv /\ [Next]_vars => StringProofs!Inv'
  BY StringsAssumed, StringsSteps, StringProofs!NextInv
<1>3. QED
  BY <1>1, <1>2, PTL DEF Spec

\* The table of strings has a gap while a probe is under way or a growth moves its
\* entries (hash_si_find_or_insert, hash_si_rehash): no probe goes round for ever.
THEOREM StringsMeetGap == Spec => []ProbesMeetGap
<1>1. StringProofs!Inv => ProbesMeetGap
  BY StringsAssumed, StringProofs!GapsAreLeft
     DEF ProbesMeetGap, StringTable!ProbesMeetGap, StringProofs!ProbesMeetGap,
         StringTable!Busy, StringProofs!Busy, StringTable!IsGap, StringProofs!IsGap
<1>2. QED
  BY <1>1, StringsInv, PTL

LEMMA StringsContents == StringTable!Contents = StringProofs!Contents
BY DEF StringTable!Contents, StringProofs!Contents, StringTable!Pairs,
    StringProofs!Pairs, StringTable!Growing, StringProofs!Growing

\* The table of strings is a map: a string filed is found with the number it was
\* filed under, and a new one is not found, through collisions and growths.
THEOREM StringsAreInterned == Spec => StringsIntern
<1>1. Init => StringTable!Map!Init
  <2>1. Init => StringProofs!Map!Init
    BY StringsAssumed, StringsInit, StringProofs!InitMaps DEF Init
  <2>2. QED
    BY <2>1, StringsContents DEF StringTable!Map!Init, StringProofs!Map!Init
<1>2. StringProofs!Inv /\ [Next]_vars => [StringTable!Map!Next]_(StringTable!Map!vars)
  <2>1. StringProofs!Inv /\ [Next]_vars => [StringProofs!Map!Next]_(StringProofs!Map!vars)
    BY StringsAssumed, StringsSteps, StringProofs!NextMaps
  <2>2. QED
    BY <2>1
       DEF StringTable!Map!Next, StringProofs!Map!Next, StringTable!Map!vars,
        StringProofs!Map!vars, StringTable!Map!Find, StringProofs!Map!Find,
        StringTable!Map!Insert, StringProofs!Map!Insert, StringTable!Map!Free,
        StringProofs!Map!Free, StringTable!Contents, StringProofs!Contents,
        StringTable!Pairs, StringProofs!Pairs, StringTable!Growing,
        StringProofs!Growing
<1>3. QED
  BY <1>1, <1>2, StringsInv, PTL
     DEF Spec, StringsIntern, StringTable!StringsIntern, StringTable!Map!Spec

\* The table of strings holds one reference on each string in it and gives every
\* one back in hash_si_deinit.
THEOREM StringRefsAreBalanced == Spec => []StringRefsBalanced
<1> DEFINE Counted == StringProofs!Inv /\ StringProofs!Held
<1>1. Init => Counted
  BY StringsAssumed, StringsInit, StringProofs!InitInv, StringProofs!InitHeld DEF Init
<1>2. Counted /\ [Next]_vars => Counted'
  BY StringsAssumed, StringsSteps, StringProofs!NextInv, StringProofs!NextHeld
<1>3. Counted => StringRefsBalanced
  BY StringsAssumed, StringProofs!HeldIsBalanced
     DEF StringRefsBalanced, StringTable!StringRefsBalanced, StringProofs!StringRefsBalanced,
         StringTable!Holders, StringProofs!Holders, StringTable!Cardinality,
         StringProofs!Cardinality
<1>4. QED
  BY <1>1, <1>2, <1>3, PTL DEF Spec

(***************************************************************************)
(* The table of addresses.                                                 *)
(***************************************************************************)
PointerProofs == INSTANCE HashSiPtrProofs WITH
    hash <- p_hash, size <- p_size, used <- p_used, data <- p_data, old <- p_old,
    old_size <- p_old_size, i <- p_i, pc <- p_pc, key <- p_key, value <- p_value,
    hv <- p_hv, answer <- p_answer

LEMMA SameInvalid ==
  PointerTable!HASH_PTR_KEY_INVALID = PointerProofs!HASH_PTR_KEY_INVALID
BY DEF PointerTable!HASH_PTR_KEY_INVALID, PointerProofs!HASH_PTR_KEY_INVALID

LEMMA PointersInit == PointerTable!Init => PointerProofs!Init
BY SameInvalid DEF PointerTable!Init, PointerProofs!Init, PointerTable!Gaps, PointerProofs!Gaps,
    PointerTable!Gap, PointerProofs!Gap

LEMMA PointersNext == PointerTable!Next => PointerProofs!Next
BY SameInvalid DEF PointerTable!vars, PointerProofs!vars, PointerTable!call, PointerProofs!call,
    PointerTable!growth, PointerProofs!growth, PointerTable!Gap, PointerProofs!Gap,
    PointerTable!Gaps, PointerProofs!Gaps, PointerTable!Home, PointerProofs!Home,
    PointerTable!After, PointerProofs!After, PointerTable!IsGap, PointerProofs!IsGap,
    PointerTable!Filled, PointerProofs!Filled, PointerTable!TooFull,
    PointerProofs!TooFull, PointerTable!Call, PointerProofs!Call, PointerTable!Exists,
    PointerProofs!Exists, PointerTable!ProbeNext, PointerProofs!ProbeNext,
    PointerTable!Insert, PointerProofs!Insert, PointerTable!InsertAndGrow,
    PointerProofs!InsertAndGrow, PointerTable!SkipGap, PointerProofs!SkipGap,
    PointerTable!TakeEntry, PointerProofs!TakeEntry, PointerTable!PlaceNext,
    PointerProofs!PlaceNext, PointerTable!Place, PointerProofs!Place,
    PointerTable!EndRehash, PointerProofs!EndRehash, PointerTable!Deinit,
    PointerProofs!Deinit, PointerTable!Step, PointerProofs!Step, PointerTable!Next,
    PointerProofs!Next

\* a step of the whole is a step of the table or leaves it alone
LEMMA PointersSteps == ASSUME [Next]_vars PROVE [PointerProofs!Next]_(PointerProofs!vars)
<1>1. CASE Pointers
  BY <1>1, PointersNext DEF Pointers, PointerTable!Next
<1>2. CASE UNCHANGED p_vars
  BY <1>2 DEF p_vars, PointerProofs!vars
<1>3. QED
  BY <1>1, <1>2 DEF Next, vars, Strings, FillArray, WriteAndRead

LEMMA PointersAssumed == PointerProofs!HashSiPtrAssumption
BY StorageAssumption, SameInvalid
   DEF StorageAssumption, PointerTable!HashSiPtrAssumption, PointerProofs!HashSiPtrAssumption

LEMMA PointersInv == Spec => []PointerProofs!Inv
<1>1. Init => PointerProofs!Inv
  BY PointersAssumed, PointersInit, PointerProofs!InitInv DEF Init
<1>2. PointerProofs!Inv /\ [Next]_vars => PointerProofs!Inv'
  BY PointersAssumed, PointersSteps, PointerProofs!NextInv
<1>3. QED
  BY <1>1, <1>2, PTL DEF Spec

\* The table of addresses has a gap while a probe is under way or a growth moves its
\* entries (hash_si_ptr_find_or_insert, hash_si_ptr_rehash).
THEOREM PointerProbesMeetGap == Spec => []PointersMeetGap
<1>1. PointerProofs!Inv => PointersMeetGap
  BY PointersAssumed, PointerProofs!GapsAreLeft, SameInvalid
     DEF PointersMeetGap, PointerTable!PointersMeetGap, PointerProofs!PointersMeetGap,
         PointerTable!Busy, PointerProofs!Busy, PointerTable!IsGap, PointerProofs!IsGap
<1>2. QED
  BY <1>1, PointersInv, PTL

LEMMA PointersContents == PointerTable!Contents = PointerProofs!Contents
BY SameInvalid DEF PointerTable!Contents, PointerProofs!Contents, PointerTable!Pairs,
    PointerProofs!Pairs, PointerTable!Growing, PointerProofs!Growing

\* The table of addresses is a map: an address filed is found with its id, a new one
\* is not found, through collisions and growths.
THEOREM PointersAreInterned == Spec => PointersIntern
<1>1. Init => PointerTable!Map!Init
  <2>1. Init => PointerProofs!Map!Init
    BY PointersAssumed, PointersInit, PointerProofs!InitMaps DEF Init
  <2>2. QED
    BY <2>1, PointersContents DEF PointerTable!Map!Init, PointerProofs!Map!Init
<1>2. PointerProofs!Inv /\ [Next]_vars => [PointerTable!Map!Next]_(PointerTable!Map!vars)
  <2>1. PointerProofs!Inv /\ [Next]_vars => [PointerProofs!Map!Next]_(PointerProofs!Map!vars)
    BY PointersAssumed, PointersSteps, PointerProofs!NextMaps
  <2>2. PointerTable!Contents' = PointerProofs!Contents'
    BY SameInvalid DEF PointerTable!Contents, PointerProofs!Contents, PointerTable!Pairs,
        PointerProofs!Pairs, PointerTable!Growing, PointerProofs!Growing
  <2>3. QED
    BY <2>1, <2>2, PointersContents, Zenon
       DEF PointerTable!Map!Next, PointerProofs!Map!Next, PointerTable!Map!vars,
        PointerProofs!Map!vars, PointerTable!Map!Find, PointerProofs!Map!Find,
        PointerTable!Map!Insert, PointerProofs!Map!Insert, PointerTable!Map!Free,
        PointerProofs!Map!Free
<1>3. QED
  BY <1>1, <1>2, PointersInv, PTL
     DEF Spec, PointersIntern, PointerTable!PointersIntern, PointerTable!Map!Spec

(***************************************************************************)
(* Induction, in the form the provers take: a set of numbers has a least   *)
(* member.  From it, what is defined step by step from 0 to N exists.      *)
(***************************************************************************)
LEMMA Least ==
  ASSUME NEW S, S \subseteq Nat, S # {}
  PROVE  \E m \in S : \A n \in S : m <= n
<1> PICK s \in S : s \in Nat
  OBVIOUS
<1> DEFINE C == {c \in 0..(s - 1) : \A d \in 0..c : d \notin S}
           k == Cardinality(C)
<1>1. IsFiniteSet(C) /\ k \in Nat /\ k <= s
  <2>1. IsFiniteSet(0..(s - 1)) /\ Cardinality(0..(s - 1)) = s
    BY FS_Interval
  <2> QED
    BY <2>1, FS_Subset, FS_CardinalityType
<1>2. C \subseteq 0..(k - 1)
  <2> SUFFICES ASSUME NEW c \in C PROVE c < k
    BY <1>1
  <2>1. IsFiniteSet(0..c) /\ Cardinality(0..c) = c + 1
    BY FS_Interval
  <2>2. 0..c \subseteq C
    OBVIOUS
  <2> QED
    BY <2>1, <2>2, <1>1, FS_Subset
<1>3. C = 0..(k - 1)
  <2> HIDE DEF k
  <2>1. /\ k - 1 \in Int /\ (0 > k - 1 => k = 0) /\ 0 \in Int
        /\ ~(0 > k - 1) => (k - 1) - 0 + 1 = k
    BY <1>1
  <2> DEFINE h == k - 1
  <2>2. IsFiniteSet(0..h) /\ Cardinality(0..h) = IF 0 > h THEN 0 ELSE h - 0 + 1
    <3> HIDE DEF h
    <3>1. h \in Int
      BY <2>1 DEF h
    <3> QED
      BY <3>1, <2>1, FS_Interval
  <2>3. Cardinality(0..(k - 1)) = k
    BY <2>1, <2>2
  <2> QED
    <3> DEFINE I == 0..(k - 1)
    <3>1. IsFiniteSet(I) /\ Cardinality(I) = Cardinality(C) /\ C \in SUBSET I
      BY <2>2, <2>3, <1>2 DEF k
    <3>2. I = C
      <4> HIDE DEF C, I
      <4> QED
        BY <3>1, FS_Subset, Zenon
    <3> QED
      BY <3>2
<1> QED
  <2> HIDE DEF k
  <2>1. k \notin C /\ (k > 0 => k - 1 \in C)
    <3> HIDE DEF C
    <3> QED
      BY <1>3, <1>1
  <2>2. \A d \in 0..(k - 1) : d \notin S
    BY <2>1, <1>1
  <2>3. k \in S
    BY <2>1, <2>2, <1>1
  <2> QED
    BY <2>2, <2>3, <1>1

LEMMA Greatest ==
  ASSUME NEW n \in Nat, NEW S, S \subseteq 0..n, S # {}
  PROVE  \E m \in S : \A j \in S : j <= m
<1> DEFINE D == {d \in 0..n : n - d \in S}
<1>1. D \subseteq Nat /\ D # {}
  <2>1. PICK s \in S : s \in 0..n
    OBVIOUS
  <2>2. n - s \in 0..n /\ n - (n - s) = s
    BY <2>1
  <2> QED
    BY <2>2
<1>2. PICK d \in D : \A e \in D : d <= e
  <2> HIDE DEF D
  <2> QED
    BY <1>1, Least
<1>3. ASSUME NEW j \in S PROVE j <= n - d
  <2>1. n - j \in D
    BY <1>3
  <2> QED
    BY <1>2, <2>1
<1> QED
  BY <1>2, <1>3

Iterated(f, S, s0, step, N) ==
    f \in [0..N -> S] /\ f[0] = s0 /\ \A n \in 1..N : f[n] = step[<< n, f[n - 1] >>]
LEMMA Iterates ==
  ASSUME NEW S, NEW s0 \in S, NEW step \in [Nat \X S -> S], NEW N \in Nat
  PROVE  \E f : Iterated(f, S, s0, step, N)
<1> DEFINE Run(n, f) == /\ f \in [0..n -> S] /\ f[0] = s0
                        /\ \A m \in 1..n : f[m] = step[<< m, f[m - 1] >>]
           Bad == {n \in Nat : ~\E f : Run(n, f)}
<1>1. SUFFICES ASSUME Bad # {} PROVE FALSE
  BY DEF Iterated
<1>2. PICK n \in Bad : \A m \in Bad : n <= m
  <2>1. Bad \subseteq Nat
    OBVIOUS
  <2> HIDE DEF Bad
  <2> QED
    BY <1>1, <2>1, Least
<1>3. n \in Nat \ {0}
  <2> SUFFICES ASSUME n = 0 PROVE FALSE
    BY <1>2
  <2> DEFINE f == [m \in 0..0 |-> s0]
  <2>1. Run(0, f)
    OBVIOUS
  <2> QED
    BY <2>1, <1>2
<1>4. PICK f : Run(n - 1, f)
  <2>1. n - 1 \in Nat /\ n - 1 \notin Bad
    BY <1>2, <1>3
  <2> QED
    BY <2>1
<1> DEFINE g == [m \in 0..n |-> IF m = n THEN step[<< n, f[n - 1] >>] ELSE f[m]]
<1>5. step[<< n, f[n - 1] >>] \in S
  <2>1. f[n - 1] \in S /\ n \in Nat
    BY <1>4, <1>3
  <2> QED
    BY <2>1
<1>6. g \in [0..n -> S] /\ g[0] = s0
  BY <1>3, <1>4, <1>5
<1>7. ASSUME NEW m \in 1..n PROVE g[m] = step[<< m, g[m - 1] >>]
  <2>1. m - 1 \in 0..(n - 1) /\ m - 1 # n /\ m \in 0..n
    BY <1>3
  <2>2. g[m - 1] = f[m - 1]
    BY <2>1, <1>3
  <2>3. CASE m = n
    BY <2>2, <2>3, <1>3
  <2>4. CASE m # n
    <3>1. m \in 1..(n - 1)
      BY <2>4, <1>3
    <3> QED
      BY <2>2, <2>4, <1>4, <3>1
  <2> QED
    BY <2>3, <2>4
<1>8. Run(n, g)
  BY <1>6, <1>7
<1> QED
  BY <1>8, <1>2

(***************************************************************************)
(* Closing holes.  What a rehash keeps is in the order it was in.          *)
(***************************************************************************)
SetIn(ar) == {i \in DOMAIN ar : Array!IsSet(ar[i])}
\* f lists the set buckets among the first n of ar, in order, and c has them
Lists(f, ar, n, c) ==
    /\ f \in [1..Len(c) -> {i \in SetIn(ar) : i <= n}]
    /\ \A p, q \in 1..Len(c) : p < q => f[p] < f[q]
    /\ \A i \in SetIn(ar) : i <= n => \E p \in 1..Len(c) : f[p] = i
    /\ \A p \in 1..Len(c) : c[p] = ar[f[p]]

LEMMA OneListed ==
  ASSUME NEW B, NEW ar \in Seq(B), NEW n \in 1..Len(ar), NEW c \in Seq(B), NEW f,
         Lists(f, ar, n - 1, c)
  PROVE  \E g : Lists(g, ar, n, IF Array!IsSet(ar[n]) THEN Append(c, ar[n]) ELSE c)
<1>1. /\ Len(ar) \in Nat /\ DOMAIN ar = 1..Len(ar) /\ Len(c) \in Nat /\ ar[n] \in B /\ n \in Nat
      /\ SetIn(ar) \subseteq Nat
  BY DEF SetIn
<1>2. CASE ~Array!IsSet(ar[n])
  <2>1. \A i \in SetIn(ar) : i <= n <=> i <= n - 1
    BY <1>1, <1>2 DEF SetIn
  <2>2. {i \in SetIn(ar) : i <= n} = {i \in SetIn(ar) : i <= n - 1}
    BY <2>1
  <2>3. Lists(f, ar, n, c)
    BY <2>1, <2>2 DEF Lists
  <2> QED
    BY <2>3, <1>2
<1>3. CASE Array!IsSet(ar[n])
  <2> DEFINE d == Append(c, ar[n])
             L == Len(c)
             g == [p \in 1..(L + 1) |-> IF p <= L THEN f[p] ELSE n]
  <2>1. /\ Len(d) = L + 1 /\ d[L + 1] = ar[n] /\ \A p \in 1..L : d[p] = c[p]
        /\ n \in SetIn(ar)
    BY <1>1, <1>3 DEF SetIn
  <2>2. \A p \in 1..L : f[p] \in SetIn(ar) /\ f[p] <= n - 1 /\ f[p] \in Nat
    BY <1>1 DEF Lists
  <2>3. g \in [1..(L + 1) -> {i \in SetIn(ar) : i <= n}]
    <3> SUFFICES ASSUME NEW p \in 1..(L + 1) PROVE g[p] \in SetIn(ar) /\ g[p] <= n
      OBVIOUS
    <3>1. CASE p <= L
      BY <3>1, <2>2, <1>1
    <3>2. CASE p = L + 1
      BY <3>2, <2>1, <1>1
    <3> QED
      BY <3>1, <3>2, <1>1
  <2>4. ASSUME NEW p \in 1..(L + 1), NEW q \in 1..(L + 1), p < q PROVE g[p] < g[q]
    <3>1. p \in 1..L /\ g[p] = f[p]
      BY <2>4, <1>1
    <3>2. CASE q = L + 1
      BY <3>1, <3>2, <2>2, <1>1
    <3>3. CASE q <= L
      BY <3>1, <3>3, <2>4, <1>1 DEF Lists
    <3> QED
      BY <3>2, <3>3, <1>1
  <2>5. ASSUME NEW i \in SetIn(ar), i <= n PROVE \E p \in 1..(L + 1) : g[p] = i
    <3>1. CASE i = n
      BY <3>1, <1>1
    <3>2. CASE i <= n - 1
      <4>1. PICK p \in 1..L : f[p] = i
        BY <3>2 DEF Lists
      <4>2. p \in 1..(L + 1) /\ g[p] = i
        BY <4>1, <1>1
      <4> QED
        BY <4>2
    <3> QED
      BY <3>1, <3>2, <2>5, <1>1
  <2>6. ASSUME NEW p \in 1..(L + 1) PROVE d[p] = ar[g[p]]
    <3>1. CASE p <= L
      <4>1. p \in 1..L
        BY <3>1, <1>1
      <4>2. d[p] = c[p] /\ g[p] = f[p] /\ c[p] = ar[f[p]]
        BY <4>1, <3>1, <2>1 DEF Lists
      <4> QED
        BY <4>2
    <3>2. CASE p = L + 1
      BY <3>2, <2>1, <1>1
    <3> QED
      BY <3>1, <3>2, <1>1
  <2>7. Lists(g, ar, n, d)
    <3> HIDE DEF g, d
    <3> QED
      BY <2>1, <2>3, <2>4, <2>5, <2>6 DEF Lists
  <2> QED
    BY <2>7, <1>3
<1> QED
  BY <1>2, <1>3

LEMMA CompactLists ==
  ASSUME NEW B, NEW ar \in Seq(B)
  PROVE  Array!Compact(ar) \in Seq(B) /\ \E f : Lists(f, ar, Len(ar), Array!Compact(ar))
<1> DEFINE S == Seq(B)
           N == Len(ar)
           step == [p \in Nat \X S |-> IF p[1] \in 1..N /\ Array!IsSet(ar[p[1]])
                                       THEN Append(p[2], ar[p[1]]) ELSE p[2]]
           body(to) == [i \in 0..N |-> IF i = 0 THEN << >>
                                       ELSE IF Array!IsSet(ar[i]) THEN Append(to[i - 1], ar[i])
                                       ELSE to[i - 1]]
           to == CHOOSE to : to = body(to)
<1>1. N \in Nat /\ << >> \in S /\ DOMAIN ar = 1..N /\ \A i \in 1..N : ar[i] \in B
  OBVIOUS
<1>2. step \in [Nat \X S -> S]
  <2> SUFFICES ASSUME NEW p \in Nat \X S
               PROVE  (IF p[1] \in 1..N /\ Array!IsSet(ar[p[1]]) THEN Append(p[2], ar[p[1]]) ELSE p[2]) \in S
    OBVIOUS
  <2>1. p[2] \in S
    OBVIOUS
  <2>2. p[1] \in 1..N => Append(p[2], ar[p[1]]) \in S
    BY <2>1, <1>1
  <2> QED
    BY <2>1, <2>2
<1>3. PICK f : Iterated(f, S, << >>, step, N)
  <2> HIDE DEF step, S, N
  <2> QED
    BY <1>1, <1>2, Iterates
<1>4. /\ f \in [0..N -> S] /\ f[0] = << >>
      /\ \A n \in 1..N : f[n] = IF Array!IsSet(ar[n]) THEN Append(f[n - 1], ar[n]) ELSE f[n - 1]
  <2>1. f \in [0..N -> S] /\ f[0] = << >> /\ \A n \in 1..N : f[n] = step[<< n, f[n - 1] >>]
    <3> HIDE DEF step, S, N
    <3> QED
      BY <1>3 DEF Iterated
  <2> SUFFICES ASSUME NEW n \in 1..N
               PROVE  f[n] = IF Array!IsSet(ar[n]) THEN Append(f[n - 1], ar[n]) ELSE f[n - 1]
    BY <2>1
  <2>2. n \in Nat /\ n - 1 \in 0..N /\ f[n - 1] \in S
    <3> HIDE DEF step, S, N
    <3>1. n \in Nat /\ n - 1 \in 0..N
      BY <1>1
    <3> QED
      BY <3>1, <2>1
  <2>3. << n, f[n - 1] >> \in Nat \X S
    BY <2>2
  <2> QED
    BY <2>3, <2>1
<1>5. f = body(f)
  <2>1. ASSUME NEW i \in 0..N PROVE f[i] = body(f)[i]
    <3>1. body(f)[i] = IF i = 0 THEN << >> ELSE IF Array!IsSet(ar[i]) THEN Append(f[i - 1], ar[i]) ELSE f[i - 1]
      BY <2>1
    <3>2. CASE i = 0
      BY <3>1, <3>2, <1>4
    <3>3. CASE i \in 1..N
      <4> DEFINE next == IF Array!IsSet(ar[i]) THEN Append(f[i - 1], ar[i]) ELSE f[i - 1]
      <4>1. i # 0
        BY <3>3, <1>1
      <4>2. f[i] = next
        <5> HIDE DEF body, S, N
        <5> QED
          BY <3>3, <1>4, Zenon
      <4>3. body(f)[i] = IF i = 0 THEN << >> ELSE next
        BY <3>1
      <4> HIDE DEF body, next
      <4> QED
        BY <4>1, <4>2, <4>3
    <3> QED
      BY <3>2, <3>3, <2>1, <1>1
  <2> HIDE DEF S, N
  <2> QED
    BY <2>1, <1>4
<1>6. to = body(to)
  <2> HIDE DEF body
  <2> QED
    BY <1>5
<1>7. Array!Compact(ar) = to[N]
  BY DEF Array!Compact
<1>8. to[0] = << >> /\ \A n \in 1..N : to[n] = IF Array!IsSet(ar[n]) THEN Append(to[n - 1], ar[n]) ELSE to[n - 1]
  <2> HIDE DEF to, S
  <2>1. \A i \in 0..N : to[i] = body(to)[i]
    BY <1>6
  <2>2. 0 \in 0..N /\ \A n \in 1..N : n \in 0..N /\ n # 0
    BY <1>1
  <2> QED
    BY <2>1, <2>2
<1> DEFINE Good(n) == to[n] \in S /\ \E g : Lists(g, ar, n, to[n])
           Bad == {n \in 0..N : ~Good(n)}
<1>9. Good(0)
  <2> HIDE DEF to
  <2> DEFINE g == << >>
  <2>1. SetIn(ar) \subseteq 1..N
    BY <1>1 DEF SetIn
  <2>2. {i \in SetIn(ar) : i <= 0} = {}
    BY <2>1, <1>1
  <2>3. Lists(g, ar, 0, << >>)
    BY <2>1, <2>2 DEF Lists
  <2> QED
    BY <2>3, <1>8, <1>1
<1>10. ASSUME NEW n \in 1..N, Good(n - 1) PROVE Good(n)
  <2> HIDE DEF to
  <2>1. PICK g : Lists(g, ar, n - 1, to[n - 1])
    BY <1>10
  <2>2. \E h : Lists(h, ar, n, IF Array!IsSet(ar[n]) THEN Append(to[n - 1], ar[n]) ELSE to[n - 1])
    BY <2>1, <1>10, OneListed
  <2>3. to[n] \in S
    <3>1. ar[n] \in B /\ to[n - 1] \in Seq(B)
      BY <1>10, <1>1
    <3>2. Append(to[n - 1], ar[n]) \in Seq(B)
      BY <3>1
    <3> QED
      BY <3>1, <3>2, <1>8
  <2> QED
    BY <2>2, <2>3, <1>8
<1>11. Bad = {}
  <2> HIDE DEF Good
  <2> SUFFICES ASSUME Bad # {} PROVE FALSE
    OBVIOUS
  <2>1. Bad \subseteq Nat
    BY <1>1
  <2>2. PICK n \in Bad : \A m \in Bad : n <= m
    <3> HIDE DEF Bad
    <3> QED
      BY <2>1, Least
  <2>3. n # 0 /\ n \in 0..N
    BY <2>2, <1>9
  <2>4. n \in 1..N /\ n - 1 \in 0..N /\ n - 1 \notin Bad
    BY <2>2, <2>3, <1>1
  <2>5. Good(n - 1)
    BY <2>4
  <2> QED
    BY <2>5, <2>4, <1>10, <2>2
<1>12. Good(N)
  <2> HIDE DEF Good
  <2> QED
    BY <1>11, <1>1
<1> QED
  <2> HIDE DEF to
  <2> QED
    BY <1>12, <1>7

(***************************************************************************)
(* Buckets and chains.                                                     *)
(***************************************************************************)
KeyT    == Array!Keys \cup {Array!IntKey(0)}
BucketT == [k : KeyT, val : Nat, next : Nat]
Fields  == {"flags", "nTableSize", "nNumUsed", "nNumOfElements", "nNextFreeElement", "arData", "arHash"}
Shape(t) ==
    /\ DOMAIN t = Fields
    /\ t.nTableSize \in Nat \ {0} /\ t.nNumUsed \in Nat /\ t.nNumOfElements \in Nat
    /\ t.nNextFreeElement \in Nat
    /\ t.arData \in Seq(BucketT) /\ t.nNumUsed = Len(t.arData)

\* the buckets of a slot, and chains that lead from the latest to the first
InSlot(t, ar, s, n) == {j \in 1..n : Array!SlotOf(t, ar[j].k) = s}
IsLatest(m, S) == IF S = {} THEN m = 0 ELSE m \in S /\ \A j \in S : j <= m
Linked(t) ==
    /\ DOMAIN t.arHash = Array!Slots(t)
    /\ \A s \in Array!Slots(t) : IsLatest(t.arHash[s], InSlot(t, t.arData, s, t.nNumUsed))
    /\ \A i \in DOMAIN t.arData :
          IsLatest(t.arData[i].next, InSlot(t, t.arData, Array!SlotOf(t, t.arData[i].k), i - 1))

LEMMA KeyTypes ==
  /\ \A h \in Longs : Array!IntKey(h) \in Array!Keys /\ Array!IntKey(h).h = h
      /\ h \in 0..(Word - 1)
  /\ \A s \in Names : Array!StrKey(s) \in Array!Keys /\ \A h : Array!StrKey(s) # Array!IntKey(h)
  /\ \A g, h : Array!IntKey(g) = Array!IntKey(h) => g = h
  /\ \A k \in KeyT : k.h \in Nat
  /\ \A k \in Array!Keys : (\E h \in Longs : k = Array!IntKey(h))
     \/ (\E s \in Names : k = Array!StrKey(s))
<1>1. Array!ZendTableAssumption
  BY StorageAssumption DEF StorageAssumption
<1>2. /\ Longs \subseteq 0..(Word - 1) /\ Longs \subseteq Nat
      /\ NoString \notin Names /\ StrHash \in [Names -> Nat] /\ Word \in Nat
  BY <1>1 DEF Array!ZendTableAssumption
<1>3. \A k \in Array!Keys : (\E h \in Longs : k = Array!IntKey(h))
      \/ (\E s \in Names : k = Array!StrKey(s))
  BY DEF Array!Keys
<1>4. \A s \in Names : Array!StrKey(s) \in Array!Keys /\ Array!StrKey(s).h \in Nat
      /\ Array!StrKey(s).key = s
  BY <1>2 DEF Array!Keys, Array!StrKey
<1>5. \A h : Array!IntKey(h).h = h /\ Array!IntKey(h).key = NoString
  BY DEF Array!IntKey
<1>6. \A h \in Longs : Array!IntKey(h) \in Array!Keys /\ h \in 0..(Word - 1)
  BY <1>2 DEF Array!Keys
<1>7. \A k \in KeyT : k.h \in Nat
  <2> SUFFICES ASSUME NEW k \in KeyT PROVE k.h \in Nat
    OBVIOUS
  <2>1. CASE k = Array!IntKey(0)
    BY <2>1, <1>5
  <2>2. CASE k \in Array!Keys
    BY <2>2, <1>3, <1>4, <1>5, <1>2
  <2> QED
    BY <2>1, <2>2 DEF KeyT
<1> QED
  BY <1>2, <1>3, <1>4, <1>5, <1>6, <1>7

LEMMA BucketTypes ==
  ASSUME NEW ar \in Seq(BucketT), NEW i \in DOMAIN ar
  PROVE  /\ ar[i].k \in KeyT /\ ar[i].val \in Nat /\ ar[i].next \in Nat
         /\ ar[i].k.h \in Nat /\ ar[i] = [k |-> ar[i].k, val |-> ar[i].val, next |-> ar[i].next]
<1>1. ar[i] \in BucketT
  OBVIOUS
<1>2. ar[i].k \in KeyT /\ ar[i].val \in Nat /\ ar[i].next \in Nat
  BY <1>1 DEF BucketT
<1>3. ar[i] = [k |-> ar[i].k, val |-> ar[i].val, next |-> ar[i].next]
  BY <1>1 DEF BucketT
<1> QED
  BY <1>2, <1>3, KeyTypes

LEMMA SlotIn ==
  ASSUME NEW t, t.nTableSize \in Nat \ {0}, NEW k, k.h \in Nat
  PROVE  Array!SlotOf(t, k) \in Array!Slots(t)
<1> DEFINE m == 2 * t.nTableSize
<1>1. m \in Nat /\ m > 0
  OBVIOUS
<1>2. \A h \in Nat : h % m \in 0..(m - 1)
  <2> HIDE DEF m
  <2> QED
    BY <1>1
<1> QED
  BY <1>2 DEF Array!SlotOf, Array!Slots

LEMMA LatestIs ==
  ASSUME NEW n \in Nat, NEW S \in SUBSET (1..n)
  PROVE  IsLatest(Array!Latest(S), S)
<1>1. CASE S = {}
  BY <1>1 DEF Array!Latest, IsLatest
<1>2. CASE S # {}
  <2>1. S \subseteq 0..n
    OBVIOUS
  <2>2. \E m \in S : \A j \in S : j <= m
    BY <1>2, <2>1, Greatest
  <2> QED
    BY <2>2, <1>2 DEF Array!Latest, IsLatest
<1> QED
  BY <1>1, <1>2

LEMMA ChainedIs ==
  ASSUME NEW t, Shape(t), NEW ar \in Seq(BucketT), NEW u, u = Array!Chained(t, ar)
  PROVE  /\ Shape(u) /\ Linked(u)
         /\ u.flags = t.flags /\ u.nTableSize = t.nTableSize
         /\ u.nNumOfElements = t.nNumOfElements
         /\ u.nNextFreeElement = t.nNextFreeElement
         /\ Len(u.arData) = Len(ar) /\ DOMAIN u.arData = DOMAIN ar
         /\ \A i \in DOMAIN ar : u.arData[i].k = ar[i].k /\ u.arData[i].val = ar[i].val
<1> DEFINE in(s, n) == {j \in 1..n : Array!SlotOf(t, ar[j].k) = s}
           br == [i \in DOMAIN ar |-> [ar[i] EXCEPT !.next = Array!Latest(in(Array!SlotOf(t, ar[i].k), i - 1))]]
           hash == [s \in Array!Slots(t) |-> Array!Latest(in(s, Len(ar)))]
<1>1. /\ DOMAIN u = Fields /\ u.arData = br /\ u.arHash = hash /\ u.nNumUsed = Len(ar)
      /\ u.flags = t.flags /\ u.nTableSize = t.nTableSize /\ u.nNumOfElements = t.nNumOfElements
      /\ u.nNextFreeElement = t.nNextFreeElement
  BY DEF Array!Chained, Shape, Fields
<1>2. Len(ar) \in Nat /\ DOMAIN ar = 1..Len(ar)
  OBVIOUS
<1>3. \A s : \A n \in 0..Len(ar) : IsLatest(Array!Latest(in(s, n)), in(s, n))
      /\ Array!Latest(in(s, n)) \in Nat
  <2> SUFFICES ASSUME NEW s, NEW n \in 0..Len(ar)
               PROVE  IsLatest(Array!Latest(in(s, n)), in(s, n)) /\ Array!Latest(in(s, n)) \in Nat
    OBVIOUS
  <2>1. in(s, n) \in SUBSET (1..n) /\ n \in Nat
    BY <1>2
  <2> HIDE DEF in
  <2>2. IsLatest(Array!Latest(in(s, n)), in(s, n))
    BY <2>1, LatestIs
  <2> QED
    BY <2>1, <2>2 DEF IsLatest
<1>4. ASSUME NEW i \in DOMAIN ar
      PROVE  /\ br[i].k = ar[i].k /\ br[i].val = ar[i].val /\ br[i] \in BucketT
             /\ br[i].next = Array!Latest(in(Array!SlotOf(t, ar[i].k), i - 1))
  <2>1. /\ ar[i].k \in KeyT /\ ar[i].val \in Nat
        /\ ar[i] = [k |-> ar[i].k, val |-> ar[i].val, next |-> ar[i].next]
    BY BucketTypes
  <2> DEFINE m == Array!Latest(in(Array!SlotOf(t, ar[i].k), i - 1))
  <2>2. i - 1 \in 0..Len(ar)
    BY <1>2
  <2>3. m \in Nat
    <3> HIDE DEF in
    <3> QED
      BY <1>3, <2>2
  <2>4. br[i] = [ar[i] EXCEPT !.next = m]
    OBVIOUS
  <2> HIDE DEF m, br
  <2>5. br[i] = [k |-> ar[i].k, val |-> ar[i].val, next |-> m]
    BY <2>1, <2>4
  <2> QED
    BY <2>1, <2>3, <2>5 DEF BucketT, m
<1>5. br \in Seq(BucketT) /\ DOMAIN br = DOMAIN ar /\ Len(br) = Len(ar)
  <2>1. br \in [1..Len(ar) -> BucketT]
    BY <1>2, <1>4
  <2> HIDE DEF br
  <2> QED
    BY <2>1, <1>2
<1>6. Shape(u)
  <2> HIDE DEF br, hash
  <2> QED
    BY <1>1, <1>2, <1>5 DEF Shape
<1>7. Array!Slots(u) = Array!Slots(t) /\ \A k : Array!SlotOf(u, k) = Array!SlotOf(t, k)
  BY <1>1 DEF Array!Slots, Array!SlotOf
<1>8. \A s : \A n \in 0..Len(ar) : InSlot(u, br, s, n) = in(s, n)
  <2> SUFFICES ASSUME NEW s, NEW n \in 0..Len(ar), NEW j \in 1..n PROVE br[j].k = ar[j].k
    BY <1>7 DEF InSlot
  <2>1. j \in DOMAIN ar
    BY <1>2
  <2> HIDE DEF br
  <2> QED
    BY <2>1, <1>4
<1>9. Linked(u)
  <2> HIDE DEF in, br
  <2>1. DOMAIN u.arHash = Array!Slots(u)
    BY <1>1, <1>7
  <2>2. ASSUME NEW s \in Array!Slots(u)
        PROVE  IsLatest(u.arHash[s], InSlot(u, u.arData, s, u.nNumUsed))
    <3>1. Len(ar) \in 0..Len(ar)
      BY <1>2
    <3>2. u.arHash[s] = Array!Latest(in(s, Len(ar)))
      BY <1>1, <1>7
    <3> QED
      BY <1>1, <1>3, <1>8, <3>1, <3>2
  <2>3. ASSUME NEW i \in DOMAIN u.arData
        PROVE  IsLatest(u.arData[i].next, InSlot(u, u.arData, Array!SlotOf(u, u.arData[i].k), i - 1))
    <3>1. i \in DOMAIN ar /\ i - 1 \in 0..Len(ar)
      BY <1>1, <1>2, <1>5
    <3>2. br[i].next = Array!Latest(in(Array!SlotOf(t, ar[i].k), i - 1)) /\ br[i].k = ar[i].k
      BY <3>1, <1>4
    <3>3. Array!SlotOf(u, br[i].k) = Array!SlotOf(t, ar[i].k)
      BY <3>2, <1>7
    <3> QED
      BY <1>1, <1>3, <1>8, <3>1, <3>2, <3>3
  <2> QED
    BY <2>1, <2>2, <2>3 DEF Linked
<1> QED
  <2> HIDE DEF br
  <2> QED
    BY <1>1, <1>4, <1>5, <1>6, <1>9

LEMMA ChainIs ==
  ASSUME NEW t, Shape(t), Linked(t), NEW s \in Array!Slots(t)
  PROVE  Array!Chain(t, s) = InSlot(t, t.arData, s, t.nNumUsed)
<1> DEFINE N == t.nNumUsed
           S == 0..N
           all == InSlot(t, t.arData, s, N)
           after(x) == IF x = 0 THEN 0 ELSE t.arData[x].next
           step == [p \in Nat \X S |-> after(p[2])]
           first == t.arHash[s]
           body(idx) == [m \in 0..N |-> IF m = 0 THEN first
                                        ELSE IF idx[m - 1] = 0 THEN 0 ELSE t.arData[idx[m - 1]].next]
           idx == CHOOSE idx : idx = body(idx)
<1>1. N \in Nat /\ DOMAIN t.arData = 1..N /\ N = Len(t.arData)
  BY DEF Shape
<1>2. all \subseteq 1..N /\ \A j \in all : Array!SlotOf(t, t.arData[j].k) = s
  BY DEF InSlot
<1>3. IsLatest(first, all)
  BY DEF Linked
<1>4. ASSUME NEW x \in 1..N
      PROVE  IsLatest(t.arData[x].next, InSlot(t, t.arData, Array!SlotOf(t, t.arData[x].k), x - 1))
  BY <1>1 DEF Linked
<1>5. ASSUME NEW x \in 1..N PROVE t.arData[x].next \in 0..(x - 1)
  <2> DEFINE before == InSlot(t, t.arData, Array!SlotOf(t, t.arData[x].k), x - 1)
             m == t.arData[x].next
  <2>1. before \subseteq 1..(x - 1) /\ x \in Nat \ {0}
    BY <1>1 DEF InSlot
  <2>2. IsLatest(m, before)
    BY <1>4
  <2> HIDE DEF before, m
  <2>3. m \in 0..(x - 1)
    <3>1. CASE before = {}
      <4>1. m = 0
        BY <3>1, <2>2 DEF IsLatest
      <4> QED
        BY <4>1, <2>1
    <3>2. CASE before # {}
      <4>1. m \in before
        BY <3>2, <2>2 DEF IsLatest
      <4> QED
        BY <4>1, <2>1
    <3> QED
      BY <3>1, <3>2
  <2> QED
    BY <2>3 DEF m
\* the next one is the latest of those before in the slot
<1>6. ASSUME NEW x \in all
      PROVE  /\ t.arData[x].next \in all \cup {0}
             /\ \A j \in all : j < x => j <= t.arData[x].next
  <2>1. x \in 1..N /\ Array!SlotOf(t, t.arData[x].k) = s
    BY <1>2
  <2>2. InSlot(t, t.arData, Array!SlotOf(t, t.arData[x].k), x - 1) = {j \in all : j < x}
    BY <2>1, <1>1 DEF InSlot
  <2>3. IsLatest(t.arData[x].next, {j \in all : j < x})
    BY <2>1, <2>2, <1>4
  <2> HIDE DEF all
  <2> QED
    BY <2>3 DEF IsLatest
<1>7. first \in S /\ first \in all \cup {0} /\ \A j \in all : j <= first
  <2> HIDE DEF all, first
  <2>1. CASE all = {}
    <3>1. first = 0
      BY <2>1, <1>3 DEF IsLatest
    <3> QED
      BY <2>1, <3>1, <1>1
  <2>2. CASE all # {}
    <3>1. first \in all /\ \A j \in all : j <= first
      BY <2>2, <1>3 DEF IsLatest
    <3> QED
      BY <3>1, <1>2, <1>1
  <2> QED
    BY <2>1, <2>2
<1>8. step \in [Nat \X S -> S]
  <2> SUFFICES ASSUME NEW p \in Nat \X S PROVE after(p[2]) \in S
    OBVIOUS
  <2>1. p[2] \in S
    OBVIOUS
  <2>2. CASE p[2] = 0
    BY <2>2, <1>1
  <2>3. CASE p[2] # 0
    <3>1. p[2] \in 1..N
      BY <2>1, <2>3, <1>1
    <3> QED
      BY <3>1, <2>3, <1>5, <1>1
  <2> QED
    BY <2>2, <2>3
<1>9. PICK f : Iterated(f, S, first, step, N)
  <2> HIDE DEF step, S, N, first
  <2> QED
    BY <1>1, <1>7, <1>8, Iterates
<1>10. f \in [0..N -> S] /\ f[0] = first /\ \A n \in 1..N : f[n] = after(f[n - 1])
  <2>1. f \in [0..N -> S] /\ f[0] = first /\ \A n \in 1..N : f[n] = step[<< n, f[n - 1] >>]
    <3> HIDE DEF step, S, N, first
    <3> QED
      BY <1>9 DEF Iterated
  <2> SUFFICES ASSUME NEW n \in 1..N PROVE f[n] = after(f[n - 1])
    BY <2>1
  <2>2. n \in Nat /\ n - 1 \in 0..N /\ f[n - 1] \in S
    BY <1>1, <2>1
  <2>3. << n, f[n - 1] >> \in Nat \X S
    BY <2>2
  <2> QED
    BY <2>3, <2>1
<1>11. f = body(f)
  <2>1. ASSUME NEW i \in 0..N PROVE f[i] = body(f)[i]
    <3>1. CASE i = 0
      BY <3>1, <1>10
    <3>2. CASE i # 0
      <4>1. i \in 1..N
        BY <3>2, <1>1
      <4>2. body(f)[i] = after(f[i - 1])
        BY <3>2
      <4> HIDE DEF body, after, S, N
      <4> QED
        BY <4>1, <4>2, <1>10
    <3> QED
      BY <3>1, <3>2
  <2> HIDE DEF S, N, first
  <2> QED
    BY <2>1, <1>10
<1>12. idx = body(idx)
  <2> HIDE DEF body
  <2> QED
    BY <1>11
<1>13. Array!Chain(t, s) = {idx[m] : m \in 0..N} \ {0}
  BY DEF Array!Chain
<1>14. idx[0] = first /\ \A n \in 1..N : idx[n] = after(idx[n - 1])
  <2> HIDE DEF idx, first
  <2>1. \A i \in 0..N : idx[i] = body(idx)[i]
    BY <1>12, Zenon
  <2>2. 0 \in 0..N /\ \A n \in 1..N : n \in 0..N /\ n # 0
    BY <1>1
  <2> QED
    BY <2>1, <2>2, Zenon
<1> HIDE DEF idx, body, step, S, first
\* each turn is further back
<1> DEFINE Back(n) == idx[n] \in all \cup {0} /\ idx[n] <= N - n
           Bad == {n \in 0..N : ~Back(n)}
<1>15. Back(0)
  <2>1. first \in all \cup {0} /\ first <= N
    BY <1>7, <1>2, <1>1
  <2> HIDE DEF all
  <2> QED
    BY <2>1, <1>14, <1>1
<1>16. ASSUME NEW n \in 1..N, Back(n - 1) PROVE Back(n)
  <2>1. idx[n] = after(idx[n - 1])
    BY <1>14
  <2>2. CASE idx[n - 1] = 0
    BY <2>1, <2>2, <1>1
  <2>3. CASE idx[n - 1] # 0
    <3>1. idx[n - 1] \in all /\ idx[n - 1] \in 1..N
      BY <1>16, <2>3, <1>2
    <3>2. idx[n] = t.arData[idx[n - 1]].next
      BY <2>1, <2>3
    <3>3. idx[n] \in all \cup {0}
      <4> HIDE DEF all
      <4> QED
        BY <3>1, <3>2, <1>6
    <3>4. idx[n] \in 0..(idx[n - 1] - 1)
      <4> HIDE DEF all
      <4> QED
        BY <3>1, <3>2, <1>5
    <3>5. idx[n - 1] <= N - (n - 1)
      BY <1>16
    <3> QED
      BY <3>1, <3>3, <3>4, <3>5, <1>1
  <2> QED
    BY <2>2, <2>3
<1>17. Bad = {}
  <2> HIDE DEF Back
  <2> SUFFICES ASSUME Bad # {} PROVE FALSE
    OBVIOUS
  <2>1. Bad \subseteq Nat
    BY <1>1
  <2>2. PICK n \in Bad : \A m \in Bad : n <= m
    <3> HIDE DEF Bad
    <3> QED
      BY <2>1, Least
  <2>3. n # 0 /\ n \in 0..N
    BY <2>2, <1>15
  <2>4. n \in 1..N /\ n - 1 \in 0..N /\ n - 1 \notin Bad
    BY <2>2, <2>3, <1>1
  <2> QED
    BY <2>4, <1>16, <2>2
<1>18. \A n \in 0..N : Back(n)
  <2> HIDE DEF Back
  <2> QED
    BY <1>17
\* no bucket of the slot is passed over
<1>19. ASSUME NEW j \in all PROVE \E m \in 0..N : idx[m] = j
  <2> DEFINE M == {m \in 0..N : idx[m] >= j}
  <2>1. j \in 1..N
    BY <1>2
  <2>2. 0 \in M /\ M \subseteq 0..N
    <3>1. first >= j
      <4> HIDE DEF all
      <4> QED
        BY <1>7, <2>1, <1>2, <1>1
    <3> QED
      BY <3>1, <1>14, <1>1
  <2>3. PICK m \in M : \A n \in M : n <= m
    <3> HIDE DEF M
    <3> QED
      BY <2>2, <1>1, Greatest
  <2>4. m \in 0..N /\ idx[m] >= j /\ idx[m] \in all \cup {0} /\ idx[m] <= N - m
    BY <2>3, <1>18
  <2>5. idx[m] \in all /\ idx[m] \in 1..N
    BY <2>4, <2>1, <1>2
  <2>6. m + 1 \in 1..N /\ (m + 1) - 1 = m
    BY <2>4, <2>5, <2>1, <1>1
  <2>7. SUFFICES ASSUME idx[m] # j PROVE FALSE
    BY <2>4
  <2>8. idx[m + 1] = t.arData[idx[m]].next
    BY <2>5, <2>6, <1>14
  <2>9. j <= idx[m + 1]
    <3>1. j < idx[m]
      BY <2>4, <2>5, <2>7, <2>1, <1>1
    <3> HIDE DEF all
    <3> QED
      BY <3>1, <2>5, <2>8, <1>6
  <2>10. m + 1 \in 0..N /\ idx[m + 1] \in all \cup {0}
    BY <2>6, <1>18, <1>1
  <2>11. idx[m + 1] >= j
    BY <2>9, <2>10, <2>1, <1>2, <1>1
  <2>12. m + 1 \in M
    BY <2>10, <2>11
  <2> HIDE DEF M
  <2> QED
    BY <2>3, <2>4, <2>12, <1>1
<1>20. ASSUME NEW m \in 0..N, idx[m] # 0 PROVE idx[m] \in all
  BY <1>18, <1>20
<1>21. 0 \notin all
  BY <1>2
<1> HIDE DEF all, N
<1>22. Array!Chain(t, s) = all
  BY <1>13, <1>19, <1>20, <1>21
<1> QED
  BY <1>22 DEF all, N

\* Looking a key up finds the buckets that have it.
LEMMA FindIs ==
  ASSUME NEW t, Shape(t), Linked(t), NEW k, k.h \in Nat
  PROVE  Array!Find(t, k) = {i \in DOMAIN t.arData : t.arData[i].k = k}
<1>1. Array!SlotOf(t, k) \in Array!Slots(t)
  BY SlotIn DEF Shape
<1>2. Array!Chain(t, Array!SlotOf(t, k)) = InSlot(t, t.arData, Array!SlotOf(t, k), t.nNumUsed)
  BY <1>1, ChainIs
<1>3. DOMAIN t.arData = 1..t.nNumUsed
  BY DEF Shape
<1> QED
  BY <1>2, <1>3 DEF Array!Find, InSlot

(***************************************************************************)
(* What a table holds.                                                     *)
(***************************************************************************)
PairsIn(ar) == {<< ar[i].k, ar[i].val >> : i \in SetIn(ar)}
Lacks(ar, k) == \A i \in SetIn(ar) : ar[i].k # k
\* entries are in the order of the calls that added them, and a key has one
Content(ar, c) ==
    /\ \A i, j \in SetIn(ar) : i < j => ar[i].val < ar[j].val
    /\ \A i, j \in SetIn(ar) : ar[i].k = ar[j].k => i = j
    /\ \A i \in SetIn(ar) : ar[i].k \in Array!Keys /\ ar[i].val \in 1..c

LEMMA ListedCount ==
  ASSUME NEW ar, NEW n \in Nat, SetIn(ar) \subseteq 1..n, NEW c, Len(c) \in Nat, NEW f,
         Lists(f, ar, n, c)
  PROVE  Len(c) = Cardinality(SetIn(ar))
<1> DEFINE S == SetIn(ar)
           L == Len(c)
<1>1. {i \in S : i <= n} = S
  OBVIOUS
<1>2. /\ f \in [1..L -> S] /\ L \in Nat
      /\ \A p, q \in 1..L : p < q => f[p] < f[q]
      /\ \A i \in S : \E p \in 1..L : f[p] = i
  BY <1>1 DEF Lists
<1>3. \A p \in 1..L : f[p] \in Nat
  BY <1>2
<1>4. \A p, q \in 1..L : f[p] = f[q] => p = q
  BY <1>2, <1>3
<1> HIDE DEF S, L
<1>5. f \in Bijection(1..L, S)
  BY <1>2, <1>4, Fun_IsBij
<1>6. ExistsBijection(1..L, S)
  BY <1>5 DEF ExistsBijection
<1>7. Cardinality(S) = L
  BY <1>2, <1>6, FS_CountingElements
<1> QED
  BY <1>7 DEF S, L

\* A rehash keeps the entries and their order, closes the holes and links the chains.
LEMMA RehashIs ==
  ASSUME NEW t, Shape(t), NEW c, Content(t.arData, c), NEW u, u = Array!Rehash(t)
  PROVE  /\ Shape(u) /\ Linked(u) /\ Content(u.arData, c)
         /\ u.flags = t.flags /\ u.nTableSize = t.nTableSize
         /\ u.nNumOfElements = t.nNumOfElements
         /\ u.nNextFreeElement = t.nNextFreeElement
         /\ SetIn(u.arData) = DOMAIN u.arData
         /\ PairsIn(u.arData) = PairsIn(t.arData)
         /\ u.nNumUsed = Cardinality(SetIn(t.arData))
<1> DEFINE ar == t.arData
           br == Array!Compact(ar)
<1>1. ar \in Seq(BucketT) /\ Len(ar) \in Nat /\ DOMAIN ar = 1..Len(ar)
  BY DEF Shape
<1>2. br \in Seq(BucketT) /\ \E f : Lists(f, ar, Len(ar), br)
  BY <1>1, CompactLists
<1>3. PICK f : Lists(f, ar, Len(ar), br)
  BY <1>2
<1> HIDE DEF br
<1>4. Len(br) \in Nat /\ DOMAIN br = 1..Len(br)
  BY <1>2
<1>5. SetIn(ar) \subseteq 1..Len(ar) /\ {i \in SetIn(ar) : i <= Len(ar)} = SetIn(ar)
  BY <1>1 DEF SetIn
<1>6. /\ f \in [1..Len(br) -> SetIn(ar)]
      /\ \A p, q \in 1..Len(br) : p < q => f[p] < f[q]
      /\ \A i \in SetIn(ar) : \E p \in 1..Len(br) : f[p] = i
      /\ \A p \in 1..Len(br) : br[p] = ar[f[p]]
  <2> HIDE DEF ar
  <2> QED
    BY <1>3, <1>5, <1>1 DEF Lists
<1>7. /\ Shape(u) /\ Linked(u)
      /\ u.flags = t.flags /\ u.nTableSize = t.nTableSize /\ u.nNumOfElements = t.nNumOfElements
      /\ u.nNextFreeElement = t.nNextFreeElement
      /\ Len(u.arData) = Len(br) /\ DOMAIN u.arData = DOMAIN br
      /\ \A i \in DOMAIN br : u.arData[i].k = br[i].k /\ u.arData[i].val = br[i].val
  <2>1. u = Array!Chained(t, br)
    BY DEF Array!Rehash, br
  <2> QED
    BY <2>1, <1>2, ChainedIs
<1> DEFINE cr == u.arData
<1>8. DOMAIN cr = 1..Len(br) /\ u.nNumUsed = Len(br)
  BY <1>7, <1>4 DEF Shape
<1>9. \A p \in DOMAIN cr : f[p] \in SetIn(ar) /\ cr[p].k = ar[f[p]].k /\ cr[p].val = ar[f[p]].val
  BY <1>6, <1>7, <1>8
<1> HIDE DEF ar, cr
<1>10. SetIn(cr) = DOMAIN cr
  BY <1>9 DEF SetIn, Array!IsSet
<1>11. \A p, q \in DOMAIN cr : p < q => f[p] < f[q]
  BY <1>6, <1>8
<1>12. \A p, q \in DOMAIN cr : f[p] = f[q] => p = q
  <2>1. \A p \in DOMAIN cr : p \in Nat /\ f[p] \in Nat
    BY <1>5, <1>8, <1>9, <1>1
  <2> QED
    BY <2>1, <1>11
<1>13. Content(ar, c)
  BY DEF ar
<1>14. Content(cr, c)
  <2>1. ASSUME NEW p \in DOMAIN cr, NEW q \in DOMAIN cr, p < q PROVE cr[p].val < cr[q].val
    BY <2>1, <1>9, <1>11, <1>13 DEF Content
  <2>2. ASSUME NEW p \in DOMAIN cr, NEW q \in DOMAIN cr, cr[p].k = cr[q].k PROVE p = q
    BY <2>2, <1>9, <1>12, <1>13 DEF Content
  <2>3. ASSUME NEW p \in DOMAIN cr PROVE cr[p].k \in Array!Keys /\ cr[p].val \in 1..c
    BY <2>3, <1>9, <1>13 DEF Content
  <2> QED
    BY <2>1, <2>2, <2>3, <1>10 DEF Content
<1>15. PairsIn(cr) = PairsIn(ar)
  <2>1. ASSUME NEW p \in DOMAIN cr PROVE << cr[p].k, cr[p].val >> \in PairsIn(ar)
    BY <2>1, <1>9 DEF PairsIn
  <2>2. ASSUME NEW i \in SetIn(ar) PROVE << ar[i].k, ar[i].val >> \in PairsIn(cr)
    <3>1. PICK p \in 1..Len(br) : f[p] = i
      BY <1>6
    <3>2. p \in SetIn(cr)
      BY <3>1, <1>8, <1>10
    <3>3. cr[p].k = ar[i].k /\ cr[p].val = ar[i].val
      BY <3>1, <3>2, <1>9, <1>10
    <3> QED
      BY <3>2, <3>3 DEF PairsIn
  <2> QED
    BY <2>1, <2>2, <1>10 DEF PairsIn
<1>16. Len(br) = Cardinality(SetIn(ar))
  <2>1. Len(ar) \in Nat /\ Lists(f, ar, Len(ar), br)
    BY <1>1, <1>3 DEF ar
  <2> QED
    BY <2>1, <1>4, <1>5, ListedCount
<1> QED
  BY <1>7, <1>8, <1>10, <1>14, <1>15, <1>16 DEF ar, cr

(***************************************************************************)
(* The next free element.                                                  *)
(***************************************************************************)
Smalls(P) == {g \in Longs : g <= Array!LONG_MAX /\ \E v : << Array!IntKey(g), v >> \in P}
NextFreeOf(P, nf) ==
    IF Smalls(P) = {} THEN nf = 0
    ELSE \E g \in Smalls(P) : /\ \A h \in Smalls(P) : h <= g
                              /\ nf = IF g < Array!LONG_MAX THEN g + 1 ELSE Array!LONG_MAX

LEMMA LongTypes ==
  /\ Array!LONG_MAX \in Nat /\ Word \in Nat /\ MaxCalls \in Nat /\ 4 * MaxCalls <= Array!LONG_MAX
  /\ \A h \in Longs : /\ h \in Nat /\ h < Word
                      /\ h <= Array!LONG_MAX => Array!Signed(h) = h
                      /\ h > Array!LONG_MAX => Array!Signed(h) < 0 /\ Array!Signed(h) \in Int
  /\ \A n \in Hints : n \in Nat \ {0} /\ n <= Array!LONG_MAX
<1>1. Array!ZendTableAssumption
  BY StorageAssumption DEF StorageAssumption
<1>2. /\ Word \in Nat /\ MaxCalls \in Nat /\ 4 * MaxCalls <= Array!LONG_MAX
      /\ Longs \subseteq 0..(Word - 1) /\ Hints \subseteq 1..Array!LONG_MAX
  BY <1>1 DEF Array!ZendTableAssumption
<1>3. Array!LONG_MAX \in Int
  BY <1>2 DEF Array!LONG_MAX
<1>4. Array!LONG_MAX \in Nat
  BY <1>2, <1>3
<1>5. \A h \in Longs : h \in Nat /\ h < Word
  BY <1>2
<1>6. \A h \in Longs : /\ h <= Array!LONG_MAX => Array!Signed(h) = h
                       /\ h > Array!LONG_MAX => Array!Signed(h) < 0 /\ Array!Signed(h) \in Int
  <2> HIDE DEF Array!LONG_MAX
  <2> QED
    BY <1>2, <1>4, <1>5 DEF Array!Signed
<1>7. \A n \in Hints : n \in Nat \ {0} /\ n <= Array!LONG_MAX
  BY <1>2, <1>4
<1> QED
  BY <1>2, <1>4, <1>5, <1>6, <1>7

SmallOf(k) == {g \in Longs : g <= Array!LONG_MAX /\ k = Array!IntKey(g)}
LEMMA SmallsGrow ==
  ASSUME NEW P, NEW k, NEW v
  PROVE  Smalls(P \cup {<< k, v >>}) = Smalls(P) \cup SmallOf(k)
BY DEF Smalls, SmallOf

LEMMA NextFreeInt ==
  ASSUME NEW P, NEW t, t.nNextFreeElement \in Nat, NextFreeOf(P, t.nNextFreeElement),
         NEW h \in Longs, NEW v
  PROVE  /\ NextFreeOf(P \cup {<< Array!IntKey(h), v >>}, Array!NextFree(t, h))
         /\ Array!NextFree(t, h) \in Nat
<1> DEFINE G == Smalls(P)
           F == Smalls(P \cup {<< Array!IntKey(h), v >>})
           nf == t.nNextFreeElement
           M == Array!LONG_MAX
<1>1. M \in Nat /\ h \in Nat /\ (h <= M => Array!Signed(h) = h)
      /\ (h > M => Array!Signed(h) < 0 /\ Array!Signed(h) \in Int)
  BY LongTypes
<1>2. F = G \cup SmallOf(Array!IntKey(h))
  BY SmallsGrow
<1>3. F = IF h <= M THEN G \cup {h} ELSE G
  BY <1>2, KeyTypes DEF SmallOf
<1>4. G \subseteq Nat /\ \A g \in G : g <= M
  BY LongTypes DEF Smalls
<1>5. IF G = {} THEN nf = 0
      ELSE \E g \in G : (\A e \in G : e <= g) /\ nf = IF g < M THEN g + 1 ELSE M
  BY DEF NextFreeOf
<1>6. Array!NextFree(t, h) = IF Array!Signed(h) >= nf THEN IF Array!Signed(h) < M THEN h + 1 ELSE M ELSE nf
  BY DEF Array!NextFree
<1> DEFINE new == Array!NextFree(t, h)
<1> SUFFICES /\ IF F = {} THEN new = 0
                ELSE \E g \in F : (\A e \in F : e <= g) /\ new = IF g < M THEN g + 1 ELSE M
             /\ new \in Nat
  BY DEF NextFreeOf
<1>7. nf \in Nat
  OBVIOUS
<1> HIDE DEF G, F, M, new, nf
<1>8. CASE h > M
  BY <1>1, <1>3, <1>5, <1>6, <1>7, <1>8 DEF new
<1>9. CASE h <= M
  <2>1. h \in F /\ F = G \cup {h} /\ Array!Signed(h) = h
    BY <1>9, <1>1, <1>3
  <2>2. CASE h >= nf
    <3>1. new = IF h < M THEN h + 1 ELSE M
      BY <2>1, <2>2, <1>6 DEF new
    <3>2. \A e \in G : e <= h
      BY <2>2, <1>1, <1>4, <1>5, <1>7, <1>9
    <3>3. \A e \in F : e <= h
      BY <2>1, <3>2, <1>1
    <3> QED
      BY <2>1, <3>1, <3>3, <1>1
  <2>3. CASE h < nf
    <3>1. new = nf
      BY <2>1, <2>3, <1>6, <1>1, <1>7 DEF new
    <3>2. G # {}
      BY <2>3, <1>5, <1>1, <1>7
    <3>3. PICK g \in G : (\A e \in G : e <= g) /\ nf = IF g < M THEN g + 1 ELSE M
      BY <3>2, <1>5
    <3>4. g \in Nat /\ g <= M /\ h <= g
      BY <3>3, <2>3, <1>4, <1>9, <1>1, <1>7
    <3>5. \A e \in F : e <= g
      BY <3>3, <3>4, <2>1
    <3> QED
      BY <2>1, <3>1, <3>3, <3>5, <1>7
  <2> QED
    BY <2>2, <2>3, <1>1, <1>7
<1> QED
  BY <1>8, <1>9, <1>1

LEMMA NextFreeStr ==
  ASSUME NEW P, NEW nf, NextFreeOf(P, nf), NEW s \in Names, NEW v
  PROVE  NextFreeOf(P \cup {<< Array!StrKey(s), v >>}, nf)
<1>1. Smalls(P \cup {<< Array!StrKey(s), v >>}) = Smalls(P)
  <2>1. SmallOf(Array!StrKey(s)) = {}
    BY KeyTypes DEF SmallOf
  <2>2. Smalls(P \cup {<< Array!StrKey(s), v >>}) = Smalls(P) \cup SmallOf(Array!StrKey(s))
    BY SmallsGrow
  <2> QED
    BY <2>1, <2>2
<1> QED
  BY <1>1 DEF NextFreeOf

\* a key beyond the others
LEMMA NextFreeLast ==
  ASSUME NEW P, NEW h \in Longs, h < Array!LONG_MAX, \A g \in Smalls(P) : g <= h, NEW v
  PROVE  NextFreeOf(P \cup {<< Array!IntKey(h), v >>}, h + 1)
<1>1. Smalls(P \cup {<< Array!IntKey(h), v >>}) = Smalls(P) \cup {h}
  <2>1. h <= Array!LONG_MAX
    BY LongTypes
  <2>2. SmallOf(Array!IntKey(h)) = {h}
    BY <2>1, KeyTypes DEF SmallOf
  <2> QED
    BY <2>2, SmallsGrow
<1>2. h <= h
  BY LongTypes
<1> QED
  BY <1>1, <1>2 DEF NextFreeOf


(***************************************************************************)
(* Tables as the calls leave them.                                         *)
(***************************************************************************)
Hashed(t, c) ==
    /\ Shape(t) /\ Linked(t) /\ Content(t.arData, c) /\ t.flags = "mixed"
    /\ SetIn(t.arData) = DOMAIN t.arData /\ t.nNumOfElements = t.nNumUsed
Packed(t, c) ==
    /\ Shape(t) /\ Content(t.arData, c) /\ t.flags \in {"uninitialized", "packed"}
    /\ t.nTableSize <= Array!LONG_MAX
    /\ t.nNumOfElements = Cardinality(SetIn(t.arData)) /\ t.nNumOfElements <= c
    /\ \A i \in SetIn(t.arData) : t.arData[i].k = Array!IntKey(i - 1)
    /\ t.flags = "uninitialized" => t.arData = << >>
ArrayOK(t, c) ==
    /\ Hashed(t, c) \/ Packed(t, c)
    /\ t.nNumUsed <= t.nTableSize
    /\ NextFreeOf(PairsIn(t.arData), t.nNextFreeElement)
\* one table holds what the other does
Same(u, t) == PairsIn(u.arData) = PairsIn(t.arData) /\ u.nNextFreeElement = t.nNextFreeElement
Plus(u, t, k, v) == PairsIn(u.arData) = PairsIn(t.arData) \cup {<< k, v >>}

LEMMA RehashHashes ==
  ASSUME NEW t, Shape(t), t.flags = "mixed", NEW c, Content(t.arData, c),
         t.nNumOfElements = Cardinality(SetIn(t.arData)), NEW u, u = Array!Rehash(t)
  PROVE  Hashed(u, c) /\ Same(u, t) /\ u.nTableSize = t.nTableSize
         /\ u.nNumUsed = t.nNumOfElements
<1>1. /\ Shape(u) /\ Linked(u) /\ Content(u.arData, c)
      /\ u.flags = t.flags /\ u.nTableSize = t.nTableSize /\ u.nNumOfElements = t.nNumOfElements
      /\ u.nNextFreeElement = t.nNextFreeElement
      /\ SetIn(u.arData) = DOMAIN u.arData
      /\ PairsIn(u.arData) = PairsIn(t.arData)
      /\ u.nNumUsed = Cardinality(SetIn(t.arData))
  BY RehashIs
<1> QED
  BY <1>1 DEF Hashed, Same

LEMMA AllSetCount ==
  ASSUME NEW t, Shape(t), SetIn(t.arData) = DOMAIN t.arData
  PROVE  Cardinality(SetIn(t.arData)) = t.nNumUsed
<1>1. DOMAIN t.arData = 1..t.nNumUsed /\ t.nNumUsed \in Nat
  BY DEF Shape
<1> DEFINE n == t.nNumUsed
<1>2. Cardinality(1..n) = n
  <2> HIDE DEF n
  <2>1. n \in Nat
    BY <1>1 DEF n
  <2>2. Cardinality(1..n) = IF 1 > n THEN 0 ELSE n - 1 + 1
    BY <2>1, FS_Interval
  <2> QED
    BY <2>1, <2>2
<1> QED
  BY <1>1, <1>2

\* A full table of chains is doubled: it has no holes that closing would give room.
LEMMA RoomHashes ==
  ASSUME NEW t, NEW c, Hashed(t, c), t.nNumUsed <= t.nTableSize, NEW u, u = Array!Room(t)
  PROVE  Hashed(u, c) /\ Same(u, t) /\ u.nNumUsed < u.nTableSize
<1>1. /\ Shape(t) /\ Content(t.arData, c) /\ t.flags = "mixed"
      /\ SetIn(t.arData) = DOMAIN t.arData
      /\ t.nNumOfElements = t.nNumUsed
      /\ t.nNumUsed \in Nat /\ t.nTableSize \in Nat \ {0}
  BY DEF Hashed, Shape
<1>2. CASE ~Array!IsFull(t)
  BY <1>1, <1>2 DEF Array!IsFull, Array!Room, Same
<1>3. CASE Array!IsFull(t)
  <2> DEFINE d == Array!Doubled(t)
  <2>1. ~(t.nNumUsed > t.nNumOfElements + t.nNumOfElements \div 32)
    <3>1. \A n \in Nat : ~(n > n + n \div 32)
      OBVIOUS
    <3> QED
      BY <1>1, <3>1
  <2>2. u = Array!Rehash(d)
    BY <1>3, <2>1 DEF Array!Room, Array!DoResize
  <2>3. /\ DOMAIN d = Fields /\ d.flags = "mixed" /\ d.nTableSize = 2 * t.nTableSize
        /\ d.nNumUsed = t.nNumUsed /\ d.nNumOfElements = t.nNumOfElements
        /\ d.nNextFreeElement = t.nNextFreeElement /\ d.arData = t.arData
    BY <1>1 DEF Array!Doubled, Shape, Fields
  <2>4. 2 * t.nTableSize \in Nat \ {0} /\ t.nNumUsed < 2 * t.nTableSize
    BY <1>1
  <2> HIDE DEF d
  <2>5. Shape(d)
    BY <1>1, <2>3, <2>4 DEF Shape
  <2>6. d.nNumOfElements = Cardinality(SetIn(d.arData))
    BY <1>1, <2>3, AllSetCount
  <2>7. Hashed(u, c) /\ Same(u, d) /\ u.nTableSize = d.nTableSize /\ u.nNumUsed = d.nNumOfElements
    BY <1>1, <2>2, <2>3, <2>5, <2>6, RehashHashes
  <2> QED
    BY <1>1, <2>3, <2>4, <2>7 DEF Same
<1> QED
  BY <1>2, <1>3

LEMMA PackedToHashHashes ==
  ASSUME NEW t, NEW c, Shape(t), Content(t.arData, c),
         t.nNumOfElements = Cardinality(SetIn(t.arData)), NEW u, u = Array!PackedToHash(t)
  PROVE  Hashed(u, c) /\ Same(u, t) /\ u.nTableSize = t.nTableSize
         /\ u.nNumUsed = t.nNumOfElements
<1> DEFINE m == [t EXCEPT !.flags = "mixed"]
<1>1. /\ DOMAIN m = Fields /\ m.flags = "mixed" /\ m.nTableSize = t.nTableSize
      /\ m.nNumUsed = t.nNumUsed /\ m.nNumOfElements = t.nNumOfElements
      /\ m.nNextFreeElement = t.nNextFreeElement /\ m.arData = t.arData
  BY DEF Shape, Fields
<1>2. u = Array!Rehash(m)
  BY DEF Array!PackedToHash
<1> HIDE DEF m
<1>3. Shape(m)
  BY <1>1 DEF Shape
<1>4. Hashed(u, c) /\ Same(u, m) /\ u.nTableSize = m.nTableSize /\ u.nNumUsed = m.nNumOfElements
  BY <1>1, <1>2, <1>3, RehashHashes
<1> QED
  BY <1>1, <1>4 DEF Same

LEMMA InitMixedHashes ==
  ASSUME NEW t, NEW c, Packed(t, c), t.flags = "uninitialized", NEW u, u = Array!InitMixed(t)
  PROVE  Hashed(u, c) /\ Same(u, t) /\ u.nNumUsed < u.nTableSize
<1>1. /\ Shape(t) /\ t.arData = << >> /\ t.nNumOfElements = Cardinality(SetIn(t.arData))
      /\ t.nTableSize \in Nat \ {0} /\ t.nNumUsed = Len(t.arData)
  BY DEF Packed, Shape
<1>2. Len(t.arData) = 0 /\ DOMAIN t.arData = {} /\ SetIn(t.arData) = {}
  BY <1>1 DEF SetIn
<1>3. t.nNumUsed = 0 /\ t.nNumOfElements = 0
  BY <1>1, <1>2, FS_EmptySet
<1>4. /\ DOMAIN u = Fields /\ u.flags = "mixed" /\ u.nTableSize = t.nTableSize
      /\ u.nNumUsed = t.nNumUsed /\ u.nNumOfElements = t.nNumOfElements
      /\ u.nNextFreeElement = t.nNextFreeElement /\ u.arData = t.arData
      /\ u.arHash = [s \in Array!Slots(t) |-> 0]
  BY <1>1 DEF Array!InitMixed, Shape, Fields
<1>5. Shape(u)
  BY <1>1, <1>4 DEF Shape
<1>6. Linked(u)
  <2>1. Array!Slots(u) = Array!Slots(t)
    BY <1>4 DEF Array!Slots
  <2>2. \A s : InSlot(u, u.arData, s, u.nNumUsed) = {}
    BY <1>3, <1>4 DEF InSlot
  <2> QED
    BY <2>1, <2>2, <1>2, <1>4 DEF Linked, IsLatest
<1>7. Content(u.arData, c)
  BY <1>2, <1>4 DEF Content
<1> QED
  BY <1>1, <1>2, <1>3, <1>4, <1>5, <1>6, <1>7 DEF Hashed, Same

(***************************************************************************)
(* Adding an entry.                                                        *)
(***************************************************************************)
\* one more bucket at the end, which has the call's number
LEMMA ContentGrows ==
  ASSUME NEW ar, NEW br, NEW n \in Nat, NEW p \in Nat, SetIn(ar) \subseteq 1..n, p > n,
         SetIn(br) = SetIn(ar) \cup {p},
         \A i \in SetIn(ar) : br[i].k = ar[i].k /\ br[i].val = ar[i].val,
         NEW c \in Nat, Content(ar, c), NEW k \in Array!Keys, Lacks(ar, k), br[p].k = k,
         br[p].val = c + 1
  PROVE  /\ Content(br, c + 1)
         /\ PairsIn(br) = PairsIn(ar) \cup {<< k, c + 1 >>}
<1>1. \A i \in SetIn(ar) : i \in Nat /\ i < p /\ ar[i].val \in 1..c /\ ar[i].k \in Array!Keys
      /\ ar[i].k # k
  BY DEF Content, Lacks
<1>2. c + 1 \in 1..(c + 1) /\ \A v \in 1..c : v < c + 1 /\ v \in 1..(c + 1)
  OBVIOUS
<1>3. ASSUME NEW i \in SetIn(br), NEW j \in SetIn(br), i < j PROVE br[i].val < br[j].val
  <2>1. i \in SetIn(ar)
    BY <1>3, <1>1
  <2>2. CASE j = p
    BY <2>1, <2>2, <1>1, <1>2
  <2>3. CASE j \in SetIn(ar)
    BY <2>1, <2>3, <1>3 DEF Content
  <2> QED
    BY <2>2, <2>3
<1>4. ASSUME NEW i \in SetIn(br), NEW j \in SetIn(br), br[i].k = br[j].k PROVE i = j
  <2>1. CASE i \in SetIn(ar) /\ j \in SetIn(ar)
    BY <2>1, <1>4 DEF Content
  <2>2. CASE i \in SetIn(ar) /\ j = p
    BY <2>2, <1>1, <1>4
  <2>3. CASE i = p /\ j \in SetIn(ar)
    BY <2>3, <1>1, <1>4
  <2> QED
    BY <2>1, <2>2, <2>3
<1>5. ASSUME NEW i \in SetIn(br) PROVE br[i].k \in Array!Keys /\ br[i].val \in 1..(c + 1)
  <2>1. CASE i = p
    BY <2>1, <1>2
  <2>2. CASE i \in SetIn(ar)
    BY <2>2, <1>1, <1>2
  <2> QED
    BY <2>1, <2>2
<1>6. PairsIn(br) = PairsIn(ar) \cup {<< k, c + 1 >>}
  BY DEF PairsIn
<1> QED
  BY <1>3, <1>4, <1>5, <1>6 DEF Content

LEMMA AddToHashOK ==
  ASSUME NEW t, NEW c \in Nat, Hashed(t, c), NEW k \in Array!Keys, Lacks(t.arData, k),
         NEW u, u = Array!AddToHash(t, k, c + 1)
  PROVE  /\ Hashed(u, c + 1) /\ Plus(u, t, k, c + 1) /\ u.nTableSize = t.nTableSize
         /\ u.nNumUsed = t.nNumUsed + 1 /\ u.nNextFreeElement = t.nNextFreeElement
<1> DEFINE s == Array!SlotOf(t, k)
           n == t.nNumUsed
           ar == t.arData
           b == Array!Bucket(k, c + 1, t.arHash[s])
<1>1. /\ Shape(t) /\ Linked(t) /\ Content(ar, c) /\ t.flags = "mixed" /\ SetIn(ar) = DOMAIN ar
      /\ t.nNumOfElements = n /\ n \in Nat /\ ar \in Seq(BucketT) /\ DOMAIN ar = 1..n
      /\ Len(ar) = n
      /\ DOMAIN t = Fields
  BY DEF Hashed, Shape
<1>2. s \in Array!Slots(t) /\ k.h \in Nat /\ k \in KeyT
  BY <1>1, SlotIn, KeyTypes DEF Shape, KeyT
<1>3. IsLatest(t.arHash[s], InSlot(t, ar, s, n))
  BY <1>1, <1>2 DEF Linked
<1>4. t.arHash[s] \in Nat
  <2>1. InSlot(t, ar, s, n) \subseteq Nat
    BY DEF InSlot
  <2> QED
    BY <1>3, <2>1 DEF IsLatest
<1>5. b \in BucketT /\ b.k = k /\ b.val = c + 1 /\ b.next = t.arHash[s]
  BY <1>2, <1>4 DEF Array!Bucket, BucketT
<1>6. /\ DOMAIN u = Fields /\ u.flags = "mixed" /\ u.nTableSize = t.nTableSize
      /\ u.nNumUsed = n + 1 /\ u.nNumOfElements = n + 1
      /\ u.nNextFreeElement = t.nNextFreeElement /\ u.arData = Append(ar, b)
      /\ u.arHash = [t.arHash EXCEPT ![s] = n + 1]
  BY <1>1 DEF Array!AddToHash, Fields
<1> HIDE DEF b, s
<1> DEFINE br == Append(ar, b)
<1>7. /\ br \in Seq(BucketT) /\ DOMAIN br = 1..(n + 1) /\ Len(br) = n + 1 /\ br[n + 1] = b
      /\ \A i \in 1..n : br[i] = ar[i]
  BY <1>1, <1>5
<1> HIDE DEF br
<1>8. n + 1 \in Nat /\ n + 1 > n
  BY <1>1
<1>9. Shape(u)
  BY <1>1, <1>6, <1>7, <1>8 DEF Shape, br
<1>10. SetIn(br) = SetIn(ar) \cup {n + 1}
  <2>1. \A i \in 1..n : br[i].val = ar[i].val
    BY <1>7
  <2>2. br[n + 1].val # Array!UNDEF
    BY <1>5, <1>7 DEF Array!UNDEF
  <2>3. 1..(n + 1) = (1..n) \cup {n + 1}
    BY <1>1
  <2> QED
    BY <2>1, <2>2, <2>3, <1>1, <1>7 DEF SetIn, Array!IsSet
<1>11. Content(br, c + 1) /\ PairsIn(br) = PairsIn(ar) \cup {<< k, c + 1 >>}
  <2>1. SetIn(ar) \subseteq 1..n
    BY <1>1
  <2>2. \A i \in SetIn(ar) : br[i].k = ar[i].k /\ br[i].val = ar[i].val
    BY <1>1, <1>7
  <2>3. br[n + 1].k = k /\ br[n + 1].val = c + 1
    BY <1>5, <1>7
  <2>4. Content(ar, c) /\ Lacks(ar, k) /\ n \in Nat
    BY <1>1
  <2> HIDE DEF n, ar
  <2> QED
    BY <2>1, <2>2, <2>3, <2>4, <1>8, <1>10, ContentGrows
<1>12. SetIn(br) = DOMAIN br
  BY <1>1, <1>7, <1>8, <1>10
<1>13. Linked(u)
  <2>1. Array!Slots(u) = Array!Slots(t) /\ \A l : Array!SlotOf(u, l) = Array!SlotOf(t, l)
    BY <1>6 DEF Array!Slots, Array!SlotOf
  <2>2. \A x : \A m \in 0..n : InSlot(u, br, x, m) = InSlot(t, ar, x, m)
    <3> SUFFICES ASSUME NEW x, NEW m \in 0..n, NEW j \in 1..m PROVE br[j].k = ar[j].k
      BY <2>1 DEF InSlot
    <3>1. j \in 1..n
      BY <1>1
    <3> QED
      BY <3>1, <1>7
  <2>3. \A x : InSlot(u, br, x, n + 1) = InSlot(t, ar, x, n) \cup (IF x = s THEN {n + 1} ELSE {})
    <3>1. \A j \in 1..n : br[j].k = ar[j].k
      BY <1>7
    <3>2. 1..(n + 1) = (1..n) \cup {n + 1}
      BY <1>1
    <3>3. br[n + 1].k = k
      BY <1>5, <1>7
    <3> QED
      BY <2>1, <3>1, <3>2, <3>3 DEF InSlot, s
  <2>4. DOMAIN u.arHash = Array!Slots(u)
    BY <2>1, <1>1, <1>6 DEF Linked
  <2>5. ASSUME NEW x \in Array!Slots(u)
        PROVE  IsLatest(u.arHash[x], InSlot(u, u.arData, x, u.nNumUsed))
    <3>1. x \in DOMAIN t.arHash /\ IsLatest(t.arHash[x], InSlot(t, ar, x, n))
      BY <2>1, <1>1 DEF Linked
    <3>2. InSlot(u, u.arData, x, u.nNumUsed) = InSlot(t, ar, x, n) \cup (IF x = s THEN {n + 1} ELSE {})
      BY <2>3, <1>6 DEF br
    <3>3. CASE x # s
      BY <3>1, <3>2, <3>3, <1>6
    <3>4. CASE x = s
      <4>1. u.arHash[x] = n + 1
        BY <3>1, <3>4, <1>6
      <4>2. \A j \in InSlot(t, ar, x, n) : j <= n + 1
        BY <1>1 DEF InSlot
      <4>3. n + 1 <= n + 1
        BY <1>8
      <4> QED
        BY <3>2, <3>4, <4>1, <4>2, <4>3 DEF IsLatest
    <3> QED
      BY <3>3, <3>4
  <2>6. ASSUME NEW i \in DOMAIN u.arData
        PROVE  IsLatest(u.arData[i].next, InSlot(u, u.arData, Array!SlotOf(u, u.arData[i].k), i - 1))
    <3>1. u.arData = br /\ i \in 1..(n + 1) /\ i - 1 \in 0..n
      <4>1. u.arData = br
        BY <1>6 DEF br
      <4>2. i \in 1..(n + 1)
        BY <2>6, <4>1, <1>7, Zenon
      <4> QED
        BY <4>1, <4>2, <1>1
    <3>2. InSlot(u, u.arData, Array!SlotOf(u, u.arData[i].k), i - 1) = InSlot(t, ar, Array!SlotOf(t, br[i].k), i - 1)
      BY <2>1, <2>2, <3>1
    <3>3. CASE i \in 1..n
      <4>1. br[i] = ar[i] /\ i \in DOMAIN ar
        BY <3>3, <1>1, <1>7
      <4>2. IsLatest(ar[i].next, InSlot(t, ar, Array!SlotOf(t, ar[i].k), i - 1))
        BY <4>1, <1>1 DEF Linked
      <4> QED
        BY <3>1, <3>2, <4>1, <4>2
    <3>4. CASE i = n + 1
      <4>1. br[i] = b /\ i - 1 = n
        BY <3>4, <1>1, <1>7
      <4>2. Array!SlotOf(t, br[i].k) = s /\ br[i].next = t.arHash[s]
        BY <4>1, <1>5 DEF s
      <4> QED
        BY <3>1, <3>2, <4>1, <4>2, <1>3
    <3> QED
      BY <3>1, <3>3, <3>4, <1>1
  <2> QED
    BY <2>4, <2>5, <2>6 DEF Linked
<1> QED
  BY <1>6, <1>9, <1>11, <1>12, <1>13 DEF Hashed, Plus, br


LEMMA CatIs ==
  ASSUME NEW B, NEW s \in Seq(B), NEW r \in Seq(B), NEW q, q = s \o r
  PROVE  /\ q \in Seq(B) /\ Len(q) = Len(s) + Len(r)
         /\ \A i \in 1..Len(s) : q[i] = s[i]
         /\ \A i \in 1..Len(r) : q[Len(s) + i] = r[i]
OBVIOUS

LEMMA AddToPackedOK ==
  ASSUME NEW t, NEW c \in Nat, Packed(t, c), NEW h \in Longs, h >= t.nNumUsed, h < t.nTableSize,
         NEW u, u = Array!AddToPacked(t, h, c + 1)
  PROVE  /\ Packed(u, c + 1) /\ Plus(u, t, Array!IntKey(h), c + 1) /\ u.nNumUsed <= u.nTableSize
         /\ NextFreeOf(PairsIn(u.arData), u.nNextFreeElement)
<1> DEFINE n == t.nNumUsed
           ar == t.arData
           k == Array!IntKey(h)
           holes == [i \in 1..(h - n) |-> Array!Hole]
           b == Array!Bucket(k, c + 1, 0)
           br == ar \o holes \o << b >>
<1>1. /\ Shape(t) /\ Content(ar, c) /\ n \in Nat /\ ar \in Seq(BucketT) /\ Len(ar) = n
      /\ DOMAIN ar = 1..n
      /\ DOMAIN t = Fields /\ t.nTableSize \in Nat \ {0} /\ t.nTableSize <= Array!LONG_MAX
      /\ t.nNumOfElements \in Nat /\ t.nNumOfElements = Cardinality(SetIn(ar))
      /\ t.nNumOfElements <= c
      /\ \A i \in SetIn(ar) : ar[i].k = Array!IntKey(i - 1)
  BY DEF Packed, Shape
<1>2. h \in Nat /\ Array!LONG_MAX \in Nat /\ h - n \in Nat /\ h < Array!LONG_MAX
  BY <1>1, LongTypes
<1>3. k \in Array!Keys /\ k \in KeyT /\ k.h \in Nat
  BY KeyTypes DEF KeyT
<1>4. Array!Hole \in BucketT /\ ~Array!IsSet(Array!Hole)
  BY DEF Array!Hole, Array!Bucket, BucketT, KeyT, Array!UNDEF, Array!IsSet
<1>5. b \in BucketT /\ Array!IsSet(b) /\ b.k = k /\ b.val = c + 1
  BY <1>3 DEF Array!Bucket, BucketT, Array!UNDEF, Array!IsSet
<1>6. holes \in Seq(BucketT) /\ Len(holes) = h - n /\ \A i \in 1..(h - n) : holes[i] = Array!Hole
  <2> DEFINE m == h - n
  <2>1. m \in Nat
    BY <1>2
  <2>2. holes \in [1..m -> BucketT]
    BY <1>4
  <2> HIDE DEF m
  <2> QED
    BY <2>1, <2>2 DEF m
<1>7. /\ DOMAIN u = Fields /\ u.flags = "packed" /\ u.nTableSize = t.nTableSize
      /\ u.nNumUsed = h + 1 /\ u.nNumOfElements = t.nNumOfElements + 1
      /\ u.nNextFreeElement = h + 1 /\ u.arData = br
  BY <1>1 DEF Array!AddToPacked, Fields
<1> HIDE DEF b, holes, k
<1>8. /\ br \in Seq(BucketT) /\ Len(br) = h + 1 /\ DOMAIN br = 1..(h + 1) /\ br[h + 1] = b
      /\ \A i \in 1..n : br[i] = ar[i]
      /\ \A i \in (n + 1)..h : br[i] = Array!Hole
  <2> DEFINE cr == ar \o holes
  <2>1. n \in Nat /\ h \in Nat /\ h >= n /\ n + (h - n) = h
    BY <1>1, <1>2
  <2>2. /\ cr \in Seq(BucketT) /\ Len(cr) = n + (h - n)
        /\ \A i \in 1..n : cr[i] = ar[i]
        /\ \A i \in 1..(h - n) : cr[n + i] = holes[i]
    <3>1. ar \in Seq(BucketT) /\ holes \in Seq(BucketT) /\ Len(ar) = n /\ Len(holes) = h - n
      BY <1>1, <1>6
    <3> HIDE DEF ar, n
    <3>2. /\ cr \in Seq(BucketT) /\ Len(cr) = Len(ar) + Len(holes)
          /\ \A i \in 1..Len(ar) : cr[i] = ar[i]
          /\ \A i \in 1..Len(holes) : cr[Len(ar) + i] = holes[i]
      <4>1. ar \in Seq(BucketT) /\ holes \in Seq(BucketT) /\ cr = ar \o holes
        BY <3>1
      <4> HIDE DEF cr
      <4> QED
        BY <4>1, CatIs
    <3> HIDE DEF cr
    <3> QED
      BY <3>1, <3>2
  <2>3. ASSUME NEW i \in (n + 1)..h PROVE cr[i] = Array!Hole
    <3> DEFINE j == i - n
    <3>1. j \in 1..(h - n) /\ n + j = i
      BY <2>1
    <3> HIDE DEF j, cr
    <3> QED
      BY <3>1, <2>2, <1>6
  <2> HIDE DEF cr
  <2>6. cr \in Seq(BucketT) /\ Len(cr) = h
    BY <2>1, <2>2 DEF cr
  <2>7. /\ cr \o << b >> \in Seq(BucketT) /\ Len(cr \o << b >>) = h + 1
        /\ DOMAIN (cr \o << b >>) = 1..(h + 1) /\ (cr \o << b >>)[h + 1] = b
        /\ \A i \in 1..h : (cr \o << b >>)[i] = cr[i]
    BY <2>6, <1>2, <1>5
  <2>4. \A i \in 1..n : i \in 1..h
    BY <1>1, <1>2
  <2>5. \A i \in (n + 1)..h : i \in 1..h
    BY <1>1, <1>2
  <2> QED
    BY <2>2, <2>3, <2>4, <2>5, <2>7 DEF cr
<1> HIDE DEF br
<1>9. h + 1 \in Nat /\ h + 1 > n
  BY <1>1, <1>2
<1>10. SetIn(br) = SetIn(ar) \cup {h + 1}
  <2>1. \A i \in 1..n : Array!IsSet(br[i]) <=> Array!IsSet(ar[i])
    BY <1>8
  <2>2. \A i \in (n + 1)..h : ~Array!IsSet(br[i])
    BY <1>4, <1>8
  <2>3. Array!IsSet(br[h + 1])
    BY <1>5, <1>8
  <2>4. 1..(h + 1) = (1..n) \cup ((n + 1)..h) \cup {h + 1}
    BY <1>1, <1>2
  <2> QED
    BY <2>1, <2>2, <2>3, <2>4, <1>1, <1>8 DEF SetIn
<1>11. SetIn(ar) \subseteq 1..n
  BY <1>1 DEF SetIn
<1>12. Lacks(ar, k)
  <2> SUFFICES ASSUME NEW i \in SetIn(ar) PROVE Array!IntKey(i - 1) # Array!IntKey(h)
    BY <1>1 DEF Lacks, k
  <2>1. i - 1 # h
    BY <1>1, <1>2, <1>11
  <2> QED
    BY <2>1, KeyTypes
<1>13. Content(br, c + 1) /\ PairsIn(br) = PairsIn(ar) \cup {<< k, c + 1 >>}
  <2>1. \A i \in SetIn(ar) : br[i].k = ar[i].k /\ br[i].val = ar[i].val
    BY <1>8, <1>11
  <2>2. br[h + 1].k = k /\ br[h + 1].val = c + 1
    BY <1>5, <1>8
  <2>3. Content(ar, c) /\ n \in Nat
    BY <1>1
  <2> HIDE DEF n, ar
  <2> QED
    BY <2>1, <2>2, <2>3, <1>3, <1>9, <1>10, <1>11, <1>12, ContentGrows
<1>14. Shape(u)
  BY <1>1, <1>7, <1>8, <1>9 DEF Shape
<1>15. Cardinality(SetIn(br)) = t.nNumOfElements + 1
  <2>1. IsFiniteSet(SetIn(ar)) /\ h + 1 \notin SetIn(ar)
    <3>1. IsFiniteSet(1..n)
      <4> HIDE DEF n
      <4> QED
        BY <1>1, FS_Interval
    <3>2. h + 1 \notin 1..n
      BY <1>1, <1>9
    <3> QED
      BY <3>1, <3>2, <1>11, FS_Subset
  <2> DEFINE S == SetIn(ar)
             x == h + 1
  <2> HIDE DEF S, x
  <2>2. Cardinality(S \cup {x}) = Cardinality(S) + 1
    BY <2>1, FS_AddElement DEF S, x
  <2> QED
    BY <2>2, <1>1, <1>10 DEF S, x
<1>16. \A i \in SetIn(br) : br[i].k = Array!IntKey(i - 1)
  <2>1. \A i \in SetIn(ar) : br[i].k = Array!IntKey(i - 1)
    BY <1>1, <1>8, <1>11
  <2>2. br[h + 1].k = Array!IntKey((h + 1) - 1)
    <3>1. (h + 1) - 1 = h
      BY <1>2
    <3> QED
      BY <3>1, <1>5, <1>8 DEF k
  <2> QED
    BY <2>1, <2>2, <1>10
<1>17. NextFreeOf(PairsIn(br), h + 1)
  <2>1. ASSUME NEW g \in Smalls(PairsIn(ar)) PROVE g <= h
    <3>1. PICK i \in SetIn(ar) : ar[i].k = Array!IntKey(g)
      BY DEF Smalls, PairsIn
    <3>2. Array!IntKey(g) = Array!IntKey(i - 1)
      BY <3>1, <1>1
    <3>3. g = i - 1
      BY <3>2, KeyTypes
    <3> QED
      BY <3>3, <1>1, <1>2, <1>11
  <2>2. NextFreeOf(PairsIn(ar) \cup {<< k, c + 1 >>}, h + 1)
    BY <2>1, <1>2, NextFreeLast DEF k
  <2> QED
    BY <2>2, <1>13
<1>18. Packed(u, c + 1)
  <2>1. u.flags \in {"uninitialized", "packed"} /\ u.flags # "uninitialized"
    BY <1>7
  <2>2. u.nNumOfElements = Cardinality(SetIn(u.arData)) /\ u.nNumOfElements <= c + 1
    BY <1>1, <1>7, <1>15
  <2>3. u.nTableSize <= Array!LONG_MAX /\ Content(u.arData, c + 1)
    BY <1>1, <1>7, <1>13
  <2>4. \A i \in SetIn(u.arData) : u.arData[i].k = Array!IntKey(i - 1)
    BY <1>7, <1>16
  <2> QED
    BY <2>1, <2>2, <2>3, <2>4, <1>14 DEF Packed
<1>19. Plus(u, t, Array!IntKey(h), c + 1)
  BY <1>7, <1>13 DEF Plus, k
<1>20. u.nNumUsed <= u.nTableSize
  BY <1>1, <1>2, <1>7
<1> QED
  BY <1>7, <1>17, <1>18, <1>19, <1>20

LEMMA DoubledPacked ==
  ASSUME NEW t, NEW c, Packed(t, c), NEW u, u = Array!Doubled(t)
  PROVE  /\ Shape(u) /\ Content(u.arData, c) /\ u.nNumOfElements = Cardinality(SetIn(u.arData))
         /\ u.nTableSize = 2 * t.nTableSize /\ u.arData = t.arData /\ u.nNumUsed = t.nNumUsed
         /\ u.nNumOfElements = t.nNumOfElements /\ Same(u, t)
         /\ 2 * t.nTableSize <= Array!LONG_MAX => Packed(u, c)
<1>1. /\ Shape(t) /\ t.nTableSize \in Nat \ {0}
  BY DEF Packed, Shape
<1>2. /\ DOMAIN u = Fields /\ u.flags = t.flags /\ u.nTableSize = 2 * t.nTableSize
      /\ u.nNumUsed = t.nNumUsed /\ u.nNumOfElements = t.nNumOfElements
      /\ u.nNextFreeElement = t.nNextFreeElement /\ u.arData = t.arData
  BY <1>1 DEF Array!Doubled, Shape, Fields
<1>3. 2 * t.nTableSize \in Nat \ {0}
  BY <1>1
<1>4. Shape(u)
  BY <1>1, <1>2, <1>3 DEF Shape
<1> QED
  BY <1>2, <1>4 DEF Packed, Same

LEMMA PackedCount ==
  ASSUME NEW t, NEW c, Packed(t, c)
  PROVE  /\ t.nNumOfElements <= t.nNumUsed
         /\ \A i \in (1..t.nNumUsed) \ SetIn(t.arData) : t.nNumOfElements < t.nNumUsed
<1> DEFINE n == t.nNumUsed
           S == SetIn(t.arData)
<1>1. n \in Nat /\ S \subseteq 1..n /\ t.nNumOfElements = Cardinality(S)
      /\ t.nNumOfElements \in Nat
  BY DEF Packed, Shape, SetIn
<1> HIDE DEF n, S
<1>2. IsFiniteSet(1..n) /\ Cardinality(1..n) = n
  <2>1. IsFiniteSet(1..n) /\ Cardinality(1..n) = IF 1 > n THEN 0 ELSE n - 1 + 1
    BY <1>1, FS_Interval
  <2> QED
    BY <2>1, <1>1
<1>3. Cardinality(S) <= n
  BY <1>1, <1>2, FS_Subset
<1>4. ASSUME NEW i \in (1..n) \ S PROVE Cardinality(S) < n
  <2> DEFINE R == (1..n) \ {i}
  <2>1. IsFiniteSet(R) /\ Cardinality(R) = n - 1
    BY <1>2, FS_RemoveElement
  <2>2. S \subseteq R
    BY <1>1, <1>4
  <2> HIDE DEF R
  <2>3. Cardinality(S) <= Cardinality(R)
    BY <2>1, <2>2, FS_Subset
  <2> QED
    BY <2>1, <2>3, <1>1
<1> QED
  BY <1>1, <1>3, <1>4 DEF n, S

\* keys that a packed table does not have
LEMMA PackedLacks ==
  ASSUME NEW t, NEW c, Packed(t, c)
  PROVE  /\ \A s \in Names : Lacks(t.arData, Array!StrKey(s))
         /\ \A h \in Longs : h + 1 \notin SetIn(t.arData) => Lacks(t.arData, Array!IntKey(h))
         /\ t.flags = "uninitialized" => \A k : Lacks(t.arData, k)
<1>1. /\ \A i \in SetIn(t.arData) : t.arData[i].k = Array!IntKey(i - 1)
      /\ SetIn(t.arData) \subseteq Nat
  BY DEF Packed, Shape, SetIn
<1>2. \A s \in Names : Lacks(t.arData, Array!StrKey(s))
  BY <1>1, KeyTypes DEF Lacks
<1>3. ASSUME NEW h \in Longs, ~Lacks(t.arData, Array!IntKey(h)) PROVE h + 1 \in SetIn(t.arData)
  <2>1. PICK i \in SetIn(t.arData) : t.arData[i].k = Array!IntKey(h)
    BY <1>3 DEF Lacks
  <2>2. Array!IntKey(i - 1) = Array!IntKey(h)
    BY <2>1, <1>1
  <2>3. i - 1 = h /\ i \in Nat
    BY <2>2, <1>1, KeyTypes
  <2>4. h + 1 = i
    BY <2>3
  <2> QED
    BY <2>4
<1>4. t.flags = "uninitialized" => \A k : Lacks(t.arData, k)
  BY DEF Packed, Lacks, SetIn
<1> QED
  BY <1>2, <1>3, <1>4

LEMMA SameLacks ==
  ASSUME NEW u, NEW t, Same(u, t), NEW k, Lacks(t.arData, k)
  PROVE  Lacks(u.arData, k)
<1>1. \A i \in SetIn(u.arData) : \E j \in SetIn(t.arData) : u.arData[i].k = t.arData[j].k
  <2> SUFFICES ASSUME NEW i \in SetIn(u.arData)
               PROVE  \E j \in SetIn(t.arData) : u.arData[i].k = t.arData[j].k
    OBVIOUS
  <2>1. << u.arData[i].k, u.arData[i].val >> \in PairsIn(t.arData)
    BY DEF Same, PairsIn
  <2>2. PICK j \in SetIn(t.arData) : << u.arData[i].k, u.arData[i].val >> = << t.arData[j].k, t.arData[j].val >>
    BY <2>1 DEF PairsIn
  <2> QED
    BY <2>2
<1> QED
  BY <1>1 DEF Lacks

\* A string key or an integer key is added to a table of chains that has room.
LEMMA StringAdded ==
  ASSUME NEW t, NEW c \in Nat, ArrayOK(t, c), NEW s \in Names, Lacks(t.arData, Array!StrKey(s)),
         NEW m, Hashed(m, c), Same(m, t), m.nNumUsed < m.nTableSize,
         NEW u, u = Array!AddToHash(m, Array!StrKey(s), c + 1)
  PROVE  ArrayOK(u, c + 1) /\ Plus(u, t, Array!StrKey(s), c + 1)
<1>1. Array!StrKey(s) \in Array!Keys /\ Lacks(m.arData, Array!StrKey(s))
  BY KeyTypes, SameLacks
<1>2. /\ Hashed(u, c + 1) /\ Plus(u, m, Array!StrKey(s), c + 1) /\ u.nTableSize = m.nTableSize
      /\ u.nNumUsed = m.nNumUsed + 1 /\ u.nNextFreeElement = m.nNextFreeElement
  BY <1>1, AddToHashOK
<1>3. Plus(u, t, Array!StrKey(s), c + 1) /\ u.nNextFreeElement = t.nNextFreeElement
  BY <1>2 DEF Plus, Same
<1>4. NextFreeOf(PairsIn(u.arData), u.nNextFreeElement)
  <2>1. NextFreeOf(PairsIn(t.arData), t.nNextFreeElement)
    BY DEF ArrayOK
  <2>2. NextFreeOf(PairsIn(t.arData) \cup {<< Array!StrKey(s), c + 1 >>}, t.nNextFreeElement)
    BY <2>1, NextFreeStr
  <2> QED
    BY <2>2, <1>3 DEF Plus
<1>5. u.nNumUsed <= u.nTableSize
  <2>1. m.nNumUsed \in Nat /\ m.nTableSize \in Nat
    BY DEF Hashed, Shape
  <2> QED
    BY <2>1, <1>2
<1> QED
  BY <1>2, <1>3, <1>4, <1>5 DEF ArrayOK

LEMMA IndexAdded ==
  ASSUME NEW t, NEW c \in Nat, ArrayOK(t, c), NEW h \in Longs, Lacks(t.arData, Array!IntKey(h)),
         NEW m, Hashed(m, c), Same(m, t), m.nNumUsed < m.nTableSize,
         NEW u, u = Array!AddIndex(m, h, c + 1)
  PROVE  ArrayOK(u, c + 1) /\ Plus(u, t, Array!IntKey(h), c + 1)
<1> DEFINE k == Array!IntKey(h)
           a == Array!AddToHash(m, k, c + 1)
<1>1. k \in Array!Keys /\ Lacks(m.arData, k)
  BY KeyTypes, SameLacks
<1>2. /\ Hashed(a, c + 1) /\ Plus(a, m, k, c + 1) /\ a.nTableSize = m.nTableSize
      /\ a.nNumUsed = m.nNumUsed + 1
  BY <1>1, AddToHashOK
<1>3. m.nNextFreeElement \in Nat /\ NextFreeOf(PairsIn(m.arData), m.nNextFreeElement)
  BY DEF ArrayOK, Same, Hashed, Shape
<1>4. /\ NextFreeOf(PairsIn(m.arData) \cup {<< k, c + 1 >>}, Array!NextFree(m, h))
      /\ Array!NextFree(m, h) \in Nat
  BY <1>3, NextFreeInt
<1>5. u = [a EXCEPT !.nNextFreeElement = Array!NextFree(m, h)]
  BY DEF Array!AddIndex
<1> HIDE DEF a
<1>6. Shape(a)
  BY <1>2 DEF Hashed
<1>7. /\ DOMAIN u = Fields /\ u.flags = a.flags /\ u.nTableSize = a.nTableSize
      /\ u.nNumUsed = a.nNumUsed /\ u.nNumOfElements = a.nNumOfElements
      /\ u.nNextFreeElement = Array!NextFree(m, h) /\ u.arData = a.arData /\ u.arHash = a.arHash
  BY <1>5, <1>6 DEF Shape, Fields
<1>8. Shape(u)
  BY <1>4, <1>6, <1>7 DEF Shape
<1>9. Linked(u)
  <2>1. Array!Slots(u) = Array!Slots(a) /\ \A l : Array!SlotOf(u, l) = Array!SlotOf(a, l)
    BY <1>7 DEF Array!Slots, Array!SlotOf
  <2>2. \A x, n : InSlot(u, u.arData, x, n) = InSlot(a, a.arData, x, n)
    BY <2>1, <1>7 DEF InSlot
  <2>3. Linked(a)
    BY <1>2 DEF Hashed
  <2> QED
    BY <2>1, <2>2, <2>3, <1>7 DEF Linked
<1>10. Hashed(u, c + 1)
  BY <1>2, <1>7, <1>8, <1>9 DEF Hashed
<1>11. Plus(u, t, k, c + 1)
  BY <1>2, <1>7 DEF Plus, Same
<1>12. NextFreeOf(PairsIn(u.arData), u.nNextFreeElement)
  BY <1>2, <1>4, <1>7 DEF Plus
<1>13. u.nNumUsed <= u.nTableSize
  <2>1. m.nNumUsed \in Nat /\ m.nTableSize \in Nat
    BY DEF Hashed, Shape
  <2> QED
    BY <2>1, <1>2, <1>7
<1> QED
  BY <1>10, <1>11, <1>12, <1>13 DEF ArrayOK


(***************************************************************************)
(* The calls.                                                              *)
(***************************************************************************)
ArrayInv == calls \in 0..MaxCalls /\ ArrayOK(ht, calls)

LEMMA ArrayStarts == ASSUME Array!Init PROVE ArrayInv
<1>1. PICK n \in Hints :
          ht = [flags |-> "uninitialized", nTableSize |-> n, nNumUsed |-> 0,
                nNumOfElements |-> 0, nNextFreeElement |-> 0,
                arData |-> << >>, arHash |-> << >>]
  BY DEF Array!Init
<1>2. n \in Nat \ {0} /\ n <= Array!LONG_MAX /\ MaxCalls \in Nat
  BY LongTypes
<1>3. /\ DOMAIN ht = Fields /\ ht.flags = "uninitialized" /\ ht.nTableSize = n /\ ht.nNumUsed = 0
      /\ ht.nNumOfElements = 0 /\ ht.nNextFreeElement = 0 /\ ht.arData = << >>
  BY <1>1 DEF Fields
<1>4. calls = 0 /\ calls \in 0..MaxCalls
  BY <1>2 DEF Array!Init
<1>5. << >> \in Seq(BucketT) /\ Len(<< >>) = 0 /\ SetIn(<< >>) = {}
  BY DEF SetIn
<1>6. Shape(ht)
  BY <1>2, <1>3, <1>5 DEF Shape
<1>7. Packed(ht, 0)
  <2>1. Content(ht.arData, 0) /\ Cardinality(SetIn(ht.arData)) = 0
    BY <1>3, <1>5, FS_EmptySet DEF Content
  <2> QED
    BY <2>1, <1>2, <1>3, <1>5, <1>6 DEF Packed
<1>8. NextFreeOf(PairsIn(ht.arData), ht.nNextFreeElement)
  <2>1. PairsIn(ht.arData) = {}
    BY <1>3, <1>5 DEF PairsIn
  <2>2. Smalls({}) = {}
    BY DEF Smalls
  <2> QED
    BY <2>1, <2>2, <1>3 DEF NextFreeOf
<1> QED
  BY <1>2, <1>3, <1>4, <1>7, <1>8 DEF ArrayInv, ArrayOK

LEMMA MoreCalls ==
  ASSUME NEW t, NEW c \in Nat, ArrayOK(t, c)
  PROVE  ArrayOK(t, c + 1)
<1>1. \A v \in 1..c : v \in 1..(c + 1)
  OBVIOUS
<1>2. Content(t.arData, c) => Content(t.arData, c + 1)
  BY <1>1 DEF Content
<1>3. t.nNumOfElements \in Nat /\ t.nNumOfElements <= c => t.nNumOfElements <= c + 1
  OBVIOUS
<1>4. CASE Hashed(t, c)
  BY <1>2, <1>4 DEF Hashed, ArrayOK
<1>5. CASE Packed(t, c)
  <2>1. t.nNumOfElements \in Nat
    BY <1>5 DEF Packed, Shape
  <2> QED
    BY <2>1, <1>2, <1>3, <1>5 DEF Packed, ArrayOK
<1> QED
  BY <1>4, <1>5 DEF ArrayOK

LEMMA CallTypes ==
  ASSUME ArrayInv, Array!Calling
  PROVE  /\ calls \in Nat /\ Array!New = calls + 1 /\ calls + 1 \in 1..MaxCalls
         /\ calls' = calls + 1
         /\ calls' \in 0..MaxCalls /\ ArrayOK(ht, calls) /\ calls < MaxCalls
         /\ PairsIn(ht.arData) \subseteq Array!Keys \X (1..calls)
<1>1. MaxCalls \in Nat /\ calls \in 0..MaxCalls /\ calls < MaxCalls /\ calls' = calls + 1
  BY LongTypes DEF ArrayInv, Array!Calling
<1>2. Content(ht.arData, calls)
  BY DEF ArrayInv, ArrayOK, Hashed, Packed
<1> QED
  BY <1>1, <1>2 DEF Array!New, ArrayInv, PairsIn, Content


LEMMA Finds ==
  ASSUME ArrayInv, Array!Calling, NEW k \in Array!Keys, NEW i \in SetIn(ht.arData),
         ht.arData[i].k = k, Array!Found(k, i)
  PROVE  ArrayInv' /\ Array!Map!Find(k)
<1>1. ht' = ht /\ answer' = << k, ht.arData[i].val >>
  BY DEF Array!Found
<1>2. << k, ht.arData[i].val >> \in PairsIn(ht.arData)
  BY DEF PairsIn
<1>3. ht.arData[i].val \in 1..MaxCalls
  <2>1. ht.arData[i].val \in 1..calls
    BY <1>2, CallTypes
  <2>2. calls \in Nat /\ MaxCalls \in Nat /\ calls < MaxCalls
    BY CallTypes, LongTypes
  <2> QED
    BY <2>1, <2>2
<1>4. Array!Map!Find(k)
  BY <1>1, <1>2, <1>3 DEF Array!Map!Find, Array!Entries, PairsIn, SetIn
<1>5. ArrayOK(ht, calls + 1)
  BY CallTypes, MoreCalls
<1>6. ArrayInv'
  BY <1>1, <1>5, CallTypes DEF ArrayInv
<1> QED
  BY <1>4, <1>6

LEMMA Adds ==
  ASSUME ArrayInv, Array!Calling, NEW k \in Array!Keys, Lacks(ht.arData, k),
         NEW u, Array!Added(k, u), ArrayOK(u, calls + 1), Plus(u, ht, k, calls + 1)
  PROVE  ArrayInv' /\ Array!Map!Insert(k)
<1>1. ht' = u /\ answer' = << k, Absent >>
  BY DEF Array!Added
<1>2. ArrayInv'
  BY <1>1, CallTypes DEF ArrayInv
<1>3. \A w : << k, w >> \notin PairsIn(ht.arData)
  BY DEF PairsIn, Lacks
<1>4. PairsIn(ht'.arData) = PairsIn(ht.arData) \cup {<< k, calls + 1 >>}
  BY <1>1 DEF Plus
<1>5. calls + 1 \in 1..MaxCalls
  BY CallTypes
<1>6. Array!Map!Insert(k)
  BY <1>1, <1>3, <1>4, <1>5 DEF Array!Map!Insert, Array!Entries, PairsIn, SetIn
<1> QED
  BY <1>2, <1>6

Interns(k) == ArrayInv' /\ (Array!Map!Find(k) \/ Array!Map!Insert(k))

\* a table of chains finds exactly what it has
LEMMA HashedFind ==
  ASSUME NEW t, NEW c, Hashed(t, c), NEW k \in Array!Keys
  PROVE  /\ \A i \in Array!Find(t, k) : i \in SetIn(t.arData) /\ t.arData[i].k = k
         /\ Array!Find(t, k) = {} => Lacks(t.arData, k)
<1>1. Array!Find(t, k) = {i \in DOMAIN t.arData : t.arData[i].k = k}
  <2>1. k.h \in Nat
    BY KeyTypes DEF KeyT
  <2> QED
    BY <2>1, FindIs DEF Hashed
<1>2. SetIn(t.arData) = DOMAIN t.arData
  BY DEF Hashed
<1> QED
  BY <1>1, <1>2 DEF Lacks

LEMMA Flags ==
  ASSUME ArrayInv
  PROVE  /\ ht.flags = "mixed" => Hashed(ht, calls)
         /\ ht.flags \in {"uninitialized", "packed"} => Packed(ht, calls)
         /\ ht.flags \in {"uninitialized", "packed", "mixed"}
         /\ ht.nNumUsed <= ht.nTableSize /\ Shape(ht) /\ Content(ht.arData, calls)
BY DEF ArrayInv, ArrayOK, Hashed, Packed

LEMMA FindStringInterns ==
  ASSUME ArrayInv, NEW s \in Names, Array!FindString(s)
  PROVE  Interns(Array!StrKey(s))
<1>1. Array!StrKey(s) \in Array!Keys /\ Array!Calling /\ Hashed(ht, calls)
  BY KeyTypes, Flags DEF Array!FindString
<1>2. PICK i \in Array!Find(ht, Array!StrKey(s)) : Array!Found(Array!StrKey(s), i)
  BY DEF Array!FindString
<1>3. i \in SetIn(ht.arData) /\ ht.arData[i].k = Array!StrKey(s)
  BY <1>1, <1>2, HashedFind
<1> QED
  BY <1>1, <1>2, <1>3, Finds DEF Interns

LEMMA AddStringInterns ==
  ASSUME ArrayInv, NEW s \in Names, Array!AddString(s)
  PROVE  Interns(Array!StrKey(s))
<1> DEFINE k == Array!StrKey(s)
           t == CASE ht.flags = "uninitialized" -> Array!InitMixed(ht)
                  [] ht.flags = "packed" -> Array!Room(Array!PackedToHash(ht))
                  [] ht.flags = "mixed" -> Array!Room(ht)
           u == Array!AddToHash(t, k, calls + 1)
<1>1. k \in Array!Keys /\ Array!Calling /\ Array!New = calls + 1
  BY KeyTypes DEF Array!AddString, Array!New
<1>2. Array!Added(k, u)
  BY <1>1 DEF Array!AddString
<1>3. ArrayOK(ht, calls) /\ calls \in Nat
  BY <1>1, CallTypes
<1>4. Lacks(ht.arData, k) /\ Hashed(t, calls) /\ Same(t, ht) /\ t.nNumUsed < t.nTableSize
  <2>1. CASE ht.flags = "uninitialized"
    <3>1. t = Array!InitMixed(ht) /\ Packed(ht, calls)
      BY <2>1, Flags
    <3> HIDE DEF t
    <3> QED
      BY <2>1, <3>1, InitMixedHashes, PackedLacks
  <2>2. CASE ht.flags = "packed"
    <3> DEFINE m == Array!PackedToHash(ht)
    <3>1. t = Array!Room(m) /\ Packed(ht, calls)
      BY <2>2, Flags
    <3>2. Hashed(m, calls) /\ Same(m, ht) /\ m.nTableSize = ht.nTableSize
          /\ m.nNumUsed = ht.nNumOfElements
      <4>1. Shape(ht) /\ Content(ht.arData, calls)
            /\ ht.nNumOfElements = Cardinality(SetIn(ht.arData))
        BY <3>1 DEF Packed
      <4> QED
        BY <4>1, PackedToHashHashes
    <3>3. m.nNumUsed <= m.nTableSize
      <4>1. ht.nNumOfElements <= ht.nNumUsed /\ ht.nNumUsed <= ht.nTableSize
        BY <3>1, PackedCount, Flags
      <4>2. ht.nNumOfElements \in Nat /\ ht.nNumUsed \in Nat /\ ht.nTableSize \in Nat
        BY <3>1 DEF Packed, Shape
      <4> HIDE DEF m
      <4> QED
        BY <3>2, <4>1, <4>2
    <3> HIDE DEF m, t
    <3>4. Hashed(t, calls) /\ Same(t, m) /\ t.nNumUsed < t.nTableSize
      BY <3>1, <3>2, <3>3, RoomHashes
    <3>5. Lacks(ht.arData, k)
      BY <3>1, PackedLacks
    <3> QED
      BY <3>2, <3>4, <3>5 DEF Same
  <2>3. CASE ht.flags = "mixed"
    <3>1. t = Array!Room(ht) /\ Hashed(ht, calls) /\ ht.nNumUsed <= ht.nTableSize
      BY <2>3, Flags
    <3>2. Lacks(ht.arData, k)
      <4>1. Array!Find(ht, k) = {}
        BY <2>3 DEF Array!AddString
      <4> QED
        BY <3>1, <4>1, <1>1, HashedFind
    <3> HIDE DEF t
    <3> QED
      BY <3>1, <3>2, RoomHashes
  <2> HIDE DEF t, k
  <2> QED
    BY <2>1, <2>2, <2>3, Flags
<1>5. ArrayOK(u, calls + 1) /\ Plus(u, ht, k, calls + 1)
  <2> HIDE DEF t
  <2> QED
    BY <1>3, <1>4, StringAdded
<1> HIDE DEF t, u
<1> QED
  BY <1>1, <1>2, <1>4, <1>5, Adds DEF Interns

LEMMA FindIndexPackedInterns ==
  ASSUME ArrayInv, NEW h \in Longs, Array!FindIndexPacked(h)
  PROVE  Interns(Array!IntKey(h))
<1>1. /\ Array!IntKey(h) \in Array!Keys /\ Array!Calling /\ ht.flags = "packed" /\ h < ht.nNumUsed
      /\ Array!IsSet(ht.arData[h + 1]) /\ Array!Found(Array!IntKey(h), h + 1)
  BY KeyTypes DEF Array!FindIndexPacked, Array!Inside
<1>2. Packed(ht, calls) /\ h \in Nat /\ ht.nNumUsed \in Nat /\ DOMAIN ht.arData = 1..ht.nNumUsed
  BY <1>1, Flags, LongTypes DEF Packed, Shape
<1>3. h + 1 \in SetIn(ht.arData)
  BY <1>1, <1>2 DEF SetIn
<1>4. ht.arData[h + 1].k = Array!IntKey(h)
  <2>1. ht.arData[h + 1].k = Array!IntKey((h + 1) - 1) /\ (h + 1) - 1 = h
    BY <1>2, <1>3 DEF Packed
  <2> QED
    BY <2>1
<1> QED
  BY <1>1, <1>3, <1>4, Finds DEF Interns

LEMMA OutsideLacks ==
  ASSUME NEW t, NEW c, Packed(t, c), NEW h \in Longs,
         ~(h < t.nNumUsed /\ Array!IsSet(t.arData[h + 1]))
  PROVE  Lacks(t.arData, Array!IntKey(h))
<1>1. h \in Nat /\ t.nNumUsed \in Nat /\ SetIn(t.arData) \subseteq 1..t.nNumUsed
  BY LongTypes DEF Packed, Shape, SetIn
<1>2. h + 1 \notin SetIn(t.arData)
  <2>1. ~(h < t.nNumUsed) => h + 1 \notin 1..t.nNumUsed
    BY <1>1
  <2> QED
    BY <2>1, <1>1 DEF SetIn
<1> QED
  BY <1>2, PackedLacks

LEMMA AddIndexPackedInterns ==
  ASSUME ArrayInv, NEW h \in Longs, Array!AddIndexPacked(h)
  PROVE  Interns(Array!IntKey(h))
<1> DEFINE u == Array!AddToPacked(ht, h, calls + 1)
<1>1. /\ Array!IntKey(h) \in Array!Keys /\ Array!Calling
      /\ ht.flags \in {"uninitialized", "packed"} /\ h < ht.nTableSize
      /\ ~Array!Inside(h) /\ Array!Added(Array!IntKey(h), u)
  BY KeyTypes DEF Array!AddIndexPacked, Array!New
<1>2. Packed(ht, calls) /\ h \in Nat /\ ht.nNumUsed \in Nat /\ calls \in Nat
  BY <1>1, Flags, LongTypes, CallTypes DEF Packed, Shape
<1>3. h >= ht.nNumUsed
  <2>1. CASE ht.flags = "packed"
    BY <2>1, <1>1, <1>2 DEF Array!Inside
  <2>2. CASE ht.flags = "uninitialized"
    <3>1. ht.nNumUsed = 0
      BY <1>2, <2>2 DEF Packed, Shape
    <3> QED
      BY <3>1, <1>2
  <2> QED
    BY <2>1, <2>2, <1>1
<1>4. Lacks(ht.arData, Array!IntKey(h))
  BY <1>2, <1>3, OutsideLacks
<1> HIDE DEF u
<1>5. /\ Packed(u, calls + 1) /\ Plus(u, ht, Array!IntKey(h), calls + 1)
      /\ u.nNumUsed <= u.nTableSize
      /\ NextFreeOf(PairsIn(u.arData), u.nNextFreeElement)
  BY <1>1, <1>2, <1>3, AddToPackedOK DEF u
<1>6. ArrayOK(u, calls + 1)
  BY <1>5 DEF ArrayOK
<1> QED
  BY <1>1, <1>4, <1>5, <1>6, Adds DEF Interns

LEMMA GrowPackedInterns ==
  ASSUME ArrayInv, NEW h \in Longs, Array!GrowPacked(h)
  PROVE  Interns(Array!IntKey(h))
<1> DEFINE d == Array!Doubled(ht)
           u == Array!AddToPacked(d, h, calls + 1)
<1>1. /\ Array!IntKey(h) \in Array!Keys /\ Array!Calling /\ ht.flags = "packed"
      /\ h >= ht.nTableSize
      /\ h \div 2 < ht.nTableSize /\ ht.nTableSize \div 2 < ht.nNumOfElements
      /\ Array!Added(Array!IntKey(h), u)
  BY KeyTypes DEF Array!GrowPacked, Array!New, Array!Beyond, Array!MayGrow
<1>2. /\ Packed(ht, calls) /\ h \in Nat /\ ht.nNumUsed \in Nat /\ ht.nTableSize \in Nat
      /\ ht.nNumOfElements \in Nat /\ ht.nNumOfElements <= calls /\ calls \in Nat
      /\ calls < MaxCalls
      /\ MaxCalls \in Nat /\ Array!LONG_MAX \in Nat /\ 4 * MaxCalls <= Array!LONG_MAX
      /\ ht.nNumUsed <= ht.nTableSize
  BY <1>1, Flags, LongTypes, CallTypes DEF Packed, Shape
<1>3. 2 * ht.nTableSize <= Array!LONG_MAX /\ h < 2 * ht.nTableSize /\ h >= ht.nNumUsed
  <2> DEFINE n == ht.nTableSize
             M == Array!LONG_MAX
             e == ht.nNumOfElements
             x == ht.nNumUsed
  <2>1. n \in Nat /\ e \in Nat /\ e <= calls /\ n \div 2 < e /\ h \div 2 < n /\ h >= n
        /\ x \in Nat /\ x <= n
    BY <1>1, <1>2
  <2>2. M \in Nat /\ 4 * MaxCalls <= M
    BY <1>2
  <2> HIDE DEF n, M, e, x
  <2>3. n <= 2 * (n \div 2) + 1 /\ n \div 2 \in Nat /\ h <= 2 * (h \div 2) + 1 /\ h \div 2 \in Nat
    BY <2>1, <1>2
  <2>4. 2 * n <= M /\ h < 2 * n /\ h >= x
    BY <2>1, <2>2, <2>3, <1>2
  <2> QED
    BY <2>4 DEF n, M, x
<1>4. /\ Packed(d, calls) /\ Same(d, ht) /\ d.nNumUsed = ht.nNumUsed
      /\ d.nTableSize = 2 * ht.nTableSize
      /\ d.arData = ht.arData
  BY <1>2, <1>3, DoubledPacked
<1> HIDE DEF d
<1>5. h >= d.nNumUsed /\ h < d.nTableSize /\ ~(h < ht.nNumUsed)
  BY <1>2, <1>3, <1>4
<1>6. Lacks(ht.arData, Array!IntKey(h))
  BY <1>2, <1>5, OutsideLacks
<1> HIDE DEF u
<1>7. /\ Packed(u, calls + 1) /\ Plus(u, d, Array!IntKey(h), calls + 1)
      /\ u.nNumUsed <= u.nTableSize
      /\ NextFreeOf(PairsIn(u.arData), u.nNextFreeElement)
  BY <1>2, <1>4, <1>5, AddToPackedOK DEF u
<1>8. ArrayOK(u, calls + 1) /\ Plus(u, ht, Array!IntKey(h), calls + 1)
  BY <1>4, <1>7 DEF ArrayOK, Plus
<1> QED
  BY <1>1, <1>6, <1>8, Adds DEF Interns

LEMMA HoleToHashInterns ==
  ASSUME ArrayInv, NEW h \in Longs, Array!HoleToHash(h)
  PROVE  Interns(Array!IntKey(h))
<1> DEFINE m == Array!PackedToHash(ht)
           u == Array!AddIndex(m, h, calls + 1)
<1>1. /\ Array!IntKey(h) \in Array!Keys /\ Array!Calling /\ ht.flags = "packed" /\ h < ht.nNumUsed
      /\ ~Array!IsSet(ht.arData[h + 1]) /\ Array!Added(Array!IntKey(h), u)
  BY KeyTypes DEF Array!HoleToHash, Array!New, Array!Inside
<1>2. /\ Packed(ht, calls) /\ h \in Nat /\ ht.nNumUsed \in Nat /\ ht.nTableSize \in Nat
      /\ ht.nNumOfElements \in Nat /\ ht.nNumUsed <= ht.nTableSize
      /\ ArrayOK(ht, calls) /\ calls \in Nat
  BY <1>1, Flags, LongTypes, CallTypes DEF Packed, Shape
<1>3. Lacks(ht.arData, Array!IntKey(h))
  BY <1>1, <1>2, OutsideLacks
<1>4. ht.nNumOfElements < ht.nNumUsed
  <2>1. h + 1 \in (1..ht.nNumUsed) \ SetIn(ht.arData)
    BY <1>1, <1>2 DEF SetIn
  <2> QED
    BY <2>1, <1>2, PackedCount
<1>5. Hashed(m, calls) /\ Same(m, ht) /\ m.nTableSize = ht.nTableSize
      /\ m.nNumUsed = ht.nNumOfElements
  <2>1. Shape(ht) /\ Content(ht.arData, calls)
        /\ ht.nNumOfElements = Cardinality(SetIn(ht.arData))
    BY <1>2 DEF Packed
  <2> QED
    BY <2>1, PackedToHashHashes
<1> HIDE DEF m
<1>6. m.nNumUsed < m.nTableSize
  BY <1>2, <1>4, <1>5
<1> HIDE DEF u
<1>7. ArrayOK(u, calls + 1) /\ Plus(u, ht, Array!IntKey(h), calls + 1)
  BY <1>2, <1>3, <1>5, <1>6, IndexAdded DEF u
<1> QED
  BY <1>1, <1>3, <1>7, Adds DEF Interns

LEMMA FarToHashInterns ==
  ASSUME ArrayInv, NEW h \in Longs, Array!FarToHash(h)
  PROVE  Interns(Array!IntKey(h))
<1> DEFINE d == IF Array!IsFull(ht) THEN Array!Doubled(ht) ELSE ht
           m == Array!PackedToHash(d)
           u == Array!AddIndex(m, h, calls + 1)
<1>1. /\ Array!IntKey(h) \in Array!Keys /\ Array!Calling /\ ht.flags = "packed"
      /\ h >= ht.nTableSize
      /\ Array!Added(Array!IntKey(h), u)
  BY KeyTypes DEF Array!FarToHash, Array!New, Array!Beyond
<1>2. /\ Packed(ht, calls) /\ h \in Nat /\ ht.nNumUsed \in Nat /\ ht.nTableSize \in Nat \ {0}
      /\ ht.nNumOfElements \in Nat /\ ht.nNumUsed <= ht.nTableSize
      /\ ArrayOK(ht, calls) /\ calls \in Nat
  BY <1>1, Flags, LongTypes, CallTypes DEF Packed, Shape
<1>3. Lacks(ht.arData, Array!IntKey(h))
  <2>1. ~(h < ht.nNumUsed)
    BY <1>1, <1>2
  <2> QED
    BY <2>1, <1>2, OutsideLacks
<1>4. ht.nNumOfElements <= ht.nNumUsed
  BY <1>2, PackedCount
<1>5. /\ Shape(d) /\ Content(d.arData, calls) /\ d.nNumOfElements = Cardinality(SetIn(d.arData))
      /\ Same(d, ht) /\ d.nNumOfElements < d.nTableSize
  <2>1. CASE Array!IsFull(ht)
    <3>1. /\ Shape(d) /\ Content(d.arData, calls)
          /\ d.nNumOfElements = Cardinality(SetIn(d.arData))
          /\ d.nTableSize = 2 * ht.nTableSize /\ d.nNumOfElements = ht.nNumOfElements
          /\ Same(d, ht)
      <4>1. d = Array!Doubled(ht)
        BY <2>1
      <4> HIDE DEF d
      <4> QED
        BY <4>1, <1>2, DoubledPacked
    <3> HIDE DEF d
    <3> QED
      BY <3>1, <1>2, <1>4
  <2>2. CASE ~Array!IsFull(ht)
    <3>1. d = ht /\ ht.nNumUsed < ht.nTableSize
      BY <2>2, <1>2 DEF Array!IsFull
    <3> HIDE DEF d
    <3> QED
      BY <3>1, <1>2, <1>4 DEF Packed, Same
  <2> QED
    BY <2>1, <2>2
<1> HIDE DEF d
<1>6. Hashed(m, calls) /\ Same(m, d) /\ m.nTableSize = d.nTableSize
      /\ m.nNumUsed = d.nNumOfElements
  BY <1>5, PackedToHashHashes
<1> HIDE DEF m
<1>7. m.nNumUsed < m.nTableSize /\ Same(m, ht)
  BY <1>5, <1>6 DEF Same
<1> HIDE DEF u
<1>8. ArrayOK(u, calls + 1) /\ Plus(u, ht, Array!IntKey(h), calls + 1)
  BY <1>2, <1>3, <1>6, <1>7, IndexAdded DEF u
<1> QED
  BY <1>1, <1>3, <1>8, Adds DEF Interns

LEMMA FirstFarInterns ==
  ASSUME ArrayInv, NEW h \in Longs, Array!FirstFar(h)
  PROVE  Interns(Array!IntKey(h))
<1> DEFINE m == Array!InitMixed(ht)
           u == Array!AddIndex(m, h, calls + 1)
<1>1. Array!IntKey(h) \in Array!Keys /\ Array!Calling /\ ht.flags = "uninitialized"
      /\ Array!Added(Array!IntKey(h), u)
  BY KeyTypes DEF Array!FirstFar, Array!New
<1>2. Packed(ht, calls) /\ ArrayOK(ht, calls) /\ calls \in Nat
  BY <1>1, Flags, CallTypes
<1>3. Lacks(ht.arData, Array!IntKey(h))
  BY <1>1, <1>2, PackedLacks
<1>4. Hashed(m, calls) /\ Same(m, ht) /\ m.nNumUsed < m.nTableSize
  BY <1>1, <1>2, InitMixedHashes
<1> HIDE DEF m
<1>5. ArrayOK(u, calls + 1) /\ Plus(u, ht, Array!IntKey(h), calls + 1)
  BY <1>2, <1>3, <1>4, IndexAdded
<1> HIDE DEF u
<1> QED
  BY <1>1, <1>3, <1>5, Adds DEF Interns

LEMMA FindIndexInterns ==
  ASSUME ArrayInv, NEW h \in Longs, Array!FindIndex(h)
  PROVE  Interns(Array!IntKey(h))
<1>1. Array!IntKey(h) \in Array!Keys /\ Array!Calling /\ Hashed(ht, calls)
  BY KeyTypes, Flags DEF Array!FindIndex
<1>2. PICK i \in Array!Find(ht, Array!IntKey(h)) : Array!Found(Array!IntKey(h), i)
  BY DEF Array!FindIndex
<1>3. i \in SetIn(ht.arData) /\ ht.arData[i].k = Array!IntKey(h)
  BY <1>1, <1>2, HashedFind
<1> QED
  BY <1>1, <1>2, <1>3, Finds DEF Interns

LEMMA AddIndexMixedInterns ==
  ASSUME ArrayInv, NEW h \in Longs, Array!AddIndexMixed(h)
  PROVE  Interns(Array!IntKey(h))
<1> DEFINE m == Array!Room(ht)
           u == Array!AddIndex(m, h, calls + 1)
<1>1. /\ Array!IntKey(h) \in Array!Keys /\ Array!Calling /\ ht.flags = "mixed"
      /\ Array!Find(ht, Array!IntKey(h)) = {}
      /\ Array!Added(Array!IntKey(h), u)
  BY KeyTypes DEF Array!AddIndexMixed, Array!New
<1>2. Hashed(ht, calls) /\ ArrayOK(ht, calls) /\ calls \in Nat /\ ht.nNumUsed <= ht.nTableSize
  BY <1>1, Flags, CallTypes
<1>3. Lacks(ht.arData, Array!IntKey(h))
  BY <1>1, <1>2, HashedFind
<1>4. Hashed(m, calls) /\ Same(m, ht) /\ m.nNumUsed < m.nTableSize
  BY <1>2, RoomHashes
<1> HIDE DEF m
<1>5. ArrayOK(u, calls + 1) /\ Plus(u, ht, Array!IntKey(h), calls + 1)
  BY <1>2, <1>3, <1>4, IndexAdded
<1> HIDE DEF u
<1> QED
  BY <1>1, <1>3, <1>5, Adds DEF Interns

LEMMA ArraySteps ==
  ASSUME ArrayInv, Array!Next
  PROVE  ArrayInv' /\ Array!Map!Next
<1>1. \E k \in Array!Keys : Interns(k)
  <2>1. ASSUME NEW s \in Names, Array!AddOrFind(s)
        PROVE  Array!StrKey(s) \in Array!Keys /\ Interns(Array!StrKey(s))
    BY <2>1, KeyTypes, FindStringInterns, AddStringInterns DEF Array!AddOrFind
  <2>2. ASSUME NEW h \in Longs, Array!IndexAddOrFind(h)
        PROVE  Array!IntKey(h) \in Array!Keys /\ Interns(Array!IntKey(h))
    BY <2>2, KeyTypes, FindIndexPackedInterns, AddIndexPackedInterns, GrowPackedInterns,
       HoleToHashInterns, FarToHashInterns, FirstFarInterns, FindIndexInterns,
       AddIndexMixedInterns
       DEF Array!IndexAddOrFind
  <2> QED
    BY <2>1, <2>2 DEF Array!Next
<1> QED
  BY <1>1 DEF Interns, Array!Map!Next

LEMMA LatestOf ==
  ASSUME NEW S, S \subseteq Int, NEW m \in S, \A j \in S : j <= m
  PROVE  Array!Latest(S) = m
<1>1. ASSUME NEW n \in S, \A j \in S : j <= n PROVE n = m
  BY <1>1
<1> QED
  BY <1>1 DEF Array!Latest

LEMMA NextFreeFollows == ASSUME ArrayInv PROVE Array!NextFreeExact
<1> DEFINE held == {g \in Longs : Array!Signed(g) >= 0 /\ \E i \in Array!Entries : ht.arData[i].k = Array!IntKey(g)}
           after == {Array!Signed(h) + 1 : h \in held}
           P == PairsIn(ht.arData)
           G == Smalls(P)
<1>1. Array!LONG_MAX \in Nat /\ \A g \in G : g \in Nat /\ g <= Array!LONG_MAX /\ g \in Longs
  BY LongTypes DEF Smalls
<1>2. held = G
  <2>1. \A g \in Longs : Array!Signed(g) >= 0 <=> g <= Array!LONG_MAX
    <3> SUFFICES ASSUME NEW g \in Longs PROVE Array!Signed(g) >= 0 <=> g <= Array!LONG_MAX
      OBVIOUS
    <3>1. /\ g \in Nat /\ Array!LONG_MAX \in Nat
          /\ g <= Array!LONG_MAX => Array!Signed(g) = g
          /\ g > Array!LONG_MAX => Array!Signed(g) < 0 /\ Array!Signed(g) \in Int
      BY LongTypes
    <3> HIDE DEF held, after, P, G
    <3> QED
      BY <3>1
  <2>2. Array!Entries = SetIn(ht.arData)
    BY DEF Array!Entries, SetIn
  <2>3. ASSUME NEW g
        PROVE  (\E i \in SetIn(ht.arData) : ht.arData[i].k = Array!IntKey(g)) <=> \E v : << Array!IntKey(g), v >> \in P
    BY DEF PairsIn
  <2> HIDE DEF P
  <2> QED
    BY <2>1, <2>2, <2>3 DEF Smalls
<1>3. after = {g + 1 : g \in G}
  <2>1. \A g \in G : Array!Signed(g) = g
    BY <1>1, LongTypes
  <2> HIDE DEF held, G
  <2> QED
    BY <2>1, <1>2
<1>4. NextFreeOf(P, ht.nNextFreeElement)
  BY DEF ArrayInv, ArrayOK
<1>5. ht.nNextFreeElement = IF after = {} THEN 0
                            ELSE IF Array!Latest(after) > Array!LONG_MAX THEN Array!LONG_MAX ELSE Array!Latest(after)
  <2>1. CASE G = {}
    <3>1. after = {} /\ ht.nNextFreeElement = 0
      <4>1. ht.nNextFreeElement = 0
        BY <2>1, <1>4 DEF NextFreeOf
      <4> HIDE DEF after, G
      <4> QED
        BY <2>1, <4>1, <1>3
    <3> QED
      BY <3>1
  <2>2. CASE G # {}
    <3>1. PICK g \in G : /\ \A h \in G : h <= g
                         /\ ht.nNextFreeElement = IF g < Array!LONG_MAX THEN g + 1 ELSE Array!LONG_MAX
      BY <2>2, <1>4 DEF NextFreeOf
    <3> HIDE DEF G, after
    <3>2. after \subseteq Int /\ g + 1 \in after /\ \A j \in after : j <= g + 1
      BY <3>1, <1>1, <1>3
    <3>3. Array!Latest(after) = g + 1 /\ after # {}
      BY <3>2, LatestOf
    <3>4. (g + 1 > Array!LONG_MAX) <=> ~(g < Array!LONG_MAX)
      BY <3>1, <1>1
    <3> QED
      BY <3>1, <3>3, <3>4
  <2> QED
    BY <2>1, <2>2
<1> QED
  BY <1>5 DEF Array!NextFreeExact

LEMMA ArrayShows == ASSUME ArrayInv
  PROVE  Array!EntriesInTable /\ Array!OrderKept /\ Array!NextFreeExact
<1>1. Array!EntriesInTable
  BY Flags DEF Shape, Array!EntriesInTable
<1>2. Array!OrderKept
  BY Flags DEF Content, Array!OrderKept, Array!Entries, SetIn
<1> QED
  BY <1>1, <1>2, NextFreeFollows

\* a step of the whole is a step of the array or leaves it alone
LEMMA FillSteps == ASSUME [Next]_vars PROVE [Array!Next]_(Array!vars)
<1>1. CASE FillArray
  BY <1>1 DEF FillArray
<1>2. CASE UNCHANGED a_vars
  BY <1>2 DEF a_vars, Array!vars
<1> QED
  BY <1>1, <1>2 DEF Next, vars, Strings, Pointers, WriteAndRead

LEMMA ArrayStays == ASSUME ArrayInv, UNCHANGED Array!vars
  PROVE  ArrayInv' /\ UNCHANGED Array!Map!vars
<1>1. ht' = ht /\ calls' = calls /\ answer' = answer
  BY DEF Array!vars
<1> QED
  BY <1>1 DEF ArrayInv, Array!Map!vars, Array!Entries

LEMMA ArrayHolds == Spec => []ArrayInv
<1>1. Init => ArrayInv
  BY ArrayStarts DEF Init
<1>2. ArrayInv /\ [Next]_vars => ArrayInv'
  BY FillSteps, ArraySteps, ArrayStays
<1> QED
  BY <1>1, <1>2, PTL DEF Spec

\* No bucket is past the end of the table, through every change of layout.
THEOREM ArrayInTable == Spec => []EntriesInTable
<1>1. ArrayInv => EntriesInTable
  BY ArrayShows DEF EntriesInTable
<1> QED
  BY <1>1, ArrayHolds, PTL

\* Entries stay in the order they were added in.
THEOREM ArrayOrder == Spec => []OrderKept
<1>1. ArrayInv => OrderKept
  BY ArrayShows DEF OrderKept
<1> QED
  BY <1>1, ArrayHolds, PTL

\* The next free element follows the largest integer key.
THEOREM ArrayNextFree == Spec => []NextFreeExact
<1>1. ArrayInv => NextFreeExact
  BY ArrayShows DEF NextFreeExact
<1> QED
  BY <1>1, ArrayHolds, PTL

\* Find-or-add is find-or-insert of a map.
THEOREM ArrayInterns == Spec => EntriesIntern
<1>1. Init => Array!Map!Init
  <2>1. Array!Init => PairsIn(ht.arData) = {} /\ answer = << >>
    BY DEF Array!Init, PairsIn, SetIn
  <2> QED
    BY <2>1 DEF Init, Array!Map!Init, Array!Entries, PairsIn, SetIn
<1>2. ArrayInv /\ [Next]_vars => [Array!Map!Next]_(Array!Map!vars)
  BY FillSteps, ArraySteps, ArrayStays
<1> QED
  BY <1>1, <1>2, ArrayHolds, PTL DEF Spec, EntriesIntern, Array!EntriesIntern, Array!Map!Spec

(***************************************************************************)
(* The bytes.  How wide a number is, and what its digits say.              *)
(***************************************************************************)
LEMMA BytesAssumed ==
  /\ Base \in Nat /\ Base > 1 /\ Capacity \in Nat /\ Capacity >= 4
  /\ StringsCapacity \in Nat \ {0} /\ \A e \in Elements : Stream!HasWidth(e)
<1>1. Stream!BytesAssumption
  BY StorageAssumption
<1>2. Len(Stream!Header) = 4
  BY DEF Stream!Header
<1> QED
  BY <1>1, <1>2 DEF Stream!BytesAssumption

LEMMA PowerIs ==
  /\ Stream!Power \in [0..8 -> Nat \ {0}] /\ Stream!Power[0] = 1
  /\ \A n \in 1..8 : Stream!Power[n] = Base * Stream!Power[n - 1]
<1> DEFINE step == [p \in Nat \X (Nat \ {0}) |-> Base * p[2]]
           body(f) == [n \in 0..8 |-> IF n = 0 THEN 1 ELSE Base * f[n - 1]]
           power == CHOOSE f : f = body(f)
<1>1. step \in [Nat \X (Nat \ {0}) -> Nat \ {0}]
  <2>1. \A x, y \in Nat \ {0} : x * y \in Nat \ {0}
    OBVIOUS
  <2>2. Base \in Nat \ {0}
    BY BytesAssumed
  <2> SUFFICES ASSUME NEW p \in Nat \X (Nat \ {0}) PROVE Base * p[2] \in Nat \ {0}
    OBVIOUS
  <2>3. p[2] \in Nat \ {0}
    OBVIOUS
  <2> QED
    BY <2>1, <2>2, <2>3
<1>2. PICK g : Iterated(g, Nat \ {0}, 1, step, 8)
  <2> DEFINE S == Nat \ {0}
  <2>1. step \in [Nat \X S -> S] /\ 1 \in S
    BY <1>1
  <2> HIDE DEF step, S
  <2>2. \E g : Iterated(g, S, 1, step, 8)
    BY <2>1, Iterates
  <2> QED
    BY <2>2 DEF S
<1>3. g \in [0..8 -> Nat \ {0}] /\ g[0] = 1 /\ \A n \in 1..8 : g[n] = Base * g[n - 1]
  <2>1. g \in [0..8 -> Nat \ {0}] /\ g[0] = 1 /\ \A n \in 1..8 : g[n] = step[<< n, g[n - 1] >>]
    <3> HIDE DEF step
    <3> QED
      BY <1>2 DEF Iterated
  <2> SUFFICES ASSUME NEW n \in 1..8 PROVE g[n] = Base * g[n - 1]
    BY <2>1
  <2>2. << n, g[n - 1] >> \in Nat \X (Nat \ {0})
    BY <2>1
  <2> QED
    BY <2>1, <2>2
<1>4. g = body(g)
  BY <1>3
<1>5. power = body(power)
  <2> HIDE DEF body
  <2> QED
    BY <1>4, Zenon
<1>6. \A n \in 1..8 : n - 1 \in 0..8 /\ n \in 0..8 /\ n # 0
  OBVIOUS
<1>7. /\ DOMAIN power = 0..8 /\ power[0] = 1
      /\ \A n \in 1..8 : power[n] = Base * power[n - 1]
  <2> HIDE DEF power
  <2> QED
    BY <1>5, <1>6
<1>8. \A n \in 0..8 : power[n] = g[n]
  <2> HIDE DEF power
  <2>1. power[0] = g[0]
    BY <1>3, <1>7
  <2>2. \A n \in 1..8 : power[n - 1] = g[n - 1] => power[n] = g[n]
    BY <1>3, <1>7
  <2>3. power[1] = g[1] /\ power[2] = g[2]
    BY <2>1, <2>2
  <2>4. power[3] = g[3] /\ power[4] = g[4]
    BY <2>3, <2>2
  <2>5. power[5] = g[5] /\ power[6] = g[6]
    BY <2>4, <2>2
  <2>6. power[7] = g[7] /\ power[8] = g[8]
    BY <2>5, <2>2
  <2>7. \A n \in 0..8 : n \in {0, 1, 2, 3, 4, 5, 6, 7, 8}
    OBVIOUS
  <2> QED
    BY <2>1, <2>3, <2>4, <2>5, <2>6, <2>7
<1>9. Stream!Power = power
  BY Zenon DEF Stream!Power
<1>10. power = g
  <2> HIDE DEF power
  <2> QED
    BY <1>5, <1>7, <1>8, <1>3
<1> HIDE DEF power
<1> QED
  BY <1>3, <1>9, <1>10

\* the digits of a number, taken up again from the first, give the number
LEMMA DigitsUp ==
  ASSUME NEW n \in Nat, NEW w \in 1..8, n < Stream!Power[w]
  PROVE  /\ n \div Stream!Power[w] = 0 /\ n \div Stream!Power[0] = n
         /\ \A i \in 0..w : n \div Stream!Power[w - i] \in Nat
         /\ \A i \in 1..w : /\ (n \div Stream!Power[w - i]) % Base \in 0..(Base - 1)
                            /\ n \div Stream!Power[w - i]
                                 = ((n \div Stream!Power[w - (i - 1)]) * Base)
                                    + ((n \div Stream!Power[w - i]) % Base)
<1>1. \A c \in Nat \ {0} : n \div c \in Nat /\ (n < c => n \div c = 0) /\ n \div 1 = n
  OBVIOUS
<1>2. \A i \in 0..w : w - i \in 0..8 /\ Stream!Power[w - i] \in Nat \ {0}
  BY PowerIs
<1>3. ASSUME NEW i \in 1..w
      PROVE  /\ (n \div Stream!Power[w - i]) % Base \in 0..(Base - 1)
             /\ n \div Stream!Power[w - i]
                  = ((n \div Stream!Power[w - (i - 1)]) * Base)
                     + ((n \div Stream!Power[w - i]) % Base)
  <2> DEFINE c == Stream!Power[w - i]
             m == n \div c
  <2>1. w - i \in 0..7 /\ w - (i - 1) \in 1..8 /\ (w - (i - 1)) - 1 = w - i
    OBVIOUS
  <2>2. Stream!Power[w - (i - 1)] = Base * c /\ c \in Nat \ {0}
    BY <2>1, PowerIs
  <2>3. m \in Nat
    BY <2>2, <1>1
  <2>4. n \div (Base * c) = m \div Base
    <3>1. \A b, d \in Nat \ {0} : n \div (b * d) = (n \div d) \div b
      <4> SUFFICES ASSUME NEW b \in Nat \ {0}, NEW d \in Nat \ {0}
                   PROVE  n \div (b * d) = (n \div d) \div b
        OBVIOUS
      <4> QED
        OBVIOUS
    <3>2. Base \in Nat \ {0} /\ c \in Nat \ {0}
      BY <2>2, BytesAssumed
    <3> HIDE DEF c
    <3> QED
      BY <3>1, <3>2, Zenon
  <2>5. m = ((m \div Base) * Base) + (m % Base) /\ m % Base \in 0..(Base - 1)
    <3> HIDE DEF m
    <3>1. \A b \in Nat \ {0} : m = ((m \div b) * b) + (m % b) /\ m % b \in 0..(b - 1)
      BY <2>3
    <3> QED
      BY <3>1, BytesAssumed
  <2> QED
    BY <2>2, <2>4, <2>5
<1> QED
  BY <1>1, <1>2, <1>3, PowerIs

\* what NumberAt reads where the digits of n are is n
LEMMA NumberIs ==
  ASSUME NEW n \in Nat, NEW w \in 1..8, n < Stream!Power[w], NEW p \in Nat,
         \A i \in 1..w : Stream!At(p + i - 1) = Stream!Byte((n \div Stream!Power[w - i]) % Base)
  PROVE  Stream!NumberAt(p, w) = n
<1> DEFINE body(f) == [i \in 0..w |-> IF i = 0 THEN 0
                                      ELSE f[i - 1] * Base + Stream!At(p + i - 1)[2]]
           value == CHOOSE f : f = body(f)
           g == [i \in 0..w |-> n \div Stream!Power[w - i]]
<1>1. \A i \in 1..w : Stream!At(p + i - 1)[2] = (n \div Stream!Power[w - i]) % Base
  BY DEF Stream!Byte
<1>2. \A i \in 0..w : (i = 0 => g[i] = 0) /\ (i # 0 => g[i] = g[i - 1] * Base + Stream!At(p + i - 1)[2])
  <2> SUFFICES ASSUME NEW i \in 0..w
               PROVE  (i = 0 => g[i] = 0) /\ (i # 0 => g[i] = g[i - 1] * Base + Stream!At(p + i - 1)[2])
    OBVIOUS
  <2>1. i = 0 => g[i] = 0
    <3>1. w - 0 = w
      OBVIOUS
    <3> QED
      BY <3>1, DigitsUp
  <2>2. ASSUME i # 0 PROVE g[i] = g[i - 1] * Base + Stream!At(p + i - 1)[2]
    <3>1. i \in 1..w /\ i - 1 \in 0..w
      BY <2>2
    <3>2. /\ g[i] = n \div Stream!Power[w - i]
          /\ g[i - 1] = n \div Stream!Power[w - (i - 1)]
      BY <3>1
    <3> HIDE DEF g
    <3>3. n \div Stream!Power[w - i] = ((n \div Stream!Power[w - (i - 1)]) * Base)
                                         + ((n \div Stream!Power[w - i]) % Base)
      BY <3>1, DigitsUp
    <3> QED
      BY <3>1, <3>2, <3>3, <1>1
  <2> QED
    BY <2>1, <2>2
<1>3. g = body(g)
  <2> HIDE DEF g
  <2>1. g = [i \in 0..w |-> g[i]]
    BY DEF g
  <2> QED
    BY <1>2, <2>1
<1>4. value = body(value)
  <2> HIDE DEF body, g
  <2> QED
    BY <1>3, Zenon
<1>5. DOMAIN value = 0..w /\ value[0] = 0
      /\ \A i \in 1..w : value[i] = value[i - 1] * Base + Stream!At(p + i - 1)[2]
  <2> HIDE DEF value
  <2> QED
    BY <1>4
<1>6. \A i \in 0..w : value[i] = g[i]
  <2> DEFINE Bad == {i \in 0..w : value[i] # g[i]}
  <2> HIDE DEF value, g
  <2>1. SUFFICES ASSUME Bad # {} PROVE FALSE
    OBVIOUS
  <2>2. PICK i \in Bad : \A j \in Bad : i <= j
    <3>1. Bad \subseteq Nat
      OBVIOUS
    <3> HIDE DEF Bad
    <3> QED
      BY <2>1, <3>1, Least
  <2>3. i # 0 /\ i \in 1..w
    BY <1>5, <1>2, <2>2
  <2>4. i - 1 \in 0..w /\ value[i - 1] = g[i - 1]
    BY <2>2, <2>3
  <2> QED
    BY <2>2, <2>3, <2>4, <1>5, <1>2
<1>7. g[w] = n
  <2>1. w - w = 0 /\ w \in 0..w
    OBVIOUS
  <2> QED
    BY <2>1, DigitsUp
<1>8. Stream!NumberAt(p, w) = value[w]
  BY Zenon DEF Stream!NumberAt
<1> HIDE DEF value, g
<1> QED
  BY <1>6, <1>7, <1>8

\* igbinary_raise_capacity leaves room for more than size
LEMMA RaisedOver ==
  ASSUME NEW capacity \in Nat \ {0}, NEW size \in Nat \ {0}
  PROVE  Stream!Raised(capacity, size) \in Nat /\ size < Stream!Raised(capacity, size)
<1> DEFINE P == Nat \ {0}
           step == [p \in Nat \X P |-> 2 * p[2]]
           body(f) == [j \in 0..size |-> IF j = 0 THEN capacity ELSE 2 * f[j - 1]]
           doubled == CHOOSE f : f = body(f)
           Enough(j) == size < doubled[j]
           First(j) == Enough(j) /\ \A i \in 1..(j - 1) : size >= doubled[i]
<1>1. step \in [Nat \X P -> P]
  OBVIOUS
<1>2. PICK g : Iterated(g, P, capacity, step, size)
  <2>1. size \in Nat /\ capacity \in P
    OBVIOUS
  <2> HIDE DEF step, P
  <2> QED
    BY <1>1, <2>1, Iterates
<1>3. g \in [0..size -> P] /\ g[0] = capacity /\ \A n \in 1..size : g[n] = 2 * g[n - 1]
  <2>1. g \in [0..size -> P] /\ g[0] = capacity /\ \A n \in 1..size : g[n] = step[<< n, g[n - 1] >>]
    <3> HIDE DEF step, P
    <3> QED
      BY <1>2 DEF Iterated
  <2> SUFFICES ASSUME NEW n \in 1..size PROVE g[n] = 2 * g[n - 1]
    BY <2>1
  <2>2. << n, g[n - 1] >> \in Nat \X P
    BY <2>1
  <2> QED
    BY <2>1, <2>2
<1>4. g = body(g)
  BY <1>3
<1>5. doubled = body(doubled)
  <2> HIDE DEF body
  <2> QED
    BY <1>4, Zenon
<1>6. doubled[0] = capacity /\ \A n \in 1..size : doubled[n] = 2 * doubled[n - 1]
  <2> HIDE DEF doubled
  <2> QED
    BY <1>5
<1>7. \A j \in 0..size : doubled[j] \in Nat /\ doubled[j] > j
  <2> DEFINE Bad == {j \in 0..size : ~(doubled[j] \in Nat /\ doubled[j] > j)}
  <2> HIDE DEF doubled
  <2>1. SUFFICES ASSUME Bad # {} PROVE FALSE
    OBVIOUS
  <2>2. PICK j \in Bad : \A i \in Bad : j <= i
    <3>1. Bad \subseteq Nat
      OBVIOUS
    <3> HIDE DEF Bad
    <3> QED
      BY <2>1, <3>1, Least
  <2>3. j \in 1..size
    BY <1>6, <2>2
  <2>4. j - 1 \in 0..size /\ doubled[j - 1] \in Nat /\ doubled[j - 1] > j - 1
    BY <2>2, <2>3
  <2> QED
    BY <2>2, <2>3, <2>4, <1>6
<1>8. \E j \in 1..size : First(j)
  <2> DEFINE S == {j \in 1..size : Enough(j)}
  <2>1. S \subseteq Nat /\ size \in S
    <3> HIDE DEF doubled
    <3> QED
      BY <1>7
  <2>2. PICK j \in S : \A i \in S : j <= i
    <3> HIDE DEF S
    <3> QED
      BY <2>1, Least
  <2> HIDE DEF doubled
  <2>3. \A i \in 1..(j - 1) : i \in 1..size /\ ~Enough(i)
    BY <2>2
  <2> QED
    BY <2>2, <2>3, <1>7
<1>9. Stream!Raised(capacity, size) = doubled[CHOOSE j \in 1..size : First(j)]
  BY Zenon DEF Stream!Raised
<1> DEFINE k == CHOOSE j \in 1..size : First(j)
<1>10. k \in 1..size /\ First(k)
  <2> HIDE DEF First
  <2> QED
    BY <1>8, Zenon
<1> HIDE DEF k, doubled
<1> QED
  BY <1>7, <1>9, <1>10 DEF k

(***************************************************************************)
(* What an element is written as: in one chunk or in two, each no longer   *)
(* than the room it asks for.                                              *)
(***************************************************************************)
Tags   == Stream!Plains \cup Stream!Numbers \cup Stream!Texts
          \cup {"byte", "version", "string_empty", "long_p", "long_n", "double"}
Cells  == Tags \X Nat
Widths == {1, 2, 4, 8}
Longer == {"long_p", "long_n"}
Coded(k, w, n) == << Stream!Type(k, w) >> \o Stream!Digits(n, w)

CodesPlain(c, e) ==
    \/ \E k \in Stream!Plains : e = Stream!Plain(k) /\ c = << Stream!Type(k, 0) >>
    \/ e = Stream!Text("string", 0) /\ c = << Stream!Type("string_empty", 0) >>
CodesNumber(c, e, k, w, n) ==
    /\ k \in Stream!Numbers \cup Longer \cup {"double"}
    /\ w \in Widths /\ n \in Nat /\ n < Stream!Power[w]
    /\ e = IF k \in Longer THEN Stream!LongOf(k, w, n) ELSE Stream!Number(k, n)
    /\ c = Coded(k, w, n)
CodesText(c, e, k, w, t) ==
    /\ k \in Stream!Texts /\ w \in Widths
    /\ t \in Seq(Cells) /\ Len(t) < Stream!Power[w]
    /\ e = [kind |-> k, v |-> t]
    /\ c = Coded(k, w, Len(t)) \o t
Codes(c, e) ==
    /\ c \in Seq(Cells)
    /\ \/ CodesPlain(c, e)
       \/ \E k, w, n : CodesNumber(c, e, k, w, n)
       \/ \E k, w, t : CodesText(c, e, k, w, t)

Chunks == [room : Nat, bytes : Seq(Cells)]
\* what chunks come to
BytesOf(cs) == IF Len(cs) = 0 THEN << >> ELSE IF Len(cs) = 1 THEN cs[1].bytes
               ELSE cs[1].bytes \o cs[2].bytes
AreChunks(cs) == /\ cs \in Seq(Chunks) /\ Len(cs) <= 2
                 /\ \A i \in 1..Len(cs) : Len(cs[i].bytes) <= cs[i].room

LEMMA WidthIs ==
  ASSUME NEW n \in Nat, n < Stream!Power[8]
  PROVE  Stream!Width(n) \in Widths /\ n < Stream!Power[Stream!Width(n)]
BY PowerIs DEF Stream!Width, Stream!Fits, Widths

LEMMA Joined ==
  ASSUME NEW S, NEW s \in Seq(S), NEW t \in Seq(S)
  PROVE  /\ s \o t \in Seq(S) /\ Len(s \o t) = Len(s) + Len(t)
         /\ \A i \in 1..Len(s) : (s \o t)[i] = s[i]
         /\ \A i \in 1..Len(t) : (s \o t)[Len(s) + i] = t[i]
OBVIOUS

LEMMA TagIs ==
  /\ {"byte", "version", "string_empty", "long_p", "long_n", "double"} \subseteq Tags
  /\ Stream!Plains \subseteq Tags /\ Stream!Numbers \subseteq Tags /\ Stream!Texts \subseteq Tags
BY DEF Tags

LEMMA CellIs ==
  /\ \A d \in Nat : Stream!Byte(d) \in Cells
  /\ \A k \in Tags, w \in Nat : Stream!Type(k, w) \in Cells
<1> "byte" \in Tags
  BY TagIs
<1> QED
  BY DEF Stream!Byte, Stream!Type, Cells

LEMMA DigitsAre ==
  ASSUME NEW n \in Nat, NEW w \in Widths, n < Stream!Power[w]
  PROVE  /\ Stream!Digits(n, w) \in Seq(Cells) /\ Len(Stream!Digits(n, w)) = w
         /\ \A i \in 1..w : Stream!Digits(n, w)[i]
                              = Stream!Byte((n \div Stream!Power[w - i]) % Base)
<1>1. w \in 1..8
  BY DEF Widths
<1>2. ASSUME NEW i \in 1..w PROVE Stream!Byte((n \div Stream!Power[w - i]) % Base) \in Cells
  <2>1. (n \div Stream!Power[w - i]) % Base \in 0..(Base - 1)
    BY <1>1, DigitsUp
  <2>2. 0..(Base - 1) \subseteq Nat
    BY BytesAssumed
  <2> QED
    BY <2>1, <2>2, CellIs
<1> QED
  BY <1>1, <1>2 DEF Stream!Digits

LEMMA CodedIs ==
  ASSUME NEW k \in Tags, NEW w \in Widths, NEW n \in Nat, n < Stream!Power[w]
  PROVE  /\ Coded(k, w, n) \in Seq(Cells) /\ Len(Coded(k, w, n)) = w + 1
         /\ Coded(k, w, n)[1] = Stream!Type(k, w)
         /\ \A i \in 1..w : Coded(k, w, n)[1 + i]
                              = Stream!Byte((n \div Stream!Power[w - i]) % Base)
<1> DEFINE s == << Stream!Type(k, w) >>
           t == Stream!Digits(n, w)
<1>1. w \in Nat
  BY DEF Widths
<1>2. s \in Seq(Cells) /\ Len(s) = 1 /\ s[1] = Stream!Type(k, w)
  BY <1>1, CellIs
<1>3. t \in Seq(Cells) /\ Len(t) = w
      /\ \A i \in 1..w : t[i] = Stream!Byte((n \div Stream!Power[w - i]) % Base)
  BY DigitsAre
<1>4. Coded(k, w, n) = s \o t
  BY DEF Coded
<1> HIDE DEF s, t
<1>5. /\ s \o t \in Seq(Cells) /\ Len(s \o t) = 1 + w
      /\ (s \o t)[1] = s[1] /\ \A i \in 1..w : (s \o t)[1 + i] = t[i]
  <2>1. /\ s \o t \in Seq(Cells) /\ Len(s \o t) = Len(s) + Len(t)
        /\ \A i \in 1..Len(s) : (s \o t)[i] = s[i]
        /\ \A i \in 1..Len(t) : (s \o t)[Len(s) + i] = t[i]
    <3>1. s \in Seq(Cells) /\ t \in Seq(Cells)
      BY <1>2, <1>3
    <3> QED
      BY <3>1
  <2> QED
    BY <1>2, <1>3, <2>1
<1> QED
  BY <1>1, <1>2, <1>3, <1>4, <1>5

Written(e) ==
    /\ AreChunks(Stream!ChunksOf(e)) /\ Stream!ChunksOf(e) # << >>
    /\ Codes(BytesOf(Stream!ChunksOf(e)), e)

LEMMA OneChunk ==
  ASSUME NEW e, NEW n \in Nat, NEW c \in Seq(Cells), Len(c) <= n, Codes(c, e),
         Stream!ChunksOf(e) = << Stream!Chunk(n, c) >>
  PROVE  Written(e)
<1> DEFINE d == Stream!Chunk(n, c)
<1>1. d \in Chunks /\ d.bytes = c /\ d.room = n
  BY DEF Stream!Chunk, Chunks
<1> HIDE DEF d
<1>2. << d >> \in Seq(Chunks) /\ Len(<< d >>) = 1 /\ << d >>[1] = d /\ << d >> # << >>
  BY <1>1
<1>3. AreChunks(<< d >>)
  BY <1>1, <1>2 DEF AreChunks
<1>4. BytesOf(<< d >>) = c
  BY <1>1, <1>2 DEF BytesOf
<1> QED
  BY <1>2, <1>3, <1>4 DEF Written, d

LEMMA TwoChunks ==
  ASSUME NEW e, NEW n \in Nat, NEW c \in Seq(Cells), Len(c) <= n,
         NEW m \in Nat, NEW t \in Seq(Cells), Len(t) <= m, Codes(c \o t, e),
         Stream!ChunksOf(e) = << Stream!Chunk(n, c), Stream!Chunk(m, t) >>
  PROVE  Written(e)
<1> DEFINE d == Stream!Chunk(n, c)
           f == Stream!Chunk(m, t)
<1>1. d \in Chunks /\ d.bytes = c /\ d.room = n /\ f \in Chunks /\ f.bytes = t /\ f.room = m
  BY DEF Stream!Chunk, Chunks
<1> HIDE DEF d, f
<1>2. /\ << d, f >> \in Seq(Chunks) /\ Len(<< d, f >>) = 2
      /\ << d, f >>[1] = d /\ << d, f >>[2] = f /\ << d, f >> # << >>
  BY <1>1
<1>3. AreChunks(<< d, f >>)
  BY <1>1, <1>2 DEF AreChunks
<1>4. BytesOf(<< d, f >>) = c \o t
  <2> DEFINE q == << d, f >>
  <2>1. Len(q) = 2 /\ q[1].bytes = c /\ q[2].bytes = t
    BY <1>1, <1>2
  <2> HIDE DEF q
  <2>2. BytesOf(q) = q[1].bytes \o q[2].bytes
    BY <2>1 DEF BytesOf
  <2> QED
    BY <2>1, <2>2 DEF q
<1> QED
  BY <1>2, <1>3, <1>4 DEF Written, d, f

LEMMA PlainWritten ==
  ASSUME NEW k \in Stream!Plains
  PROVE  Written(Stream!Plain(k))
<1> DEFINE e == Stream!Plain(k)
           c == << Stream!Type(k, 0) >>
<1>1. c \in Seq(Cells) /\ Len(c) <= 1
  BY CellIs, TagIs
<1>2. e.kind = k
  BY DEF Stream!Plain
<1>3. Stream!ChunksOf(e) = << Stream!Chunk(1, c) >>
  <2> HIDE DEF e
  <2> QED
    BY <1>2 DEF Stream!ChunksOf, Stream!Plains, Stream!Numbers
<1>4. Codes(c, e)
  <2> HIDE DEF c
  <2> QED
    BY <1>1 DEF Codes, CodesPlain, c
<1> HIDE DEF c, e
<1> QED
  BY <1>1, <1>3, <1>4, OneChunk DEF e

LEMMA SizedWritten ==
  ASSUME NEW e, NEW k \in Tags, NEW w \in Widths, NEW n \in Nat, n < Stream!Power[w],
         CodesNumber(Coded(k, w, n), e, k, w, n),
         Stream!ChunksOf(e) = << Stream!Sized(k, w, n) >>
  PROVE  Written(e)
<1> DEFINE c == Coded(k, w, n)
<1>1. c \in Seq(Cells) /\ Len(c) <= w + 1 /\ w + 1 \in Nat
  <2>1. c \in Seq(Cells) /\ Len(c) = w + 1
    BY CodedIs
  <2> HIDE DEF c
  <2> QED
    BY <2>1 DEF Widths
<1>2. Stream!Sized(k, w, n) = Stream!Chunk(w + 1, c)
  BY DEF Stream!Sized, Coded
<1>3. Codes(c, e)
  <2> HIDE DEF c
  <2>1. CodesNumber(c, e, k, w, n)
    BY DEF c
  <2> QED
    BY <1>1, <2>1 DEF Codes
<1> HIDE DEF c
<1> QED
  BY <1>1, <1>2, <1>3, OneChunk

LEMMA HalfIs ==
  /\ Stream!Power[8] \in Nat \ {0} /\ Stream!Power[8] \div 2 \in Nat
  /\ Stream!Power[8] \div 2 < Stream!Power[8]
BY PowerIs

LEMMA LongWritten ==
  ASSUME NEW l \in -(Stream!Power[8] \div 2)..(Stream!Power[8] \div 2 - 1)
  PROVE  Written(Stream!Long(l))
<1> DEFINE e == Stream!Long(l)
           k == IF l >= 0 THEN "long_p" ELSE "long_n"
           n == IF l >= 0 THEN l ELSE -l
           w == Stream!Width(n)
           half == Stream!Power[8] \div 2
<1>1. half \in Nat /\ half < Stream!Power[8] /\ l \in Int /\ -half <= l /\ l < half
  BY HalfIs
<1>2. /\ n \in Nat /\ n <= half /\ n < Stream!Power[8]
      /\ (l >= 0 => n < half /\ n = l) /\ (l < 0 => -n = l)
  <2> HIDE DEF half
  <2> QED
    BY <1>1, HalfIs
<1>3. k \in Tags /\ k \in Longer /\ (l >= 0 => k = "long_p") /\ (l < 0 => k = "long_n")
  BY <1>1, TagIs DEF Longer
<1>4. w \in Widths /\ n < Stream!Power[w]
  <2> HIDE DEF n
  <2> QED
    BY <1>2, WidthIs
<1>5. e.kind = "long" /\ e.v[1][2] = l
  BY DEF Stream!Long, Stream!Number
<1>6. Stream!ChunksOf(e) = << Stream!Sized(k, w, n) >>
  <2>1. Stream!ChunksOf(e) = Stream!SerializeLong(e.v[1][2])
    <3> HIDE DEF e
    <3> QED
      BY <1>5 DEF Stream!ChunksOf, Stream!Plains, Stream!Numbers
  <2> QED
    BY <2>1, <1>5 DEF Stream!SerializeLong
<1> HIDE DEF k, n, w
<1>7. Stream!LongOf(k, w, n) = e
  <2> DEFINE m == IF w = 8 /\ n >= half /\ (n > half \/ k = "long_p") THEN 0 ELSE n
  <2>1. Stream!LongOf(k, w, n) = Stream!Long(IF k = "long_p" THEN m ELSE -m)
    BY DEF Stream!LongOf
  <2>2. m = n
    <3> HIDE DEF half
    <3> QED
      BY <1>1, <1>2, <1>3
  <2>3. (IF k = "long_p" THEN m ELSE -m) = l
    <3> HIDE DEF m, half
    <3> QED
      BY <1>1, <1>2, <1>3, <2>2
  <2> QED
    BY <2>1, <2>3
<1>8. CodesNumber(Coded(k, w, n), e, k, w, n)
  BY <1>2, <1>3, <1>4, <1>7 DEF CodesNumber
<1> HIDE DEF e
<1> QED
  BY <1>2, <1>3, <1>4, <1>6, <1>8, SizedWritten DEF e

LEMMA NumberWritten ==
  ASSUME NEW k \in Stream!Numbers \cup {"double"}, NEW n \in 0..(Stream!Power[8] - 1)
  PROVE  Written(Stream!Number(k, n))
<1> DEFINE e == Stream!Number(k, n)
           w == IF k = "double" THEN 8 ELSE Stream!Width(n)
<1>1. n \in Nat /\ n < Stream!Power[8]
  BY HalfIs
<1>2. w \in Widths /\ n < Stream!Power[w]
  BY <1>1, WidthIs DEF Widths
<1>3. k \in Tags /\ k \notin Longer /\ k \notin Stream!Plains /\ k # "long"
  BY TagIs DEF Stream!Numbers, Stream!Plains, Longer
<1>4. e.kind = k /\ e.v[1][2] = n
  BY DEF Stream!Number
<1>5. Stream!ChunksOf(e) = << Stream!Sized(k, w, n) >>
  <2> HIDE DEF e
  <2> QED
    BY <1>3, <1>4 DEF Stream!ChunksOf, Stream!SerializeNumber, Stream!Numbers
<1> HIDE DEF w
<1>6. CodesNumber(Coded(k, w, n), e, k, w, n)
  BY <1>1, <1>2, <1>3 DEF CodesNumber
<1> HIDE DEF e
<1> QED
  BY <1>1, <1>2, <1>3, <1>5, <1>6, SizedWritten DEF e

LEMMA TextWritten ==
  ASSUME NEW k \in Stream!Texts, NEW t \in Seq(Cells), Len(t) < Stream!Power[8]
  PROVE  Written([kind |-> k, v |-> t])
<1> DEFINE e == [kind |-> k, v |-> t]
           n == Len(t)
           w == Stream!Width(n)
           c == Coded(k, w, n)
<1>1. n \in Nat /\ w \in Widths /\ n < Stream!Power[w] /\ k \in Tags /\ w + 1 \in Nat
  <2>1. n \in Nat /\ k \in Tags
    BY TagIs
  <2>2. w \in Widths /\ n < Stream!Power[w]
    <3> HIDE DEF n
    <3> QED
      BY <2>1, WidthIs DEF n
  <2> HIDE DEF w, n
  <2> QED
    BY <2>1, <2>2 DEF Widths
<1>2. e.kind = k /\ e.v = t
  OBVIOUS
<1>3. /\ k \notin Stream!Plains /\ k \notin {"long", "double"} /\ k \notin Stream!Numbers
  BY DEF Stream!Texts, Stream!Plains, Stream!Numbers
<1> HIDE DEF e
<1>4. c \in Seq(Cells) /\ Len(c) = w + 1
  <2> HIDE DEF w, n
  <2> QED
    BY <1>1, CodedIs
<1>5. c \o t \in Seq(Cells) /\ Len(c \o t) = w + 1 + n
  <2>1. c \o t \in Seq(Cells) /\ Len(c \o t) = Len(c) + Len(t)
    <3> HIDE DEF c
    <3> QED
      BY <1>4, Joined
  <2> HIDE DEF c, w
  <2> QED
    BY <1>4, <2>1
<1>6. Codes(c \o t, e)
  <2>1. CodesText(c \o t, e, k, w, t)
    <3> HIDE DEF w
    <3> QED
      BY <1>1 DEF CodesText, e
  <2> HIDE DEF c, w, n
  <2> QED
    BY <1>5, <2>1 DEF Codes
<1>7. CASE k = "string" /\ t = << >>
  <2> DEFINE d == << Stream!Type("string_empty", 0) >>
  <2>1. d \in Seq(Cells) /\ Len(d) <= 1
    BY CellIs, TagIs
  <2>2. Stream!ChunksOf(e) = << Stream!Chunk(1, d) >>
    BY <1>2, <1>3, <1>7 DEF Stream!ChunksOf, Stream!SerializeString
  <2>3. e = Stream!Text("string", 0)
    BY <1>7 DEF Stream!Text, Stream!Body, e
  <2>4. Codes(d, e)
    <3> HIDE DEF d
    <3> QED
      BY <2>1, <2>3 DEF Codes, CodesPlain, d
  <2> HIDE DEF d
  <2> QED
    BY <2>1, <2>2, <2>4, OneChunk DEF e
<1>8. CASE k = "string" /\ t # << >>
  <2>1. Stream!ChunksOf(e) = Stream!SerializeString(t)
    BY <1>2, <1>3, <1>8 DEF Stream!ChunksOf
  <2>2. Stream!SerializeString(t) = << Stream!Chunk(n + w + 1, c \o t) >>
    BY <1>8 DEF Stream!SerializeString, Coded
  <2>3. n + w + 1 \in Nat /\ Len(c \o t) <= n + w + 1
    <3> HIDE DEF c, w, n
    <3> QED
      BY <1>1, <1>5 DEF Widths
  <2> DEFINE d == c \o t
             m == n + w + 1
  <2>4. d \in Seq(Cells) /\ Len(d) <= m /\ m \in Nat /\ Codes(d, e)
        /\ Stream!ChunksOf(e) = << Stream!Chunk(m, d) >>
    BY <2>1, <2>2, <2>3, <1>5, <1>6
  <2> HIDE DEF d, m
  <2> QED
    BY <2>4, OneChunk DEF e
<1>9. CASE k # "string"
  <2>1. k \in {"object", "object_ser"}
    BY <1>9 DEF Stream!Texts
  <2>2. Stream!ChunksOf(e) = Stream!SerializeName(k, t)
    BY <1>2, <1>3, <1>9, <2>1 DEF Stream!ChunksOf
  <2>3. Stream!SerializeName(k, t) = << Stream!Chunk(w + 1, c), Stream!Chunk(n, t) >>
    BY DEF Stream!SerializeName, Stream!Sized, Coded
  <2>4. Len(c) <= w + 1 /\ Len(t) <= n
    <3> HIDE DEF c, w
    <3> QED
      BY <1>1, <1>4
  <2> DEFINE m == w + 1
  <2>5. Len(c) <= m /\ m \in Nat /\ Stream!ChunksOf(e) = << Stream!Chunk(m, c), Stream!Chunk(n, t) >>
    BY <2>2, <2>3, <2>4, <1>1
  <2> HIDE DEF m, c, n
  <2> QED
    BY <2>4, <2>5, <1>1, <1>4, <1>6, TwoChunks DEF e
<1> QED
  BY <1>7, <1>8, <1>9 DEF e

LEMMA ElementsWritten ==
  ASSUME NEW e \in Elements
  PROVE  Written(e)
<1>1. Stream!HasWidth(e)
  BY BytesAssumed
<1>2. CASE \E k \in Stream!Plains : e = Stream!Plain(k)
  BY <1>2, PlainWritten
<1>3. CASE \E l \in -(Stream!Power[8] \div 2)..(Stream!Power[8] \div 2 - 1) : e = Stream!Long(l)
  BY <1>3, LongWritten
<1>4. CASE \E k \in Stream!Numbers \cup {"double"}, n \in 0..(Stream!Power[8] - 1) :
              e = Stream!Number(k, n)
  BY <1>4, NumberWritten
<1>5. ASSUME NEW k \in Stream!Texts, e = [kind |-> k, v |-> e.v],
             e.v \in Seq({Stream!Byte(d) : d \in 0..(Base - 1)}), Len(e.v) < Stream!Power[8]
      PROVE  Written(e)
  <2>1. {Stream!Byte(d) : d \in 0..(Base - 1)} \subseteq Cells
    BY CellIs, BytesAssumed
  <2>2. e.v \in Seq(Cells)
    BY <2>1, <1>5
  <2> DEFINE t == e.v
  <2>3. t \in Seq(Cells) /\ Len(t) < Stream!Power[8] /\ e = [kind |-> k, v |-> t]
    BY <2>2, <1>5
  <2> HIDE DEF t
  <2> QED
    BY <2>3, TextWritten
<1> QED
  BY <1>1, <1>2, <1>3, <1>4, <1>5 DEF Stream!HasWidth

(***************************************************************************)
(* Reading what was written.  c lies ahead of the reader as far as there   *)
(* is input.                                                               *)
(***************************************************************************)
Ahead(c) == /\ input \in Seq(Cells) /\ pos \in Nat /\ pos < Len(input)
            /\ \A j \in 1..Len(c) : pos + j <= Len(input) => input[pos + j] = c[j]

LEMMA NextCell ==
  ASSUME NEW c, Ahead(c), NEW j \in 1..Len(c), Len(c) \in Nat, pos + j <= Len(input)
  PROVE  Stream!At(pos + j - 1) = c[j] /\ Stream!At(pos + (j - 1)) = c[j]
<1>1. pos + j - 1 < Len(input) /\ (pos + j - 1) + 1 = pos + j /\ pos + (j - 1) = pos + j - 1
  BY DEF Ahead
<1> QED
  BY <1>1 DEF Stream!At, Ahead

LEMMA FirstCell ==
  ASSUME NEW c, Ahead(c), Len(c) \in Nat \ {0}, NEW k, NEW w, c[1] = Stream!Type(k, w)
  PROVE  Stream!Kind = k /\ Stream!Wide = w
<1>1. pos + 1 - 1 = pos /\ 1 \in 1..Len(c) /\ pos + 1 <= Len(input)
  BY DEF Ahead
<1>2. Stream!At(pos) = c[1]
  BY <1>1, NextCell
<1> QED
  BY <1>2 DEF Stream!Kind, Stream!Wide, Stream!Type

LEMMA PlainRead ==
  ASSUME NEW c, NEW e, CodesPlain(c, e), Ahead(c)
  PROVE  /\ Len(c) = 1 /\ Stream!Kind \in Stream!Plains \cup {"string_empty"}
         /\ e = IF Stream!Kind = "string_empty" THEN Stream!Text("string", 0)
                ELSE Stream!Plain(Stream!Kind)
<1>1. CASE \E k \in Stream!Plains : e = Stream!Plain(k) /\ c = << Stream!Type(k, 0) >>
  <2>1. PICK k \in Stream!Plains : e = Stream!Plain(k) /\ c = << Stream!Type(k, 0) >>
    BY <1>1
  <2>2. Len(c) = 1 /\ c[1] = Stream!Type(k, 0)
    BY <2>1
  <2>3. Stream!Kind = k /\ Stream!Wide = 0
    BY <2>2, FirstCell
  <2>4. k # "string_empty"
    BY DEF Stream!Plains
  <2> QED
    BY <2>1, <2>2, <2>3, <2>4
<1>2. CASE e = Stream!Text("string", 0) /\ c = << Stream!Type("string_empty", 0) >>
  <2>1. Len(c) = 1 /\ c[1] = Stream!Type("string_empty", 0)
    BY <1>2
  <2>2. Stream!Kind = "string_empty"
    BY <2>1, FirstCell
  <2> QED
    BY <1>2, <2>1, <2>2
<1> QED
  BY <1>1, <1>2 DEF CodesPlain

\* the type and the number that follows it, at the width it gives
LEMMA CodedRead ==
  ASSUME NEW c, Ahead(c), NEW k \in Tags, NEW w \in Widths, NEW n \in Nat, n < Stream!Power[w],
         Len(c) \in Nat, Len(c) >= w + 1, \A j \in 1..(w + 1) : c[j] = Coded(k, w, n)[j]
  PROVE  /\ Stream!Kind = k /\ Stream!Wide = w
         /\ Stream!NeedsNumber(pos + 1, w) <=> Len(input) < pos + 1 + w
         /\ ~Stream!NeedsNumber(pos + 1, w) => Stream!NumberAt(pos + 1, w) = n
<1>1. w \in 1..8
  BY DEF Widths
<1>2. /\ c[1] = Stream!Type(k, w)
      /\ \A i \in 1..w : c[1 + i] = Stream!Byte((n \div Stream!Power[w - i]) % Base)
  <2>1. /\ Coded(k, w, n)[1] = Stream!Type(k, w)
        /\ \A i \in 1..w : Coded(k, w, n)[1 + i]
                             = Stream!Byte((n \div Stream!Power[w - i]) % Base)
    BY CodedIs
  <2>2. 1 \in 1..(w + 1) /\ \A i \in 1..w : 1 + i \in 1..(w + 1)
    BY <1>1
  <2> QED
    BY <2>1, <2>2
<1>3. Stream!Kind = k /\ Stream!Wide = w
  <2>1. Len(c) \in Nat \ {0}
    BY <1>1
  <2> QED
    BY <1>2, <2>1, FirstCell
<1>4. Stream!NeedsNumber(pos + 1, w) <=> Len(input) < pos + 1 + w
  <2>1. pos \in Nat /\ Len(input) \in Nat
    BY DEF Ahead
  <2> QED
    BY <1>1, <2>1 DEF Stream!NeedsNumber, Stream!NeedsMoreData
<1>5. ASSUME ~Stream!NeedsNumber(pos + 1, w)
      PROVE  \A i \in 1..w : Stream!At((pos + 1) + i - 1) = Stream!Byte((n \div Stream!Power[w - i]) % Base)
  <2> SUFFICES ASSUME NEW i \in 1..w
               PROVE  Stream!At((pos + 1) + i - 1) = Stream!Byte((n \div Stream!Power[w - i]) % Base)
    OBVIOUS
  <2>1. pos \in Nat /\ Len(input) \in Nat
    BY DEF Ahead
  <2>2. /\ 1 + i \in 1..Len(c) /\ pos + (1 + i) <= Len(input)
        /\ pos + (1 + i) - 1 = (pos + 1) + i - 1
    BY <1>1, <1>4, <1>5, <2>1
  <2>3. Stream!At(pos + (1 + i) - 1) = c[1 + i]
    BY <2>2, NextCell
  <2> QED
    BY <2>2, <2>3, <1>2
<1>6. pos + 1 \in Nat
  BY DEF Ahead
<1> QED
  BY <1>1, <1>3, <1>4, <1>5, <1>6, NumberIs

LEMMA NumberRead ==
  ASSUME NEW c, NEW e, NEW k, NEW w, NEW n, CodesNumber(c, e, k, w, n), Ahead(c)
  PROVE  /\ Stream!Kind = k /\ Stream!Wide = w /\ w \in Nat /\ Len(c) = 1 + w
         /\ k \in Stream!Numbers \cup {"long_p", "long_n", "double"}
         /\ Stream!NeedsNumber(pos + 1, w) <=> Len(input) < pos + Len(c)
         /\ ~Stream!NeedsNumber(pos + 1, w) => Stream!NumberAt(pos + 1, w) = n
         /\ e = IF k \in {"long_p", "long_n"} THEN Stream!LongOf(k, w, n) ELSE Stream!Number(k, n)
<1>1. /\ k \in Stream!Numbers \cup {"long_p", "long_n", "double"}
      /\ w \in Widths /\ n \in Nat /\ n < Stream!Power[w] /\ c = Coded(k, w, n)
      /\ e = IF k \in {"long_p", "long_n"} THEN Stream!LongOf(k, w, n) ELSE Stream!Number(k, n)
  BY DEF CodesNumber, Longer
<1>2. k \in Tags /\ w \in Nat
  BY <1>1, TagIs DEF Widths
<1>3. Len(c) = w + 1
  BY <1>1, <1>2, CodedIs
<1>4. Len(c) \in Nat /\ Len(c) >= w + 1 /\ Len(c) = 1 + w
  BY <1>2, <1>3
<1>5. /\ Stream!Kind = k /\ Stream!Wide = w
      /\ Stream!NeedsNumber(pos + 1, w) <=> Len(input) < pos + 1 + w
      /\ ~Stream!NeedsNumber(pos + 1, w) => Stream!NumberAt(pos + 1, w) = n
  BY <1>1, <1>2, <1>4, CodedRead
<1>6. pos + 1 + w = pos + Len(c)
  BY <1>2, <1>4 DEF Ahead
<1> QED
  BY <1>1, <1>2, <1>4, <1>5, <1>6

LEMMA TextRead ==
  ASSUME NEW c, NEW e, NEW k, NEW w, NEW t, CodesText(c, e, k, w, t), Ahead(c)
  PROVE  /\ Stream!Kind = k /\ Stream!Wide = w /\ w \in Nat /\ Len(t) \in Nat
         /\ k \in Stream!Texts /\ e = [kind |-> k, v |-> t] /\ Len(c) = 1 + w + Len(t)
         /\ Stream!ShortText <=> Len(input) < pos + Len(c)
         /\ ~Stream!ShortText => /\ Stream!NumberAt(pos + 1, w) = Len(t)
                                 /\ Stream!BytesAt(pos + 1 + w, Len(t)) = t
<1>1. /\ k \in Stream!Texts /\ w \in Widths /\ t \in Seq(Cells) /\ Len(t) < Stream!Power[w]
      /\ e = [kind |-> k, v |-> t] /\ c = Coded(k, w, Len(t)) \o t
  BY DEF CodesText
<1>2. k \in Tags /\ w \in Nat /\ Len(t) \in Nat
  BY <1>1, TagIs DEF Widths
<1> DEFINE n == Len(t)
           h == Coded(k, w, n)
<1>3. h \in Seq(Cells) /\ Len(h) = w + 1
  <2> HIDE DEF n
  <2> QED
    BY <1>1, <1>2, CodedIs DEF n
<1>4. /\ Len(c) = w + 1 + n /\ \A i \in 1..(w + 1) : c[i] = h[i]
      /\ \A i \in 1..n : c[w + 1 + i] = t[i]
  <2> HIDE DEF h
  <2>1. /\ Len(h \o t) = Len(h) + Len(t) /\ \A i \in 1..Len(h) : (h \o t)[i] = h[i]
        /\ \A i \in 1..Len(t) : (h \o t)[Len(h) + i] = t[i]
    <3>1. h \in Seq(Cells) /\ t \in Seq(Cells)
      BY <1>1, <1>3
    <3> QED
      BY <3>1
  <2> QED
    BY <2>1, <1>1, <1>3 DEF h
<1> HIDE DEF n, h
<1>5. pos \in Nat /\ Len(input) \in Nat /\ n \in Nat
  BY <1>2 DEF Ahead, n
<1>6. Len(c) \in Nat /\ Len(c) >= w + 1 /\ Len(c) = 1 + w + n
  BY <1>2, <1>4, <1>5
<1>7. /\ Stream!Kind = k /\ Stream!Wide = w
      /\ Stream!NeedsNumber(pos + 1, w) <=> Len(input) < pos + 1 + w
      /\ ~Stream!NeedsNumber(pos + 1, w) => Stream!NumberAt(pos + 1, w) = n
  BY <1>1, <1>2, <1>4, <1>6, CodedRead DEF h, n
<1>8. Stream!ShortText <=> Len(input) < pos + Len(c)
  <2>1. Stream!ShortText <=> \/ Stream!NeedsNumber(pos + 1, w)
                             \/ Len(input) - (pos + 1 + w) < Stream!NumberAt(pos + 1, w)
    BY <1>7 DEF Stream!ShortText, Stream!NeedsMoreData
  <2>2. CASE Stream!NeedsNumber(pos + 1, w)
    BY <2>1, <2>2, <1>2, <1>5, <1>6, <1>7
  <2>3. CASE ~Stream!NeedsNumber(pos + 1, w)
    BY <2>1, <2>3, <1>2, <1>5, <1>6, <1>7
  <2> QED
    BY <2>2, <2>3
<1>9. ASSUME ~Stream!ShortText PROVE Stream!BytesAt(pos + 1 + w, n) = t
  <2>1. ASSUME NEW i \in 1..n PROVE Stream!At((pos + 1 + w) + i - 1) = t[i]
    <3>1. /\ w + 1 + i \in 1..Len(c) /\ pos + (w + 1 + i) <= Len(input)
          /\ pos + (w + 1 + i) - 1 = (pos + 1 + w) + i - 1
      BY <1>2, <1>5, <1>6, <1>8, <1>9
    <3>2. Stream!At(pos + (w + 1 + i) - 1) = c[w + 1 + i]
      BY <3>1, <1>6, NextCell
    <3> QED
      BY <3>1, <3>2, <1>4
  <2>2. t = [i \in 1..n |-> t[i]]
    BY <1>1 DEF n
  <2> QED
    BY <2>1, <2>2 DEF Stream!BytesAt
<1>10. ~Stream!ShortText => Stream!NumberAt(pos + 1, w) = n
  BY <1>7 DEF Stream!ShortText
<1> QED
  BY <1>1, <1>2, <1>5, <1>6, <1>7, <1>8, <1>9, <1>10 DEF n

(***************************************************************************)
(* The invariant of the stream: the elements lie one behind the other in   *)
(* the buffer, at[i] being where the i-th ends, what is still to be        *)
(* appended included, and the reader stands at the end of the last one it  *)
(* has read.                                                               *)
(***************************************************************************)
Holds(b, p, q, e) ==
    \E c : /\ Codes(c, e) /\ q = p + Len(c) /\ q <= Len(b)
           /\ \A j \in 1..Len(c) : b[p + j] = c[j]
Laid(at, es, b) ==
    /\ at \in [0..Len(es) -> Nat] /\ at[0] = 4
    /\ \A i \in 1..Len(es) : at[i - 1] < at[i] /\ Holds(b, at[i - 1], at[i], es[i])
    /\ \A i \in 0..Len(es) : 4 <= at[i] /\ at[i] <= at[Len(es)]

Given == /\ Len(input) < Len(buffer) /\ \A i \in 1..Len(input) : input[i] = buffer[i]
         /\ Len(read) <= Len(elems) /\ \A i \in 1..Len(read) : read[i] = elems[i]

StreamTyped ==
    /\ elems \in Seq(Elements) /\ AreChunks(chunks)
    /\ buffer \in Seq(Cells) /\ Len(buffer) > 0 /\ buffer_capacity \in Nat
    /\ Len(buffer) <= buffer_capacity
    /\ input \in Seq(Cells) /\ pos \in Nat /\ pos <= Len(input) /\ read \in Seq(Elements)
    /\ strings_count \in Nat /\ strings_capacity \in Nat \ {0}
    /\ strings_count <= strings_capacity
    /\ status \in {"writing", "written", "reading", "done", "failed"}
All == buffer \o BytesOf(chunks)
InOrder(at) ==
    /\ Laid(at, elems, All)
    /\ chunks # << >> => status = "writing"
    /\ status = "writing" => at[Len(elems)] = Len(All)
    /\ status \in {"written", "reading", "done"} =>
           elems # << >> /\ Len(buffer) = at[Len(elems)] + 1
    /\ status \in {"writing", "written"} => pos = 0 /\ read = << >> /\ input = << >>
    /\ status = "reading" => Given /\ ((pos = 0 /\ read = << >>) \/ pos = at[Len(read)])
    /\ status = "done" => read = elems /\ Stream!Whole
    /\ status = "failed" => ~Stream!Whole \/ input = << >>
StreamInv == StreamTyped /\ \E at : InOrder(at)

LEMMA HoldsMore ==
  ASSUME NEW b \in Seq(Cells), NEW c \in Seq(Cells), NEW p \in Nat, NEW q, NEW e, Holds(b, p, q, e)
  PROVE  Holds(b \o c, p, q, e)
<1>1. PICK d : /\ Codes(d, e) /\ q = p + Len(d) /\ q <= Len(b)
               /\ \A j \in 1..Len(d) : b[p + j] = d[j]
  BY DEF Holds
<1> DEFINE g == b \o c
<1>2. Len(g) = Len(b) + Len(c) /\ \A i \in 1..Len(b) : g[i] = b[i]
  OBVIOUS
<1>3. Len(d) \in Nat /\ Len(b) \in Nat /\ Len(c) \in Nat
  BY <1>1 DEF Codes
<1> HIDE DEF g
<1>4. q <= Len(g)
  BY <1>1, <1>2, <1>3
<1>5. \A j \in 1..Len(d) : g[p + j] = d[j]
  BY <1>1, <1>2, <1>3
<1>6. Holds(g, p, q, e)
  BY <1>1, <1>4, <1>5 DEF Holds
<1> QED
  BY <1>6 DEF g

LEMMA HoldsLast ==
  ASSUME NEW b \in Seq(Cells), NEW c, NEW e, Codes(c, e)
  PROVE  Holds(b \o c, Len(b), Len(b \o c), e)
<1>1. c \in Seq(Cells)
  BY DEF Codes
<1> DEFINE g == b \o c
<1>2. Len(g) = Len(b) + Len(c) /\ \A j \in 1..Len(c) : g[Len(b) + j] = c[j]
  BY <1>1
<1>3. Len(c) \in Nat /\ Len(b) \in Nat
  BY <1>1
<1> HIDE DEF g
<1>4. Len(g) <= Len(g)
  BY <1>2, <1>3
<1>5. Holds(g, Len(b), Len(g), e)
  BY <1>2, <1>4 DEF Holds
<1> QED
  BY <1>5 DEF g

LEMMA LaidStays ==
  ASSUME NEW at, NEW es, Len(es) \in Nat, NEW b \in Seq(Cells), NEW c \in Seq(Cells), Laid(at, es, b)
  PROVE  Laid(at, es, b \o c)
<1> SUFFICES ASSUME NEW i \in 1..Len(es) PROVE Holds(b \o c, at[i - 1], at[i], es[i])
  BY DEF Laid
<1>1. at[i - 1] \in Nat /\ Holds(b, at[i - 1], at[i], es[i])
  <2>1. i - 1 \in 0..Len(es)
    OBVIOUS
  <2> QED
    BY <2>1 DEF Laid
<1> QED
  BY <1>1, HoldsMore

LEMMA LaidNext ==
  ASSUME NEW at, NEW es \in Seq(Elements), NEW b \in Seq(Cells), Laid(at, es, b),
         at[Len(es)] = Len(b), NEW e \in Elements, NEW c, Codes(c, e), Len(c) > 0
  PROVE  \E to : Laid(to, Append(es, e), b \o c) /\ to[Len(Append(es, e))] = Len(b \o c)
<1> DEFINE n == Len(es)
           fs == Append(es, e)
           g == b \o c
           to == [i \in 0..(n + 1) |-> IF i = n + 1 THEN Len(g) ELSE at[i]]
<1>1. n \in Nat /\ Len(fs) = n + 1 /\ fs[n + 1] = e /\ \A i \in 1..n : fs[i] = es[i]
  OBVIOUS
<1>2. c \in Seq(Cells) /\ Len(c) \in Nat /\ Len(b) \in Nat
  BY DEF Codes
<1>3. g \in Seq(Cells) /\ Len(g) = Len(b) + Len(c)
  BY <1>2
<1>4. Laid(at, es, g) /\ Holds(g, Len(b), Len(g), e)
  BY <1>1, <1>2, LaidStays, HoldsLast
<1> HIDE DEF fs, g, n
<1>5. /\ to[n + 1] = Len(g) /\ to[(n + 1) - 1] = Len(b) /\ Len(b) < Len(g)
      /\ \A i \in 0..n : to[i] = at[i] /\ at[i] \in Nat
  <2>1. (n + 1) - 1 = n /\ n \in 0..n /\ n # n + 1 /\ \A i \in 0..n : i \in 0..(n + 1) /\ i # n + 1
    <3> HIDE DEF to
    <3> QED
      BY <1>1
  <2>2. \A i \in 0..n : to[i] = at[i] /\ at[i] \in Nat
    <3>1. \A i \in 0..n : to[i] = at[i]
      BY <2>1, Zenon
    <3>2. at \in [0..n -> Nat]
      BY <1>4 DEF Laid, n
    <3> HIDE DEF to
    <3> QED
      BY <3>1, <3>2
  <2>3. to[n + 1] = Len(g) /\ n + 1 \in 0..(n + 1)
    BY <1>1
  <2>4. at[n] = Len(b)
    BY DEF n
  <2> HIDE DEF to
  <2> QED
    BY <2>1, <2>2, <2>3, <2>4, <1>1, <1>2, <1>3
<1>6. to \in [0..(n + 1) -> Nat] /\ to[0] = 4
  BY <1>1, <1>3, <1>4, <1>5 DEF Laid, n
<1>7. ASSUME NEW i \in 1..(n + 1) PROVE to[i - 1] < to[i] /\ Holds(g, to[i - 1], to[i], fs[i])
  <2>1. CASE i = n + 1
    BY <2>1, <1>1, <1>4, <1>5
  <2>2. CASE i # n + 1
    <3>1. i \in 1..n /\ i - 1 \in 0..n /\ i \in 0..n
      BY <2>2, <1>1
    <3>2. at[i - 1] < at[i] /\ Holds(g, at[i - 1], at[i], es[i])
      BY <3>1, <1>4 DEF Laid, n
    <3> HIDE DEF to
    <3> QED
      BY <3>1, <3>2, <1>1, <1>5
  <2> QED
    BY <2>1, <2>2
<1>8. ASSUME NEW i \in 0..(n + 1) PROVE 4 <= to[i] /\ to[i] <= to[n + 1]
  <2>1. \A j \in 0..n : 4 <= at[j] /\ at[j] <= Len(b) /\ at[j] \in Nat
    BY <1>4, <1>5 DEF Laid, n
  <2>2. 4 <= Len(b)
    <3>1. 0 \in 0..n
      BY <1>1
    <3> QED
      BY <2>1, <3>1, <1>2
  <2>3. CASE i = n + 1
    BY <2>2, <2>3, <1>2, <1>3, <1>5
  <2>4. CASE i # n + 1
    <3>1. i \in 0..n
      BY <2>4, <1>1
    <3> HIDE DEF to
    <3> QED
      BY <2>1, <3>1, <1>2, <1>3, <1>5
  <2> QED
    BY <2>3, <2>4
<1> HIDE DEF to
<1>9. Laid(to, fs, g)
  BY <1>1, <1>6, <1>7, <1>8 DEF Laid
<1> QED
  BY <1>1, <1>5, <1>9 DEF fs, g

LEMMA LaidEnd ==
  ASSUME NEW at, NEW es, Len(es) \in Nat \ {0}, NEW b, Laid(at, es, b)
  PROVE  at[Len(es)] \in Nat /\ at[Len(es)] > 4
<1>1. 1 \in 1..Len(es) /\ 1 - 1 = 0 /\ 1 \in 0..Len(es) /\ Len(es) \in 0..Len(es)
  OBVIOUS
<1>2. at[0] < at[1] /\ at[1] <= at[Len(es)]
  BY <1>1 DEF Laid
<1> QED
  BY <1>1, <1>2 DEF Laid

LEMMA NoneLeft == ASSUME AreChunks(chunks), buffer \in Seq(Cells)
                  PROVE  BytesOf(<< >>) = << >> /\ (chunks = << >> => All = buffer)
<1>1. BytesOf(<< >>) = << >>
  BY DEF BytesOf
<1>2. buffer \o << >> = buffer
  OBVIOUS
<1> QED
  BY <1>1, <1>2 DEF All

LEMMA BytesTyped ==
  ASSUME NEW cs, AreChunks(cs)
  PROVE  BytesOf(cs) \in Seq(Cells)
<1>1. cs \in Seq(Chunks) /\ Len(cs) \in 0..2
  <2>1. cs \in Seq(Chunks) /\ Len(cs) <= 2
    BY DEF AreChunks
  <2>2. Len(cs) \in Nat
    BY <2>1
  <2>3. \A m \in Nat : m <= 2 => m \in 0..2
    OBVIOUS
  <2> QED
    BY <2>1, <2>2, <2>3, Zenon
<1>2. \A i \in 1..Len(cs) : cs[i].bytes \in Seq(Cells)
  <2> SUFFICES ASSUME NEW i \in 1..Len(cs) PROVE cs[i].bytes \in Seq(Cells)
    OBVIOUS
  <2>1. cs[i] \in Chunks
    BY <1>1
  <2> QED
    BY <2>1 DEF Chunks
<1>3. CASE Len(cs) = 0
  BY <1>3 DEF BytesOf
<1>4. CASE Len(cs) = 1
  BY <1>2, <1>4 DEF BytesOf
<1>5. CASE Len(cs) = 2
  <2>1. cs[1].bytes \in Seq(Cells) /\ cs[2].bytes \in Seq(Cells)
    BY <1>2, <1>5
  <2>2. cs[1].bytes \o cs[2].bytes \in Seq(Cells)
    BY <2>1
  <2> QED
    BY <1>5, <2>2 DEF BytesOf
<1> QED
  BY <1>1, <1>3, <1>4, <1>5

LEMMA FewChunks ==
  ASSUME NEW cs, AreChunks(cs), cs # << >>
  PROVE  Len(cs) \in 1..2
<1>1. cs \in Seq(Chunks) /\ Len(cs) <= 2
  BY DEF AreChunks
<1>2. Len(cs) \in Nat /\ Len(cs) # 0
  BY <1>1
<1>3. \A m \in Nat : m <= 2 /\ m # 0 => m \in 1..2
  OBVIOUS
<1> QED
  BY <1>1, <1>2, <1>3, Zenon

LEMMA CodesSome ==
  ASSUME NEW c, NEW e, Codes(c, e)
  PROVE  Len(c) \in Nat \ {0}
<1>1. c \in Seq(Cells)
  BY DEF Codes
<1>2. CASE CodesPlain(c, e)
  BY <1>2 DEF CodesPlain
<1>3. CASE \E k, w, n : CodesNumber(c, e, k, w, n)
  <2>1. PICK k, w, n : CodesNumber(c, e, k, w, n)
    BY <1>3
  <2>2. /\ k \in Stream!Numbers \cup Longer \cup {"double"} /\ w \in Widths /\ n \in Nat
        /\ n < Stream!Power[w] /\ c = Coded(k, w, n)
    BY <2>1 DEF CodesNumber
  <2>3. k \in Tags
    BY <2>2, TagIs DEF Longer
  <2>4. Len(c) = w + 1
    BY <2>2, <2>3, CodedIs
  <2> QED
    BY <2>2, <2>4 DEF Widths
<1>4. CASE \E k, w, t : CodesText(c, e, k, w, t)
  <2>1. PICK k, w, t : CodesText(c, e, k, w, t)
    BY <1>4
  <2>2. /\ k \in Tags /\ w \in Widths /\ Len(t) < Stream!Power[w] /\ t \in Seq(Cells)
        /\ c = Coded(k, w, Len(t)) \o t
    BY <2>1, TagIs DEF CodesText
  <2> DEFINE h == Coded(k, w, Len(t))
  <2>3. Len(t) \in Nat
    BY <2>2
  <2>4. h \in Seq(Cells) /\ Len(h) = w + 1
    BY <2>2, <2>3, CodedIs
  <2> HIDE DEF h
  <2>5. Len(h \o t) = Len(h) + Len(t)
    <3>1. h \in Seq(Cells) /\ t \in Seq(Cells)
      BY <2>2, <2>4
    <3> QED
      BY <3>1
  <2> QED
    BY <2>2, <2>3, <2>4, <2>5 DEF Widths, h
<1> QED
  BY <1>2, <1>3, <1>4 DEF Codes

\* igbinary_serialize_resize leaves room for what is put into the buffer then
LEMMA PutOK ==
  ASSUME StreamTyped, NEW n \in Nat, NEW c \in Seq(Cells), Len(c) <= n,
         buffer' = buffer \o c, buffer_capacity' = Stream!Resized(n)
  PROVE  /\ buffer' \in Seq(Cells) /\ Len(buffer') > 0 /\ buffer_capacity' \in Nat
         /\ Len(buffer') <= buffer_capacity'
<1>1. buffer \in Seq(Cells) /\ Len(buffer) \in Nat \ {0} /\ buffer_capacity \in Nat \ {0}
  BY DEF StreamTyped
<1>2. buffer' \in Seq(Cells) /\ Len(buffer') = Len(buffer) + Len(c) /\ Len(c) \in Nat
  BY <1>1
<1> DEFINE size == Len(buffer) + n
<1>3. size \in Nat \ {0} /\ Len(buffer') <= size /\ Len(buffer') > 0
  BY <1>1, <1>2
<1> HIDE DEF size
<1>4. CASE size < buffer_capacity
  BY <1>1, <1>2, <1>3, <1>4 DEF Stream!Resized, size
<1>5. CASE ~(size < buffer_capacity)
  <2>1. buffer_capacity' = Stream!Raised(buffer_capacity, size)
    BY <1>5 DEF Stream!Resized, size
  <2>2. buffer_capacity \in Nat \ {0}
    BY <1>1
  <2>3. Stream!Raised(buffer_capacity, size) \in Nat /\ size < Stream!Raised(buffer_capacity, size)
    BY <2>2, <1>3, RaisedOver
  <2> QED
    BY <2>1, <2>3, <1>2, <1>3
<1> QED
  BY <1>4, <1>5

LEMMA StreamStarts == ASSUME Stream!Init PROVE StreamInv
<1>1. /\ elems = << >> /\ chunks = << >> /\ buffer = Stream!Header /\ buffer_capacity = Capacity
      /\ input = << >> /\ pos = 0 /\ read = << >>
      /\ strings_count = 0 /\ strings_capacity = StringsCapacity /\ status = "writing"
  BY DEF Stream!Init
<1>2. Stream!Header \in Seq(Cells) /\ Len(Stream!Header) = 4
  <2>1. Stream!Byte(0) \in Cells
    BY CellIs
  <2>2. << "version", 2 >> \in Cells
    BY TagIs DEF Cells
  <2> QED
    BY <2>1, <2>2 DEF Stream!Header
<1>3. AreChunks(<< >>)
  BY DEF AreChunks
<1>4. StreamTyped
  BY <1>1, <1>2, <1>3, BytesAssumed DEF StreamTyped
<1>5. All = buffer
  BY <1>1, <1>4, NoneLeft DEF StreamTyped
<1> DEFINE at == [i \in 0..0 |-> 4]
<1>6. InOrder(at)
  <2>1. Laid(at, elems, All)
    BY <1>1 DEF Laid
  <2>2. at[Len(elems)] = Len(All)
    BY <1>1, <1>2, <1>5
  <2> HIDE DEF at
  <2> QED
    BY <2>1, <2>2, <1>1 DEF InOrder
<1> QED
  BY <1>4, <1>6 DEF StreamInv

LEMMA SerializeOK == ASSUME StreamInv, NEW e \in Elements, Stream!Serialize(e) PROVE StreamInv'
<1>1. PICK at : InOrder(at)
  BY DEF StreamInv
<1>2. /\ status = "writing" /\ chunks = << >> /\ elems' = Append(elems, e)
      /\ chunks' = Stream!ChunksOf(e)
      /\ UNCHANGED << buffer, buffer_capacity, input, pos, read, Stream!strs, status >>
  BY DEF Stream!Serialize
<1>3. UNCHANGED << strings_count, strings_capacity >>
  BY <1>2 DEF Stream!strs
<1>4. StreamTyped /\ Written(e)
  BY ElementsWritten DEF StreamInv
<1>5. StreamTyped'
  <2>1. elems' \in Seq(Elements)
    BY <1>2, <1>4 DEF StreamTyped
  <2>2. AreChunks(chunks')
    BY <1>2, <1>4 DEF Written
  <2> QED
    BY <1>2, <1>3, <1>4, <2>1, <2>2 DEF StreamTyped
<1>6. All = buffer /\ buffer \in Seq(Cells)
  BY <1>2, <1>4, NoneLeft DEF StreamTyped
<1> DEFINE c == BytesOf(Stream!ChunksOf(e))
<1>7. Codes(c, e) /\ All' = buffer \o c
  BY <1>2, <1>4 DEF Written, All
<1>8. Len(c) > 0
  BY <1>7, CodesSome
<1>9. elems \in Seq(Elements) /\ Laid(at, elems, buffer) /\ at[Len(elems)] = Len(buffer)
  BY <1>1, <1>2, <1>4, <1>6 DEF InOrder, StreamTyped
<1> HIDE DEF c
<1>10. PICK to : Laid(to, Append(elems, e), buffer \o c)
                 /\ to[Len(Append(elems, e))] = Len(buffer \o c)
  BY <1>6, <1>7, <1>8, <1>9, LaidNext
<1>11. InOrder(to)'
  <2>1. Laid(to, elems', All') /\ to[Len(elems')] = Len(All')
    BY <1>2, <1>7, <1>10
  <2> QED
    BY <2>1, <1>1, <1>2 DEF InOrder
<1> QED
  BY <1>5, <1>11 DEF StreamInv

LEMMA AppendChunkOK == ASSUME StreamInv, Stream!AppendChunk PROVE StreamInv'
<1>1. PICK at : InOrder(at)
  BY DEF StreamInv
<1> DEFINE d == Head(chunks)
<1>2. /\ chunks # << >> /\ Stream!Put(d) /\ chunks' = Tail(chunks)
      /\ UNCHANGED << elems, input, pos, read, strings_count, strings_capacity, status >>
  BY DEF Stream!AppendChunk, Stream!strs
<1>3. StreamTyped /\ status = "writing"
  BY <1>1, <1>2 DEF InOrder, StreamInv
<1>4. chunks \in Seq(Chunks) /\ Len(chunks) \in 1..2
      /\ \A i \in 1..Len(chunks) : Len(chunks[i].bytes) <= chunks[i].room
  BY <1>2, <1>3, FewChunks DEF StreamTyped, AreChunks
<1> DEFINE r == Tail(chunks)
<1>5. r \in Seq(Chunks) /\ Len(r) = Len(chunks) - 1 /\ \A i \in 1..Len(r) : r[i] = chunks[i + 1]
  BY <1>2, <1>4, HeadTailProperties
<1>6. d = chunks[1] /\ d \in Chunks /\ Len(d.bytes) <= d.room
  BY <1>4
<1>7. d.bytes \in Seq(Cells) /\ d.room \in Nat
  BY <1>6 DEF Chunks
<1>8. buffer' = buffer \o d.bytes /\ buffer_capacity' = Stream!Resized(d.room)
  BY <1>2 DEF Stream!Put
<1> HIDE DEF d
<1>9. AreChunks(chunks') /\ BytesOf(chunks) = d.bytes \o BytesOf(chunks')
  <2>1. CASE Len(chunks) = 1
    <3>1. Tail(chunks) = << >>
      <4>1. r \in Seq(Chunks) /\ Len(r) = 0
        BY <2>1, <1>5
      <4> HIDE DEF r
      <4>2. r = << >>
        BY <4>1
      <4> QED
        BY <4>2 DEF r
    <3>2. BytesOf(chunks) = d.bytes
      BY <2>1, <1>6 DEF BytesOf
    <3>3. BytesOf(<< >>) = << >> /\ d.bytes \o << >> = d.bytes /\ AreChunks(<< >>)
      BY <1>7 DEF BytesOf, AreChunks
    <3> QED
      BY <3>1, <3>2, <3>3, <1>2
  <2>2. CASE Len(chunks) = 2
    <3> DEFINE f == chunks[2]
               q == << f >>
    <3>1. Tail(chunks) = q /\ f \in Chunks /\ Len(f.bytes) <= f.room
      <4>1. f \in Chunks /\ Len(f.bytes) <= f.room
        <5>1. 2 \in 1..Len(chunks)
          BY <2>2
        <5> QED
          BY <1>4, <5>1
      <4>2. r \in Seq(Chunks) /\ Len(r) = 1 /\ r[1] = f
        <5>1. 1 + 1 = 2 /\ 1 \in 1..1
          OBVIOUS
        <5> HIDE DEF r
        <5> QED
          BY <2>2, <1>5, <5>1
      <4> HIDE DEF r, f
      <4>3. r = << f >>
        BY <4>1, <4>2
      <4> QED
        BY <4>1, <4>3 DEF r
    <3>2. BytesOf(chunks) = d.bytes \o f.bytes
      BY <2>2, <1>6 DEF BytesOf
    <3>3. q \in Seq(Chunks) /\ Len(q) = 1 /\ q[1] = f
      BY <3>1
    <3> HIDE DEF f, q
    <3>4. BytesOf(q) = f.bytes /\ AreChunks(q)
      BY <3>1, <3>3 DEF BytesOf, AreChunks
    <3> QED
      BY <3>1, <3>2, <3>4, <1>2
  <2> QED
    BY <2>1, <2>2, <1>4
<1>10. All' = All
  <2> DEFINE c == d.bytes
             rest == BytesOf(chunks')
  <2>1. c \in Seq(Cells) /\ rest \in Seq(Cells) /\ buffer \in Seq(Cells)
    BY <1>3, <1>7, <1>9, BytesTyped DEF StreamTyped
  <2>2. All' = (buffer \o c) \o rest /\ All = buffer \o (c \o rest)
    BY <1>8, <1>9 DEF All
  <2> HIDE DEF c, rest
  <2>3. (buffer \o c) \o rest = buffer \o (c \o rest)
    BY <2>1
  <2> QED
    BY <2>2, <2>3
<1>11. /\ buffer' \in Seq(Cells) /\ Len(buffer') > 0 /\ buffer_capacity' \in Nat
       /\ Len(buffer') <= buffer_capacity'
  BY <1>3, <1>6, <1>7, <1>8, PutOK
<1>12. StreamTyped'
  BY <1>2, <1>3, <1>9, <1>11 DEF StreamTyped
<1>13. InOrder(at)'
  <2>1. Laid(at, elems', All') /\ at[Len(elems')] = Len(All') /\ status' = "writing"
    BY <1>1, <1>2, <1>3, <1>10 DEF InOrder
  <2> QED
    BY <2>1, <1>1, <1>2 DEF InOrder
<1> QED
  BY <1>12, <1>13 DEF StreamInv

LEMMA RefuseNameOK == ASSUME StreamInv, NEW e, Stream!RefuseName(e) PROVE StreamInv'
<1>1. PICK at : InOrder(at)
  BY DEF StreamInv
<1>2. /\ status = "writing" /\ chunks = << >> /\ status' = "failed"
      /\ UNCHANGED << elems, chunks, buffer, buffer_capacity, input, pos, read,
                      strings_count, strings_capacity >>
  BY DEF Stream!RefuseName, Stream!wvars, Stream!strs
<1>3. StreamTyped'
  BY <1>2 DEF StreamInv, StreamTyped
<1>4. InOrder(at)'
  <2>1. Laid(at, elems', All') /\ input' = << >>
    BY <1>1, <1>2 DEF InOrder, All
  <2> QED
    BY <2>1, <1>2 DEF InOrder
<1> QED
  BY <1>3, <1>4 DEF StreamInv

LEMMA EndOK == ASSUME StreamInv, Stream!End PROVE StreamInv'
<1>1. PICK at : InOrder(at)
  BY DEF StreamInv
<1> DEFINE c == << Stream!Byte(0) >>
<1>2. /\ status = "writing" /\ chunks = << >> /\ elems # << >> /\ status' = "written"
      /\ buffer' = buffer \o c /\ buffer_capacity' = Stream!Resized(1)
      /\ UNCHANGED << elems, chunks, input, pos, read, strings_count, strings_capacity >>
  BY DEF Stream!End, Stream!Put, Stream!Chunk, Stream!strs
<1>3. c \in Seq(Cells) /\ Len(c) = 1
  BY CellIs
<1>4. StreamTyped /\ buffer \in Seq(Cells) /\ AreChunks(chunks) /\ elems \in Seq(Elements)
  BY DEF StreamInv, StreamTyped
<1> HIDE DEF c
<1>5. /\ buffer' \in Seq(Cells) /\ Len(buffer') > 0 /\ buffer_capacity' \in Nat
      /\ Len(buffer') <= buffer_capacity'
  <2>1. Len(c) <= 1 /\ 1 \in Nat
    BY <1>3
  <2> QED
    BY <2>1, <1>2, <1>3, <1>4, PutOK
<1>6. StreamTyped'
  BY <1>2, <1>4, <1>5 DEF StreamTyped
<1>7. All = buffer /\ All' = buffer'
  <2>1. All = buffer
    BY <1>2, <1>4, NoneLeft
  <2>2. buffer' \o << >> = buffer' /\ BytesOf(<< >>) = << >>
    BY <1>4, <1>5, NoneLeft
  <2> QED
    BY <2>1, <2>2, <1>2 DEF All
<1>8. Laid(at, elems', All')
  <2>1. Laid(at, elems, buffer) /\ Len(elems) \in Nat
    BY <1>1, <1>4, <1>7 DEF InOrder
  <2>2. Laid(at, elems, buffer \o c)
    BY <2>1, <1>3, <1>4, LaidStays
  <2> QED
    BY <2>2, <1>2, <1>7
<1>9. Len(buffer') = at[Len(elems')] + 1
  <2>1. Len(buffer \o c) = Len(buffer) + 1
    <3>1. buffer \in Seq(Cells) /\ c \in Seq(Cells)
      BY <1>3, <1>4
    <3>2. Len(buffer \o c) = Len(buffer) + Len(c)
      BY <3>1
    <3> QED
      BY <3>2, <1>3
  <2>2. at[Len(elems)] = Len(buffer)
    BY <1>1, <1>2, <1>7 DEF InOrder
  <2> QED
    BY <2>1, <2>2, <1>2
<1>10. InOrder(at)'
  BY <1>1, <1>2, <1>8, <1>9 DEF InOrder
<1> QED
  BY <1>6, <1>10 DEF StreamInv

LEMMA PassOK == ASSUME StreamInv, Stream!Pass PROVE StreamInv'
<1>1. PICK at : InOrder(at)
  BY DEF StreamInv
<1>2. /\ status = "written" /\ status' = "reading"
      /\ UNCHANGED << elems, chunks, buffer, buffer_capacity, pos, read,
                      strings_count, strings_capacity >>
  BY DEF Stream!Pass, Stream!wvars, Stream!strs
<1>3. PICK n \in 0..(Len(buffer) - 1) : input' = SubSeq(buffer, 1, n)
  BY DEF Stream!Pass
<1>4. StreamTyped /\ buffer \in Seq(Cells) /\ Len(buffer) \in Nat /\ elems \in Seq(Elements)
  BY DEF StreamInv, StreamTyped
<1>5. /\ input' \in Seq(Cells) /\ Len(input') = n /\ n \in Nat /\ n < Len(buffer)
      /\ \A i \in 1..n : input'[i] = buffer[i]
  BY <1>3, <1>4
<1>6. pos = 0 /\ read = << >> /\ elems # << >> /\ Laid(at, elems, All)
      /\ Len(buffer) = at[Len(elems)] + 1 /\ chunks = << >>
  BY <1>1, <1>2 DEF InOrder
<1>7. StreamTyped'
  BY <1>2, <1>4, <1>5, <1>6 DEF StreamTyped
<1>8. Given'
  <2>1. Len(<< >>) = 0 /\ Len(elems) \in Nat
    BY <1>4
  <2> QED
    BY <2>1, <1>2, <1>5, <1>6 DEF Given
<1>9. Laid(at, elems', All')
  BY <1>2, <1>6 DEF All
<1>10. InOrder(at)'
  BY <1>2, <1>6, <1>8, <1>9 DEF InOrder
<1> QED
  BY <1>7, <1>10 DEF StreamInv

LEMMA ReadHeaderOK == ASSUME StreamInv, Stream!ReadHeader PROVE StreamInv'
<1>1. PICK at : InOrder(at)
  BY DEF StreamInv
<1>2. /\ status = "reading" /\ pos = 0 /\ ~Stream!NeedsMoreData(0, 5) /\ pos' = 4
      /\ UNCHANGED << elems, chunks, buffer, buffer_capacity, input, read, status,
                      strings_count, strings_capacity >>
  BY DEF Stream!ReadHeader, Stream!wvars, Stream!strs
<1>3. StreamTyped /\ Len(input) \in Nat
  BY DEF StreamInv, StreamTyped
<1>4. 4 <= Len(input)
  BY <1>2, <1>3 DEF Stream!NeedsMoreData
<1>5. StreamTyped'
  BY <1>2, <1>3, <1>4 DEF StreamTyped
<1>6. /\ Laid(at, elems, All) /\ elems # << >> /\ Len(buffer) = at[Len(elems)] + 1
      /\ chunks = << >> /\ Given /\ at[0] = 4 /\ at \in [0..Len(elems) -> Nat]
  BY <1>1, <1>2 DEF InOrder, Laid
<1>7. read = << >>
  <2>1. Len(read) \in 0..Len(elems)
    <3>1. Len(read) \in Nat /\ Len(elems) \in Nat
      BY <1>3 DEF StreamTyped
    <3> QED
      BY <3>1, <1>6 DEF Given
  <2>2. 4 <= at[Len(read)]
    BY <2>1, <1>6 DEF Laid
  <2> QED
    BY <2>2, <1>1, <1>2 DEF InOrder
<1>8. Laid(at, elems', All') /\ Given' /\ pos' = at[Len(read')]
  <2>1. Len(<< >>) = 0
    OBVIOUS
  <2> QED
    BY <2>1, <1>2, <1>6, <1>7 DEF All, Given
<1>9. InOrder(at)'
  BY <1>2, <1>6, <1>8 DEF InOrder
<1> QED
  BY <1>5, <1>9 DEF StreamInv

\* Where the reader is, in front of an element.
Before(at, c, e) ==
    /\ InOrder(at) /\ status = "reading" /\ Len(read) < Len(elems)
    /\ e = elems[Len(read) + 1] /\ Codes(c, e)
    /\ at[Len(read) + 1] = pos + Len(c) /\ Ahead(c)
LEMMA Stands ==
  ASSUME StreamInv, status = "reading", pos >= 4, Len(read) < Len(elems),
         ~Stream!NeedsMoreData(pos, 1)
  PROVE  \E at, c, e : Before(at, c, e)
<1>1. PICK at : InOrder(at)
  BY DEF StreamInv
<1>2. /\ StreamTyped /\ input \in Seq(Cells) /\ Len(input) \in Nat /\ pos \in Nat
      /\ Len(read) \in Nat /\ Len(elems) \in Nat
  BY DEF StreamInv, StreamTyped
<1> DEFINE n == Len(read)
           e == elems[n + 1]
<1>3. n + 1 \in 1..Len(elems) /\ (n + 1) - 1 = n
  BY <1>2
<1>4. Laid(at, elems, All) /\ Given /\ pos = at[n] /\ chunks = << >>
  BY <1>1 DEF InOrder
<1>5. All = buffer /\ Len(buffer) \in Nat
  BY <1>2, <1>4, NoneLeft DEF StreamTyped
<1>6. Holds(buffer, pos, at[n + 1], e)
  BY <1>3, <1>4, <1>5 DEF Laid
<1> HIDE DEF n, e
<1>7. PICK c : /\ Codes(c, e) /\ at[n + 1] = pos + Len(c)
               /\ \A j \in 1..Len(c) : buffer[pos + j] = c[j]
  BY <1>6 DEF Holds
<1>8. pos < Len(input)
  BY <1>2 DEF Stream!NeedsMoreData
<1>9. Ahead(c)
  <2>1. \A j \in 1..Len(c) : pos + j <= Len(input) => input[pos + j] = c[j]
    <3> SUFFICES ASSUME NEW j \in 1..Len(c), pos + j <= Len(input) PROVE input[pos + j] = c[j]
      OBVIOUS
    <3>1. pos + j \in 1..Len(input)
      BY <1>2, <1>7, CodesSome
    <3> QED
      BY <3>1, <1>4, <1>7 DEF Given
  <2> QED
    BY <2>1, <1>2, <1>8 DEF Ahead
<1>10. Before(at, c, e)
  BY <1>1, <1>7, <1>9 DEF Before, n, e
<1> QED
  BY <1>10

\* what a step that reads one element has to do
LEMMA Advances ==
  ASSUME StreamInv, NEW at, NEW c, NEW e, Before(at, c, e),
         pos' = pos + Len(c), pos + Len(c) <= Len(input), read' = Append(read, e),
         UNCHANGED << elems, chunks, buffer, buffer_capacity, input, status >>,
         strings_count' \in Nat, strings_capacity' \in Nat \ {0},
         strings_count' <= strings_capacity'
  PROVE  StreamInv'
<1>1. /\ StreamTyped /\ elems \in Seq(Elements) /\ read \in Seq(Elements) /\ pos \in Nat
      /\ Len(elems) \in Nat /\ Len(read) \in Nat
  BY DEF StreamInv, StreamTyped
<1>2. /\ InOrder(at) /\ status = "reading" /\ Len(read) < Len(elems)
      /\ e = elems[Len(read) + 1] /\ at[Len(read) + 1] = pos + Len(c) /\ Len(c) \in Nat
  BY CodesSome DEF Before
<1>3. e \in Elements
  <2>1. Len(read) + 1 \in 1..Len(elems)
    BY <1>1, <1>2
  <2> QED
    BY <2>1, <1>1, <1>2
<1>4. /\ read' \in Seq(Elements) /\ Len(read') = Len(read) + 1 /\ read'[Len(read) + 1] = e
      /\ \A i \in 1..Len(read) : read'[i] = read[i]
  BY <1>1, <1>3
<1>5. StreamTyped'
  <2>1. pos' \in Nat /\ pos' <= Len(input)
    BY <1>1, <1>2
  <2> QED
    BY <2>1, <1>1, <1>4 DEF StreamTyped
<1>6. /\ Laid(at, elems, All) /\ elems # << >> /\ Len(buffer) = at[Len(elems)] + 1
      /\ chunks = << >> /\ Given
  BY <1>2 DEF InOrder
<1>7. Given'
  <2>1. \A i \in 1..Len(read') : read'[i] = elems[i]
    <3> SUFFICES ASSUME NEW i \in 1..Len(read') PROVE read'[i] = elems[i]
      OBVIOUS
    <3>1. i = Len(read) + 1 \/ i \in 1..Len(read)
      BY <1>1, <1>4
    <3> QED
      BY <3>1, <1>2, <1>4, <1>6 DEF Given
  <2>2. Len(read') <= Len(elems)
    BY <1>1, <1>2, <1>4
  <2> QED
    BY <2>1, <2>2, <1>6 DEF Given
<1>8. Laid(at, elems', All') /\ pos' = at[Len(read')]
  BY <1>2, <1>4, <1>6 DEF All
<1>9. InOrder(at)'
  BY <1>2, <1>6, <1>7, <1>8 DEF InOrder
<1> QED
  BY <1>5, <1>9 DEF StreamInv

LEMMA KindsApart ==
  ASSUME NEW k
  PROVE  /\ k \in Stream!Plains \cup {"string_empty"} =>
                k \notin Stream!Numbers \cup {"long_p", "long_n", "double"} /\ k \notin Stream!Texts
         /\ k \in Stream!Texts => k \notin Stream!Numbers \cup {"long_p", "long_n", "double"}
BY DEF Stream!Plains, Stream!Numbers, Stream!Texts

\* the reader sees which of the three an element is
LEMMA Sees ==
  ASSUME NEW c, NEW e, Codes(c, e), Ahead(c)
  PROVE  /\ Stream!Kind \in Stream!Plains \cup {"string_empty"} => CodesPlain(c, e)
         /\ Stream!Kind \in Stream!Numbers \cup {"long_p", "long_n", "double"} =>
                \E k, w, n : CodesNumber(c, e, k, w, n)
         /\ Stream!Kind \in Stream!Texts => \E k, w, t : CodesText(c, e, k, w, t)
<1>1. CodesPlain(c, e) => Stream!Kind \in Stream!Plains \cup {"string_empty"}
  BY PlainRead
<1>2. \A k, w, n : CodesNumber(c, e, k, w, n) =>
          Stream!Kind \in Stream!Numbers \cup {"long_p", "long_n", "double"}
  BY NumberRead
<1>3. \A k, w, t : CodesText(c, e, k, w, t) => Stream!Kind \in Stream!Texts
  BY TextRead
<1>4. \/ CodesPlain(c, e) \/ \E k, w, n : CodesNumber(c, e, k, w, n)
      \/ \E k, w, t : CodesText(c, e, k, w, t)
  BY DEF Codes
<1> DEFINE K == Stream!Kind
<1> HIDE DEF K
<1>5. /\ K \in Stream!Plains \cup {"string_empty"} =>
             K \notin Stream!Numbers \cup {"long_p", "long_n", "double"} /\ K \notin Stream!Texts
      /\ K \in Stream!Texts => K \notin Stream!Numbers \cup {"long_p", "long_n", "double"}
  BY KindsApart
<1> USE DEF K
<1> QED
  BY <1>1, <1>2, <1>3, <1>4, <1>5

LEMMA ReadPlainOK == ASSUME StreamInv, Stream!ReadPlain PROVE StreamInv'
<1>1. /\ status = "reading" /\ pos >= 4 /\ Len(read) < Len(elems) /\ ~Stream!NeedsMoreData(pos, 1)
      /\ Stream!Kind \in Stream!Plains \cup {"string_empty"}
      /\ pos' = pos + 1
      /\ read' = Append(read, IF Stream!Kind = "string_empty" THEN Stream!Text("string", 0)
                              ELSE Stream!Plain(Stream!Kind))
      /\ UNCHANGED << elems, chunks, buffer, buffer_capacity, input, status,
                      strings_count, strings_capacity >>
  BY DEF Stream!ReadPlain, Stream!AtElement, Stream!Advance, Stream!wvars, Stream!strs
<1>2. PICK at, c, e : Before(at, c, e)
  BY <1>1, Stands
<1>3. Codes(c, e) /\ Ahead(c)
  BY <1>2 DEF Before
<1>4. CodesPlain(c, e)
  BY <1>1, <1>3, Sees
<1>5. /\ Len(c) = 1
      /\ e = IF Stream!Kind = "string_empty" THEN Stream!Text("string", 0)
             ELSE Stream!Plain(Stream!Kind)
  BY <1>3, <1>4, PlainRead
<1>6. pos + Len(c) <= Len(input) /\ pos' = pos + Len(c)
  BY <1>1, <1>3, <1>5 DEF Ahead
<1>7. strings_count \in Nat /\ strings_capacity \in Nat \ {0} /\ strings_count <= strings_capacity
  BY DEF StreamInv, StreamTyped
<1>8. read' = Append(read, e)
  BY <1>1, <1>5
<1> QED
  BY <1>1, <1>2, <1>6, <1>7, <1>8, Advances

LEMMA ReadNumberOK == ASSUME StreamInv, Stream!ReadNumber PROVE StreamInv'
<1> DEFINE m == Stream!NumberAt(pos + 1, Stream!Wide)
<1>1. /\ status = "reading" /\ pos >= 4 /\ Len(read) < Len(elems) /\ ~Stream!NeedsMoreData(pos, 1)
      /\ Stream!Kind \in Stream!Numbers \cup {"long_p", "long_n", "double"}
      /\ ~Stream!NeedsNumber(pos + 1, Stream!Wide)
      /\ pos' = pos + 1 + Stream!Wide
      /\ read' = Append(read, IF Stream!Kind \in {"long_p", "long_n"}
                              THEN Stream!LongOf(Stream!Kind, Stream!Wide, m)
                              ELSE Stream!Number(Stream!Kind, m))
      /\ UNCHANGED << elems, chunks, buffer, buffer_capacity, input, status,
                      strings_count, strings_capacity >>
  BY DEF Stream!ReadNumber, Stream!AtElement, Stream!Advance, Stream!wvars, Stream!strs
<1>2. PICK at, c, e : Before(at, c, e)
  BY <1>1, Stands
<1>3. Codes(c, e) /\ Ahead(c)
  BY <1>2 DEF Before
<1>4. PICK k, w, n : CodesNumber(c, e, k, w, n)
  BY <1>1, <1>3, Sees
<1>5. /\ Stream!Kind = k /\ Stream!Wide = w /\ w \in Nat /\ Len(c) = 1 + w
      /\ Stream!NeedsNumber(pos + 1, w) <=> Len(input) < pos + Len(c)
      /\ ~Stream!NeedsNumber(pos + 1, w) => Stream!NumberAt(pos + 1, w) = n
      /\ e = IF k \in {"long_p", "long_n"} THEN Stream!LongOf(k, w, n) ELSE Stream!Number(k, n)
  BY <1>3, <1>4, NumberRead
<1>6. m = n
  BY <1>1, <1>5
<1> HIDE DEF m
<1>7. pos + Len(c) <= Len(input) /\ pos' = pos + Len(c)
  <2>1. pos \in Nat /\ Len(input) \in Nat
    BY <1>3 DEF Ahead
  <2>2. ~(Len(input) < pos + Len(c)) /\ pos' = pos + 1 + w
    BY <1>1, <1>5
  <2> QED
    BY <2>1, <2>2, <1>5
<1>8. strings_count \in Nat /\ strings_capacity \in Nat \ {0} /\ strings_count <= strings_capacity
  BY DEF StreamInv, StreamTyped
<1>9. read' = Append(read, e)
  BY <1>1, <1>5, <1>6
<1> QED
  BY <1>1, <1>2, <1>7, <1>8, <1>9, Advances

LEMMA ReadTextOK == ASSUME StreamInv, Stream!ReadText PROVE StreamInv'
<1> DEFINE len   == Stream!NumberAt(pos + 1, Stream!Wide)
           start == pos + 1 + Stream!Wide
<1>1. /\ status = "reading" /\ pos >= 4 /\ Len(read) < Len(elems) /\ ~Stream!NeedsMoreData(pos, 1)
      /\ Stream!Kind \in Stream!Texts /\ ~Stream!ShortText
      /\ pos' = start + len
      /\ read' = Append(read, [kind |-> Stream!Kind, v |-> Stream!BytesAt(start, len)])
      /\ UNCHANGED << elems, chunks, buffer, buffer_capacity, input, status >>
  BY DEF Stream!ReadText, Stream!AtElement, Stream!Advance, Stream!wvars
<1>2. /\ strings_count' \in Nat /\ strings_capacity' \in Nat \ {0}
      /\ strings_count' <= strings_capacity'
  <2>1. strings_count \in Nat /\ strings_capacity \in Nat \ {0} /\ strings_count <= strings_capacity
    BY DEF StreamInv, StreamTyped
  <2>2. \/ strings_count' = strings_count /\ strings_capacity' = strings_capacity
        \/ /\ strings_count' = strings_count + 1
           /\ strings_capacity' = IF strings_count + 1 > strings_capacity THEN strings_capacity * 2
                                  ELSE strings_capacity
    BY DEF Stream!ReadText, Stream!TableFull, Stream!strs
  <2> QED
    BY <2>1, <2>2
<1>3. PICK at, c, e : Before(at, c, e)
  BY <1>1, Stands
<1>4. Codes(c, e) /\ Ahead(c)
  BY <1>3 DEF Before
<1>5. PICK k, w, t : CodesText(c, e, k, w, t)
  BY <1>1, <1>4, Sees
<1>6. /\ Stream!Kind = k /\ Stream!Wide = w /\ w \in Nat /\ Len(t) \in Nat
      /\ e = [kind |-> k, v |-> t] /\ Len(c) = 1 + w + Len(t)
      /\ Stream!ShortText <=> Len(input) < pos + Len(c)
      /\ ~Stream!ShortText => /\ Stream!NumberAt(pos + 1, w) = Len(t)
                              /\ Stream!BytesAt(pos + 1 + w, Len(t)) = t
  BY <1>4, <1>5, TextRead
<1>7. start = pos + 1 + w /\ len = Len(t)
  BY <1>1, <1>6
<1>8. read' = Append(read, e)
  BY <1>1, <1>6, <1>7
<1> HIDE DEF start, len
<1>9. pos + Len(c) <= Len(input) /\ pos' = pos + Len(c)
  <2>1. pos \in Nat /\ Len(input) \in Nat
    BY <1>4 DEF Ahead
  <2>2. ~(Len(input) < pos + Len(c)) /\ pos' = (pos + 1 + w) + Len(t)
    BY <1>1, <1>6, <1>7
  <2> QED
    BY <2>1, <2>2, <1>6
<1> QED
  BY <1>1, <1>2, <1>3, <1>8, <1>9, Advances

\* only input that was cut ends too early
LEMMA EndOfDataOK == ASSUME StreamInv, Stream!EndOfData PROVE StreamInv'
<1>1. PICK at : InOrder(at)
  BY DEF StreamInv
<1>2. /\ status = "reading" /\ Stream!CannotRead /\ status' = "failed"
      /\ UNCHANGED << elems, chunks, buffer, buffer_capacity, input, pos, read,
                      strings_count, strings_capacity >>
  BY DEF Stream!EndOfData, Stream!wvars, Stream!strs
<1>3. /\ StreamTyped /\ pos \in Nat /\ Len(input) \in Nat /\ Len(read) \in Nat
      /\ elems \in Seq(Elements) /\ Len(elems) \in Nat /\ Len(buffer) \in Nat
  BY DEF StreamInv, StreamTyped
<1>4. /\ Laid(at, elems, All) /\ elems # << >> /\ Len(buffer) = at[Len(elems)] + 1
      /\ chunks = << >> /\ Given /\ ((pos = 0 /\ read = << >>) \/ pos = at[Len(read)])
  BY <1>1, <1>2 DEF InOrder
<1>5. Len(elems) \in Nat \ {0}
  BY <1>3, <1>4
<1>6. at[Len(elems)] \in Nat /\ at[Len(elems)] > 4
  BY <1>4, <1>5, LaidEnd
<1>7. SUFFICES ASSUME Stream!Whole PROVE FALSE
  <2>1. ~Stream!Whole'
    BY <1>2, <1>7 DEF Stream!Whole
  <2>2. StreamTyped'
    BY <1>2, <1>3 DEF StreamTyped
  <2>3. Laid(at, elems', All') /\ chunks' = << >>
    BY <1>2, <1>4 DEF All
  <2>4. InOrder(at)'
    BY <2>1, <2>3, <1>2 DEF InOrder
  <2> QED
    BY <2>2, <2>4 DEF StreamInv
<1>8. Len(input) = at[Len(elems)]
  BY <1>3, <1>4, <1>6, <1>7 DEF Stream!Whole
<1>9. CASE pos = 0 /\ Stream!NeedsMoreData(0, 5)
  BY <1>3, <1>6, <1>8, <1>9 DEF Stream!NeedsMoreData
<1>10. ASSUME pos >= 4, Len(read) < Len(elems)
       PROVE  /\ at[Len(read) + 1] <= Len(input) /\ at[Len(read) + 1] \in Nat
              /\ pos < at[Len(read) + 1]
  <2>1. /\ Len(read) + 1 \in 1..Len(elems) /\ Len(read) + 1 \in 0..Len(elems)
        /\ (Len(read) + 1) - 1 = Len(read)
    BY <1>3, <1>10
  <2>2. pos = at[Len(read)]
    BY <1>4, <1>10
  <2> QED
    BY <2>1, <2>2, <1>4, <1>8 DEF Laid
<1>11. CASE pos >= 4 /\ Len(read) < Len(elems) /\ Stream!NeedsMoreData(pos, 1)
  BY <1>3, <1>10, <1>11 DEF Stream!NeedsMoreData
<1>12. CASE /\ pos >= 4 /\ Len(read) < Len(elems) /\ ~Stream!NeedsMoreData(pos, 1)
            /\ \/ /\ Stream!Kind \in Stream!Numbers \cup {"long_p", "long_n", "double"}
                  /\ Stream!NeedsNumber(pos + 1, Stream!Wide)
               \/ Stream!Kind \in Stream!Texts /\ Stream!ShortText
  <2>1. PICK to, c, e : Before(to, c, e)
    BY <1>2, <1>12, Stands
  <2>2. Codes(c, e) /\ Ahead(c) /\ Len(c) \in Nat
    BY <2>1, CodesSome DEF Before
  <2>3. Len(input) < pos + Len(c)
    <3>1. CASE /\ Stream!Kind \in Stream!Numbers \cup {"long_p", "long_n", "double"}
               /\ Stream!NeedsNumber(pos + 1, Stream!Wide)
      <4>1. PICK k, w, n : CodesNumber(c, e, k, w, n)
        BY <2>2, <3>1, Sees
      <4> QED
        BY <2>2, <3>1, <4>1, NumberRead
    <3>2. CASE Stream!Kind \in Stream!Texts /\ Stream!ShortText
      <4>1. PICK k, w, t : CodesText(c, e, k, w, t)
        BY <2>2, <3>2, Sees
      <4> QED
        BY <2>2, <3>2, <4>1, TextRead
    <3> QED
      BY <3>1, <3>2, <1>12
  <2>4. to[Len(read) + 1] = pos + Len(c) /\ InOrder(to)
    BY <2>1 DEF Before
  <2>5. /\ to[Len(read) + 1] <= to[Len(elems)] /\ Len(buffer) = to[Len(elems)] + 1
        /\ to[Len(elems)] \in Nat
    <3>1. Len(read) + 1 \in 0..Len(elems) /\ Len(elems) \in 0..Len(elems)
      BY <1>3, <1>12
    <3> QED
      BY <3>1, <2>4, <1>2 DEF InOrder, Laid
  <2>6. Len(input) = to[Len(elems)]
    BY <2>5, <1>3, <1>7 DEF Stream!Whole
  <2> QED
    BY <2>2, <2>3, <2>4, <2>5, <2>6, <1>3
<1> QED
  BY <1>2, <1>9, <1>11, <1>12 DEF Stream!CannotRead

LEMMA FinishOK == ASSUME StreamInv, Stream!Finish PROVE StreamInv'
<1>1. PICK at : InOrder(at)
  BY DEF StreamInv
<1>2. /\ status = "reading" /\ pos >= 4 /\ Len(read) = Len(elems)
      /\ status' = IF pos < Len(input) THEN "failed" ELSE "done"
      /\ UNCHANGED << elems, chunks, buffer, buffer_capacity, input, pos, read,
                      strings_count, strings_capacity >>
  BY DEF Stream!Finish, Stream!wvars, Stream!strs
<1>3. /\ StreamTyped /\ pos \in Nat /\ Len(input) \in Nat /\ pos <= Len(input)
      /\ elems \in Seq(Elements) /\ read \in Seq(Elements) /\ Len(buffer) \in Nat
  BY DEF StreamInv, StreamTyped
<1>4. /\ Laid(at, elems, All) /\ elems # << >> /\ Len(buffer) = at[Len(elems)] + 1
      /\ chunks = << >> /\ Given /\ pos = at[Len(elems)]
  BY <1>1, <1>2 DEF InOrder
<1>5. Len(input) = pos /\ Stream!Whole
  <2>1. Len(input) < Len(buffer)
    BY <1>4 DEF Given
  <2> QED
    BY <2>1, <1>3, <1>4 DEF Stream!Whole
<1>6. read = elems
  <2>1. \A i \in 1..Len(read) : read[i] = elems[i]
    BY <1>4 DEF Given
  <2> QED
    BY <2>1, <1>2, <1>3, SeqEqual
<1>7. status' = "done"
  BY <1>2, <1>3, <1>5
<1>8. StreamTyped'
  BY <1>2, <1>3, <1>7 DEF StreamTyped
<1>9. InOrder(at)'
  <2>1. Laid(at, elems', All') /\ Stream!Whole'
    BY <1>2, <1>4, <1>5 DEF All, Stream!Whole
  <2> QED
    BY <2>1, <1>2, <1>4, <1>6, <1>7 DEF InOrder
<1> QED
  BY <1>8, <1>9 DEF StreamInv

LEMMA StreamStays == ASSUME StreamInv, UNCHANGED Stream!vars PROVE StreamInv'
<1>1. PICK at : InOrder(at)
  BY DEF StreamInv
<1>2. UNCHANGED << elems, chunks, buffer, buffer_capacity, input, pos, read,
                   strings_count, strings_capacity, status >>
  BY DEF Stream!vars, Stream!wvars, Stream!strs
<1>3. StreamTyped'
  BY <1>2 DEF StreamInv, StreamTyped
<1>4. InOrder(at)'
  BY <1>1, <1>2 DEF InOrder, All, Given, Stream!Whole
<1> QED
  BY <1>3, <1>4 DEF StreamInv

LEMMA StreamSteps == ASSUME [Next]_vars PROVE [Stream!Next]_(Stream!vars)
<1>1. CASE UNCHANGED vars
  BY <1>1 DEF vars, b_vars, Stream!vars, Stream!wvars, Stream!strs
<1>2. ASSUME Strings \/ Pointers \/ FillArray PROVE UNCHANGED Stream!vars
  BY <1>2 DEF Strings, Pointers, FillArray, b_vars, Stream!vars, Stream!wvars, Stream!strs
<1>3. CASE WriteAndRead
  BY <1>3 DEF WriteAndRead
<1> QED
  BY <1>1, <1>2, <1>3 DEF Next

LEMMA StreamHolds == Spec => []StreamInv
<1>1. Init => StreamInv
  BY StreamStarts DEF Init
<1>2. StreamInv /\ [Next]_vars => StreamInv'
  <2> SUFFICES ASSUME StreamInv, [Next]_vars PROVE StreamInv'
    OBVIOUS
  <2>1. [Stream!Next]_(Stream!vars)
    BY StreamSteps
  <2>2. CASE UNCHANGED Stream!vars
    BY <2>2, StreamStays
  <2>3. ASSUME NEW e \in Elements, Stream!Serialize(e) \/ Stream!RefuseName(e) PROVE StreamInv'
    BY <2>3, SerializeOK, RefuseNameOK
  <2>4. CASE Stream!AppendChunk \/ Stream!End \/ Stream!Pass
    BY <2>4, AppendChunkOK, EndOK, PassOK
  <2>5. CASE Stream!ReadHeader \/ Stream!ReadPlain \/ Stream!ReadNumber \/ Stream!ReadText
    BY <2>5, ReadHeaderOK, ReadPlainOK, ReadNumberOK, ReadTextOK
  <2>6. CASE Stream!EndOfData \/ Stream!Finish
    BY <2>6, EndOfDataOK, FinishOK
  <2> QED
    BY <2>1, <2>2, <2>3, <2>4, <2>5, <2>6 DEF Stream!Next
<1> QED
  BY <1>1, <1>2, PTL DEF Spec

\* However many elements are appended, of whatever width, and however often the
\* buffer has to grow: no byte is written past its end.
THEOREM BytesInBuffer == Spec => []WritesInBuffer
<1>1. StreamInv => WritesInBuffer
  BY DEF StreamInv, StreamTyped, WritesInBuffer, Stream!WritesInBuffer
<1> QED
  BY <1>1, StreamHolds, PTL

\* Wherever the input is cut: no byte is read past its end, and no string is put
\* past the end of the table of strings.
THEOREM BytesInBounds == Spec => []ReadsInBounds
<1>1. StreamInv => ReadsInBounds
  BY DEF StreamInv, StreamTyped, ReadsInBounds, Stream!ReadsInBounds
<1> QED
  BY <1>1, StreamHolds, PTL

\* What is read from the whole of what was written is what was written: every
\* number at its width and with its sign, and every string with its length.
THEOREM BytesAreRead == Spec => []WrittenIsRead
<1>1. StreamInv => WrittenIsRead
  BY DEF StreamInv, InOrder, WrittenIsRead, Stream!WrittenIsRead
<1> QED
  BY <1>1, StreamHolds, PTL

\* What is cut anywhere, between two elements or inside one, is refused.
THEOREM CutBytesRefused == Spec => []CutIsRefused
<1>1. StreamInv => CutIsRefused
  BY DEF StreamInv, InOrder, CutIsRefused, Stream!CutIsRefused
<1> QED
  BY <1>1, StreamHolds, PTL
=============================================================================
