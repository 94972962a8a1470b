# TLA+ models of igbinary

igbinary is a PHP extension that replaces PHP's serializer: it writes a PHP value
as a compact binary string and reads it back. This directory holds TLA+ models of
its two recursive walks (`src/src/php7/igbinary.c`), of the tables and bytes below
them (`hash_si.c`, `hash_si_ptr.c`, `igbinary_zend_hash.h`) and of the callers above
them, the TLC configurations that check them on small values, and machine-checked
proofs of what holds for all values. `PROJECT.json` maps every definition to the lines
of C it stands for and lists the runs, the mutations each property detects, the
findings and the hazards.

## 1. Inventory

| part | state it keeps | operations | interacts with |
|---|---|---|---|
| serializer walk (`igbinary_serialize_zval`, `_array`, `_array_ref`, `_object` ...) | `igbinary_serialize_data`: buffer, `scalar`, `compact_strings`, the two tables, two counters, the deferred-destructor tracker; the C stack | one function per kind of value | calls user code (`__serialize`, `__sleep`, `Serializable::serialize`) in the middle of the walk; reads the Zend heap, which that code changes |
| `references` (`hash_si_ptr.c`) | open-addressed table from addresses to ids, `references_id` | init, find-or-insert, deinit | used by the walk; keys are the addresses of cells, so a freed cell makes one stale |
| `strings` (`hash_si.c`) | open-addressed table from strings to ids, `string_count`; a reference on each string | init, find-or-insert, deinit | the walk, for strings, keys and class names |
| deferred-destructor tracker (`igsd_addref_and_defer_dtor`, `igsd_defer_dtor`) | array of zvals it holds a count of | add, release all | both walks |
| output buffer (`igbinary_serialize_resize`) | pointer, size, capacity | append, grow | the walk |
| unserializer (`igbinary_unserialize_zval`, `_array`, `_object`, `_ref` ...) | `igbinary_unserialize_data`: position, depth, `strings`, `references` (plain pointers), deferred calls, tracker; the C stack | one function per tag | creates cells, autoloads classes, calls `Serializable::unserialize` |
| deferred calls (`igsd_defer_wakeup`, `igsd_defer_unserialize`, `igbinary_finish_deferred_calls`) | list of (object, optional parameter), `delayed_call_failed` | add, run all, drop | user code (`__wakeup`, `__unserialize`) after everything has been read |
| find-or-add on Zend tables (`igbinary_zend_hash.h`) | a `HashTable`, packed or mixed | find or insert a null | unserializer |
| integers (`igbinary_serialize_long`, `igbinary_unserialize_long`) | none | width selection, sign, byte order | both walks |
| callers (`igbinary_unserialize()`, the session decoder, the APCu glue) | the zval of the result, `$_SESSION` | decode, and what follows | the unserializer |

There are no threads: the hard behaviours come from **re-entrancy**, from **two
sides that have to agree without talking**, and from **layouts that change under
their users**.

* *User code in the middle of a walk.* While C loops hold plain pointers to tables,
  buckets and objects, `__serialize` and its like may unset properties, drop
  arrays and have their addresses reused. What must hold: the walk only touches
  live cells (`WalkOnLiveCells`), a key of `references` never belongs to another
  cell (`NoStaleKey`), headers announce what is then written (`HeadersHonoured`).
* *Implicit numbering.* Ids are not in the stream. Writer and reader count arrays,
  objects, references and strings independently, each with its own special cases
  (a root array, a reference to an object, `__serialize`'s array, class names with
  `compact_strings` off). What must hold: `BackRefsExact`, `IdsCountWhatIsRead`,
  `StringsExact`, and end to end `IdsAgree`, `SharingKept`, `ContentsKept`.
* *Pointers without a count in the reader.* `references` and the deferred calls
  hold plain pointers to cells that input read later may overwrite
  (`KeptPointersLive`) and that calls made earlier may free (`CallsOnLiveObjects`). Each
  is kept with a type, by which a back-reference reads what it leads to (`EntriesAsFiled`).
* *Failure half-way.* Input ends anywhere, a call throws, a counter is full:
  everything is refused as a whole (`RefusesCutOutput`, `GivenOnlyWhole`), released
  (`Ends`, `NothingKept`), and calls that are due are dropped with care
  (`MarkedFromThrower`, `ParameterIsArray`).
* *Tables that change layout.* A growth moves entries under a new mask while the
  insertion that caused it has not returned; an array that is filled turns from packed
  to mixed when a key does not fit. Both must stay what their callers take them for, a
  map (`StringsIntern`, `PointersIntern`, `EntriesIntern`), within their bounds
  (`ProbesMeetGap`, `PointersMeetGap`, `EntriesInTable`), in order (`OrderKept`).
* *Edges of widths.* Every number has four widths, every read a check before it, and
  the buffer grows in steps (`WritesInBuffer`, `ReadsInBounds`, `WrittenIsRead`,
  `CutIsRefused`).
* *Termination* of both recursions and of the probes, over cyclic values and over
  arbitrary input (`CyclesCut`, `Ends`, `Answers`, `CallsReturn`).

## 2. Modules

| module | what it is |
|---|---|
| `Values` | PHP values, heap cells, tokens of the format, reachability |
| `Format` | the grammar of the format, as a stack of what is due; the proofs use it, no run does |
| `Serialize` | the writer with the user code it runs |
| `Unserialize` | the reader and the deferred calls |
| `RoundTrip` | `Serialize` and `Unserialize` composed with `INSTANCE`: write, store whole or cut, read |
| `Callers` | `igbinary_unserialize()`, APCu and the session module around `Unserialize` |
| `InternTable` | the abstract find-or-insert map the walks rely on |
| `HashSi`, `HashSiPtr`, `ZendTable` | its three implementations, each with its refinement mapping |
| `Bytes` | widths, the output buffer and the reader's bounds checks |
| `Storage` | the four modules of this layer side by side |
| `SerializeProofs`, `NumberingProofs`, `HashSiProofs`, `HashSiPtrProofs`, `StorageProofs`, `UnserializeProofs`, `CallsProofs`, `RoundTripProofs` | theorems |
| `MCGraphs` | the families of values the models start from |
| `MCSerialize`, `MCUnserialize`, `MCRoundTrip`, `MCStorage` | the modules TLC is started on |

### How state and actions correspond to the code

**Values.** A zval is a scalar or a pointer to a *cell* (array, object, reference)
of `heap`, a function from addresses. A cell has an ordered table of elements; the
value of an unset property or of a deleted bucket is `Undef`. Booleans, doubles and
resources behave as `null` does. Refcounts are not counted: a cell is alive when it
is reachable from something that holds one (`Live`), except that a reference knows
whether its count is at least 2 (`shared`), the test `igbinary_serialize_zval` makes.
A *token* is one tagged element of the format with its operand. Its `src` field is a
ghost: the cell or string it was written for.

**The C stack** is an agenda (`todo`, `agenda`), innermost first. An item is a call
still to make (`zval`), a loop to resume (`table`, `sleep`, `fill`) or what a
caller does after a callee returns (`dtor`, `wrap`, `defer`). `Do(items)` replaces
the top item. A failure returns 1 through every caller, so it discards the agenda;
what callers do while returning (`igbinary_unserialize_object` defers
`__unserialize` even then; the `cleanup` label destroys the array) is part of the
failing action.

**Serialize.** `strings` and `references` are functions into ids; `tracked` is the
deferred-destructor tracker; `status = "failed"` is the time between a return of 1
and `igbinary_serialize_data_deinit`. Loops keep the bucket index and the number of
buckets there were at the start, as `ZEND_HASH_FOREACH_KEY_VAL` does, and `left`, the
rest of what the header announced. `igbinary_serialize_object` has one action per kind of
class, with a branch of its own for what is filed before user code runs and what is
written afterwards. An object of a class that does not exist (`IncompleteClass`) keeps
the name of its class in a property, `MagicMember`: the name that is written is that one
(`WrittenName`), the count leaves it out (`Count`) and the loop passes over it
(`SkipMagic`). User code is `Unsets`, followed by what it returns: it may unset
one property of any live object (and, as `RefWrites` says, unset an element in place
in an array only it holds through a reference, or assign null to a reference),
return an array that exists, or allocate a temporary one at *any* address that is no
longer alive. `birth` counts how often an address has been allocated and `keyed` records
the birth an address had when it was filed; both are ghosts. `StackOverflows` is
`igbinary_serialize_check_stack_limit`, true at a depth that is not modelled.

**Unserialize.** Cells are appended to `out`; a place where a value goes (a `zval *`)
is a slot, a pair of cell and index. Cell 1 holds the result and each
`__unserialize` parameter has a holder cell. `WANT_REF` is the field `want`. `drefs` is
`igsd->references`, one `igbinary_value_ref` per id; `deferred` the calls to make;
`dtors` the tracker; `flagged` the objects marked `IS_OBJ_DESTRUCTOR_CALLED`. `result`
goes from `reading` to `calling` (all input has been read) to `done`, or through
`failed` to `error`, or to `crashed`. A key that is read again keeps its place and the value in it (`ReadOldKey`), and what is read
next finds that value there. `ReadArray` puts an array into a new reference only where there is none yet (`Boxed`),
as the code does, and otherwise over the reference. Its entry then says reference
and leads to an array (`Mistaken`): a back-reference copies whatever lies at the place of `val` in a `zend_array`, which is undefined. The
model lets it kill the process (`MisreadCrash`) or give a scalar nobody wrote (`MisreadValue`); a made-up pointer is not
followed, it counts as the crash. Depth is counted from the agenda. A class that does not exist makes
an incomplete object with its name in the magic member (`Created`). `CannotReadObject` has
one disjunct per way to refuse what follows a class name; that an enum is not given properties is
`object_init_ex`, which fails for it. The name of an enum case may be written as the id of a string or, since the code reads both
in one place, of a class: after `enum` the token `strid` stands for either (`CaseKnown`), and inputs are written that way
(`UnserializeAssumption`). The writer only makes the first.

**RoundTrip.** `Write` is the writer, `Pass` hands the buffer, or a proper prefix, to
the reader, `ReadBack` is the reader. The ghost `made` says which source cell each
built cell stands for.

**Callers.** `caller` is who reads and `returned` what it gives back. The session module
skips the check for trailing data (`CallsForPrefix`), releases nothing after a failure
(`DecodeFails`) and puts the entries with string keys into `session` on success
(`SetVariables`). The others return a value, or release what was built and return null
(`ReturnNull`), which the function does and the APCu glue too.

**HashSi, HashSiPtr.** One action is one turn of a loop: `Call` hashes, `ProbeNext` moves on,
`Exists`, `Insert` or `InsertAndGrow` end the probe; a growth is `SkipGap`, `TakeEntry`,
`PlaceNext`, `Place` for each old slot and `EndRehash`. `data` is the new table and `old`
the one being emptied. The hash of a key is any function, fixed by `Init`; `hash_si`
replaces 0 by 1 (`get_key_hash`), `hash_si_ptr` has no such case, since its gaps are marked by an
invalid key. The abstract table of `InternTable` is what both tables hold together,
without the key whose insertion has not returned yet.

**ZendTable.** A call runs no other code, so each path through
`igbinary_zend_hash_index_add_or_find` and `igbinary_zend_hash_add_or_find` is one action, from
`FindIndexPacked` to `AddIndexMixed`. Buckets, chains, holes, `nTableSize`, `nNumUsed` and
`nNextFreeElement` are as in Zend; what Zend's own functions do to them (conversion,
rehash) is modelled from their use here. Integer keys are `zend_ulong`, modulo `Word`.

**Bytes.** An element is written as *chunks*, each one request for room followed by the
bytes put there. A byte has `Base` values instead of 256. The reader knows how many elements
to read, which in the code is what the headers say.

**Storage.** The four share nothing but the constants. Each behaviour exercises one (`unit`).

## 3. Runs

Each passing run finishes within four minutes on two workers.

| run | module | shows |
|---|---|---|
| `serialize_magic` | `MCSerialize`, `user` | with `__serialize` returning fresh or existing arrays, unsetting properties and having addresses reused: the walk stays on live cells, no key is stale, headers are honoured, ids are those a reader will assign |
| `serialize_ends` | `MCSerialize`, `small` | with every kind of user code (duplicate, absent and non-string names from `__sleep`, null from `serialize()`, exceptions), counters and a stack that run out: what cuts the recursion over a cyclic value is what was filed, every walk ends with nothing held, string ids are exact and stop before they wrap |
| `roundtrip` | `MCRoundTrip`, `trips` | the value read back equals the value written and shares as it did, incomplete objects included, and no array is filed as a reference; with user code on both sides, some of it throwing: what was written is readable, ids agree, each object is called while it is alive, contents before containers; cut anywhere it is refused |
| `unserialize_damaged` | `MCUnserialize` | input no writer made, read by each caller under a depth limit: every read gets an answer, unless the array of `array_as_reference` ends the process first, pointers stay live and lead to objects and arrays as filed, nesting stays within the limit, each object is called once, what failed is marked, released and not given to anyone |
| `storage` | `MCStorage` | colliding keys through two growths, integer and string keys through every change of layout, and every element at every edge of its width: the tables refine `InternTable`, probes end, bytes are read back, nothing is out of bounds |

Seven runs have the outcome `violation`; section 6 explains them. `OneValueEach` has no run of its own: `SessionNamesDiffer`
proves it. `CalledOnce` is checked on damaged input, and proved for the writer's output as well (`TripCallsOnce`).

**Bounds of the walks.** Values have up to three cells with the root first, all reachable; the first
has up to two elements and the others one (both may be longer after user code allocates
more cells at addresses 4 and 5 and at any that is no longer alive). This is enough for every pair of "met before" and "met again" across the kinds of
holder: self-reference, two-cell cycles through references, one cell held by two
others, an array and a reference to it, an object behind several references. Ids
drift as soon as *one* value is numbered differently, so the shortest value with
a back-reference after it exhibits it. `IdSpace` is 4 in the run that must reach
full counters, and larger than any count where they would only add failures. Keys are
fixed by position; two distinct values for strings and one integer suffice because the
code compares them for equality only.

`trips` is the union of values without user code (with an immutable array at address 4;
plain objects and enums; incomplete objects, whose magic member comes first as
`php_store_class_name` makes it; roots that are arrays, objects or incomplete objects, each with the
other kinds below) and of values with it (`calls`: an array whose first element is an
object). Incomplete and plain objects are not mixed in one value, since they differ in their
own table only. `WholeOnly` keeps output for values with an object of class `A` or `C`, which have
`__serialize` and `__sleep`, or an incomplete one from being cut, as the others are; where a cut falls does not depend on
the class, and `unserialize_damaged` reads every beginning of an input with all kinds of object. `small` adds an incomplete object that holds an object with user code, whose magic member is
passed over in a walk that can fail. Every incomplete object of a passing run has its magic member; the other
case is the finding of `nameless_object`.

`CyclesCut` and `Ends` go together: ids and stack are bounded in the model, as they are in the code, so that a walk without
back-references would end there too, by failing. `CyclesCut` says that it never comes to that: a table is inside its own walk at most once for each
key it was filed under. `Ends` then says that every way out of the walk releases what it held.

In `unserialize_damaged`, six well-formed token sequences, one of each
construct and one with two references under the same key, have every two adjacent tokens replaced by any two of eighteen (shorter and longer
headers, unknown ids, classes that do not exist, kinds the class refuses), besides all their prefixes.
`MaxDepth` is 3, less than the deepest input.

**Bounds of the storage.** Tables start with two slots instead of sixteen, so that four keys
make them grow twice (`hash_si`, at three quarters) or more (`hash_si_ptr`, at half) and runs of
colliding keys wrap around. Hashes are 0, 1, 3 and 7: one that is replaced, ones
that fall into the same slot before a growth and not after it, and the reverse. Keys differ only in
their hashes, so `Init` considers hashes in one order of the keys (`Sorted`). A new key is filed under the number of keys, as both
walks do. A `zend_ulong` has 64 values; the integer keys are the first few, one beyond every
table (31), the largest positive (31 is `LONG_MAX`) and the smallest negative one (63 is -1); two names
hash to a slot of their own and to one that an integer has. Five calls reach every pair of layouts.
With two values per byte, 1, 3, 15 and 127 are the largest numbers of a width, -128 is the smallest
integer; two elements, a buffer of eight and a string table of one grow more than once.

**Deadlock** is not checked: both walks and the tables' operations are calls that return, and a
state after the last has no successor. That they do not stop earlier is `Ends`, `Answers` and
`CallsReturn`.

**Fairness.** `FairSpec` and `CallersSpec` have `WF` of their next-state action, and `Storage`'s `Spec` has
`WF` of the steps of a call: sequential code that is not preempted keeps
running. Since user code is one step of the model, this assumes that user code returns.
No action is given fairness of its own, so a choice made by user code is never forced, and
`Storage` is not forced to make another call.

## 4. Proofs

Eight modules of theorems, about the walk of the writer, the numbers it shares with the reader, the three tables, the reader
with its callers, its deferred calls, and writer and reader together. Each holds for every value of the constants: any values, addresses,
classes, hashes, initial sizes, limits and inputs, and any user code the model allows.

| theorem | says | assumes |
|---|---|---|
| `IdsStayBelowWrap` | `Spec => []IdsBelowWrap` of `Serialize` | the assumptions on constants |
| `SerializeTyped`, `FiledAddressesStay`, `WalkStaysOnLiveCells` | `[]TypeOK`, `[]NoStaleKey`, `[]WalkOnLiveCells` | `"assign" \notin RefWrites` |
| `StringNumbersAgree` | `[]StringsExact` | `"assign" \notin RefWrites` |
| `IdsCountedAsRead`, `BackReferencesExact` | `[]IdsCountWhatIsRead`, `[]BackRefsExact` | the same, and `~NullResult` |
| `LoopsWriteTheirCount` | `[]HeadersHonoured` | `RefWrites = {}` and `NamedOnce` |
| `OutputIsOneValue` | what is written is one value of the format, by the grammar of `Format` | the same |
| `StringsMeetGap`, `PointerProbesMeetGap` | `[]ProbesMeetGap`, `[]PointersMeetGap` of `Storage` | the assumptions on constants |
| `StringsAreInterned`, `PointersAreInterned` | `HashSi` and `HashSiPtr` implement `InternTable` | the same |
| `StringRefsAreBalanced` | `[]StringRefsBalanced` | the same |
| `ArrayInTable`, `ArrayOrder`, `ArrayNextFree` | `[]EntriesInTable`, `[]OrderKept`, `[]NextFreeExact` of `Storage` | the same |
| `ArrayInterns` | `ZendTable` implements `InternTable` | the same |
| `BytesInBuffer`, `BytesInBounds` | `[]WritesInBuffer`, `[]ReadsInBounds` of `Storage` | the same |
| `BytesAreRead`, `CutBytesRefused` | `[]WrittenIsRead`, `[]CutIsRefused` of `Storage` | the same |
| `UnserializeTyped`, `KeptPointersStayLive`, `RecursionIsBounded`, `ThrowerAndLaterMarked` | `[]TypeOK`, `[]KeptPointersLive`, `[]NestedWithinLimit`, `[]MarkedFromThrower` of `CallersSpec` | the same |
| `WholeValuesOnly`, `FailureKeepsNothing`, `SessionNamesDiffer` | `[]GivenOnlyWhole`, `[]NothingKept`, `[]OneValueEach` | the same |
| `EachCalledOnce`, `ContentsCalledFirst` | `[]CalledOnce`, `[]ChildrenFirst` of `CallersSpec` | the same |
| `CalledWhileAlive` | `[]CallsOnLiveObjects` of `CallersSpec` | `CallsUnset = FALSE` |
| `TripPointersLive`, `TripCallsOnce`, `TripContentsFirst` | `[]KeptPointersLive`, `[]CalledOnce`, `[]ChildrenFirst` of `RoundTrip` | `"assign" \notin RefWrites` |
| `TripCallsWhileAlive` | `[]CallsOnLiveObjects` of `RoundTrip` | the same, and `CallsUnset = FALSE` |
| `TripIdsAgree` | `[]IdsAgree` of `RoundTrip` | `"assign" \notin RefWrites` and `~NullResult` |
| `TripSharingKept` | `[]SharingKept` of `RoundTrip` | `"assign" \notin RefWrites` and `~NullResult` |
| `TripRefusesCut` | `[]RefusesCutOutput` of `RoundTrip` | `RefWrites = {}` and `NamedOnce` |
| `TripReadsOwn` | `[]ReadsOwnOutput` of `RoundTrip` | the same, `~NullResult`, `MaxDepth = 0`, `ReadableCells(EnumCases)`, and `~CallsThrow` unless no class is `Serializable` |

**The writer** (`SerializeProofs`). The hypothesis on `RefWrites` is not a convenience: the run
`reference_assigned` shows that `WalkOnLiveCells` is false without it. `IdsBelowWrap` needs only
the types of the two counters. The other three share one inductive invariant, `WalkInv`,
because none of them is inductive:

* `HeapInv`: the heap is well formed, and pointers from live cells lead to cells of
  their type. Needed because user code changes the heap and the walk then follows it.
* `AgendaInv`: a table being walked is *anchored* (tracked, immutable, waiting for its
  release in the agenda below, or the value of a tracked reference) and its bucket
  count does not exceed the table; the object of a `__sleep` loop is tracked; and a
  pointer to a value waits only at the top of the agenda or right behind a scalar key.
  The last part is what makes plain pointers safe: no user code runs between the moment
  a bucket is read and the moment its value is visited.
* `FiledInv`: what is filed is tracked or immutable, hence alive, hence not reallocated.
* `TypeOK`, on which all steps rest.

The lemmas come in layers: facts about reachability (`Live` is closed, least and monotone,
so unsetting frees but never revives); what user code does to a heap; one lemma for each
shape of step (`AgendaStep`, `HeapStep`, `PlainStep`, `FilingStep`, `UserStep` ...); then one per
group of actions, which `WalkInvInductive` puts together.

**The numbers** (`NumberingProofs`). Each hypothesis is one that a run of section 6 shows to be needed: `null_result`
for `~NullResult`, `write_through_reference` for `RefWrites = {}`, `nameless_object` for `NamedOnce` (an
incomplete object with properties has its magic member, once), `reference_assigned` for the rest.
Each of the four groups has an inductive invariant on top of `WalkInv`:

* `StringsInv`: the tokens that add a string, in the order of the output, are numbered
  from 0 without gaps, and a string is filed under the number of its token. A set of indexes that grows
  by the index just appended gives the count (`CountPutOne` and its like).
* `NumbersInv`: `references_id` is the number of tokens that the reader will give an id to. `BackOk`: an address filed
  under an id was counted by the token with that id. Neither is inductive, because a reference to a scalar is
  counted by the reader after the scalar and by the writer before it: `WaitOk` says that such a
  reference is then the last token and its scalar the top of the agenda. That the value behind
  it *is* a scalar, and stays it, uses that a reference never holds a reference (part of `CellsOK`).
* `LoopsInv`: what a loop has left is `Left`, the number of buckets from the present one on that it will write,
  by the table as it is *now*: those of an array that are not deleted, those of an object but for the magic member.
  A property that user code unsets is still written (as padding) and an element of an array can be unset through
  a reference only. `WhatIsReturned`, on the arrays `__serialize` may return, gives the start of a loop over one of them.
* `FormInv`: the output keeps to the grammar, and what the agenda has still to write is what is due. The format has no closing marks, so a
  beginning of a value is told from a value by a stack only (`Format`): values due, bodies of objects, and the entries left of each open table, innermost first.
  `Formed(buffer, s)` says that `s` is due after the output so far; `Asks(todo, s)` that the agenda comes to `s`, a loop counting
  for what it has left (`Need`), which by `LoopsInv` is what it writes. Between a key and its value one entry is half
  written, and the agenda does not look like the stack: that state is `AsksKey`. That an entry starts with a scalar, so that a reader
  can tell a key from the null of a passed-over entry, uses that what tables hold has a key (`Keyed`, part of `CellsOK`).

**The tables** (`HashSiProofs`, `HashSiPtrProofs`, `StorageProofs`). The invariant is a conjunction of
six parts. `Typed`; `Tables`: in both arrays the run of slots from the home of each entry to the
entry has no gap, and no key occurs twice; `Searching`: the slots a search has passed
since its home are taken by other keys; `Placing`: those the entry being moved has passed are taken; `Moving`: during
a growth no key that has still to be moved is in the new table, and the key whose insertion made the table grow
is in one of the two; `Counts`: how many slots are taken in each. That a probe
meets a gap follows from `Counts` and the thresholds of growth; that the tables implement
`InternTable` from `Tables`, through the set of pairs both tables hold, a definition the refinement mapping
is made of; that the references are balanced, from which keys are in one of the tables.
`StorageProofs` carries the theorems over to `Storage`, the module that is run.

**The arrays** (second part of `StorageProofs`). `ArrayOK` says what a table is between two calls. In both layouts: the buckets that are set
carry the calls that added them in increasing order and differing keys (`Content`), there is room for all of them,
and the next free element follows from the pairs held (`NextFreeOf`). Packed: the key is the place, the number of elements is
that of the set buckets, and the table is so small that its places are positive keys. Mixed: there are no holes, and every
slot and every bucket points to the *latest* earlier bucket of its slot (`Linked`). `Linked` is what makes the chains right: that a
chain has all buckets of its slot (`ChainIs`) is not local to a step. Of the lemmas, `RehashHashes`, `RoomHashes`, `PackedToHashHashes` and
`InitMixedHashes` say that a change of layout gives a mixed table with the same pairs, `RoomHashes` that a full table is
doubled and not just rehashed; `StringAdded`, `IndexAdded` and `AddToPackedOK` what adding does; one lemma per action puts them together.
`HoleToHash` and `FarToHash` add without asking for room: for the first it is the hole that leaves some (`PackedCount`), for the
second the doubling. The assumption on `MaxCalls` stands for `HT_MAX_SIZE`, and that on `StrHash` is that a hash is not negative.
The chain and the closing of holes are defined step by step over the buckets. What they compute is shown for every length without an
induction rule: if some step were wrong there would be a first one (`Least`), and the definition by steps has a solution (`Iterates`).

**The bytes** (third part of `StorageProofs`). `Codes(c, e)` says which cells `c` an element `e` is written as, and
`ElementsWritten` that its chunks come to such cells, none longer than the room it asks for. The invariant, `StreamInv`, is that the elements
lie one behind the other (`Laid(at, ...)`, `at[i]` being where the i-th ends) in the buffer followed by what is still to be
appended, `All`, which appending a chunk leaves as it is; and that the reader stands at `at[Len(read)]`, in a prefix of the buffer. The four
properties follow from it, and a failure implies a cut because `at` increases. Of the lemmas, `NumberIs` says that digits read from the first on give the number
they were taken from, which rests on `n \div (b * c) = (n \div c) \div b`; `RaisedOver` that doubling comes to an end above what
is asked for; `Sees` that the first cell tells what kind of element lies ahead. The assumption on `Elements` (`HasWidth`) is that numbers and lengths are below 2^64 and
longs on both sides of 0 have half of that; on `Base`, that a byte has at least two values; on `Capacity`, that the header fits.

**The reader** (`UnserializeProofs`). `KeptPointersLive` says that what ids and calls point to is alive, that an id filed for an object or an array leads
to one, and that an id filed for a reference leads to a reference or to an array: that the array is possible is the finding of `array_as_reference`. It is not inductive: a step may put a value over
the only pointer to a cell. The invariant, `Inv`, says of a reader that is reading (`ReadInv`):

* everything built so far is alive (`AllLive(out, Holders)`: the only closed set of cells that holds
  the result, the tracker and the parameters is the set of all cells). That is more than the property
  says, and simpler to keep: a step that adds a cell puts a pointer to it into a slot of an old one, and
  only what the slot held before could be lost.
* what a slot about to be read holds is in the tracker (`HeadDropped`), which is what `KeepOld` is for; and no other
  value waits to be read (`ZvalFirst`), so the slot is read right after its old value was tracked.
* the agenda points to cells and slots that exist (`AgendaInv`) and has no more open tables than the limit (`Within`).

`HeapInv` (cells have a type, pointers stay among the cells, the keys of a table differ), `InputInv`, `RefsInv`, `CallsInv` and
`MadeInv` are its types, and `Phases` relates `result` to the rest. `Advance` says when a step that replaces
the top of the agenda keeps `Inv`; there is one lemma per action above it. `Returns` adds what the callers have
given back. The reader's properties are proved of `CallersSpec`, the composition that is run, and not of
`Spec` alone.

**The deferred calls** (`CallsProofs`). The three theorems share `CallsOK`, an invariant on top of `Inv`. Its first half,
`OrderInv`, is about order: what is deferred is not filled any more (`Finished`); what is
read around an object is older than it (`Nested`); the cells that hold parameters hold nothing else (`HoldersApart`, `ParamsOK`); each
object with a call is either deferred or waits for it in the agenda, once (`Once`); and the younger contents of a deferred object
have been deferred before it (`YoungerFirst`). `CalledOnce` and `ChildrenFirst` can be read off at the end. The second half,
`HeldInv`, is about life: the object of a call is in every closed set of cells that has the result,
the tracker and the parameters of this call and the later ones. While input is read this is kept because a slot only
loses what the tracker gets (`OneFed`), while calls are made because a call gives back its own parameter and nothing else.
`CallsUnset = FALSE` is needed: the run `wakeup_unsets` is the counterexample.

**Writer and reader together** (`RoundTripProofs`). `RoundTrip` instantiates both walks, so the theorems about each carry over when
the input the reader is given is one it can be started on. `TokensWellFormed` of `NumberingProofs` says so: every token written has an operand of its kind
(`WellWritten`), whatever user code does. `TripInv` is the invariant of the writer with `WellWritten`, and that of the reader with `CallsOK`.
What the properties say of *any* input is thereby said of everything the writer can store, whole or cut.

`TripIdsAgree` relates the two. Its invariant, `IdsInv`, has three parts. The writer's (`StandsInv` of `NumberingProofs`, with
`StringsInv` and `NumbersInv`): each token that names another by number names one that lies before it and stands for the
same thing, in terms of the tokens alone: a cell for an object or a reference, a string, or the name that the class of an object
is written under, as long as the object's address has not been given to another (`NamedBy`). That user code changes the heap under these
names is what `birth` is for. The reader's (`CountInv` of `CallsProofs`): `drefs` and `dstrings` list, in order, what the tokens read
so far say (`Listed`). For strings this holds at every step. For ids it does not: the reader gives a reference to a scalar its id
only after it has read the scalar (`wrap`), so that one id is missing in between (`Owed`); to an array or an object
it gives the id with the header. `WrapsOk` and `HeadOk` say that the value of a reference is read right after its tag and that the id that is missing is the
one of the innermost `wrap`. The third (`Cut`) is that the input is a beginning of what was written, whose tokens have the same numbers there as in the
whole (`PartNumbered`).

`TripRefusesCut` puts `FormInv` on top. The reader's half is `ReaderAsks` of `CallsProofs`: on a beginning of *any* sequence of tokens
that keeps to the grammar, whatever the reader reads without failing leaves in the agenda what is due at `pos`. It is proved action by action,
an object or an enum case taking two or three tokens at once. The invariant, `GrammarInv`, says for the composition: once there is input,
`buffer` is one value (`OneValue`), and as long as it is read the agenda asks for what is due in the *whole* (`OnTrack`), although the reader has a part
only. When the calls are made nothing is asked for, hence nothing is due, hence no token of the whole can follow: the part is the whole (`ReadAll`).

`TripReadsOwn` says that the whole is never refused, which takes both halves at once. Of the reader, `NotRefused` of `CallsProofs` says what
is enough, for *any* input: one value by the grammar, with headers that announce no more than is there (`Accepts`: by `Weight`, what is due
after a token never needs more tokens than are left); ids that are known when they are read (`IdsKnown`); and after the name of a class something that goes with the class
(`BodiesRead`). The first comes from `FormInv`, the second from `IdsInv`, the third from `BodyInv` of `NumberingProofs`, the
writer's invariant on neighbouring tokens: each class name, whether it stands there or is the number of an earlier string (`TextOf`), is followed
by the kind of body its class is read with, and the tag of an enum by one of the cases. Its hypotheses are about things that the two sides
have to know alike. `ReadableCells`: an enum has the cases that the values name, and an incomplete object does
not name a class that by now is an enum or may not be unserialized. `MaxDepth = 0`: the writer has no limit on the depth, so a
value that is nested deeper than the reader's limit is written and refused. `Serializable::unserialize` is called while reading, and when it throws reading
fails; `__unserialize` and `__wakeup` are called afterwards and may throw. In the run all hypotheses hold, with
an enum and incomplete objects among the values.

`TripSharingKept` says of what the reader *builds* that it is shared as the value written was. Both sides are said in terms of marks: the tokens the reader
makes a cell with a number for, which are those of objects and what follows a `ref`. Of the writer, `MarksInv` (`NumberingProofs`) says that
no two marks stand for the same cell (`Apart`): what a mark stands for is filed under its key, so it is found when it is met
again, and then a back-reference is written. An array outside of a reference is not a mark, and must not be: the root array is filed under another key than
when it is met again, and may be written twice; `RootFirst` says that it is no reference, hence no mark. While a `ref` waits for its scalar, one cell is filed that has no mark
yet (`LastSrc`). Of the reader, `SharesInv` (`CallsProofs`) says, for *any* input whose marks are apart, that each numbered cell stands for
one of the marks read so far (`Traced`), but for the scalar that waits for its box (`Cited`), so that no two stand for the same. That is not enough for references: an object may be read before
it is known to be in a reference, and its box is made when a back-reference asks for it (`BoxTarget`), without a number of its own. `BoxesOk` says for any input that
no two boxes hold the same object: an object that still has an entry of its own in `drefs` has no box, and it has only one entry; when the box is made
the entry becomes the box's. `TablesFed` says that no box is filled element by element, which keeps what a box holds. The calls made at the
end unset properties of objects and leave boxes alone. `ShareInv` puts the two together: the marks of the part that is read are marks of the whole (`PartApart`).

**Only model-checked**: that no array is filed as a reference when the writer's own output is read (`EntriesAsFiled`), hence that reading
it does not end in `crashed`: `ReadsOwnOutput` says only that it is not refused; `CyclesCut`; the liveness properties `Ends`, `Answers` and `CallsReturn` (fairness is outside
what the prover handles); of `RoundTrip`, `ContentsKept`, which compares the two heaps cell by cell: an invariant for it would have to say of
every array and object that is partly read how far it has come in the table it was written from.

## 5. Plan

What a continuation would add, in this order:

1. `EntriesAsFiled` for everything that the writer puts out: no array that it writes has a key twice, and a property that `__sleep` names twice is cleared before it is
   read again (both sides take a class for the same kind; one that has `__sleep` when it is written and `__unserialize` when it is read is not modelled).
2. `ContentsKept` for all values, from what each mark stands for (`Traced`) and the place of each table in the input.
3. Reference counts in the reader, which would show the leaks of section 7 as violations.
4. `Serializable::serialize` and `__serialize` that call igbinary again, with data of their own.

## 6. Where code and documentation differ

Each of these is a run whose single property states what the repository says; TLC
shows the shortest behaviour that breaks it.

| run | what happens |
|---|---|
| `null_result` | `Serializable::serialize()` returns null: a null is written, but the object keeps the id it was given, so later back-references are one too high |
| `write_through_reference` | `__serialize` unsets an element of an array being walked, through a reference to it: a deleted bucket is passed over without the padding an unset property gets |
| `reference_assigned` | `__serialize` assigns to the reference whose array is being walked: only the reference is held, the array is freed under the loop |
| `nameless_object` | an object of `__PHP_Incomplete_Class` without its magic member (made by reading that very class name) has its count lowered although no member is skipped |
| `wakeup_unsets` | `__wakeup` unsets the property that held an object whose own call is still due |
| `cut_parameter` | an `__unserialize` parameter whose header announces more than is left: the call is deferred with a zval that was never set |
| `array_as_reference` | an array has a key twice, with a reference under it each time, the second to an array that is not empty: it is written over the first reference and filed as a reference, which a later back-reference takes it for |

Two more differences have no run, because the promise is open to interpretation, and a third because it takes the
cut of `cut_parameter`. When a
deferred call throws, `igbinary_finish_deferred_calls` marks the object whose call threw
and those whose calls come later, so that their destructors do not run (`CallThrows`,
`SkipCall`). `src/TECH_NOTES.md:134` says that `__destruct()` will not be called "for any
directly created objects"; objects called earlier, and objects without a call, are not
marked. And the session module neither releases a value that was read in part nor looks at
trailing data (`DecodeFails`, `CallsForPrefix`), which the other callers do. Third, when input ends inside an array, 2637-2640
destroy it with the objects in it (`FailAndClear`), and 2153 then sets a flag on those whose `__unserialize` had been deferred.

## 7. Not modelled

* Failed memory allocations, the error at `HT_MAX_SIZE`, overflow of `size_t`, and exceptions thrown by error handlers.
* 32-bit builds, where a 64-bit integer is read by another path. The bytes of the header other than its
  length: a damaged version is refused before anything is read.
* Find-or-add on PHP 7.2, whose mask differs, and on PHP 8.1 and later, where the header
  uses Zend's own lookup functions. `nNextFreeElement` starts at 0, as PHP before 8.3 has it.
* Class autoloading and the unserialize callback; typed properties and their verification; a property
  that is remapped to the declared visibility of its name.
* The session encoder on its own: it is the walk over a root array. In the session decoder, a root
  object is iterated by its table, whose declared properties are indirect slots; they are modelled as entries.
* Dynamic properties that user code adds: the walk holds the property table it
  iterates, so only declared ones, which can be unset in place, are interesting. Code that
  changes the properties of an incomplete object.
* Reference counts, but for those `hash_si` takes. `shared` is fixed for the life of a reference, and a leak is not
  visible: neither of a property table when a loop over it fails, nor of a value that a repeated key replaces.
* User code beyond one write and one result per call. What it does before it throws
  has no effect on the walk, which fails. It is not modelled that it calls igbinary itself:
  each call has its own data, and its effect on the heap is that of user code.
* Parameter parsing, ini settings (but for `compact_strings`) and module startup.
