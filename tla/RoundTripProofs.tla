--------------------------- MODULE RoundTripProofs ---------------------------
(***************************************************************************)
(* What is proved of the two sides one by one, said of the round trip: the *)
(* reader's input is then what the writer has stored.  RoundTrip refers to *)
(* Serialize and to Unserialize, the lemmas below to the modules that hold *)
(* the proofs about them, so each operator is there twice, as Writer!Next  *)
(* and W!Next or as Reader!Next and R!Next.                                *)
(***************************************************************************)
EXTENDS RoundTrip, SequenceTheorems, TLAPS

W == INSTANCE NumberingProofs
R == INSTANCE CallsProofs WITH caller <- "function", returned <- "nothing", session <- {}

Stored == {tok \in Token : WellFormed(tok)}

(***************************************************************************)
(* The two copies agree.                                                   *)
(***************************************************************************)
LEMMA WriterAssumed == W!SerializeAssumption /\ W!ValuesAssumption
BY ZenonT(30), ValuesAssumption, RoundTripAssumption DEF Writer!ClassKinds, W!ClassKinds, ClassKinds,
   ValuesAssumption, W!ValuesAssumption, Writer!Null, W!Null, Writer!Undef, W!Undef,
   Writer!Counted, W!Counted, Writer!Key, W!Key, Writer!Zval, W!Zval, Writer!Elems, W!Elems,
   Writer!Cell, W!Cell, Writer!Fixed, W!Fixed, Writer!Pointers, W!Pointers, Writer!Targets,
   W!Targets, Writer!PointsAt, W!PointsAt, Writer!PointersOK, W!PointersOK, Writer!CellsOK,
   W!CellsOK, Writer!Keyed, W!Keyed, Writer!SerializeAssumption, W!SerializeAssumption

LEMMA ReaderAssumed == R!UnserializeAssumption /\ R!ValuesAssumption
BY ValuesAssumption, RoundTripAssumption DEF Reader!ClassKinds, R!ClassKinds, ClassKinds,
   ValuesAssumption, R!ValuesAssumption, Reader!ScalarTags, R!ScalarTags, Reader!Tags,
   R!Tags, Reader!Token, R!Token, Reader!WellFormed, R!WellFormed,
   Reader!UnserializeAssumption, R!UnserializeAssumption

LEMMA SameWriterInit == Writer!Init <=> W!Init
BY DEF Writer!Value, W!Value, Writer!Init, W!Init

LEMMA SameWriterNext == Writer!Next <=> W!Next
<1> USE DEF
       Writer!ClassKinds, W!ClassKinds, Writer!Null, W!Null, Writer!Undef, W!Undef, Writer!Text,
       W!Text, Writer!Arr, W!Arr, Writer!Obj, W!Obj, Writer!Counted, W!Counted, Writer!Elem,
       W!Elem, Writer!ArrCell, W!ArrCell, Writer!Fixed, W!Fixed, Writer!Incomplete, W!Incomplete,
       Writer!IsMagicMember, W!IsMagicMember, Writer!Pointers, W!Pointers, Writer!Targets,
       W!Targets, Writer!Closed, W!Closed, Writer!Closure, W!Closure, Writer!Tok, W!Tok,
       Writer!tables, W!tables, Writer!ghosts, W!ghosts, Writer!Value, W!Value, Writer!Table,
       W!Table, Writer!Sleep, W!Sleep, Writer!Dtor, W!Dtor, Writer!At, W!At, Writer!Do, W!Do,
       Writer!Emit, W!Emit, Writer!Fail, W!Fail, Writer!AtZval, W!AtZval, Writer!Z, W!Z,
       Writer!Src, W!Src, Writer!Known, W!Known,
       Writer!NameFits, W!NameFits, Writer!NameTok, W!NameTok, Writer!FileName, W!FileName,
       Writer!KeyOf, W!KeyOf, Writer!Seen, W!Seen, Writer!IdFits, W!IdFits, Writer!BackRef,
       W!BackRef, Writer!Hold, W!Hold, Writer!FileRef, W!FileRef, Writer!Count, W!Count,
       Writer!Header, W!Header, Writer!Loop, W!Loop, Writer!Boxed, W!Boxed, Writer!RefTok,
       W!RefTok, Writer!Held, W!Held, Writer!Live, W!Live, Writer!Unset, W!Unset,
       Writer!UnsetsIn, W!UnsetsIn, Writer!LiveRefs, W!LiveRefs, Writer!OnlyHolder, W!OnlyHolder,
       Writer!InPlace, W!InPlace, Writer!Assigns, W!Assigns, Writer!Writable, W!Writable,
       Writer!Unsets, W!Unsets, Writer!Holding, W!Holding, Writer!Temporaries, W!Temporaries,
       Writer!WithCell, W!WithCell, Writer!Cls, W!Cls, Writer!NewObject, W!NewObject,
       Writer!NewNamedObject, W!NewNamedObject, Writer!HeldWith, W!HeldWith, Writer!NameKeepers,
       W!NameKeepers, Writer!WrittenName, W!WrittenName, Writer!ClassName, W!ClassName,
       Writer!Returned, W!Returned, Writer!Names, W!Names, Writer!SleepResults, W!SleepResults,
       Writer!Top, W!Top, Writer!Entry, W!Entry, Writer!Advance, W!Advance, Writer!AtBucket,
       W!AtBucket, Writer!AtMagic, W!AtMagic, Writer!Name, W!Name, Writer!Slots, W!Slots,
       Writer!RestOfNames, W!RestOfNames, Writer!Cardinality, W!Cardinality
<1>1. Writer!StackOverflows <=> W!StackOverflows
  BY SMTT(30) DEF Writer!StackOverflows, W!StackOverflows
<1>2. Writer!SerializeScalar <=> W!SerializeScalar
  BY DEF Writer!SerializeScalar, W!SerializeScalar
<1>3. Writer!SerializeStringAgain <=> W!SerializeStringAgain
  BY SMTT(30) DEF Writer!SerializeStringAgain, W!SerializeStringAgain
<1>4. Writer!SerializeStringNew <=> W!SerializeStringNew
  BY DEF Writer!SerializeStringNew, W!SerializeStringNew
<1>5. Writer!TooManyStrings <=> W!TooManyStrings
  BY DEF Writer!TooManyStrings, W!TooManyStrings
<1>6. Writer!SerializeArrayAgain <=> W!SerializeArrayAgain
  BY DEF Writer!SerializeArrayAgain, W!SerializeArrayAgain
<1>7. Writer!SerializeArrayNew <=> W!SerializeArrayNew
  BY DEF Writer!SerializeArrayNew, W!SerializeArrayNew
<1>8. Writer!TooManyReferences <=> W!TooManyReferences
  BY DEF Writer!TooManyReferences, W!TooManyReferences
<1>9. Writer!SerializeReferenceUnshared <=> W!SerializeReferenceUnshared
  BY DEF Writer!SerializeReferenceUnshared, W!SerializeReferenceUnshared
<1>10. Writer!SerializeReferenceToObject <=> W!SerializeReferenceToObject
  BY DEF Writer!SerializeReferenceToObject, W!SerializeReferenceToObject
<1>11. Writer!SerializeReferenceAgain <=> W!SerializeReferenceAgain
  BY DEF Writer!SerializeReferenceAgain, W!SerializeReferenceAgain
<1>12. Writer!SerializeReferenceNew <=> W!SerializeReferenceNew
  BY SMTT(30) DEF Writer!SerializeReferenceNew, W!SerializeReferenceNew
<1>13. Writer!SerializeObjectAgain <=> W!SerializeObjectAgain
  BY DEF Writer!SerializeObjectAgain, W!SerializeObjectAgain
<1>14. Writer!SerializeObjectPlain <=> W!SerializeObjectPlain
  BY DEF Writer!SerializeObjectPlain, W!SerializeObjectPlain
<1>15. Writer!SerializeObjectEnum <=> W!SerializeObjectEnum
  BY DEF Writer!SerializeObjectEnum, W!SerializeObjectEnum
<1>16. Writer!SerializeObjectMagic <=> W!SerializeObjectMagic
  BY SMTT(30) DEF Writer!SerializeObjectMagic, W!SerializeObjectMagic
<1>17. Writer!SerializeObjectData <=> W!SerializeObjectData
  BY DEF Writer!SerializeObjectData, W!SerializeObjectData
<1>18. Writer!SerializeObjectNull <=> W!SerializeObjectNull
  BY DEF Writer!SerializeObjectNull, W!SerializeObjectNull
<1>19. Writer!SerializeObjectSleep <=> W!SerializeObjectSleep
  BY SMTT(30) DEF Writer!SerializeObjectSleep, W!SerializeObjectSleep
<1>20. Writer!SerializeObjectThrows <=> W!SerializeObjectThrows
  BY SMTT(30) DEF Writer!SerializeObjectThrows, W!SerializeObjectThrows
<1>21. Writer!TooManyStringsForName <=> W!TooManyStringsForName
  BY DEF Writer!TooManyStringsForName, W!TooManyStringsForName
<1>22. Writer!SkipMagic <=> W!SkipMagic
  BY DEF Writer!SkipMagic, W!SkipMagic
<1>23. Writer!SkipDeleted <=> W!SkipDeleted
  BY DEF Writer!SkipDeleted, W!SkipDeleted
<1>24. Writer!PadUnset <=> W!PadUnset
  BY DEF Writer!PadUnset, W!PadUnset
<1>25. Writer!SerializeEntry <=> W!SerializeEntry
  BY DEF Writer!SerializeEntry, W!SerializeEntry
<1>26. Writer!EndTable <=> W!EndTable
  BY DEF Writer!EndTable, W!EndTable
<1>27. Writer!ReleaseReturned <=> W!ReleaseReturned
  BY DEF Writer!ReleaseReturned, W!ReleaseReturned
<1>28. Writer!SleepNotAString <=> W!SleepNotAString
  BY DEF Writer!SleepNotAString, W!SleepNotAString
<1>29. Writer!SleepProperty <=> W!SleepProperty
  BY DEF Writer!SleepProperty, W!SleepProperty
<1>30. Writer!SleepUninitialized <=> W!SleepUninitialized
  BY DEF Writer!SleepUninitialized, W!SleepUninitialized
<1>31. Writer!Deinit <=> W!Deinit
  BY DEF Writer!Deinit, W!Deinit
<1> QED
  BY <1>1, <1>2, <1>3, <1>4, <1>5, <1>6, <1>7, <1>8, <1>9, <1>10, <1>11, <1>12, <1>13, <1>14,
     <1>15, <1>16, <1>17, <1>18, <1>19, <1>20, <1>21, <1>22, <1>23, <1>24, <1>25, <1>26, <1>27,
     <1>28, <1>29, <1>30, <1>31,
     Zenon DEF Writer!SerializeZval, W!SerializeZval, Writer!SerializeObject, W!SerializeObject,
     Writer!SerializeTable, W!SerializeTable, Writer!Next, W!Next

LEMMA SameReaderStart == Reader!Start(<< >>) => R!Start(<< >>)
BY DEF Reader!Null, R!Null, Reader!Elem, R!Elem, Reader!HoldCell, R!HoldCell, Reader!Read, R!Read,
       Reader!Start, R!Start

LEMMA SameReaderNext == Reader!Next <=> R!Next
BY ZenonT(30) DEF Reader!Null, R!Null, Reader!Undef, R!Undef, Reader!Long, R!Long, Reader!Text, R!Text,
       Reader!Arr, R!Arr, Reader!Obj, R!Obj, Reader!Ref, R!Ref, Reader!Counted, R!Counted,
       Reader!Elem, R!Elem, Reader!ArrCell, R!ArrCell, Reader!ObjCell, R!ObjCell,
       Reader!RefCell, R!RefCell, Reader!Incomplete, R!Incomplete, Reader!Pointers,
       R!Pointers, Reader!Targets, R!Targets, Reader!Closed, R!Closed, Reader!OneStep,
       R!OneStep, Reader!Near, R!Near, Reader!Reach, R!Reach, Reader!ScalarTags,
       R!ScalarTags, Reader!Tags, R!Tags, Reader!calls, R!calls, Reader!HoldCell,
       R!HoldCell, Reader!At, R!At, Reader!Top, R!Top, Reader!More, R!More, Reader!T, R!T,
       Reader!Do, R!Do, Reader!In, R!In, Reader!Put, R!Put, Reader!Next1, R!Next1,
       Reader!Entry, R!Entry, Reader!Read, R!Read, Reader!Wrap, R!Wrap, Reader!Fill, R!Fill,
       Reader!Defer, R!Defer, Reader!MagicItems, R!MagicItems, Reader!InOrder, R!InOrder,
       Reader!DeferPending, R!DeferPending, Reader!FailWith, R!FailWith, Reader!Fail,
       R!Fail, Reader!FailAndClear, R!FailAndClear, Reader!Depth, R!Depth, Reader!TooDeep,
       R!TooDeep, Reader!AtToken, R!AtToken, Reader!CannotRead, R!CannotRead,
       Reader!StringAt, R!StringAt, Reader!StringKnown, R!StringKnown, Reader!Strings1,
       R!Strings1, Reader!Scalar, R!Scalar, Reader!ReadScalar, R!ReadScalar,
       Reader!UnknownString, R!UnknownString, Reader!ReadReference, R!ReadReference,
       Reader!WrapReference, R!WrapReference, Reader!PutCell, R!PutCell, Reader!Make,
       R!Make, Reader!Short, R!Short, Reader!ShortArray, R!ShortArray, Reader!ReadArray,
       R!ReadArray, Reader!KeyTags, R!KeyTags, Reader!OneLess, R!OneLess, Reader!AtKey,
       R!AtKey, Reader!KeyIn, R!KeyIn, Reader!Indexes, R!Indexes, Reader!CannotReadKey,
       R!CannotReadKey, Reader!SkipKeyless, R!SkipKeyless, Reader!ReadNewKey, R!ReadNewKey,
       Reader!KeepOld, R!KeepOld, Reader!ReadOldKey, R!ReadOldKey, Reader!EndFill,
       R!EndFill, Reader!ClassAt, R!ClassAt, Reader!ClassName, R!ClassName, Reader!KindOf,
       R!KindOf, Reader!Created, R!Created, Reader!T2, R!T2, Reader!AtObject, R!AtObject,
       Reader!BuildObject, R!BuildObject, Reader!CaseKnown, R!CaseKnown,
       Reader!CannotReadObject, R!CannotReadObject, Reader!ShortProperties,
       R!ShortProperties, Reader!ShortParameter, R!ShortParameter, Reader!ReadObject,
       R!ReadObject, Reader!ReadParameter, R!ReadParameter, Reader!ReadSerializable,
       R!ReadSerializable, Reader!ReadEnumCase, R!ReadEnumCase, Reader!Target, R!Target,
       Reader!Shared, R!Shared, Reader!AtBackRef, R!AtBackRef, Reader!UnknownId,
       R!UnknownId, Reader!ShareReference, R!ShareReference, Reader!ShareValue,
       R!ShareValue, Reader!Mistaken, R!Mistaken, Reader!MisreadCrash, R!MisreadCrash,
       Reader!Key, R!Key, Reader!MisreadValue, R!MisreadValue, Reader!Boxed, R!Boxed,
       Reader!BoxTarget, R!BoxTarget, Reader!DeferCall, R!DeferCall,
       Reader!TrailingData, R!TrailingData, Reader!StartCalls, R!StartCalls, Reader!Params,
       R!Params, Reader!Live, R!Live, Reader!Unsets, R!Unsets, Reader!MakeCall, R!MakeCall,
       Reader!CallThrows, R!CallThrows, Reader!SkipCall, R!SkipCall, Reader!Deinit,
       R!Deinit, Reader!ReadZval, R!ReadZval, Reader!FinishDeferredCalls,
       R!FinishDeferredCalls, Reader!Next, R!Next, Reader!Cardinality, R!Cardinality

LEMMA SameTokens ==
  /\ Stored = {tok \in W!Token : W!WellFormed(tok)}
  /\ Stored = {tok \in R!Token : R!WellFormed(tok)}
BY DEF Stored, Token, WellFormed, Tags, ScalarTags, W!Token, W!WellFormed, W!Tags, W!ScalarTags,
       R!Token, R!WellFormed, R!Tags, R!ScalarTags

(***************************************************************************)
(* The writer's invariant and the reader's, and between them that only     *)
(* well-formed tokens are stored.                                          *)
(***************************************************************************)
Written == W!WalkInv /\ W!WellWritten
ReadOK  == R!Inv /\ R!CallsOK
TripInv == Written /\ ReadOK

LEMMA WrittenStored ==
  ASSUME Written
  PROVE  buffer \in Seq(Stored)
BY SameTokens, WriterAssumed, W!WrittenTokens
   DEF Written, W!WrittenTokens, W!SerializeAssumption, W!ValuesAssumption

LEMMA WriterStarts ==
  ASSUME Writer!Init
  PROVE  Written
<1>1. W!WalkInv
  BY SameWriterInit, WriterAssumed, W!WalkAtStart
     DEF W!WalkAtStart, W!SerializeAssumption, W!ValuesAssumption
<1>2. W!WellWritten
  BY SameWriterInit DEF W!Init, W!WellWritten
<1>3. QED
  BY <1>1, <1>2 DEF Written

LEMMA WriterSteps ==
  ASSUME "assign" \notin RefWrites, Written, Writer!Next \/ UNCHANGED wvars
  PROVE  Written'
<1>1. [W!Next]_(W!vars)
  BY SameWriterNext DEF wvars, W!vars, W!tables, W!ghosts
<1>2. W!WalkInv'
  BY <1>1, WriterAssumed, W!WalkStep
     DEF Written, W!WalkStep, W!SerializeAssumption, W!ValuesAssumption
<1>3. W!WellWritten'
  BY <1>1, WriterAssumed, W!WellWrittenStep
     DEF Written, W!WellWrittenStep, W!SerializeAssumption, W!ValuesAssumption
<1>4. QED
  BY <1>2, <1>3 DEF Written

LEMMA ReaderStarts ==
  ASSUME Reader!Start(<< >>)
  PROVE  ReadOK
<1>1. R!Start(<< >>) /\ << >> \in Seq({tok \in R!Token : R!WellFormed(tok)})
  BY SameReaderStart
<1>2. R!Inv
  BY <1>1, ReaderAssumed, R!HoldsFromStart
     DEF R!HoldsFromStart, R!UnserializeAssumption, R!ValuesAssumption
<1>3. R!CallsOK
  BY <1>1, ReaderAssumed, R!CallsFromStart
     DEF R!CallsFromStart, R!UnserializeAssumption, R!ValuesAssumption
<1>4. QED
  BY <1>2, <1>3 DEF ReadOK

LEMMA ReaderWaits ==
  ASSUME ReadOK, UNCHANGED rvars
  PROVE  ReadOK'
<1>1. UNCHANGED R!vars
  BY DEF rvars, R!vars
<1>2. R!Inv'
  BY <1>1, ReaderAssumed, R!SameInv
     DEF ReadOK, R!SameInv, R!UnserializeAssumption, R!ValuesAssumption
<1>3. R!CallsOK'
  BY <1>1, ReaderAssumed, R!SameCalls
     DEF ReadOK, R!SameCalls, R!vars, R!UnserializeAssumption, R!ValuesAssumption
<1>4. QED
  BY <1>2, <1>3 DEF ReadOK

LEMMA ReaderReads ==
  ASSUME ReadOK, Reader!Next
  PROVE  ReadOK'
<1>1. R!ReaderStep
  BY SameReaderNext, ReaderAssumed, R!ReaderSteps
     DEF R!ReaderSteps, R!UnserializeAssumption, R!ValuesAssumption
<1>2. R!Inv'
  BY <1>1, ReaderAssumed, R!ReaderOK
     DEF ReadOK, R!ReaderOK, R!UnserializeAssumption, R!ValuesAssumption
<1>3. R!CallsOK'
  BY <1>1, ReaderAssumed, R!ReaderCalls
     DEF ReadOK, R!ReaderCalls, R!UnserializeAssumption, R!ValuesAssumption
<1>4. QED
  BY <1>2, <1>3 DEF ReadOK

\* the reader has read nothing yet, and is given a part of what was written
LEMMA ReaderIsGiven ==
  ASSUME TripInv, Pass
  PROVE  ReadOK'
<1>1. PICK n \in 1..Len(buffer) : input' = SubSeq(buffer, 1, n)
  BY DEF Pass
<1>2. buffer \in Seq(Stored)
  BY WrittenStored DEF TripInv
<1>3. input' \in Seq(Stored) /\ Len(input') = n /\ n \in Nat \ {0}
  <2>1. Len(buffer) \in Nat
    BY <1>2
  <2>2. 1 \in 1..(Len(buffer) + 1) /\ n \in (1 - 1)..Len(buffer) /\ n \in Nat \ {0}
    BY <2>1
  <2>3. QED
    BY <1>1, <1>2, <2>2, SubSeqProperties
<1>4. pos' = 1
  <2>1. input = << >> /\ pos' = pos
    BY DEF Pass
  <2>2. pos \in 1..(Len(input) + 1)
    BY DEF TripInv, ReadOK, R!Inv, R!InputInv
  <2>3. Len(input) = 0
    BY <2>1
  <2>4. QED
    BY <2>1, <2>2, <2>3
<1>5. R!InputInv'
  BY <1>3, <1>4, SameTokens DEF R!InputInv
<1>6. UNCHANGED << pos, out, made, agenda, dstrings, drefs, deferred, dtors, called, throws,
                   flagged, result >>
  BY DEF Pass
<1>7. R!Inv'
  BY <1>5, <1>6, ReaderAssumed, R!OtherInput
     DEF TripInv, ReadOK, R!OtherInput, R!UnserializeAssumption, R!ValuesAssumption
<1>8. R!CallsOK'
  BY <1>6, ReaderAssumed, R!SameCalls
     DEF TripInv, ReadOK, R!SameCalls, R!UnserializeAssumption, R!ValuesAssumption
<1>9. QED
  BY <1>7, <1>8 DEF ReadOK

LEMMA TripInvHolds ==
  ASSUME "assign" \notin RefWrites
  PROVE  Spec => []TripInv
<1>1. Init => TripInv
  BY WriterStarts, ReaderStarts DEF Init, TripInv
<1>2. ASSUME TripInv, [Next]_vars
      PROVE  TripInv'
  <2>1. CASE Write
    BY <1>2, <2>1, WriterSteps, ReaderWaits DEF Write, TripInv
  <2>2. CASE Pass
    <3>1. UNCHANGED wvars
      BY <2>2 DEF Pass
    <3>2. QED
      BY <1>2, <2>2, <3>1, WriterSteps, ReaderIsGiven DEF TripInv
  <2>3. CASE ReadBack
    BY <1>2, <2>3, WriterSteps, ReaderReads DEF ReadBack, TripInv
  <2>4. CASE UNCHANGED vars
    BY <1>2, <2>4, WriterSteps, ReaderWaits DEF vars, TripInv
  <2>5. QED
    BY <1>2, <2>1, <2>2, <2>3, <2>4 DEF Next
<1>3. QED
  BY <1>1, <1>2, PTL DEF Spec

(***************************************************************************)
(* The numbers of the two sides.  The input is what was written up to some *)
(* token, and the reader counts on it as it stands in the whole.           *)
(***************************************************************************)
\* what a beginning of a sequence is
LEMMA PartOf ==
  ASSUME NEW U, NEW b \in Seq(U), NEW n \in 1..Len(b)
  PROVE  LET c == SubSeq(b, 1, n)
         IN  /\ c \in Seq(U) /\ Len(c) = n /\ DOMAIN c = 1..n /\ \A i \in 1..n : c[i] = b[i]
             /\ n \in Nat /\ DOMAIN b = 1..Len(b) /\ 1..n \subseteq DOMAIN b /\ c # << >>
<1> DEFINE c == SubSeq(b, 1, n)
<1>1. Len(b) \in Nat /\ DOMAIN b = 1..Len(b)
  OBVIOUS
<1>2. 1 \in 1..(Len(b) + 1) /\ n \in (1 - 1)..Len(b) /\ n \in Nat \ {0} /\ (n - 1) + 1 = n
  BY <1>1
<1>3. c \in Seq(U) /\ Len(c) = (n - 1) + 1 /\ \A i \in 1..((n - 1) + 1) : c[i] = b[1 + i - 1]
  BY <1>2, SubSeqProperties
<1>4. \A i \in 1..n : 1 + i - 1 = i
  BY <1>2
<1> HIDE DEF c
<1>5. DOMAIN c = 1..n /\ Len(c) = n
  BY <1>2, <1>3
<1>6. c # << >>
  BY <1>2, <1>5
<1> QED
  BY <1>1, <1>2, <1>3, <1>4, <1>5, <1>6 DEF c

\* the tokens of a beginning have the numbers that they have in the whole
LEMMA PartNumbered ==
  ASSUME NEW U, NEW b \in Seq(U), NEW n \in 1..Len(b), NEW c, c = SubSeq(b, 1, n)
  PROVE  /\ \A q \in 1..n : /\ R!TakesId(c, q) <=> W!Numbered(b, q)
                            /\ R!Below(R!IdTokens(c), q) = W!NumberOf(b, q)
                            /\ R!Below(R!NameTokens(c), q) = W!Rank(b, q)
                            /\ q \in R!IdTokens(c) <=> W!Numbered(b, q)
                            /\ q \in R!NameTokens(c) <=> q \in W!StringNumbers(b)
         /\ R!IdTokens(c) \in SUBSET (1..n) /\ R!NameTokens(c) \in SUBSET (1..n)
<1>1. /\ DOMAIN c = 1..n /\ \A i \in 1..n : c[i] = b[i]
      /\ n \in Nat /\ 1..n \subseteq DOMAIN b /\ DOMAIN b = 1..Len(b)
  BY PartOf
<1>2. \A q \in 1..n : \A tags : R!Follows(c, q, tags) <=> W!After(b, q, tags)
  BY <1>1 DEF R!Follows, W!After
<1>3. \A q \in 1..n : R!TakesId(c, q) <=> W!Numbered(b, q)
  BY <1>1, <1>2 DEF R!TakesId, W!Numbered, R!ScalarTags, W!ScalarTags
<1>4. /\ \A q \in 1..n : q \in R!IdTokens(c) <=> W!Numbered(b, q)
      /\ \A q \in 1..n : q \in R!NameTokens(c) <=> q \in W!StringNumbers(b)
      /\ R!IdTokens(c) \in SUBSET (1..n) /\ R!NameTokens(c) \in SUBSET (1..n)
      /\ W!StringNumbers(b) \subseteq 1..Len(b)
  BY <1>1, <1>3 DEF R!IdTokens, R!NameTokens, W!StringNumbers
<1>5. \A q \in 1..n : R!Below(R!IdTokens(c), q) = W!NumberOf(b, q)
  <2> TAKE q \in 1..n
  <2>1. {j \in R!IdTokens(c) : j < q} = {j \in 1..(q - 1) : W!Numbered(b, j)}
    BY <1>1, <1>4
  <2> QED
    BY <2>1 DEF R!Below, W!NumberOf, R!Cardinality, W!Cardinality
<1>6. \A q \in 1..n : R!Below(R!NameTokens(c), q) = W!Rank(b, q)
  <2> TAKE q \in 1..n
  <2>1. {j \in R!NameTokens(c) : j < q} = {j \in W!StringNumbers(b) : j < q}
    BY <1>1, <1>4
  <2> QED
    BY <2>1 DEF R!Below, W!Rank, R!Cardinality, W!Cardinality
<1> QED
  BY <1>3, <1>4, <1>5, <1>6

\* what the reader has read from is a beginning of what was written, and before
\* it has input it has nothing
Cut == input # << >> => \E n \in 1..Len(buffer) : input = SubSeq(buffer, 1, n)
Unread == input = << >> => /\ agenda = << R!Read(<< 1, 1 >>, FALSE) >> /\ pos = 1
                           /\ drefs = << >> /\ dstrings = << >>
\* the writer's side of the numbering, and both
WrittenIds == W!StringsInv /\ W!NumbersInv /\ W!StandsInv
IdsInv == WrittenIds /\ R!CountInv /\ Cut /\ Unread

\* the writer's side
LEMMA WrittenIdsStart == ASSUME Writer!Init PROVE WrittenIds
<1>1. W!Init
  BY SameWriterInit
<1>2. W!StringsInv /\ W!NumbersInv
  BY <1>1, WriterAssumed, W!StringsAtStart, W!NumbersAtStart
     DEF W!StringsAtStart, W!NumbersAtStart, W!SerializeAssumption, W!ValuesAssumption
<1>3. W!StandsInv
  BY <1>1 DEF W!Init, W!StandsInv, W!StandsOk
<1> QED
  BY <1>2, <1>3 DEF WrittenIds

LEMMA WrittenIdsStep ==
  ASSUME "assign" \notin RefWrites, ~NullResult, Written, WrittenIds, Writer!Next \/ UNCHANGED wvars
  PROVE  WrittenIds'
<1>1. [W!Next]_(W!vars) /\ W!WalkInv
  BY SameWriterNext DEF wvars, W!vars, W!tables, W!ghosts, Written
<1>2. W!StringsInv'
  BY <1>1, WriterAssumed, W!StringsStep
     DEF WrittenIds, W!StringsStep, W!SerializeAssumption, W!ValuesAssumption
<1>3. W!NumbersInv'
  BY <1>1, WriterAssumed, W!NumbersStep
     DEF WrittenIds, W!NumbersStep, W!SerializeAssumption, W!ValuesAssumption
<1>4. W!StandsInv'
  BY <1>1, WriterAssumed, W!StandsStep
     DEF WrittenIds, W!StandsStep, W!SerializeAssumption, W!ValuesAssumption
<1> QED
  BY <1>2, <1>3, <1>4 DEF WrittenIds

\* the reader's side: nothing is read yet, ...
LEMMA CountsStart == ASSUME Reader!Start(<< >>) PROVE R!CountInv /\ Unread /\ input = << >>
<1>1. R!Start(<< >>) /\ << >> \in Seq(Stored)
  BY SameReaderStart
<1>2. R!CountInv
  BY <1>1, ReaderAssumed, R!CountsFromStart
     DEF R!CountsFromStart, R!UnserializeAssumption, R!ValuesAssumption
<1> QED
  BY <1>1, <1>2 DEF R!Start, Unread

LEMMA CountsWait == ASSUME R!CountInv, UNCHANGED rvars PROVE R!CountInv'
BY ReaderAssumed, R!SameCounts
   DEF rvars, R!SameCounts, R!UnserializeAssumption, R!ValuesAssumption

\* ... the input stays, ...
LEMMA ReaderKeepsInput == ASSUME Reader!Next PROVE input' = input
<1>1. R!ReaderStep
  BY SameReaderNext, ReaderAssumed, R!ReaderSteps
     DEF R!ReaderSteps, R!UnserializeAssumption, R!ValuesAssumption
<1>2. CASE R!ReadZval \/ R!DeferCall \/ R!TrailingData
  BY <1>2, ReaderAssumed, R!ReadingFacts DEF R!ReadingFacts, R!UnserializeAssumption, R!ValuesAssumption
<1>3. CASE R!CallStep \/ R!Deinit
  BY <1>3, ReaderAssumed, R!CallFacts DEF R!CallFacts, R!UnserializeAssumption, R!ValuesAssumption
<1>4. CASE R!StartStep
  BY <1>4 DEF R!StartStep, R!StartCalls
<1> QED
  BY <1>1, <1>2, <1>3, <1>4 DEF R!ReaderStep

LEMMA CountsRead == ASSUME ReadOK, R!CountInv, Reader!Next PROVE R!CountInv'
<1>1. R!ReaderStep
  BY SameReaderNext, ReaderAssumed, R!ReaderSteps
     DEF R!ReaderSteps, R!UnserializeAssumption, R!ValuesAssumption
<1> QED
  BY <1>1, ReaderAssumed, R!ReaderCounts
     DEF ReadOK, R!ReaderCounts, R!UnserializeAssumption, R!ValuesAssumption

\* ... and its tables are empty when it is given its input
LEMMA CountsGiven == ASSUME TripInv, Unread, Pass PROVE R!CountInv' /\ Cut' /\ input' # << >>
<1>1. PICK n \in 1..Len(buffer) : input' = SubSeq(buffer, 1, n)
  BY DEF Pass
<1>2. buffer \in Seq(Stored) /\ buffer' = buffer
  BY WrittenStored DEF TripInv, Pass, wvars
<1>3. input' \in Seq(Stored) /\ input' # << >>
  BY <1>1, <1>2, PartOf
<1>4. Cut'
  BY <1>1, <1>2 DEF Cut
<1>5. agenda' = << R!Read(<< 1, 1 >>, FALSE) >> /\ pos' = 1 /\ drefs' = << >> /\ dstrings' = << >>
  BY DEF Pass, Unread
<1>6. R!CountOk'
  <2> DEFINE b == input'
             ag == agenda'
             H == out'
  <2>1. b \in Seq(Stored) /\ ag = << R!Read(<< 1, 1 >>, FALSE) >>
    BY <1>3, <1>5
  <2> HIDE DEF b, ag, H
  <2>2. R!WrapsOk(H, ag) /\ R!HeadOk(H, ag, b, 1) /\ R!IdsOk(H, ag, b, 1, << >>) /\ R!NamesOk(b, 1, << >>)
    BY <2>1, ReaderAssumed, R!FirstCounts DEF R!FirstCounts, R!UnserializeAssumption, R!ValuesAssumption
  <2> QED
    BY <1>5, <2>2 DEF R!CountOk, b, ag, H
<1> QED
  BY <1>3, <1>4, <1>6 DEF R!CountInv

\* the inductive invariant of the numbering
LEMMA IdsInvHolds ==
  ASSUME "assign" \notin RefWrites, ~NullResult
  PROVE  Spec => []IdsInv
<1>1. Init => IdsInv
  BY WrittenIdsStart, CountsStart DEF Init, IdsInv, Cut
<1>2. ASSUME TripInv, IdsInv, [Next]_vars
      PROVE  IdsInv'
  <2>1. CASE Write
    <3>1. WrittenIds' /\ R!CountInv'
      BY <1>2, <2>1, WrittenIdsStep, CountsWait DEF Write, TripInv, IdsInv
    <3>2. input = << >> /\ Cut' /\ Unread'
      BY <1>2, <2>1 DEF Write, rvars, IdsInv, Cut, Unread
    <3> QED
      BY <3>1, <3>2 DEF IdsInv
  <2>2. CASE Pass
    <3>1. WrittenIds'
      BY <1>2, <2>2, WrittenIdsStep DEF Pass, TripInv, IdsInv
    <3> QED
      BY <1>2, <2>2, <3>1, CountsGiven DEF IdsInv, Unread
  <2>3. CASE ReadBack
    <3>1. WrittenIds' /\ R!CountInv'
      BY <1>2, <2>3, WrittenIdsStep, CountsRead DEF ReadBack, TripInv, IdsInv
    <3>2. input' = input /\ input # << >> /\ buffer' = buffer
      BY <2>3, ReaderKeepsInput DEF ReadBack, wvars
    <3> QED
      BY <1>2, <3>1, <3>2 DEF IdsInv, Cut, Unread
  <2>4. CASE UNCHANGED vars
    <3>1. WrittenIds' /\ R!CountInv'
      BY <1>2, <2>4, WrittenIdsStep, CountsWait DEF vars, TripInv, IdsInv
    <3> QED
      BY <1>2, <2>4, <3>1 DEF IdsInv, Cut, Unread, vars, rvars, wvars
  <2> QED
    BY <1>2, <2>1, <2>2, <2>3, <2>4 DEF Next
<1> QED
  BY <1>1, <1>2, TripInvHolds, PTL DEF Spec

\* a token before the one being read has a lower number than it would get
LEMMA ListedBelow ==
  ASSUME NEW b, Len(b) \in Nat, NEW S, S \in SUBSET (1..Len(b)), NEW p, p \in Nat, NEW tbl, NEW f,
         R!Listed(tbl, S, p, f), NEW q, q \in S, q < p
  PROVE  R!Below(S, q) < Len(tbl)
<1>1. R!Below(S, q) < R!Below(S, p)
  BY ReaderAssumed, R!BelowFacts DEF R!BelowFacts, R!UnserializeAssumption, R!ValuesAssumption
<1> QED
  BY <1>1 DEF R!Listed

\* what a token with a number stands for is the same to both sides
LEMMA SourceNumbered ==
  ASSUME NEW U, NEW b \in Seq(U), W!StandsOk(b, heap, birth),
         NEW n \in 1..Len(b), NEW c, c = SubSeq(b, 1, n), NEW q \in 1..n, W!Numbered(b, q)
  PROVE  R!IdSrcs(c)[q] = W!NumberedSrc(b, q)
<1>1. /\ DOMAIN c = 1..n /\ \A i \in 1..n : c[i] = b[i]
      /\ n \in Nat /\ 1..n \subseteq DOMAIN b
  BY PartOf
<1>2. W!After(b, q, {"ref"}) => q - 1 \in 1..n /\ b[q - 1].tag = "ref"
  BY <1>1 DEF W!After
<1>3. R!IdSrcs(c)[q] = IF b[q].tag \in W!ScalarTags THEN c[q - 1].src ELSE b[q].src
  BY <1>1 DEF R!IdSrcs, R!ScalarTags, W!ScalarTags
<1>4. CASE b[q].tag \in W!ScalarTags
  <2>1. W!After(b, q, {"ref"}) /\ b[q].tag \notin {"obj", "objid"}
    BY <1>4 DEF W!Numbered, W!ScalarTags
  <2> QED
    BY <1>1, <1>2, <1>3, <1>4, <2>1 DEF W!NumberedSrc
<1>5. CASE b[q].tag = "arr"
  <2>1. R!IdSrcs(c)[q] = b[q].src
    BY <1>3, <1>5 DEF W!ScalarTags
  <2>2. W!After(b, q, {"ref"}) => b[q].src = b[q - 1].src
    BY <1>1, <1>5 DEF W!StandsOk
  <2> QED
    BY <2>1, <2>2 DEF W!NumberedSrc
<1>6. CASE b[q].tag \in {"obj", "objid"}
  <2>1. R!IdSrcs(c)[q] = b[q].src
    BY <1>3, <1>6 DEF W!ScalarTags
  <2> QED
    BY <1>6, <2>1 DEF W!NumberedSrc
<1> QED
  BY <1>4, <1>5, <1>6 DEF W!Numbered

\* the two copies of the rule for the name that is written
LEMMA SameName == \A x : W!WrittenName(x) = Writer!WrittenName(x)
BY DEF W!WrittenName, Writer!WrittenName, W!NameKeepers, Writer!NameKeepers, W!Incomplete,
       Writer!Incomplete, W!IsMagicMember, Writer!IsMagicMember, W!Text, Writer!Text

\* a back-reference that is read finds the cell it was written for
LEMMA IdFound ==
  ASSUME TripInv, IdsInv, result = "reading", input # << >>, agenda # << >>, pos \in 1..Len(input),
         input[pos].tag \in {"refid", "objref"}, Head(agenda).op = "zval"
  PROVE  input[pos].v < Len(drefs) /\ drefs[input[pos].v + 1].src = input[pos].src
<1> DEFINE t == input[pos]
           ids == R!IdTokens(input)
<1>1. buffer \in Seq(Stored)
  BY WrittenStored DEF TripInv
<1>2. PICK n \in 1..Len(buffer) : input = SubSeq(buffer, 1, n)
  BY DEF IdsInv, Cut
<1>3. /\ Len(input) = n /\ n \in Nat /\ 1..n \subseteq DOMAIN buffer
      /\ pos \in 1..n /\ pos \in DOMAIN buffer /\ t = buffer[pos]
  BY <1>1, <1>2, PartOf
<1>4. PICK q \in 1..(pos - 1) : /\ W!Numbered(buffer, q) /\ W!NumberOf(buffer, q) = t.v
                                /\ W!NumberedSrc(buffer, q) = t.src
  BY <1>3 DEF IdsInv, WrittenIds, W!NumbersInv, W!BackOk
<1>5. q \in 1..n /\ q < pos
  BY <1>3
<1>6. q \in ids /\ R!Below(ids, q) = t.v /\ ids \in SUBSET (1..n)
  BY <1>1, <1>2, <1>4, <1>5, PartNumbered
<1>7. R!IdSrcs(input)[q] = t.src
  BY <1>1, <1>2, <1>4, <1>5, SourceNumbered DEF IdsInv, WrittenIds, W!StandsInv
<1>8. R!Listed(R!SrcsOf(drefs), ids, pos, R!IdSrcs(input))
  BY ReaderAssumed, R!CountsAtValue
     DEF TripInv, ReadOK, IdsInv, R!CountsAtValue, R!UnserializeAssumption, R!ValuesAssumption
<1>9. t.v < Len(R!SrcsOf(drefs)) /\ R!SrcsOf(drefs)[t.v + 1] = t.src
  <2>1. /\ Len(input) \in Nat /\ ids \in SUBSET (1..Len(input)) /\ pos \in Nat /\ q \in ids /\ q < pos
        /\ t.v = R!Below(ids, q) /\ R!Listed(R!SrcsOf(drefs), ids, pos, R!IdSrcs(input))
    BY <1>3, <1>5, <1>6, <1>8
  <2> HIDE DEF ids, t
  <2>2. R!Below(ids, q) < Len(R!SrcsOf(drefs))
    BY <2>1, ListedBelow
  <2>3. R!SrcsOf(drefs)[R!Below(ids, q) + 1] = R!IdSrcs(input)[q]
    BY <2>1 DEF R!Listed
  <2> QED
    BY <1>7, <2>1, <2>2, <2>3
<1>10. drefs \in Seq(R!RefT)
  BY DEF TripInv, ReadOK, R!Inv, R!RefsInv
<1>11. Len(R!SrcsOf(drefs)) = Len(drefs)
  BY <1>10, ReaderAssumed, R!SrcsAppend DEF R!SrcsAppend, R!UnserializeAssumption, R!ValuesAssumption
<1>12. t.v \in Nat
  <2>1. t \in Stored
    BY <1>1, <1>3
  <2>2. WellFormed(t) /\ t.tag \in {"refid", "objref"}
    BY <2>1 DEF Stored
  <2> QED
    BY <2>2 DEF WellFormed
<1>13. t.v + 1 \in DOMAIN drefs
  BY <1>9, <1>10, <1>11, <1>12
<1>14. R!SrcsOf(drefs)[t.v + 1] = drefs[t.v + 1].src
  BY <1>13 DEF R!SrcsOf
<1> QED
  BY <1>9, <1>11, <1>14 DEF t

\* a string id that is read finds the string it was written for
LEMMA NameFound ==
  ASSUME TripInv, IdsInv, result = "reading", input # << >>, agenda # << >>, pos \in 1..Len(input),
         input[pos].tag \in {"strid", "objid"}
  PROVE  LET t == input[pos]
         IN  /\ t.v < Len(dstrings)
             /\ t.tag = "strid" => dstrings[t.v + 1] = t.src
             /\ t.tag = "objid" => W!NamedBy(dstrings[t.v + 1], t.src, heap, birth)
<1> DEFINE t == input[pos]
           names == R!NameTokens(input)
<1>1. buffer \in Seq(Stored)
  BY WrittenStored DEF TripInv
<1>2. PICK n \in 1..Len(buffer) : input = SubSeq(buffer, 1, n)
  BY DEF IdsInv, Cut
<1>3. /\ Len(input) = n /\ n \in Nat /\ 1..n \subseteq DOMAIN buffer /\ DOMAIN input = 1..n
      /\ DOMAIN buffer = 1..Len(buffer) /\ pos \in 1..n /\ pos \in DOMAIN buffer /\ t = buffer[pos]
      /\ \A i \in 1..n : input[i] = buffer[i]
  BY <1>1, <1>2, PartOf
<1>4. PICK i \in W!StringNumbers(buffer) :
         /\ i < pos /\ W!Rank(buffer, i) = t.v
         /\ t.tag = "strid" => buffer[i].v = t.src
         /\ t.tag = "objid" => W!NamedBy(buffer[i].v, t.src, heap, birth)
  BY <1>3 DEF IdsInv, WrittenIds, W!StandsInv, W!StandsOk
<1>5. i \in 1..n
  BY <1>3, <1>4 DEF W!StringNumbers
<1>6. i \in names /\ R!Below(names, i) = t.v /\ names \in SUBSET (1..n)
  BY <1>1, <1>2, <1>4, <1>5, PartNumbered
<1>7. R!NamesOf(input)[i] = buffer[i].v
  BY <1>3, <1>5 DEF R!NamesOf
<1>8. R!Listed(dstrings, names, pos, R!NamesOf(input))
  BY ReaderAssumed, R!CountsAtValue
     DEF TripInv, ReadOK, IdsInv, R!CountsAtValue, R!NamesOk, R!UnserializeAssumption, R!ValuesAssumption
<1>9. t.v < Len(dstrings) /\ dstrings[t.v + 1] = buffer[i].v
  <2>1. /\ Len(input) \in Nat /\ names \in SUBSET (1..Len(input)) /\ pos \in Nat /\ i \in names /\ i < pos
        /\ t.v = R!Below(names, i) /\ R!Listed(dstrings, names, pos, R!NamesOf(input))
    BY <1>3, <1>4, <1>6, <1>8
  <2> HIDE DEF names, t
  <2>2. R!Below(names, i) < Len(dstrings)
    BY <2>1, ListedBelow
  <2>3. dstrings[R!Below(names, i) + 1] = R!NamesOf(input)[i]
    BY <2>1 DEF R!Listed
  <2> QED
    BY <1>7, <2>1, <2>2, <2>3
<1> QED
  BY <1>4, <1>9 DEF t

(***************************************************************************)
(* The grammar.  What was written is one value of the format, and what the *)
(* reader has still to read is what is due at the token it has come to.    *)
(* Both sides have their copy of Format.                                   *)
(***************************************************************************)
LEMMA SameGrammar ==
  /\ \A s, t : W!Leaves(s, t) = R!Leaves(s, t)
  /\ W!Ask(W!ValueDue, << >>) = R!Ask(R!ValueDue, << >>)
<1> USE DEF W!ValueDue, R!ValueDue, W!BodyDue, R!BodyDue
<1>1. \A n : W!AtLeast(n) = R!AtLeast(n)
  BY DEF W!AtLeast, R!AtLeast
<1>2. \A s : W!Weight(s) = R!Weight(s)
  BY DEF W!Weight, R!Weight
<1>3. \A n, s : W!Ask(n, s) = R!Ask(n, s)
  BY <1>1, <1>2 DEF W!Ask, R!Ask
<1>4. \A n, s : W!Await(n, s) = R!Await(n, s)
  BY <1>3 DEF W!Await, R!Await
<1>5. \A s, t : W!Leaves(s, t) = R!Leaves(s, t)
  BY <1>3, <1>4 DEF W!Leaves, R!Leaves
<1> QED
  BY <1>3, <1>5

\* once the reader has input, the writer is done
OneValue == input # << >> => W!Formed(buffer, << >>)
OnTrack  == input # << >> /\ result = "reading" =>
               \A f : W!Parses(buffer, f) => R!Asks(agenda, f[pos - 1])
ReadAll  == /\ input = << >> => result = "reading"
            /\ result \in {"calling", "done"} => input = buffer
GrammarInv == W!LoopsInv /\ W!FormInv /\ Cut /\ Unread /\ OneValue /\ OnTrack /\ ReadAll

\* the part that the reader has is turned like the whole
LEMMA PartTurns ==
  ASSUME NEW U, NEW b \in Seq(U), NEW n \in 1..Len(b), input = SubSeq(b, 1, n),
         NEW f, W!Parses(b, f)
  PROVE  R!Turns(f)
<1>1. /\ Len(input) = n /\ \A i \in 1..n : input[i] = b[i] /\ i \in 1..Len(b)
  BY PartOf
<1>2. \A i \in 1..Len(b) : f[i] = R!Leaves(f[i - 1], b[i])
  BY SameGrammar DEF W!Parses
<1> QED
  BY <1>1, <1>2 DEF R!Turns

LEMMA WholeOfIt ==
  ASSUME NEW U, NEW b \in Seq(U), Len(b) \in 1..Len(b)
  PROVE  SubSeq(b, 1, Len(b)) = b
<1> DEFINE c == SubSeq(b, 1, Len(b))
<1>1. c \in Seq(U) /\ Len(c) = Len(b) /\ \A i \in 1..Len(b) : c[i] = b[i]
  BY PartOf
<1> HIDE DEF c
<1>2. c = b
  BY <1>1, SeqEqual
<1> QED
  BY <1>2 DEF c

LEMMA TrackStarts ==
  ASSUME TripInv, GrammarInv, Pass
  PROVE  GrammarInv'
<1>1. Cut' /\ input' # << >>
  BY CountsGiven DEF GrammarInv, R!CountInv
<1>2. UNCHANGED << buffer, status, todo, heap, agenda, pos, result >> /\ UNCHANGED wvars
      /\ status = "done" /\ input = << >> /\ result = "reading"
  BY DEF Pass, wvars
<1>3. W!LoopsInv' /\ W!FormInv'
  BY <1>2 DEF wvars, GrammarInv, W!LoopsInv, W!FormInv
<1>4. OneValue'
  BY <1>2 DEF GrammarInv, W!FormInv, OneValue
<1>5. agenda = << R!Read(<< 1, 1 >>, FALSE) >> /\ pos = 1
  BY <1>2 DEF GrammarInv, Unread
<1>6. R!Asks(agenda, R!Ask(R!ValueDue, << >>))
  BY <1>5, ReaderAssumed, R!AsksAtStart DEF R!AsksAtStart, R!UnserializeAssumption, R!ValuesAssumption
<1>7. ASSUME NEW f, W!Parses(buffer, f) PROVE R!Asks(agenda, f[pos - 1])
  <2>1. f[pos - 1] = W!Ask(W!ValueDue, << >>)
    BY <1>5, <1>7 DEF W!Parses
  <2> QED
    BY <1>6, <2>1, SameGrammar
<1>8. OnTrack'
  BY <1>2, <1>7 DEF OnTrack
<1> QED
  BY <1>1, <1>2, <1>3, <1>4, <1>8 DEF GrammarInv, Unread, ReadAll

LEMMA TrackKept ==
  ASSUME TripInv, GrammarInv, ReadBack
  PROVE  GrammarInv'
<1>1. /\ input' = input /\ input # << >> /\ UNCHANGED wvars /\ buffer' = buffer /\ Reader!Next
  BY ReaderKeepsInput DEF ReadBack, wvars
<1>2. W!LoopsInv' /\ W!FormInv' /\ Cut' /\ Unread' /\ OneValue'
  BY <1>1 DEF wvars, GrammarInv, W!LoopsInv, W!FormInv, Cut, Unread, OneValue
<1>3. R!Next /\ R!ReaderStep /\ R!Inv
  BY <1>1, SameReaderNext, ReaderAssumed, R!ReaderSteps
     DEF TripInv, ReadOK, R!ReaderSteps, R!UnserializeAssumption, R!ValuesAssumption
<1>4. buffer \in Seq(Stored)
  BY WrittenStored DEF TripInv
<1>5. PICK n \in 1..Len(buffer) : input = SubSeq(buffer, 1, n)
  BY <1>1 DEF GrammarInv, Cut
<1>6. result = "reading" \/ result' # "reading"
  <2>1. CASE R!ReadZval \/ R!DeferCall \/ R!TrailingData
    BY <2>1, ReaderAssumed, R!ReadingFacts DEF R!ReadingFacts, R!UnserializeAssumption, R!ValuesAssumption
  <2>2. CASE R!CallStep \/ R!Deinit
    BY <2>2, ReaderAssumed, R!CallFails DEF R!CallFails, R!UnserializeAssumption, R!ValuesAssumption
  <2>3. CASE R!StartStep
    BY <2>3 DEF R!StartStep
  <2> QED
    BY <1>3, <2>1, <2>2, <2>3 DEF R!ReaderStep
<1>7. OnTrack'
  <2>1. SUFFICES ASSUME result' = "reading", NEW f, W!Parses(buffer, f)
                 PROVE  R!Asks(agenda', f[pos' - 1])
    BY <1>1 DEF OnTrack
  <2>2. result = "reading" /\ R!Asks(agenda, f[pos - 1])
    BY <1>1, <1>6, <2>1 DEF GrammarInv, OnTrack
  <2>3. R!Turns(f)
    BY <1>4, <1>5, <2>1, PartTurns
  <2> QED
    BY <1>3, <2>1, <2>2, <2>3, ReaderAssumed, R!ReaderAsks
       DEF R!ReaderAsks, R!UnserializeAssumption, R!ValuesAssumption
<1>8. ReadAll'
  <2>1. SUFFICES ASSUME result' \in {"calling", "done"} PROVE input = buffer
    BY <1>1 DEF ReadAll
  <2>2. CASE result \in {"calling", "done"}
    BY <2>2 DEF GrammarInv, ReadAll
  <2>3. CASE result = "reading"
    <3>1. result' = "calling"
      BY <1>3, <2>1, <2>3, ReaderAssumed, R!CallFacts, R!ReadingFacts
         DEF R!ReaderStep, R!StartStep, R!CallFacts, R!ReadingFacts, R!UnserializeAssumption, R!ValuesAssumption
    <3>2. PICK f : W!Parses(buffer, f) /\ f[Len(buffer)] = << >>
      BY <1>1 DEF GrammarInv, OneValue, W!Formed
    <3>3. R!Asks(agenda, f[pos - 1])
      BY <1>1, <2>3, <3>2 DEF GrammarInv, OnTrack
    <3>4. ~R!More /\ f[pos - 1] = << >>
      BY <1>3, <2>3, <3>1, <3>3, ReaderAssumed, R!AllIsRead
         DEF R!AllIsRead, R!UnserializeAssumption, R!ValuesAssumption
    <3>5. Len(input) = n /\ n \in Nat /\ Len(buffer) \in Nat
      BY <1>4, <1>5, PartOf
    <3>6. pos - 1 = n
      BY <1>3, <3>4, <3>5 DEF R!More, R!Inv, R!InputInv
    <3>7. ~(n < Len(buffer))
      <4>1. SUFFICES ASSUME n < Len(buffer) PROVE FALSE
        OBVIOUS
      <4>2. n + 1 \in 1..Len(buffer) /\ (n + 1) - 1 = n
        BY <3>5, <4>1
      <4>3. W!Allows(f[n], buffer[n + 1])
        BY <3>2, <4>2 DEF W!Parses
      <4> QED
        BY <3>4, <3>6, <4>3 DEF W!Allows
    <3>8. n = Len(buffer)
      BY <3>5, <3>7
    <3> QED
      BY <1>4, <1>5, <3>8, WholeOfIt
  <2>4. CASE result \notin {"reading", "calling", "done"}
    <3>1. result \notin {"reading", "calling"} => ~R!CallStep
      BY DEF R!CallStep, R!MakeCall, R!CallThrows, R!SkipCall
    <3> QED
      BY <1>3, <2>1, <2>4, <3>1, ReaderAssumed, R!CallFacts, R!ReadingFacts
         DEF R!ReaderStep, R!StartStep, R!CallFacts, R!ReadingFacts, R!UnserializeAssumption, R!ValuesAssumption
  <2> QED
    BY <2>2, <2>3, <2>4
<1> QED
  BY <1>2, <1>7, <1>8 DEF GrammarInv

\* the inductive invariant of the grammar
LEMMA GrammarInvHolds ==
  ASSUME W!NamedOnce, RefWrites = {}
  PROVE  Spec => []GrammarInv
<1>0. "assign" \notin RefWrites
  OBVIOUS
<1>1. ASSUME Init PROVE GrammarInv
  <2>1. W!Init /\ Unread /\ input = << >>
    BY <1>1, SameWriterInit, CountsStart DEF Init
  <2>2. W!LoopsInv /\ W!FormInv
    BY <2>1, WriterAssumed, W!LoopsAtStart, W!FormAtStart
       DEF W!LoopsAtStart, W!FormAtStart, W!SerializeAssumption, W!ValuesAssumption
  <2>3. result = "reading"
    BY <1>1 DEF Init, Reader!Start
  <2> QED
    BY <2>1, <2>2, <2>3 DEF GrammarInv, Cut, OneValue, OnTrack, ReadAll
<1>2. ASSUME TripInv, GrammarInv, [Next]_vars
      PROVE  GrammarInv'
  <2>1. CASE Write \/ UNCHANGED vars
    <3>1. [W!Next]_(W!vars) /\ W!WalkInv /\ UNCHANGED rvars
      BY <1>2, <2>1, SameWriterNext DEF TripInv, Written, Write, vars, wvars, W!vars, W!tables, W!ghosts
    <3>2. W!LoopsInv' /\ W!FormInv'
      BY <1>0, <1>2, <3>1, WriterAssumed, W!LoopsKept, W!FormKept
         DEF GrammarInv, W!LoopsKept, W!FormKept, W!SerializeAssumption, W!ValuesAssumption
    <3>3. UNCHANGED << input, agenda, pos, drefs, dstrings, result >>
      BY <3>1 DEF rvars
    <3>4. input = << >> \/ buffer' = buffer
      BY <2>1 DEF Write, vars, wvars
    <3> QED
      BY <1>2, <3>2, <3>3, <3>4 DEF GrammarInv, Cut, Unread, OneValue, OnTrack, ReadAll
  <2>2. CASE Pass
    BY <1>2, <2>2, TrackStarts
  <2>3. CASE ReadBack
    BY <1>2, <2>3, TrackKept
  <2> QED
    BY <1>2, <2>1, <2>2, <2>3 DEF Next
<1> QED
  BY <1>0, <1>1, <1>2, TripInvHolds, PTL DEF Spec

(***************************************************************************)
(* What was written is read.                                               *)
(***************************************************************************)
\* the whole, as the reader sees it
LEMMA WholeRead ==
  ASSUME TripInv, W!BodyInv(EnumCases), input = buffer, input # << >>
  PROVE  R!BodiesRead
<1>1. /\ buffer \in Seq(Stored) /\ Len(buffer) \in 1..Len(buffer) /\ DOMAIN buffer = 1..Len(buffer)
      /\ input = SubSeq(buffer, 1, Len(buffer))
  <2>1. buffer \in Seq(Stored)
    BY WrittenStored DEF TripInv
  <2>2. Len(buffer) \in 1..Len(buffer)
    BY <2>1
  <2> QED
    BY <2>1, <2>2, WholeOfIt
<1>2. \A q \in 1..Len(buffer) : /\ R!Below(R!NameTokens(input), q) = W!Rank(buffer, q)
                               /\ q \in R!NameTokens(input) <=> q \in W!StringNumbers(buffer)
  BY <1>1, PartNumbered
<1>3. W!StringNumbers(buffer) \subseteq 1..Len(buffer)
  BY <1>1 DEF W!StringNumbers
<1>4. \A p, s : W!TextOf(buffer, p, s) => R!Reads(p, s)
  BY <1>2, <1>3 DEF W!TextOf, R!Reads
<1>5. ASSUME NEW p \in DOMAIN input, p + 1 \in DOMAIN input PROVE R!BodyRead(p)
  <2>1. W!Follows(buffer, p, buffer, buffer[p + 1], EnumCases)
    BY <1>5 DEF W!BodyInv, W!BodiesOk
  <2>2. \A s : W!KindRead(s) = R!KindOf(s)
    BY DEF W!KindRead, R!KindOf
  <2> QED
    BY <1>4, <2>1, <2>2 DEF W!Follows, W!BodyFits, R!BodyRead
<1> QED
  BY <1>5 DEF R!BodiesRead

\* every id that comes next is known
LEMMA IdsAreKnown ==
  ASSUME TripInv, IdsInv, result = "reading", input # << >>, agenda # << >>
  PROVE  R!IdsKnown
<1>1. SUFFICES ASSUME R!More PROVE pos \in 1..Len(input)
  BY IdFound, NameFound DEF R!IdsKnown, R!T, R!At
<1>2. input \in Seq(Stored) /\ pos \in 1..(Len(input) + 1)
  BY SameTokens DEF TripInv, ReadOK, R!Inv, R!InputInv
<1> QED
  BY <1>1, <1>2 DEF R!More

LEMMA WholeAccepted ==
  ASSUME TripInv, input = buffer, input # << >>, NEW f, W!Parses(buffer, f), f[Len(buffer)] = << >>,
         \A i \in 0..Len(buffer) : W!Weight(f[i]) <= W!Weight(<< >>) + (Len(buffer) - i)
  PROVE  R!Accepts(f)
<1>1. /\ buffer \in Seq(Stored) /\ Len(buffer) \in 1..Len(buffer) /\ Len(buffer) \in Nat
      /\ input = SubSeq(buffer, 1, Len(buffer))
  <2>1. buffer \in Seq(Stored)
    BY WrittenStored DEF TripInv
  <2>2. Len(buffer) \in 1..Len(buffer) /\ Len(buffer) \in Nat
    BY <2>1
  <2> QED
    BY <2>1, <2>2, WholeOfIt
<1>2. R!Turns(f)
  BY <1>1, PartTurns
<1>3. \A i \in 1..Len(input) : R!Allows(f[i - 1], input[i])
  BY DEF W!Parses, W!Allows, R!Allows, W!ValueDue, R!ValueDue, W!BodyDue, R!BodyDue,
         W!ScalarTags, R!ScalarTags
<1>4. \A i \in 0..Len(input) : R!Weight(f[i]) <= Len(input) - i
  <2> TAKE i \in 0..Len(input)
  <2>1. W!Weight(f[i]) = R!Weight(f[i]) /\ W!Weight(<< >>) = 0
    BY DEF W!Weight, R!Weight
  <2>2. 0 + (Len(input) - i) = Len(input) - i
    BY <1>1
  <2> QED
    BY <2>1, <2>2
<1> QED
  BY <1>2, <1>3, <1>4 DEF R!Accepts

\* no step of the reader fails on what was written
LEMMA WholeNotRefused ==
  ASSUME MaxDepth = 0, ~CallsThrow \/ \A c \in Class : Kind[c] # "serializable",
         TripInv, IdsInv, GrammarInv, W!BodyInv(EnumCases), ReadBack, input = buffer,
         result # "failed"
  PROVE  result' # "failed"
<1>1. /\ input # << >> /\ R!ReaderStep /\ R!Inv /\ R!CountInv
  <2>1. R!Next /\ input # << >>
    BY SameReaderNext DEF ReadBack
  <2> QED
    BY <2>1, ReaderAssumed, R!ReaderSteps
       DEF TripInv, ReadOK, IdsInv, R!ReaderSteps, R!UnserializeAssumption, R!ValuesAssumption
<1>2. CASE result # "reading"
  <2>1. ~R!ReadZval /\ ~R!DeferCall /\ ~R!TrailingData
    BY <1>2, ReaderAssumed, R!ReadingFacts DEF R!ReadingFacts, R!UnserializeAssumption, R!ValuesAssumption
  <2>2. CASE R!CallStep \/ R!Deinit
    BY <2>2 DEF R!CallStep, R!MakeCall, R!CallThrows, R!SkipCall, R!Deinit
  <2>3. CASE R!StartStep
    BY <2>3 DEF R!StartStep
  <2> QED
    BY <1>1, <2>1, <2>2, <2>3 DEF R!ReaderStep
<1>3. CASE result = "reading"
  <2>1. PICK f : /\ W!Parses(buffer, f) /\ f[Len(buffer)] = << >>
                 /\ \A i \in 0..Len(buffer) : W!Weight(f[i]) <= W!Weight(<< >>) + (Len(buffer) - i)
    BY <1>1 DEF GrammarInv, OneValue, W!Formed
  <2>2. R!Asks(agenda, f[pos - 1])
    BY <1>1, <1>3, <2>1 DEF GrammarInv, OnTrack
  <2>3. R!Accepts(f) /\ R!BodiesRead
    BY <1>1, <2>1, WholeAccepted, WholeRead
  <2>4. R!IdsKnown
    <3>1. CASE agenda = << >>
      <4>1. ~R!More
        BY <1>1, <2>2, <2>3, <3>1, ReaderAssumed, R!NothingComes
           DEF R!NothingComes, R!UnserializeAssumption, R!ValuesAssumption
      <4> QED
        BY <4>1 DEF R!IdsKnown
    <3>2. CASE agenda # << >>
      BY <1>1, <1>3, <3>2, IdsAreKnown
    <3> QED
      BY <3>1, <3>2
  <2> QED
    BY <1>1, <1>3, <2>2, <2>3, <2>4, ReaderAssumed, R!NotRefused
       DEF R!NotRefused, R!UnserializeAssumption, R!ValuesAssumption
<1> QED
  BY <1>2, <1>3

\* the inductive invariant of reading one's own output
OwnInv == W!BodyInv(EnumCases) /\ ReadsOwnOutput

LEMMA OwnInvHolds ==
  ASSUME W!NamedOnce, RefWrites = {}, ~NullResult, MaxDepth = 0, W!ReadableCells(EnumCases),
         ~CallsThrow \/ \A c \in Class : Kind[c] # "serializable"
  PROVE  Spec => []OwnInv
<1>0. "assign" \notin RefWrites
  OBVIOUS
<1>1. ASSUME Init PROVE OwnInv
  <2>1. W!Init /\ result = "reading"
    BY <1>1, SameWriterInit DEF Init, Reader!Start
  <2> QED
    BY <2>1, WriterAssumed, W!BodyAtStart
       DEF OwnInv, ReadsOwnOutput, W!BodyAtStart, W!SerializeAssumption, W!ValuesAssumption
<1>2. ASSUME TripInv, IdsInv, GrammarInv, OwnInv, [Next]_vars
      PROVE  OwnInv'
  <2>1. CASE Write \/ UNCHANGED vars
    <3>1. [W!Next]_(W!vars) /\ W!WalkInv /\ UNCHANGED rvars
      BY <1>2, <2>1, SameWriterNext DEF TripInv, Written, Write, vars, wvars, W!vars, W!tables, W!ghosts
    <3>2. W!BodyInv(EnumCases)'
      BY <1>2, <3>1, WriterAssumed, W!BodyStep
         DEF OwnInv, IdsInv, WrittenIds, W!BodyStep, W!SerializeAssumption, W!ValuesAssumption
    <3>3. result' = result /\ input' = input
      BY <3>1 DEF rvars
    <3>4. result = "reading" \/ buffer' = buffer
      BY <2>1 DEF Write, vars, wvars
    <3> QED
      BY <1>2, <3>2, <3>3, <3>4 DEF OwnInv, ReadsOwnOutput
  <2>2. CASE Pass \/ ReadBack
    <3>1. UNCHANGED wvars
      BY <2>2 DEF Pass, ReadBack
    <3>2. W!BodyInv(EnumCases)'
      BY <1>2, <3>1 DEF OwnInv, wvars, W!BodyInv, W!At, W!Z
    <3>3. ReadsOwnOutput'
      <4>1. CASE Pass
        BY <4>1 DEF Pass, ReadsOwnOutput
      <4>2. CASE ReadBack
        <5>1. input' = input /\ buffer' = buffer
          BY <4>2, ReaderKeepsInput DEF ReadBack, wvars
        <5> QED
          BY <1>2, <4>2, <5>1, WholeNotRefused DEF OwnInv, ReadsOwnOutput
      <4> QED
        BY <2>2, <4>1, <4>2
    <3> QED
      BY <3>2, <3>3 DEF OwnInv
  <2> QED
    BY <1>2, <2>1, <2>2 DEF Next
<1> QED
  BY <1>0, <1>1, <1>2, TripInvHolds, IdsInvHolds, GrammarInvHolds, PTL DEF Spec

(***************************************************************************)
(* Sharing.  What the writer marks, the reader makes one cell for.         *)
(***************************************************************************)
\* the reader's marks are the writer's
LEMMA PartApart ==
  ASSUME NEW U, NEW b \in Seq(U), W!StandsOk(b, heap, birth), W!Apart(b),
         NEW n \in 1..Len(b), NEW c, c = SubSeq(b, 1, n)
  PROVE  R!MarksApart(c)
<1>1. /\ DOMAIN c = 1..n /\ \A i \in 1..n : c[i] = b[i]
      /\ n \in Nat /\ 1..n \subseteq DOMAIN b /\ DOMAIN b = 1..Len(b)
  BY PartOf
<1>2. \A q \in 1..n : \A tags : R!Follows(c, q, tags) <=> W!After(b, q, tags)
  BY <1>1 DEF R!Follows, W!After
<1>3. /\ \A q \in 1..n : q \in R!IdTokens(c) <=> W!Numbered(b, q)
      /\ R!IdTokens(c) \in SUBSET (1..n)
  BY PartNumbered
<1>4. ASSUME NEW q \in R!Marks(c)
      PROVE  q \in W!MarkSet(b) /\ R!IdSrcs(c)[q] = W!NumberedSrc(b, q)
  <2>1. q \in R!IdTokens(c) /\ q \in 1..n /\ W!Numbered(b, q)
    BY <1>3, <1>4 DEF R!Marks
  <2>2. q \in W!MarkSet(b)
    BY <1>1, <1>2, <1>4, <2>1 DEF R!Marks, W!MarkSet, W!NumSet
  <2> QED
    BY <2>1, <2>2, SourceNumbered
<1> QED
  BY <1>4 DEF R!MarksApart, W!Apart

\* before it is given its input the reader has made nothing
Blank == input = << >> => out = << R!HoldCell(R!Null) >>
ShareInv == W!MarksInv /\ R!SharesInv /\ Blank

LEMMA MarksWritten ==
  ASSUME "assign" \notin RefWrites, ~NullResult, Written, WrittenIds, W!MarksInv, Writer!Next \/ UNCHANGED wvars
  PROVE  W!MarksInv'
<1>1. [W!Next]_(W!vars) /\ W!WalkInv /\ W!NumbersInv
  BY SameWriterNext DEF wvars, W!vars, W!tables, W!ghosts, Written, WrittenIds
<1> QED
  BY <1>1, WriterAssumed, W!MarksStep DEF W!MarksStep, W!SerializeAssumption, W!ValuesAssumption

LEMMA SharesWait == ASSUME R!SharesInv, UNCHANGED rvars PROVE R!SharesInv'
BY ReaderAssumed, R!SameShares
   DEF rvars, R!SameShares, R!UnserializeAssumption, R!ValuesAssumption

LEMMA SharesRead ==
  ASSUME ReadOK, ReadOK', R!CountInv, R!CountInv', R!SharesInv, Reader!Next
  PROVE  R!SharesInv'
<1>1. R!ReaderStep
  BY SameReaderNext, ReaderAssumed, R!ReaderSteps
     DEF R!ReaderSteps, R!UnserializeAssumption, R!ValuesAssumption
<1> QED
  BY <1>1, ReaderAssumed, R!ReaderShares
     DEF ReadOK, R!ReaderShares, R!UnserializeAssumption, R!ValuesAssumption

LEMMA SharesGiven == ASSUME Unread, Blank, Pass PROVE R!SharesInv'
<1> DEFINE H == out'
           ag == agenda'
           m2 == made'
<1>1. H = << R!HoldCell(R!Null) >> /\ ag = << R!Read(<< 1, 1 >>, FALSE) >> /\ drefs' = << >> /\ result' = "reading"
  BY DEF Pass, Blank, Unread
<1> HIDE DEF H, ag
<1>2. R!TablesFed(H, ag) /\ R!BoxesOk(H, << >>) /\ \A m, S, f : R!Traced(H, m, S, f)
  BY <1>1, ReaderAssumed, R!FirstShares DEF R!FirstShares, R!UnserializeAssumption, R!ValuesAssumption
<1> QED
  BY <1>1, <1>2 DEF R!SharesInv, R!SharesOk, H, ag

\* the inductive invariant of sharing
LEMMA ShareInvHolds ==
  ASSUME "assign" \notin RefWrites, ~NullResult
  PROVE  Spec => []ShareInv
<1>1. ASSUME Init PROVE ShareInv
  <2>1. W!MarksInv
    BY <1>1, SameWriterInit, WriterAssumed, W!MarksAtStart
       DEF Init, W!MarksAtStart, W!SerializeAssumption, W!ValuesAssumption
  <2>2. R!Start(<< >>)
    BY <1>1, SameReaderStart DEF Init
  <2>3. R!SharesInv
    BY <2>2, ReaderAssumed, R!SharesFromStart
       DEF R!SharesFromStart, R!UnserializeAssumption, R!ValuesAssumption
  <2>4. Blank
    BY <2>2 DEF R!Start, Blank
  <2> QED
    BY <2>1, <2>3, <2>4 DEF ShareInv
<1>2. ASSUME TripInv, TripInv', IdsInv, IdsInv', ShareInv, [Next]_vars
      PROVE  ShareInv'
  <2>1. W!MarksInv'
    BY <1>2, MarksWritten DEF Next, Write, Pass, ReadBack, vars, TripInv, IdsInv, ShareInv
  <2>2. CASE Write \/ UNCHANGED vars
    <3>1. UNCHANGED rvars
      BY <2>2 DEF Write, vars
    <3> QED
      BY <1>2, <2>1, <3>1, SharesWait DEF ShareInv, Blank, rvars
  <2>3. CASE Pass
    <3>1. R!SharesInv' /\ input' # << >>
      BY <1>2, <2>3, SharesGiven, CountsGiven DEF ShareInv, IdsInv
    <3> QED
      BY <2>1, <3>1 DEF ShareInv, Blank
  <2>4. CASE ReadBack
    <3>1. R!SharesInv'
      BY <1>2, <2>4, SharesRead DEF ReadBack, TripInv, IdsInv, ShareInv
    <3>2. input' = input /\ input # << >>
      BY <2>4, ReaderKeepsInput DEF ReadBack
    <3> QED
      BY <2>1, <3>1, <3>2 DEF ShareInv, Blank
  <2> QED
    BY <1>2, <2>2, <2>3, <2>4 DEF Next
<1> QED
  BY <1>1, <1>2, TripInvHolds, IdsInvHolds, PTL DEF Spec

LEMMA InputApart == ASSUME TripInv, IdsInv, ShareInv PROVE R!MarksApart(input)
<1>1. CASE input = << >>
  <2>1. R!Marks(input) = {}
    BY <1>1 DEF R!Marks, R!IdTokens
  <2> QED
    BY <2>1 DEF R!MarksApart
<1>2. CASE input # << >>
  <2>1. PICK n \in 1..Len(buffer) : input = SubSeq(buffer, 1, n)
    BY <1>2 DEF IdsInv, Cut
  <2>2. buffer \in Seq(Stored) /\ W!StandsOk(buffer, heap, birth) /\ W!Apart(buffer)
    BY WrittenStored DEF TripInv, IdsInv, WrittenIds, W!StandsInv, ShareInv, W!MarksInv
  <2> QED
    BY <2>1, <2>2, PartApart
<1> QED
  BY <1>1, <1>2

(***************************************************************************)
(* The theorems.  As for the writer alone, user code that assigns to a     *)
(* reference while the array it boxes is being written is excluded.        *)
(***************************************************************************)
\* Whatever igbinary_serialize wrote, whole or cut anywhere, the pointers
\* without a refcount that igbinary_unserialize keeps while it reads, for
\* back-references and for calls to make, lead to cells that are alive.
THEOREM TripPointersLive ==
  ASSUME "assign" \notin RefWrites
  PROVE  Spec => []KeptPointersLive
<1>1. R!Inv => R!KeptPointersLive
  BY ReaderAssumed, R!LiveFromInv DEF R!LiveFromInv, R!UnserializeAssumption, R!ValuesAssumption
<1>2. R!KeptPointersLive => Reader!KeptPointersLive
  BY DEF Reader!Counted, R!Counted, Reader!Pointers, R!Pointers, Reader!Targets, R!Targets,
         Reader!Closed, R!Closed, Reader!OneStep, R!OneStep, Reader!Near, R!Near,
         Reader!Reach, R!Reach, Reader!Params, R!Params, Reader!Live, R!Live,
         Reader!Filed, R!Filed, Reader!KeptPointersLive, R!KeptPointersLive
<1>3. TripInv => KeptPointersLive
  BY <1>1, <1>2 DEF TripInv, ReadOK, KeptPointersLive
<1>4. QED
  BY <1>3, TripInvHolds, PTL

\* On success every object read that has a __wakeup or an __unserialize was
\* called exactly once.
THEOREM TripCallsOnce ==
  ASSUME "assign" \notin RefWrites
  PROVE  Spec => []CalledOnce
<1>1. R!Inv /\ R!CallsOK => R!CalledOnce
  BY ReaderAssumed, R!OnceFromInv DEF R!OnceFromInv, R!UnserializeAssumption, R!ValuesAssumption
<1>2. R!CalledOnce => Reader!CalledOnce
  BY DEF Reader!KindOf, R!KindOf, Reader!HasCall, R!HasCall, Reader!Due, R!Due, Reader!CalledOnce,
         R!CalledOnce
<1>3. TripInv => CalledOnce
  BY <1>1, <1>2 DEF TripInv, ReadOK, CalledOnce
<1>4. QED
  BY <1>3, TripInvHolds, PTL

\* An object is called after the objects that it, or the array for its
\* __unserialize, holds and that were made after it.
THEOREM TripContentsFirst ==
  ASSUME "assign" \notin RefWrites
  PROVE  Spec => []ChildrenFirst
<1>1. R!Inv /\ R!CallsOK => R!ChildrenFirst
  BY ReaderAssumed, R!ChildrenFromInv
     DEF R!ChildrenFromInv, R!UnserializeAssumption, R!ValuesAssumption
<1>2. R!ChildrenFirst => Reader!ChildrenFirst
  BY DEF Reader!Counted, R!Counted, Reader!Pointers, R!Pointers, Reader!Targets, R!Targets,
         Reader!Contents, R!Contents, Reader!ChildrenFirst, R!ChildrenFirst
<1>3. TripInv => ChildrenFirst
  BY <1>1, <1>2 DEF TripInv, ReadOK, ChildrenFirst
<1>4. QED
  BY <1>3, TripInvHolds, PTL

\* As long as the calls do not unset properties, the object of each deferred
\* call is alive when it is its turn.
THEOREM TripCallsWhileAlive ==
  ASSUME "assign" \notin RefWrites, CallsUnset = FALSE
  PROVE  Spec => []CallsOnLiveObjects
<1>1. R!Inv /\ R!CallsOK => R!CallsOnLiveObjects
  BY ReaderAssumed, R!CallsLiveFromInv
     DEF R!CallsLiveFromInv, R!UnserializeAssumption, R!ValuesAssumption
<1>2. R!CallsOnLiveObjects => Reader!CallsOnLiveObjects
  BY DEF Reader!Counted, R!Counted, Reader!Pointers, R!Pointers, Reader!Targets, R!Targets,
         Reader!Closed, R!Closed, Reader!OneStep, R!OneStep, Reader!Near, R!Near,
         Reader!Reach, R!Reach, Reader!Params, R!Params, Reader!Live, R!Live,
         Reader!CallsOnLiveObjects, R!CallsOnLiveObjects
<1>3. TripInv => CallsOnLiveObjects
  BY <1>1, <1>2 DEF TripInv, ReadOK, CallsOnLiveObjects
<1>4. QED
  BY <1>3, TripInvHolds, PTL

\* The two sides number alike.  Where igbinary_unserialize reads a back-reference,
\* what it has under that id is what the writer had in mind, whichever mixture of
\* references, shared arrays, empty arrays and objects came before, and a string id
\* names the string or the class it was written for.  A Serializable::serialize that
\* returns null, after which the ids drift apart (see the run null_result), and, as
\* above, user code that assigns to a reference are excluded.
THEOREM TripIdsAgree ==
  ASSUME "assign" \notin RefWrites, ~NullResult
  PROVE  Spec => []IdsAgree
<1>1. ASSUME TripInv, IdsInv, result = "reading", input # << >>, agenda # << >>, pos <= Len(input)
      PROVE  LET t == input[pos]
             IN  /\ t.tag \in {"refid", "objref"} /\ Head(agenda).op = "zval" =>
                      t.v < Len(drefs) /\ drefs[t.v + 1].src = t.src
                 /\ t.tag = "strid" => t.v < Len(dstrings) /\ dstrings[t.v + 1] = t.src
                 /\ t.tag = "objid" => t.v < Len(dstrings)
                      /\ (birth[t.src[1]] = t.src[2] =>
                            dstrings[t.v + 1] = Writer!WrittenName(heap[t.src[1]]))
  <2>1. pos \in 1..Len(input)
    <3>1. input \in Seq(Stored) /\ pos \in 1..(Len(input) + 1)
      BY <1>1, SameTokens DEF TripInv, ReadOK, R!Inv, R!InputInv
    <3> QED
      BY <1>1, <3>1
  <2>2. input[pos].tag \in {"refid", "objref"} /\ Head(agenda).op = "zval" =>
           input[pos].v < Len(drefs) /\ drefs[input[pos].v + 1].src = input[pos].src
    BY <1>1, <2>1, IdFound
  <2>3. input[pos].tag \in {"strid", "objid"} =>
           /\ input[pos].v < Len(dstrings)
           /\ input[pos].tag = "strid" => dstrings[input[pos].v + 1] = input[pos].src
           /\ input[pos].tag = "objid" =>
                W!NamedBy(dstrings[input[pos].v + 1], input[pos].src, heap, birth)
    BY <1>1, <2>1, NameFound
  <2> QED
    BY <2>2, <2>3, SameName DEF W!NamedBy
<1>2. TripInv /\ IdsInv => IdsAgree
  BY <1>1 DEF IdsAgree
<1> QED
  BY <1>2, TripInvHolds, IdsInvHolds, PTL

\* The value read back shares what the value written shares, and no less: one object
\* is made for each object and one reference for each group, however often and under
\* whichever mixture of tags it was met, and the references to one object are one
\* group, also when the object was read before it was known to be in one.  As for
\* the numbering, a Serializable::serialize that returns null and user code that
\* assigns to a reference are excluded.
THEOREM TripSharingKept ==
  ASSUME "assign" \notin RefWrites, ~NullResult
  PROVE  Spec => []SharingKept
<1>1. ASSUME TripInv, IdsInv, ShareInv, result = "done" PROVE SharingKept
  <2>1. R!BoxesApart(out) /\ R!LabelsApart(out, made)
    BY <1>1, InputApart DEF ShareInv, R!SharesInv
  <2>2. \A a, b \in Made("obj") : made[a] = made[b] => a = b
    BY <2>1 DEF Made, R!LabelsApart, R!Labelled
  <2>3. \A a, b \in Made("ref") : made[a] = made[b] /\ made[a] # NoVal => a = b
    BY <2>1 DEF Made, R!LabelsApart, R!Labelled
  <2>4. \A a, b \in Made("ref") :
           out[a].elems[1].v.t = "obj" /\ out[a].elems[1].v = out[b].elems[1].v => a = b
    BY <2>1 DEF Made, R!BoxesApart, R!Refs, R!Box
  <2> QED
    BY <2>2, <2>3, <2>4 DEF SharingKept
<1>2. TripInv /\ IdsInv /\ ShareInv => SharingKept
  BY <1>1 DEF SharingKept
<1> QED
  BY <1>2, TripInvHolds, IdsInvHolds, ShareInvHolds, PTL

\* A value cut short is refused.  Of what igbinary_serialize wrote, only the whole
\* is ever accepted: as long as a token is missing a value, an entry or the body of
\* an object is still due, and igbinary_unserialize is still waiting to read it, so
\* it never comes to the deferred calls and never returns part of the value.  As for
\* the output being one value, incomplete objects keep the name of their class once
\* and user code does not write through references.
THEOREM TripRefusesCut ==
  ASSUME W!NamedOnce, RefWrites = {}
  PROVE  Spec => []RefusesCutOutput
<1>1. GrammarInv => RefusesCutOutput
  BY DEF GrammarInv, ReadAll, RefusesCutOutput
<1> QED
  BY <1>1, GrammarInvHolds, PTL

\* igbinary_unserialize accepts everything that igbinary_serialize writes: no limit
\* on the depth, the ids all known, every table as long as its header says, and the
\* class of every object one that takes what follows its name.  That is where the
\* two sides have to know the same: of values and classes it is assumed that an enum
\* has the cases it is written with, that incomplete objects name a class which by
\* now is not an enum or barred from being serialized, and that Serializable's
\* unserialize does not throw; the rest is as for a value cut short.
THEOREM TripReadsOwn ==
  ASSUME W!NamedOnce, RefWrites = {}, ~NullResult, MaxDepth = 0, W!ReadableCells(EnumCases),
         ~CallsThrow \/ \A c \in Class : Kind[c] # "serializable"
  PROVE  Spec => []ReadsOwnOutput
<1>1. OwnInv => ReadsOwnOutput
  BY DEF OwnInv
<1> QED
  BY <1>1, OwnInvHolds, PTL
=============================================================================
