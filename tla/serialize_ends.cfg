CONSTANTS
  Addr = {1, 2, 3, 4}
  Immutable = {}
  s1 = s1 s2 = s2 A = A B = B C = C D = D E = E empty = empty x = x
  Str = {s1, s2, A, B, C, D, empty, x, IC, magic}
  EmptyStr = empty
  IncompleteClass = IC
  MagicMember = magic
  Class = {A, B, C, D, IC}
  Kind <- UserKind
  Ints = {0}
  NoVal = NoVal
  NoId = NoId
  InvalidKey = InvalidKey
  IdSpace = 4
  Graphs <- ModelGraphs
  Family = "small"
  TempKeys <- UserTempKeys
  TempCells <- UserTempCells
  Absent = x
  NullResult = TRUE
  StackLimited = TRUE
  RefWrites = {"unset"}
SPECIFICATION FairSpec
INVARIANTS StringsExact IdsBelowWrap CyclesCut
PROPERTIES Ends
CHECK_DEADLOCK FALSE
