CONSTANTS
  Addr = {1, 2, 3, 4, 5}
  Immutable = {4}
  s1 = s1 s2 = s2 A = A B = B C = C D = D E = E empty = empty x = x
  Str = {s1, s2, A, B, C, D, E, empty, x, IC, magic}
  EmptyStr = empty
  IncompleteClass = IC
  MagicMember = magic
  Class = {A, B, C, D, E, IC}
  Kind <- TripKind
  Ints = {0}
  NoVal = NoVal
  NoId = NoId
  InvalidKey = InvalidKey
  IdSpace = 20
  Graphs <- ModelGraphs
  Family = "trips"
  TempKeys <- UserTempKeys
  TempCells <- EmptyArrays
  Absent = x
  NullResult = FALSE
  StackLimited = FALSE
  RefWrites = {}
  Inputs = {}
  MaxDepth = 0
  CallsThrow = TRUE
  CallsUnset = FALSE
  EnumCases = {s1}
  Decimal <- IntNames
  WholeOnly = {A, C, IC}
SPECIFICATION Spec
INVARIANTS ReadsOwnOutput EntriesAsFiled IdsAgree SharingKept ContentsKept CallsOnLiveObjects ChildrenFirst RefusesCutOutput
CHECK_DEADLOCK FALSE
