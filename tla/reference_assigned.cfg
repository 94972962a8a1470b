CONSTANTS
  Addr = {1, 2, 3, 4, 5}
  Immutable = {}
  s1 = s1 s2 = s2 A = A B = B C = C D = D E = E empty = empty x = x
  Str = {s1, s2, A, C, empty, x, IC, magic}
  EmptyStr = empty
  IncompleteClass = IC
  MagicMember = magic
  Class = {A, C}
  Kind <- UserKind
  Ints = {0}
  NoVal = NoVal
  NoId = NoId
  InvalidKey = InvalidKey
  IdSpace = 20
  Graphs <- ModelGraphs
  Family = "write"
  TempKeys <- UserTempKeys
  TempCells <- UserTempCells
  Absent = x
  NullResult = FALSE
  StackLimited = FALSE
  RefWrites = {"assign"}
SPECIFICATION Spec
INVARIANTS WalkOnLiveCells
CHECK_DEADLOCK FALSE
