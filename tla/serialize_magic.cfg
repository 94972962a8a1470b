CONSTANTS
  Addr = {1, 2, 3, 4, 5}
  Immutable = {}
  s1 = s1 s2 = s2 A = A B = B C = C D = D E = E empty = empty x = x
  Str = {s1, s2, A, B, C, empty, x, IC, magic}
  EmptyStr = empty
  IncompleteClass = IC
  MagicMember = magic
  Class = {A, B, C}
  Kind <- EndKind
  Ints = {0}
  NoVal = NoVal
  NoId = NoId
  InvalidKey = InvalidKey
  IdSpace = 6
  Graphs <- ModelGraphs
  Family = "user"
  TempKeys <- UserTempKeys
  TempCells <- UserTempCells
  Absent = x
  NullResult = FALSE
  StackLimited = FALSE
  RefWrites = {}
SPECIFICATION Spec
INVARIANTS TypeOK NoStaleKey WalkOnLiveCells BackRefsExact HeadersHonoured IdsCountWhatIsRead
CHECK_DEADLOCK FALSE
