CONSTANTS
  Addr = {1, 2, 3}
  Immutable = {}
  s1 = s1 s2 = s2 A = A B = B C = C D = D E = E empty = empty x = x
  Str = {s1, s2, empty, x, IC, magic}
  EmptyStr = empty
  IncompleteClass = IC
  MagicMember = magic
  Class = {IC}
  Kind <- NamelessKind
  Ints = {0}
  NoVal = NoVal
  NoId = NoId
  InvalidKey = InvalidKey
  IdSpace = 20
  Graphs <- ModelGraphs
  Family = "nameless"
  TempKeys = {}
  TempCells = {}
  Absent = x
  NullResult = FALSE
  StackLimited = FALSE
  RefWrites = {}
SPECIFICATION Spec
INVARIANTS HeadersHonoured
CHECK_DEADLOCK FALSE
