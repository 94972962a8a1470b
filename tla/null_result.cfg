CONSTANTS
  Addr = {1, 2, 3}
  Immutable = {}
  s1 = s1 s2 = s2 A = A B = B C = C D = D E = E empty = empty x = x
  Str = {s1, s2, B, C, D, empty, x, IC, magic}
  EmptyStr = empty
  IncompleteClass = IC
  MagicMember = magic
  Class = {B, C, D}
  Kind <- UserKind
  Ints = {0}
  NoVal = NoVal
  NoId = NoId
  InvalidKey = InvalidKey
  IdSpace = 20
  Graphs <- ModelGraphs
  Family = "user"
  TempKeys = {}
  TempCells = {}
  Absent = x
  NullResult = TRUE
  StackLimited = FALSE
  RefWrites = {}
SPECIFICATION Spec
INVARIANTS IdsCountWhatIsRead
CHECK_DEADLOCK FALSE
