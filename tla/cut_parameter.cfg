CONSTANTS
  Addr = {1, 2, 3, 4}
  Immutable = {}
  s1 = s1 s2 = s2 A = A B = B C = C D = D E = E empty = empty x = x
  Str = {s1, s2, A, B, empty, x, IC, magic}
  EmptyStr = empty
  IncompleteClass = IC
  MagicMember = magic
  Class = {A, B}
  Kind <- CallKind
  Ints = {0}
  NoVal = NoVal
  NoId = NoId
  InvalidKey = InvalidKey
  IdSpace = 20
  Graphs <- ModelGraphs
  Family = "calls"
  TempKeys = {}
  TempCells = {}
  Absent = x
  NullResult = FALSE
  StackLimited = FALSE
  RefWrites = {}
  Inputs = {}
  MaxDepth = 0
  CallsThrow = FALSE
  CallsUnset = FALSE
  EnumCases = {s1}
  Decimal <- IntNames
  WholeOnly = {}
SPECIFICATION Spec
INVARIANTS ParameterIsArray
CHECK_DEADLOCK FALSE
