CONSTANTS
  Addr = {1, 2, 3, 4}
  Immutable = {}
  s1 = s1 s2 = s2 A = A B = B C = C D = D E = E empty = empty x = x
  Str = {s1, s2, A, B, C, D, empty, x, IC, magic}
  EmptyStr = empty
  IncompleteClass = IC
  MagicMember = magic
  Class = {A, B, C, D}
  Kind <- DamagedKind
  Ints = {0}
  NoVal = NoVal
  Family = "write"
  Inputs <- DamagedInputs
  MaxDepth = 3
  CallsThrow = TRUE
  CallsUnset = FALSE
  EnumCases = {s1}
  Decimal <- DamagedNames
SPECIFICATION CallersSpec
INVARIANTS EntriesAsFiled
CHECK_DEADLOCK FALSE
