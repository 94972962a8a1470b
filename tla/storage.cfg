CONSTANTS
  Key = {1, 2, 3, 4}
  NoKey = 0
  Value = {0, 1, 2, 3, 4}
  Absent = Absent
  Hash = {0, 1, 3, 7}
  InitSize = 2
  Longs = {0, 1, 2, 3, 5, 31, 63}
  a = a b = b
  Names = {a, b}
  StrHash <- NameHash
  NoString = NoString
  Word = 64
  Hints = {2, 4}
  MaxCalls = 5
  Base = 2
  Elements <- StreamElements
  MaxElems = 2
  Capacity = 8
  StringsCapacity = 1
SPECIFICATION Spec
INVARIANTS ProbesMeetGap StringRefsBalanced PointersMeetGap EntriesInTable OrderKept NextFreeExact WritesInBuffer ReadsInBounds WrittenIsRead CutIsRefused
PROPERTIES StringsIntern PointersIntern EntriesIntern CallsReturn
CHECK_DEADLOCK FALSE
