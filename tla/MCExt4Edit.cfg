SPECIFICATION Spec
CONSTANTS
  InodesPerGroup = 2
  Groups = 3
  GroupMod = 3
  Process = {p1, p2, p3}
  File = {1, 2, 5}
  Absent = 0
  Date = {0, 11}
  BadDate = BadDate
  Clock <- MCClock
  Requests <- MCRequests
  InodeSizes = {32, 64}
  TableStart <- MCTableStart
  FirstWords = {40, 63}
  DayLength = 5
  WordMod = 64
SYMMETRY ProcessSymmetry
INVARIANTS
  TypeOK
  StampOnAskedDay
PROPERTIES
  OnlyNamedChange
  FlagEditsExact
  ImplementsInodeEdits
CHECK_DEADLOCK FALSE
