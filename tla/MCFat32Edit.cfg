SPECIFICATION Spec
CONSTANTS
  Process = {p1, p2, p3}
  File = {"a", "b"}
  Absent = "absent"
  Attr = {"ronly", "hidden", "archive"}
  BadDate = BadDate
  Date <- MCDates
  Words = {65535}
  Requests <- MCRequests
INVARIANTS
  TypeOK
  DateReadBack
PROPERTIES
  LostOnlyByOverlap
  ImplementsVolumeEdits
CHECK_DEADLOCK FALSE
