SPECIFICATION Spec
CONSTANTS
  SlotsPerCluster = 4
  LastCluster = 4
  NameSlots = 2
  OffsetMod = 1024
  Text = {"a", "b"}
  Garbage = "garbage"
  MaxDepth = 4
  Volumes <- MCVolumes
  Targets <- MCTargets
INVARIANTS
  TypeOK
  RoomyScanInCluster
  NothingMissed
  FoundIsFirst
PROPERTY
  SearchAnswers
CHECK_DEADLOCK FALSE
