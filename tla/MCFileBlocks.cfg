SPECIFICATION BlocksSpec
CONSTANTS
  EntryMod = 14
  ReallocSize = 4
  Fats <- MCFats
  FirstClusters <- MCFirstClusters
  BlockSize = 2
  Files <- MCFiles
INVARIANTS
  CL_TypeOK
  ListIsChain
  OverrunOnlyAtCapacity
  ReturnedListHasNoLoop
  InOrder
  NothingBeyondSize
  PrintedWhole
  AnnouncedFirst
PROPERTY
  WalkEnds
CHECK_DEADLOCK FALSE
