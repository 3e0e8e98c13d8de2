SPECIFICATION BlocksSpec
CONSTANTS
  EntryMod = 14
  ReallocSize = 4
  Fats <- MCFats
  FirstClusters <- MCFirstClusters
  BlockSize = 2
  Files <- MCFiles
INVARIANT
  ContentShown
CHECK_DEADLOCK FALSE
