SPECIFICATION Spec
CONSTANTS
  NULL = NULL
  Missing = Missing
  volA = volA
  volB = volB
  name = name
  date = date
  Word <- MCWord
  GoodDates <- MCGoodDates
  ArgLists <- MCArgLists
  Disks <- MCDisks
  Volumes <- MCVolumes
  MaxChanges = 1
INVARIANT
  DocumentedFormatsServed
CHECK_DEADLOCK FALSE
