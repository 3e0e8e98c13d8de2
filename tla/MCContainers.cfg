SPECIFICATION ContainersSpec
CONSTANTS
  Ring = {"r", "s"}
  Element = {0, 7}
  Capacity = {1, 2}
  SlotBytes = 16
  Node = {"n1", "n2", "n3"}
  Index = {0, 1, 2, 3}
  Value = {"v", "w"}
  Buckets = 2
  Size = 3
  NumberBytes = 2
  DataBytes = 1
  Byte = {0, 1}
  Number <- MCNumber
  Zeros = Zeros
  Word = 16
  SemMax = 2
INVARIANTS
  HeldInOrder
  WokenByZero
PROPERTIES
  ImplementsQueues
  ImplementsDictionary
  LostOnlyBehindFirst
  WaiterServed
CHECK_DEADLOCK FALSE
