SPECIFICATION Spec
CONSTANTS
  InodesPerGroup = 2
  Groups = 3
  GroupMod = 2
  BlockSize = 3
  Block = {1, 2, 3, 4}
  Name = {"a", "b", "d"}
  MaxDepth = 3
  Volumes <- MCVolumes
  Targets = {"a"}
INVARIANTS
  TypeOK
  AnswerIsFirst
PROPERTY
  SearchAnswers
CHECK_DEADLOCK FALSE
