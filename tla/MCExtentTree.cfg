SPECIFICATION Spec
CONSTANTS
  Node = {1, 2, 3, 4, 5, 6, 7}
  Root = 1
  MaxRanges = 5
  MaxDepth = 4
  Trees <- MCTrees
INVARIANTS
  TypeOK
  ReadsOwnEntry
  AllLeavesInOrder
PROPERTY
  TraversalEnds
CHECK_DEADLOCK FALSE
