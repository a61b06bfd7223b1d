SPECIFICATION MCSpec
CONSTANTS
  k1 = k1 k2 = k2 k3 = k3 k4 = k4 c1 = c1
  Co = {c1, c2, c3}
  Naps = {1, 5}
  Stock <- Stocks
  slot_count = 2
  chunk_count = 2
  start_size = 4
  diff_size = 4
  Size = {3, 4, 7}
  Node = {1, 2, 3, 4, 5, 6, 7, 8, 9, 10, 11}
  NULL = NULL
  KeyOf <- KeysOf
  Clock = {3, 7}
  BstNode = {1, 2, 3, 4, 5}
  NIL = 0
  bst_max_height = 3
INVARIANTS ChunkConservation RedBlack WalkAgrees ExpireSweeps BstHolds StackSuffices 
PROPERTIES  IteratorSteps NotBefore
SYMMETRY Addresses
CHECK_DEADLOCK FALSE
