\* The file is full at MaxPages, and then no call may be left.
CONSTANTS
  LEAF_MAX = 3
  INTERNAL_MAX = 2
  Keys = {0, 1, 2, 3, 4, 5, 6, 7}
  Deletable = {2, 5}
  Vals = {v}
  NoVal = NoVal
  Blank = Blank
  MaxPages = 7
SPECIFICATION Spec
INVARIANTS NeverUnderfull BalancedTree
PROPERTIES MapUntilPurged
CHECK_DEADLOCK FALSE
