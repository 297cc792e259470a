\* The file is full at MaxPages, and then no call may be left.
CONSTANTS
  LEAF_MAX = 3
  INTERNAL_MAX = 24
  Keys = {1, 2, 3}
  Deletable = {1, 2, 3}
  Vals = {v}
  NoVal = NoVal
  Blank = Blank
  MaxPages = 3
SPECIFICATION Spec
PROPERTIES MapSpec
CHECK_DEADLOCK FALSE
