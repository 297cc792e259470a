SPECIFICATION Spec
CONSTANTS
  Who <- People
  Admin = 0
  Kind <- Kinds
  Opened = 4
  Enrolled = 2
  Mixes <- Terms
  Sizes = {1, 2}
  RoomSize = 1
  Grades = {2, 8, 99}
INVARIANTS TimetableFree RecordRight
PROPERTIES SeatsRespected CreditsCapped KeptOnceDone
