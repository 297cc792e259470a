\* Two reservations fill the log, and three blocks would overflow it.
CONSTANTS
  Procs = {p1, p2}
  Blocks = {b1, b2, b3}
  Vals = {v0, v1}
  MAXOPBLOCKS = 2
  LOGSIZE = 4
  NLOG = 4
  OpMax = 1
  NoBlock = NoBlock
SPECIFICATION FairSpec
INVARIANTS NoPanic CommitAlone WakeupOwed QuiescentDurable
PROPERTIES SleepersWake Atomic
