\* A thread whose exec() finds no file leaves the others asleep for ever.
CONSTANTS
  c1 = c1
  c2 = c2
  NPROC = 4
  CPUs = {c1, c2}
  MaxPid = 5
  Mixes <- LifeMixes
  MaxSz = 7
SPECIFICATION MemSpec
SYMMETRY Symm
INVARIANTS OneCpu NotForgotten MemoryKept NotBornKilled FamilyAlive
PROPERTIES ZombieStays
CHECK_DEADLOCK FALSE
