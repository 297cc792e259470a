\* Everybody may be asleep: a thread_join of a tid that nobody has waits for a kill.
CONSTANTS
  c1 = c1
  c2 = c2
  NPROC = 3
  CPUs = {c1, c2}
  MaxPid = 4
  Mixes <- LiveMixes
  MaxSz = 3
SPECIFICATION FairSpec
PROPERTIES KilledDies
CHECK_DEADLOCK FALSE
