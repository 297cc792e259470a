\* The kernel of this run may hang, which is a finding of its own.
CONSTANTS
  c1 = c1
  c2 = c2
  NPROC = 3
  CPUs = {c1, c2}
  MaxPid = 3
  Mixes <- ExecMixes
  MaxSz = 3
SPECIFICATION MemSpec
INVARIANTS OneCpu
CHECK_DEADLOCK FALSE
