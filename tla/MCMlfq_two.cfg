CONSTANTS
  NPROC = 3
  CPUs = {c0, c1}
  Boot = c0
  K = 2
  Base = 1
  Step = 1
  Boost = 2
  Priorities = {0, 1}
  Builds <- Policies
SPECIFICATION SchedSpec
INVARIANTS QuantumBound SomeCpuFree TurnsKept
PROPERTIES PicksBest
