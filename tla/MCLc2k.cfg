SPECIFICATION Spec
CONSTANTS
  Programs <- AllPrograms
  LongNames <- SomeLong
INVARIANTS AssembledAsShipped SimulatorsAgree
