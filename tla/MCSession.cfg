SPECIFICATION Spec
CONSTANTS
  NINUM = 40
  NINODE = 8
  NBLOCK = 56
  BSIZE = 5
  NDIRECT = 4
  NINDIRECT = 5
  NUSER = 4
  XNames = {}
  NPROC = 8
  NOFILE = 8
  NFILE = 12
  PIPESIZE = 2
  MaxChunk = 5
  NPAGE = 60
  PGSIZE = 4
  KVM = 2
  BIG = 60
  Sessions = {1, 2, 3, 4}
  Groups <- AllTests
INVARIANTS TestsPass SleepersOwed ReferencesCounted PagesCounted BlocksOwned
