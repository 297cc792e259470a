\* As many buffers as the log may pin and one more, and more blocks than buffers: bget() does run out of them.
CONSTANTS
  Procs = {p1, p2}
  Blocks = {n1, n2, n3, n4}
  outer = n1
  Second <- Pairs
  Vals = {v0, v1}
  Bufs = {b1, b2, b3}
  MaxPinned = 2
  Zero = v0
  NoBlock = NoBlock
  NoBuf = NoBuf
  Nobody = Nobody
SPECIFICATION Spec
SYMMETRY Symm
INVARIANTS NoLostWakeup PanicsOnlyWhenFull
PROPERTIES BlockStays StoreSpec
