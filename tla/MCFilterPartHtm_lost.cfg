CONSTANTS
  Threads = {t1, t2}
  RingElements = 1
  Words = 3
  NoTx = 2
  ArraySize = 3
  Opening = 100
  Pairs <- Overlapping
  TxLen = 1
  Locs <- AnyLocs
  Split = 1
SYMMETRY Symmetry
SPECIFICATION FilterSpec
INVARIANTS FinalSum
