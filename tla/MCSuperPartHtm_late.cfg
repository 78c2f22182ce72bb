CONSTANTS
  Threads = {t1, t2, t3}
  RingElements = 1
  Words = 2
  NoTx = 1
  ArraySize = 2
  Opening = 100
  Pairs <- Cycle
  Locs <- TwoLocs
  TxLen = 3
  Split = 2
SYMMETRY Symmetry
SPECIFICATION SuperSpec
INVARIANTS OwnerStartsClean SuperInv
PROPERTIES SerialButForLate
