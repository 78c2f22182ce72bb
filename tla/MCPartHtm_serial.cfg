CONSTANTS
  Threads = {t1, t2, t3}
  RingElements = 1
  Words = 2
  NoTx = 1
  ArraySize = 3
  Opening = 100
  Pairs <- IntoOne
  TxLen = 3
  Locs <- PairsOfTwo
  Split = 2
SYMMETRY Symmetry
SPECIFICATION Spec
INVARIANTS IInv SerialInv LocksAreExclusive CommittedStateIntact
PROPERTIES ImplementsSerialHistory
