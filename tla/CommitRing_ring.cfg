CONSTANTS
  Threads = {t1, t2, t3}
  RingElements = 1
  Words = 1
  NoTx = 1
SPECIFICATION FairSpec
INVARIANTS IInv OneCommitter
PROPERTIES ReadsStayValid CommitDecides
