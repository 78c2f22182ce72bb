CONSTANTS
  Threads = {1, 2}
  Widths = {1, 2}
  Accounts = {0, 1}
  Size = 2
  Flags = 3
  OneQueueTx = 2
  FullQueueTx = 1
SPECIFICATION FairSpec
INVARIANTS IInv UndoneIsUnderWay CommitRespectsPriority
PROPERTIES OnlyKnownInversions OneQueueEnds
