CONSTANTS
  Threads = {1, 2}
  Widths = {2}
  Accounts = {0, 1}
  Size = 3
  Flags = 3
  OneQueueTx = 1
  FullQueueTx = 1
SPECIFICATION FairSpec
PROPERTIES Termination
