CONSTANTS
  Threads = {1, 2}
  Accounts = {0, 1, 2}
  Size = 4
  TxPerThread = 2
SPECIFICATION FairSpec
PROPERTIES Termination
CHECK_DEADLOCK FALSE
