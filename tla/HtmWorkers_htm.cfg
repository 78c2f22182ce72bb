CONSTANTS
  Threads = {t1, t2}
  Accounts = {0, 1}
  Warehouses = {1, 2}
  NUM_DISTRICTS = 1
  Attempts = 2
  NumOrders = 2
  TxPerThread = 1
SPECIFICATION FairSpec
INVARIANTS IInv NoConflicts OwnerIsAlone
PROPERTIES ImplementsSerialMemory Termination
