CONSTANTS
  Threads = {t1, t2}
  NumAccounts = 2
  Percentage = 50
  Opening = 100
  TxPerThread = 2
SPECIFICATION FairSpec
PROPERTIES ImplementsTransferOrder Termination
