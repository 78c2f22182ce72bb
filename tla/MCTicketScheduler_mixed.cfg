CONSTANTS
  Threads = {t1, t2, t3}
  NumAccounts = 2
  Percentage = 50
  Opening = 100
  TxPerThread = 1
SYMMETRY Symmetry
SPECIFICATION Spec
INVARIANTS IInv Isolation StableReads CountersBalance NoWaitCycle SumConserved
PROPERTIES KeepsTransferOrder
