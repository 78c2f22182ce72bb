CONSTANTS
  Threads = {t1, t2}
  RingElements = 1
  Words = 2
  NoTx = 2
  ArraySize = 3
  Opening = 100
  Locs <- Meeting
  HtmRetry = 1
  Programs = {"bank", "macro", "inner"}
SPECIFICATION FairSpec
INVARIANTS TypeOK BalancesAddUp FinalSum IInv
PROPERTIES Termination
