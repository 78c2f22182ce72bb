CONSTANTS
  Threads = {t1, t2, t3}
  SUPER_GL_LIMIT = 1
  Parts = 1
  NO_TX = 2
  Outcomes = {"commit", "other", "conflict"}
SPECIFICATION FairSpec
INVARIANTS IInv EntriesBalance AloneButForLate
PROPERTIES Termination
