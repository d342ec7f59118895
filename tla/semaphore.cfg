SPECIFICATION FairSpec
CONSTANTS
  Task = {t1, t2, t3}
  NoTask = NoTask
  Sem <- MCSem
  InitValue <- MCInitValue
  KmallocMayFail = TRUE
  MaxSignals = 1
  MaxValue = 2
INVARIANTS TypeOK PermitBound
PROPERTIES ImplementsSemaphore UpReturns
CHECK_DEADLOCK FALSE
