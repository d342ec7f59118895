SPECIFICATION Spec
CONSTANTS
  Task = {t1, t2}
  NoTask = NoTask
  Sem <- MCSem
  InitValue <- MCInitValue
  KmallocMayFail = FALSE
  MaxSignals = 0
  MaxValue = 2
PROPERTY UpWakesSleeper
CHECK_DEADLOCK FALSE
