SPECIFICATION TrafficSpec
CONSTANTS
  Task <- Process
  Sem <- Semaphores
  InitValue <- InitialValues
  MaxValue = 2
  BUFF_SIZE = 2
  LINE_LIMIT = 2
  MaxCar = 4
  KmallocMayFail = TRUE
  MaxSignals = 1
  NoTask = NoTask
INVARIANTS MutualExclusion LineIntact FlagNeverWaitsForCar
CHECK_DEADLOCK FALSE
