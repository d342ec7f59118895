SPECIFICATION ProdConsFairSpec
CONSTANTS
  Task <- Process
  Sem <- Semaphores
  InitValue <- InitialValues
  MaxValue = 2
  MAX_QUEUE_SIZE = 2
  CarNumber = {0, 1}
  N = 1
  LINE_LIMIT = 1
  KmallocMayFail = FALSE
  MaxSignals = 0
  NoTask = NoTask
PROPERTY TrafficGoesOn
CHECK_DEADLOCK FALSE
