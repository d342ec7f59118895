SPECIFICATION ProdConsSpec
CONSTANTS
  Task <- Process
  Sem <- Semaphores
  InitValue <- InitialValues
  MaxValue = 2
  MAX_QUEUE_SIZE = 3
  CarNumber = {0, 1}
  N = 2
  LINE_LIMIT = 2
  KmallocMayFail = TRUE
  MaxSignals = 1
  NoTask = NoTask
INVARIANTS MutualExclusion QueueFits Accounted
CHECK_DEADLOCK FALSE
