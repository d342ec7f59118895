SPECIFICATION TrafficFairSpec
CONSTANTS
  Task <- Process
  Sem <- Semaphores
  InitValue <- InitialValues
  MaxValue = 2
  BUFF_SIZE = 2
  LINE_LIMIT = 2
  MaxCar = 2
  KmallocMayFail = FALSE
  MaxSignals = 0
  NoTask = NoTask
PROPERTY SideServed
CHECK_DEADLOCK FALSE
