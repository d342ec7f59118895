SPECIFICATION ProgramsSpec
CONSTANTS
  MAX_QUEUE_SIZE = 4
  CarNumber = {0, 1, 2}

  MsgTasks = {t1}
  Users = {"ann", "bob"}
  Letters <- MCLetters
  Nodes = {"n1", "n2", "n3"}
  INIT_ON_ALLOC = TRUE

  VPages = {1, 2, 3, 4}
  numFrames = 2
  TraceLength = 6

  WIDTH = 16
  HEIGHT = 16
  SIDE = 15
  MaxCurve = 4
  Strokes <- MCStrokes

  LONG_BITS = 4
  INT_BITS = 3
  PAGE_BITS = 2
  Cpus = {"cpu0", "cpu1"}
  NodeOf <- MCNodeOf

  MmThreads = {t1, t2}
  Addrs = {1, 2, 3, 4}
  MinAddr = 1
  TaskSize = 4
  DataLimit = 1
  Tried = {"start_code", "end_code", "end_data", "start_brk", "arg_end"}
  UserMaps <- MCMaps
  FirstMap <- MCFirstMap
  AuxSize = 4
  Files = {"a", "b"}
  FirstExe = "a"

  Signals = {0, 1}
  DefaultSlack = 1
  SlackArgs = {0, 1, 2}
  Names16 = {"a", "b"}
  PrctlCapable = TRUE

  hello_str <- MCHello
  Sizes = {1, 2, 5}
  Paths = {"/", "/hello", "/other"}
INVARIANTS
  
  
  TableMatchesRam OptIsOptimal
  LineIsStraight  PictureIsRight
  BytesExact
  MapStaysValid
  ReadsWhole
PROPERTIES
  ImplementsLine ImplementsMailbox OneFieldAtATime FailedCallsAreClean
CHECK_DEADLOCK FALSE
