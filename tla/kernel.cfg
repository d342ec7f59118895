SPECIFICATION KernelSpec
CONSTANTS
  Ids = {root, alice, bob}
  Mapped = {root, alice}
  Root = root
  Keep = keep
  Overflow = nobody

  PrioTasks = {"t1", "t2"}
  PrioPgrp <- MCPgrp
  PrioUid <- MCUid
  PrioEuid <- MCEuid
  NiceCapable = {"t2"}
  NiceLimit <- MCNiceLimit
  Who = {"self", "t2", "b", "g"}
  MIN_NICE <- MCMinNice
  MAX_NICE = 1
  NiceArgs <- MCNiceArgs

  Callers = {c1, c2}
  Own = {c1}
  IdMatch = {}
  ResourceCapable = {c2}
  Resources = {"RLIMIT_NOFILE", "RLIMIT_CPU"}
  NrOpen = 1
  OLD_MAX = 1
  COMPAT_RLIM_INFINITY = 2
  RLIM_INFINITY = 3
  RLIM64_INFINITY = 3

  Pids = {p1, p2, p3, p4}
  InitPid = p1
  Tids = {t1}
  NoPid = none

  UtsNames <- MCNames
  UTS_LEN = 3
  OLD_UTS_LEN = 2
  UTS_RELEASE <- MCRelease
  VersionChars <- MCVersion
  NUL = "0x0"

  UsageThreads = {t1, t2, t3}
  MaxTicks = 2
  UMASK_SIZE = 2
  CLOCK = 2

  Family = {i, a, b, c}
  FirstProc = i
  NsReapers = {i}
VIEW KernelView
INVARIANTS
  UserIsRealUid
  ReturnTellsAll NoPriorityFromNowhere
  SoftWithinHard CpuTimerArmed AbisAgree
  SessionShape
  NamesAreWhole
  SampleIsBracketed
  DescendantsKnow
PROPERTIES
  DropIsForGood
CHECK_DEADLOCK FALSE
