SPECIFICATION CondLiveSpec
CONSTANTS
  hi = hi
  mid = mid
  lo = lo
  idle = idle
  A = A
  B = B
  C = C
  NULL = NULL
  main = lo
  Threads <- ThreeThreads
  Mutexes <- OneMutex
  Conds = {C}
  Objects <- OneMutexObjects
  BasePrio <- MCBasePrio
  HIGHPRIO = 4
  TIME_QUANTUM = 0
  RequeueStates = {"WTCOND"}
  RecursiveMode = FALSE
  MaxNest = 0
  NewPrios = {}
  Sleepers = {hi}
  SetPrioOwning = FALSE
  LockOrder <- NoOrder
PROPERTIES
  TimedWaitReturns
  HighestGetsMutex
