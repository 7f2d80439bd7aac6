SPECIFICATION MtxSpec
CONSTANTS
  hi = hi
  mid = mid
  lo = lo
  low = low
  idle = idle
  A = A
  B = B
  NULL = NULL
  main = lo
  Threads <- MCThreads
  Mutexes <- MCMutexes
  Objects <- MCMutexes
  BasePrio <- MCBasePrio
  HIGHPRIO = 4
  TIME_QUANTUM = 0
  RequeueStates = {}
  RecursiveMode = TRUE
  MaxNest = 2
  NewPrios = {2, 4}
  Sleepers = {hi}
  SetPrioOwning = TRUE
  LockOrder <- AscendingOrder
INVARIANTS
  NoStaleBoost
  OwnersMatchStacks
