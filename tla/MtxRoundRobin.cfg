SPECIFICATION MtxTickSpec
CONSTANTS
  hi = hi
  mid = mid
  lo = lo
  low = low
  idle = idle
  A = A
  B = B
  NULL = NULL
  main = lo
  Threads <- MCThreads
  Mutexes <- MCMutexes
  Objects <- MCMutexes
  BasePrio <- PeersPrio
  HIGHPRIO = 3
  TIME_QUANTUM = 1
  RequeueStates = {}
  RecursiveMode = FALSE
  MaxNest = 0
  NewPrios = {}
  Sleepers = {hi}
  SetPrioOwning = FALSE
  LockOrder <- AscendingOrder
INVARIANTS
  WaitersInherit

  
