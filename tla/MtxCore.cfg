SPECIFICATION MtxSpec
CONSTANTS
  hi = hi
  mid = mid
  lo = lo
  low = low
  idle = idle
  A = A
  B = B
  NULL = NULL
  main = low
  Threads <- FourThreads
  Mutexes <- MCMutexes
  Objects <- MCMutexes
  BasePrio <- FourPrio
  HIGHPRIO = 5
  TIME_QUANTUM = 0
  RequeueStates = {}
  RecursiveMode = FALSE
  MaxNest = 0
  NewPrios = {}
  Sleepers = {hi, mid, lo, low}
  SetPrioOwning = FALSE
  LockOrder <- AscendingOrder
INVARIANTS
  MtxInv
  ExactInheritance
  QueuesSorted
  RunningIsHighest
  GrantedOnResume
  NoDeadlock
