SPECIFICATION SemSpec
CONSTANTS
  hi = hi
  mid = mid
  lo = lo
  idle = idle
  S = S
  T = T
  NULL = NULL
  main = lo
  Threads <- ThreeThreads
  Mutexes = {}
  Conds = {}
  Sems = {S}
  BSems = {T}
  Objects <- SemsOnly
  BasePrio <- PeersPrio
  HIGHPRIO = 3
  TIME_QUANTUM = 0
  RequeueStates = {}
  RecursiveMode = FALSE
  MaxNest = 0
  NewPrios = {}
  Sleepers = {hi}
  SetPrioOwning = FALSE
  LockOrder = {}
  SemPrio = FALSE
  MaxCnt = 2
  ResetValues = {0, 1}
INVARIANTS
  SemConsistent
  BinaryStaysBinary
PROPERTIES
  SemsCount
