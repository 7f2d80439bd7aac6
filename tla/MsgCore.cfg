SPECIFICATION MsgSpec
CONSTANTS
  hi = hi
  mid = mid
  lo = lo
  idle = idle
  A = A
  S = S
  NULL = NULL
  main = lo
  Threads <- ThreeThreads
  Mutexes = {A}
  Conds = {}
  Sems = {S}
  BSems = {}
  Objects <- SemAndMutex
  BasePrio <- DistinctPrio
  HIGHPRIO = 4
  TIME_QUANTUM = 0
  RequeueStates = {"WTSEM"}
  RecursiveMode = FALSE
  MaxNest = 0
  NewPrios = {}
  Sleepers = {hi}
  SetPrioOwning = FALSE
  LockOrder = {}
  SemPrio = TRUE
  MaxCnt = 1
  ResetValues = {0, 1}
  SendOrder <- Upwards
INVARIANTS
  QueuesSorted
  RendezvousWhole
\* Threads may all wait for messages that nobody sends.
CHECK_DEADLOCK FALSE
