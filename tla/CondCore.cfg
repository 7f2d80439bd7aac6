SPECIFICATION CondSpec
CONSTANTS
  hi = hi
  mid = mid
  lo = lo
  idle = idle
  A = A
  B = B
  C = C
  NULL = NULL
  main = lo
  Threads <- ThreeThreads
  Mutexes <- TwoMutexes
  Conds = {C}
  Objects <- TwoMutexesObjects
  BasePrio <- MCBasePrio
  HIGHPRIO = 4
  TIME_QUANTUM = 0
  RequeueStates = {"WTCOND"}
  RecursiveMode = FALSE
  MaxNest = 0
  NewPrios = {}
  Sleepers = {hi}
  SetPrioOwning = FALSE
  LockOrder <- AscendingOrder
INVARIANTS
  QueuesMatchStates
  ExactInheritance
  NoDanglingTimer
PROPERTIES
  ReadyKeepsMessage
