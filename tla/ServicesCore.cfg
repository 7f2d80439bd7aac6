SPECIFICATION ServicesSpec
CONSTANTS
  Threads = {a, b, c}
  Messages = {m1, m2}
  NoMsg = NoMsg
  N = 2
  Writers = {a, b}
  Readers = {c}
  Size = 2
  MaxBytes = 2
  None = None
  Areas = {main, s, d}
  Dynamic = {d}
  main = main
  Users = {u, v}
  MaxRefs = 1
  NULL = NULL
  Waiters = {a}
  Events = {0, 1}
  Flags = {f}
  Listeners = {l, k}
  Timers = {x, y, z}
  Configs <- CoreConfigs
INVARIANTS
  NoLostWakeup
  
  FifoConserves
  StreamIntact
  LifeAccounted
  NoEventMissed
  
  
  
PROPERTIES
  IsDeque
