CONSTANTS
  MayOverflow = {}
  idle = idle
  NULL = NULL
  Threads = {t1, t2, t3}
  UserThreads = {}
  Mutexes = {m1, m2}
  shared = m1
  Wakeups = {w1}
  dbgwakeup = NULL
  Prios = {0, 1}
  MaxCount = 2
SPECIFICATION Spec
CONSTRAINT InScope
SYMMETRY Symmetry
INVARIANTS
  TypeOK
  QueueIsBlockedThreads
  QueueIsLinear
  LockReturnIsHandOff
  NoLostWakeup
  MutualExclusion
  OwnedIsOwner
  NoWaiterOnFreeMutex
PROPERTIES
  ImplementsMutex
CHECK_DEADLOCK FALSE
