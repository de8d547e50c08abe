CONSTANTS
  MayOverflow = {}
  idle = idle
  NULL = NULL
  Threads = {t1, t2, t3}
  UserThreads = {t2, t3}
  Mutexes = {m1, m2}
  Wakeups = {w1}
  dbgwakeup = w1
  dbgthread = t1
  Prios = {1}
  MaxCount = 1
  LifeSteps = 3
SPECIFICATION MCLifeSpec
SYMMETRY Symmetry
INVARIANTS KilledIsForgotten LivingUnharmed
CHECK_DEADLOCK FALSE
