CONSTANTS
  MayOverflow = {}
  idle = idle
  NULL = NULL
  Threads = {t1, t2}
  UserThreads = {}
  Mutexes = {m1}
  Wakeups = {w1}
  dbgwakeup = NULL
  Prios = {1}
  MaxCount = 1
SPECIFICATION FairSpec
PROPERTIES
  TimedWaitReturns
  SignalledWaiterReturns
  HandedLockReturns
