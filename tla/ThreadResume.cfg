CONSTANTS
  MayOverflow = {t2}
  idle = idle
  NULL = NULL
  Threads = {t1, t2}
  UserThreads = {t2}
  Mutexes = {m1}
  Wakeups = {w1}
  dbgwakeup = w1
  dbgthread = t1
  Prios = {1}
  MaxCount = 2
SPECIFICATION ControlSpec
INVARIANTS
  ResumeResumes
CHECK_DEADLOCK FALSE
