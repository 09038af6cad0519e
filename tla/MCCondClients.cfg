\* Three threads, two calls each, two spurious wakeups.
CONSTANTS
  t1 = t1
  t2 = t2
  t3 = t3
  NoThread = NoThread
  Threads = {t1, t2, t3}
  MaxSpurious = 2
  MaxCalls = 2
SPECIFICATION ClientsSpec
INVARIANT ClientsInv
INVARIANT NoLostWakeup
PROPERTY ImplementsSemaphore
\* Threads that have used up their calls, or wait for a wakeup nobody sends, stop.
CHECK_DEADLOCK FALSE
