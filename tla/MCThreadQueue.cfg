\* Three pushes by two threads, of two tasks: one is pushed again after it was run.
CONSTANTS
  p1 = p1
  p2 = p2
  worker = worker
  k1 = k1
  k2 = k2
  bad = bad
  NoThread = NoThread
  NoTask = NoTask
  Pushers = {p1, p2}
  Worker = worker
  Threads = {p1, p2, worker}
  Tasks = {k1, k2}
  BadTasks = {bad}
  MaxPushes = 3
  MaxSpurious = 1
SPECIFICATION Spec
INVARIANT Inv
INVARIANT NoSleepOnWork
PROPERTY ImplementsTaskQueue
PROPERTY WorkerSettles
\* Once the bounded pushes are done the worker sleeps for ever.
CHECK_DEADLOCK FALSE
