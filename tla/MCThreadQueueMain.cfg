\* main pushes three tasks, polls and exits.
CONSTANTS
  main = main
  worker = worker
  k1 = k1
  k2 = k2
  k3 = k3
  NoThread = NoThread
  NoTask = NoTask
  Main = main
  Pushers = {main}
  Worker = worker
  Threads = {main, worker}
  Tasks = {k1, k2, k3}
  BadTasks = {}
  MaxPushes = 3
  MaxSpurious = 2
  Program <- ThreeTasks
SPECIFICATION MainSpec
INVARIANT ExitAfterAllButLast
PROPERTY MainExits
\* The process ends when main exits.
CHECK_DEADLOCK FALSE
