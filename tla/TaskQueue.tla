----------------------------- MODULE TaskQueue ------------------------------
(***************************************************************************)
(* What thread_queue.c promises: submitted tasks are run one at a time, in *)
(* the order of their submission, each submission exactly once, and every  *)
(* submitted task is run in the end.                                       *)
(***************************************************************************)
EXTENDS Sequences

CONSTANTS Tasks, NoTask

VARIABLES queue,     \* tasks submitted and not started
          running    \* the task being run, or NoTask

queueVars == <<queue, running>>

QueueInit ==
  /\ queue = <<>>
  /\ running = NoTask

Submit ==
  /\ \E task \in Tasks : queue' = Append(queue, task)
  /\ UNCHANGED running

Start ==
  /\ running = NoTask
  /\ queue # <<>>
  /\ running' = Head(queue)
  /\ queue' = Tail(queue)

Finish ==
  /\ running # NoTask
  /\ running' = NoTask
  /\ UNCHANGED queue

QueueNext == Submit \/ Start \/ Finish

QueueSafety == QueueInit /\ [][QueueNext]_queueVars

QueueSpec == QueueSafety /\ WF_queueVars(Start) /\ WF_queueVars(Finish)

=============================================================================
