---------------------------- MODULE ThreadQueue -----------------------------
(***************************************************************************)
(* src/clib/thread_queue.c: threads push tasks onto a list protected by a  *)
(* spin lock, and one worker thread removes and runs them; a Cond puts the *)
(* worker to sleep when the list is empty.                                 *)
(*                                                                         *)
(* The list is a sequence here (module IntrusiveList relates list.h to     *)
(* sequences), and is read and written only by the holder of the lock.     *)
(* The Cond is that of module Cond, its state included: pc is where a      *)
(* thread stands in thread_queue.c, cpc where it stands in cond.h.         *)
(***************************************************************************)
EXTENDS Cond, Sequences

CONSTANTS Pushers,     \* threads that call thread_queue_push
          Worker,      \* the thread created by thread_queue_init
          Tasks,       \* tasks with a work function
          BadTasks,    \* tasks whose work_func_ is NULL
          NoTask,      \* the NULL list node
          MaxPushes    \* bound: calls of thread_queue_push in one behaviour

ASSUME ThreadQueueAssumption ==
  /\ Worker \notin Pushers
  /\ Threads = Pushers \cup {Worker}
  /\ NoTask \notin Tasks
  /\ Tasks \cap BadTasks = {}
  /\ MaxPushes \in Nat

VARIABLES spin,      \* owner of lock_, or NoThread
          tasks,     \* the list
          pc,        \* where each thread stands
          node,      \* the worker's local variable "node"
          arg,       \* the task each pusher is pushing
          pushes     \* calls of thread_queue_push so far

queueVars == <<spin, tasks, pc, node, arg, pushes>>
vars == <<condVars, queueVars>>

PushSteps == {"push_lock", "push_link", "push_unlock", "push_wakeup", "push_return"}
WorkSteps == {"work_lock", "work_remove", "work_unlock", "work_run", "work_wait",
              "work_return"}

(* thread_queue_init, up to the creation of the worker *)
Init ==
  /\ CondInit
  /\ spin = NoThread
  /\ tasks = <<>>
  /\ pc = [t \in Threads |-> IF t = Worker THEN "work_lock" ELSE "ready"]
  /\ node = NoTask
  /\ arg = [p \in Pushers |-> NoTask]
  /\ pushes = 0

Move(t, from, to) ==
  /\ pc[t] = from
  /\ pc' = [pc EXCEPT ![t] = to]

(* Mutant: the lock is taken whether it is free or not. *)
SpinLockAnyway(t, from, to) ==
  Move(t, from, to) /\ spin' = t /\ UNCHANGED <<tasks, node, arg, pushes, condVars>>

SpinLock(t, from, to) ==
  /\ Move(t, from, to)
  /\ spin = NoThread
  /\ spin' = t
  /\ UNCHANGED <<tasks, node, arg, pushes, condVars>>

-----------------------------------------------------------------------------
(* thread_queue_push *)

(* The node of a task is in one list at most: a caller does not push a     *)
(* task that is queued or that another thread is pushing.  A task the      *)
(* worker has removed may be pushed again, even while it runs.             *)
Unlinked(task) ==
  /\ \A i \in 1..Len(tasks) : tasks[i] # task
  /\ \A p \in Pushers : pc[p] \in {"push_lock", "push_link"} => arg[p] # task

PushCall(p) ==
  /\ pushes < MaxPushes
  /\ Move(p, "ready", "push_lock")
  /\ \E task \in Tasks : Unlinked(task) /\ arg' = [arg EXCEPT ![p] = task]
  /\ pushes' = pushes + 1
  /\ UNCHANGED <<spin, tasks, node, condVars>>

(* A task without a work function: the call returns -1 and does nothing.   *)
PushRejected(p) ==
  /\ pc[p] = "ready"
  /\ pushes < MaxPushes
  /\ \E task \in BadTasks : arg' = [arg EXCEPT ![p] = task]
  /\ pushes' = pushes + 1
  /\ UNCHANGED <<spin, tasks, pc, node, condVars>>

PushLock(p) == SpinLock(p, "push_lock", "push_link")

PushLink(p) ==
  /\ Move(p, "push_link", "push_unlock")
  /\ tasks' = Append(tasks, arg[p])
  /\ UNCHANGED <<spin, node, arg, pushes, condVars>>

(* Mutant: wake up the worker only if it sleeps already. *)
PushUnlockWakesSleeper(p) ==
  /\ Move(p, "push_unlock", IF waiters = {} THEN "ready" ELSE "push_wakeup")
  /\ spin' = NoThread
  /\ UNCHANGED <<tasks, node, arg, pushes, condVars>>

PushUnlock(p) ==
  /\ Move(p, "push_unlock", "push_wakeup")
  /\ spin' = NoThread
  /\ UNCHANGED <<tasks, node, arg, pushes, condVars>>

PushWakeup(p) ==
  /\ Move(p, "push_wakeup", "push_return")
  /\ CallWakeup(p)
  /\ UNCHANGED <<spin, tasks, node, arg, pushes>>

PushReturn(p) ==
  /\ cpc[p] = "idle"
  /\ Move(p, "push_return", "ready")
  /\ UNCHANGED <<spin, tasks, node, arg, pushes, condVars>>

PushStep(p) ==
  PushLock(p) \/ PushLink(p) \/ PushUnlock(p) \/ PushWakeup(p) \/ PushReturn(p)

-----------------------------------------------------------------------------
(* thread_queue_work_func *)
WorkLock == SpinLock(Worker, "work_lock", "work_remove")

(* Mutant: the newest task first. *)
WorkRemoveLast ==
  /\ Move(Worker, "work_remove", "work_unlock")
  /\ node' = IF tasks = <<>> THEN NoTask ELSE tasks[Len(tasks)]
  /\ tasks' = IF tasks = <<>> THEN tasks ELSE SubSeq(tasks, 1, Len(tasks) - 1)
  /\ UNCHANGED <<spin, arg, pushes, condVars>>

(* list_remove_head *)
WorkRemove ==
  /\ Move(Worker, "work_remove", "work_unlock")
  /\ \/ /\ tasks = <<>>
        /\ node' = NoTask
        /\ UNCHANGED tasks
     \/ /\ tasks # <<>>
        /\ node' = Head(tasks)
        /\ tasks' = Tail(tasks)
  /\ UNCHANGED <<spin, arg, pushes, condVars>>

WorkUnlock ==
  /\ \/ node = NoTask /\ Move(Worker, "work_unlock", "work_wait")
     \/ node # NoTask /\ Move(Worker, "work_unlock", "work_run")
  /\ spin' = NoThread
  /\ UNCHANGED <<tasks, node, arg, pushes, condVars>>

(* The work function of the task returns. *)
WorkRun ==
  /\ Move(Worker, "work_run", "work_lock")
  /\ UNCHANGED <<spin, tasks, node, arg, pushes, condVars>>

WorkWait ==
  /\ Move(Worker, "work_wait", "work_return")
  /\ CallWait(Worker)
  /\ UNCHANGED <<spin, tasks, node, arg, pushes>>

WorkReturn ==
  /\ cpc[Worker] = "idle"
  /\ Move(Worker, "work_return", "work_lock")
  /\ UNCHANGED <<spin, tasks, node, arg, pushes, condVars>>

WorkStep ==
  WorkLock \/ WorkRemove \/ WorkUnlock \/ WorkRun \/ WorkWait \/ WorkReturn

-----------------------------------------------------------------------------
(* A step of a thread inside cond_wakeup or cond_wait, which leaves the    *)
(* queue alone.                                                            *)
InCond(t) == CondStep(t) /\ UNCHANGED queueVars

Spurious == SpuriousWakeup(Worker) /\ UNCHANGED queueVars

Next ==
  \/ \E p \in Pushers : PushCall(p) \/ PushRejected(p) \/ PushStep(p)
  \/ WorkStep
  \/ \E t \in Threads : InCond(t)
  \/ Spurious

(* Every thread that is inside thread_queue_push, and the worker, is       *)
(* scheduled again and again, and a work function returns.  Nothing is     *)
(* assumed of the order in which the locks are granted: calls are finitely *)
(* many, so the locks are not contended for ever.                          *)
Fairness ==
  /\ \A p \in Pushers : WF_vars(PushStep(p) \/ InCond(p))
  /\ WF_vars(WorkStep \/ InCond(Worker))

Spec == Init /\ [][Next]_vars /\ Fairness

-----------------------------------------------------------------------------
TypeOK ==
  /\ CondTypeOK
  /\ spin \in Threads \cup {NoThread}
  /\ tasks \in Seq(Tasks)
  /\ pc \in [Threads -> {"ready"} \cup PushSteps \cup WorkSteps]
  /\ node \in Tasks \cup {NoTask}
  /\ arg \in [Pushers -> Tasks \cup BadTasks \cup {NoTask}]
  /\ pushes \in 0..MaxPushes

HoldsSpin(t) ==
  pc[t] \in {"push_link", "push_unlock", "work_remove", "work_unlock"}

(* One thread at a time reads or writes the list.                          *)
SpinInv == \A t \in Threads : HoldsSpin(t) <=> spin = t

(* Who stands where: the worker runs the work loop and waits, the pushers  *)
(* push and wake up, and a thread is inside the Cond only during its call. *)
PlaceInv ==
  /\ pc[Worker] \in WorkSteps
  /\ cpc[Worker] # "idle" => pc[Worker] = "work_return"
  /\ cpc[Worker] \in {"idle"} \cup WaitSteps
  /\ \A p \in Pushers :
       /\ pc[p] \in {"ready"} \cup PushSteps
       /\ pc[p] \in {"push_lock", "push_link"} => arg[p] \in Tasks
       /\ cpc[p] # "idle" => pc[p] = "push_return"
       /\ cpc[p] \in {"idle"} \cup WakeupSteps

(* The worker has seen an empty list and has not consumed a wakeup since.  *)
FoundEmpty ==
  \/ pc[Worker] = "work_unlock" /\ node = NoTask
  \/ pc[Worker] = "work_wait"
  \/ pc[Worker] = "work_return" /\ cpc[Worker] \notin {"idle", "wait_unlock"}

(* p has linked its task and has not incremented the counter yet.          *)
OwesWakeup(p) ==
  \/ pc[p] \in {"push_unlock", "push_wakeup"}
  \/ pc[p] = "push_return" /\ cpc[p] \in {"wakeup_lock", "wakeup_inc"}

(* A task that arrives after the worker has seen an empty list leaves a    *)
(* trace: the counter is positive or is about to be incremented.           *)
WakeupInv ==
  FoundEmpty /\ tasks # <<>> => cnt > 0 \/ \E p \in Pushers : OwesWakeup(p)

(* The inductive invariant. *)
Inv == TypeOK /\ CondInv /\ SpinInv /\ PlaceInv /\ WakeupInv

(* The worker never sleeps on a non-empty list unless the signal that will *)
(* wake it up is on its way: the check of the list under the spin lock and *)
(* the sleep under the mutex are two critical sections, and a push that    *)
(* falls between them is not missed.                                       *)
NoSleepOnWork ==
  Worker \in waiters /\ tasks # <<>>
    => \E p \in Pushers : OwesWakeup(p) \/ cpc[p] = "wakeup_signal"

TQ == INSTANCE TaskQueue
        WITH queue <- tasks,
             running <- IF pc[Worker] \in {"work_unlock", "work_run"} THEN node ELSE NoTask

(* thread_queue.c implements the task queue: first in first out, one task  *)
(* at a time, each push run exactly once, and none left in the list.       *)
ImplementsTaskQueue == TQ!QueueSpec

(* Each push leaves one wakeup in the counter, many of them for tasks the  *)
(* worker has already run: it consumes them all and goes to sleep for good *)
(* once no more tasks are pushed.                                          *)
WorkerSettles == <>[](Worker \in waiters /\ tasks = <<>> /\ cnt = 0)

=============================================================================
