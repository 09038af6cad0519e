-------------------------- MODULE ThreadQueueMain ---------------------------
(***************************************************************************)
(* The program of src/clib/thread_queue.c: main starts the worker, pushes  *)
(* its tasks one after the other, then polls the list under the spin lock  *)
(* and returns, without releasing the lock, as soon as it finds the list   *)
(* empty.  Its return ends the process, the worker included.  It does not  *)
(* look at what thread_queue_init returns.                                 *)
(***************************************************************************)
EXTENDS ThreadQueue, SequencesExt

CONSTANTS Main,      \* the thread that runs main
          Program    \* the tasks main pushes, in order

ASSUME MainAssumption ==
  /\ Pushers = {Main}
  /\ Program \in Seq(Tasks) /\ IsInjective(Program)
  /\ Len(Program) <= MaxPushes

VARIABLES mpc,       \* where main stands: "push", "poll", "test", "unlock" or "exited"
          created,   \* pthread_create has made the worker
          done       \* history: the tasks whose work function has returned

mainVars == <<vars, mpc, created, done>>

(* thread_queue_init has returned, whether pthread_create failed or not.   *)
MainInit ==
  /\ Init
  /\ created \in BOOLEAN
  /\ mpc = "push"
  /\ done = <<>>

MainPush ==
  /\ mpc = "push"
  /\ pushes < Len(Program)
  /\ PushCall(Main)
  /\ arg'[Main] = Program[pushes + 1]
  /\ UNCHANGED <<mpc, created, done>>

(* The last thread_queue_push has returned: the polling loop begins.       *)
MainPolls ==
  /\ mpc = "push"
  /\ pushes = Len(Program)
  /\ pc[Main] = "ready"
  /\ mpc' = "poll"
  /\ UNCHANGED <<vars, created, done>>

MainLock ==
  /\ mpc = "poll"
  /\ spin = NoThread
  /\ spin' = Main
  /\ mpc' = "test"
  /\ UNCHANGED <<condVars, tasks, pc, node, arg, pushes, created, done>>

(* Mutant: a list of one task is taken for an empty one. *)
MainTestOneLeft ==
  /\ mpc = "test"
  /\ mpc' = IF Len(tasks) <= 1 THEN "exited" ELSE "unlock"
  /\ UNCHANGED <<vars, created, done>>

(* The break leaves the loop with the lock held. *)
MainTest ==
  /\ mpc = "test"
  /\ mpc' = IF tasks = <<>> THEN "exited" ELSE "unlock"
  /\ UNCHANGED <<vars, created, done>>

(* Mutant: the lock is kept. *)
MainUnlockForgotten ==
  /\ mpc = "unlock"
  /\ mpc' = "poll"
  /\ UNCHANGED <<vars, created, done>>

MainUnlock ==
  /\ mpc = "unlock"
  /\ spin' = NoThread
  /\ mpc' = "poll"
  /\ UNCHANGED <<condVars, tasks, pc, node, arg, pushes, created, done>>

(* The steps of ThreadQueue, until the exit ends the process. *)
PushesOn ==
  /\ mpc # "exited"
  /\ PushStep(Main) \/ InCond(Main)
  /\ UNCHANGED <<mpc, created, done>>

WorkerLocks == mpc # "exited" /\ created /\ WorkLock /\ UNCHANGED <<mpc, created, done>>

WorkerGoesOn ==
  /\ mpc # "exited" /\ created
  /\ WorkRemove \/ WorkUnlock \/ WorkWait \/ WorkReturn \/ InCond(Worker)
  /\ UNCHANGED <<mpc, created, done>>

WorkerRuns ==
  /\ mpc # "exited" /\ created
  /\ WorkRun
  /\ done' = Append(done, node)
  /\ UNCHANGED <<mpc, created>>

SpuriousReturn == mpc # "exited" /\ created /\ Spurious /\ UNCHANGED <<mpc, created, done>>

MainStep == MainPush \/ MainPolls \/ MainLock \/ MainTest \/ MainUnlock \/ PushesOn

WorkerStep == WorkerLocks \/ WorkerGoesOn \/ WorkerRuns

MainNext == MainStep \/ WorkerStep \/ SpuriousReturn

(* Both threads are scheduled again and again. *)
MainSpec ==
  MainInit /\ [][MainNext]_mainVars /\ WF_mainVars(MainStep) /\ WF_mainVars(WorkerStep)

-----------------------------------------------------------------------------
(* Until the exit, the tasks that ran, the one in hand, the list and the   *)
(* ones not pushed yet are main's program.                                 *)
NothingLost ==
  LET inHand == IF pc[Worker] \in {"work_unlock", "work_run"} /\ node # NoTask
                  THEN <<node>> ELSE <<>>
      linked == IF pushes > 0 /\ pc[Main] \in {"push_lock", "push_link"}
                  THEN pushes - 1 ELSE pushes
  IN  done \o inHand \o tasks = SubSeq(Program, 1, linked)

(* What main's exit on an empty list guarantees: every pushed task has     *)
(* been removed, in order, and all but the last have run to their end; the *)
(* last one may be cut short or not have begun.  The worker never loses a  *)
(* task to main's polling.                                                 *)
ExitAfterAllButLast ==
  /\ NothingLost
  /\ mpc = "exited" =>
       /\ tasks = <<>>
       /\ IsPrefix(done, Program)
       /\ Len(done) >= Len(Program) - 1
       /\ Len(done) < Len(Program) => node = Last(Program) /\ pc[Worker] = "work_run"

(* If there is a worker, and the spin lock is granted to it in the end     *)
(* whenever main lets go of it again and again, main exits: the worker     *)
(* never waits for anything else while a task is in the list.  A spin lock *)
(* does not promise that by itself, and main polls without a pause.        *)
MainExits == created /\ SF_mainVars(WorkerLocks) => <>(mpc = "exited")

=============================================================================
