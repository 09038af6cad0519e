------------------------------ MODULE SemRing -------------------------------
(***************************************************************************)
(* src/clib/pthread_sem_sync.c: THREAD_NUM threads in a ring of semaphores *)
(* write lines of numbers in turn.  Line k begins with thread k's number;  *)
(* the semaphores and the threads are made anew for every line.            *)
(***************************************************************************)
EXTENDS Naturals, Sequences

CONSTANTS THREAD_NUM,     \* threads of the ring
          TEST_NUM,       \* lines
          TEST_CASE_NUM   \* numbers each thread writes on one line

ASSUME RingAssumption ==
  THREAD_NUM \in Nat \ {0} /\ TEST_NUM \in Nat /\ TEST_CASE_NUM \in Nat \ {0}

Threads == 0..(THREAD_NUM - 1)

VARIABLES k,        \* main: the line being written
          i,        \* main: the loop counter of the loop it is in
          mpc,      \* main: "init", "create", "post", "join", "newline" or "done"
          sems,     \* the value of each semaphore
          tpc,      \* each thread: "none", "wait", "print", "post" or "exited"
          num,      \* each thread: numbers written on this line
          line      \* the numbers on this line

linesVars == <<k, i, mpc, sems, tpc, num, line>>

LinesInit ==
  /\ k = 0 /\ i = 0
  /\ mpc = IF TEST_NUM = 0 THEN "done" ELSE "init"
  /\ sems = [t \in Threads |-> 0]
  /\ tpc = [t \in Threads |-> "none"]
  /\ num = [t \in Threads |-> 0]
  /\ line = <<>>

-----------------------------------------------------------------------------
(* sync_print *)

(* Mutant: sem_init once, for all lines. *)
InitSemsOnce ==
  /\ mpc = "init"
  /\ mpc' = "create" /\ i' = 0
  /\ UNCHANGED <<sems, k, tpc, num, line>>

(* The loop of sem_init calls, seen by nobody else. *)
InitSems ==
  /\ mpc = "init"
  /\ sems' = [t \in Threads |-> 0]
  /\ mpc' = "create" /\ i' = 0
  /\ UNCHANGED <<k, tpc, num, line>>

CreateThread ==
  /\ mpc = "create"
  /\ tpc' = [tpc EXCEPT ![i] = "wait"]
  /\ num' = [num EXCEPT ![i] = 0]
  /\ i' = i + 1
  /\ mpc' = IF i' = THREAD_NUM THEN "post" ELSE "create"
  /\ UNCHANGED <<k, sems, line>>

(* Mutant: every line begins with thread 0. *)
PostFirstZero ==
  /\ mpc = "post"
  /\ sems' = [sems EXCEPT ![0] = @ + 1]
  /\ mpc' = "join" /\ i' = 0
  /\ UNCHANGED <<k, tpc, num, line>>

PostFirst ==
  /\ mpc = "post"
  /\ sems' = [sems EXCEPT ![k % THREAD_NUM] = @ + 1]
  /\ mpc' = "join" /\ i' = 0
  /\ UNCHANGED <<k, tpc, num, line>>

JoinThread ==
  /\ mpc = "join"
  /\ tpc[i] = "exited"
  /\ i' = i + 1
  /\ mpc' = IF i' = THREAD_NUM THEN "newline" ELSE "join"
  /\ UNCHANGED <<k, sems, tpc, num, line>>

NewLine ==
  /\ mpc = "newline"
  /\ line' = <<>>
  /\ k' = k + 1
  /\ mpc' = IF k' = TEST_NUM THEN "done" ELSE "init"
  /\ UNCHANGED <<i, sems, tpc, num>>

-----------------------------------------------------------------------------
(* do_print *)
SemWait(t) ==
  /\ tpc[t] = "wait"
  /\ sems[t] > 0
  /\ sems' = [sems EXCEPT ![t] = @ - 1]
  /\ tpc' = [tpc EXCEPT ![t] = "print"]
  /\ UNCHANGED <<k, i, mpc, num, line>>

PrintIdx(t) ==
  /\ tpc[t] = "print"
  /\ line' = Append(line, t + 1)
  /\ tpc' = [tpc EXCEPT ![t] = "post"]
  /\ UNCHANGED <<k, i, mpc, sems, num>>

(* Mutant: the token goes back to the thread itself. *)
SemPostSelf(t) ==
  /\ tpc[t] = "post"
  /\ sems' = [sems EXCEPT ![t] = @ + 1]
  /\ num' = [num EXCEPT ![t] = @ + 1]
  /\ tpc' = [tpc EXCEPT ![t] = IF num'[t] = TEST_CASE_NUM THEN "exited" ELSE "wait"]
  /\ UNCHANGED <<k, i, mpc, line>>

SemPost(t) ==
  /\ tpc[t] = "post"
  /\ sems' = [sems EXCEPT ![(t + 1) % THREAD_NUM] = @ + 1]
  /\ num' = [num EXCEPT ![t] = @ + 1]
  /\ tpc' = [tpc EXCEPT ![t] = IF num'[t] = TEST_CASE_NUM THEN "exited" ELSE "wait"]
  /\ UNCHANGED <<k, i, mpc, line>>

ThreadStep(t) == SemWait(t) \/ PrintIdx(t) \/ SemPost(t)

MainStep == InitSems \/ CreateThread \/ PostFirst \/ JoinThread \/ NewLine

LinesNext == MainStep \/ \E t \in Threads : ThreadStep(t)

(* Every thread that is not blocked is scheduled again and again. *)
LinesSpec ==
  /\ LinesInit /\ [][LinesNext]_linesVars
  /\ WF_linesVars(MainStep) /\ \A t \in Threads : WF_linesVars(ThreadStep(t))

-----------------------------------------------------------------------------
LinesTypeOK ==
  /\ k \in 0..TEST_NUM /\ i \in 0..THREAD_NUM
  /\ mpc \in {"init", "create", "post", "join", "newline", "done"}
  /\ sems \in [Threads -> Nat]
  /\ tpc \in [Threads -> {"none", "wait", "print", "post", "exited"}]
  /\ num \in [Threads -> 0..TEST_CASE_NUM]
  /\ line \in Seq(1..THREAD_NUM)

(* Line k is what the problem statement asks for (lines 11 to 15 of the    *)
(* source): k, k + 1, ..., round and round, complete when main starts the  *)
(* next one.                                                               *)
LineInOrder ==
  /\ line = [j \in 1..Len(line) |-> ((k + j - 1) % THREAD_NUM) + 1]
  /\ mpc = "newline" => Len(line) = THREAD_NUM * TEST_CASE_NUM

(* t has the turn, or the next sem_wait of t gives it the turn.            *)
HasTurn(t) == sems[t] > 0 \/ tpc[t] \in {"print", "post"}

(* The semaphores and the threads of the ring hold one token between them: *)
(* no two threads write at the same time.  A complete line leaves the      *)
(* token behind in a semaphore, and the next line starts without it.       *)
OneToken ==
  /\ \A t \in Threads : sems[t] <= 1 /\ (sems[t] = 1 => tpc[t] \notin {"print", "post"})
  /\ \A t, u \in Threads : HasTurn(t) /\ HasTurn(u) => t = u

(* All lines are written, and main returns. *)
Finishes == <>(mpc = "done")

=============================================================================
