---------------------------- MODULE PthreadDemos ----------------------------
(***************************************************************************)
(* src/clib/pthread_lock_cond_sem.c.  main runs four programs one after    *)
(* the other, again and again: pthread_rwlock, pthread_spinlock,           *)
(* pthread_cond and pthread_sem.  Each creates one or two groups of        *)
(* threads, joins them and asserts a counter.                              *)
(*                                                                         *)
(* The primitives are those of glibc.  A rwlock is granted to a reader     *)
(* whenever no writer holds it, also past a writer that waits: that is     *)
(* what PTHREAD_RWLOCK_PREFER_WRITER_NP means there.  A mutex or a lock is *)
(* granted in no particular order.                                         *)
(***************************************************************************)
EXTENDS Integers, FiniteSetsExt

CONSTANTS First, Second,    \* THREAD_NUM threads each, created in this order
          Waiter, Signer,   \* the one of each group that pthread_cond creates
          TEST_CASE_NUM,    \* rounds of a thread's loop
          Rounds,           \* rounds of main's loop
          MaxSpurious,      \* bound: spurious wakeups in one pthread_cond
          NoThread          \* "nobody": no thread holds the lock

ASSUME PthreadAssumption ==
  /\ IsFiniteSet(First) /\ IsFiniteSet(Second) /\ First \cap Second = {}
  /\ Cardinality(First) = Cardinality(Second)
  /\ Waiter \in First /\ Signer \in Second /\ NoThread \notin First \cup Second
  /\ {TEST_CASE_NUM, Rounds} \subseteq Nat \ {0} /\ MaxSpurious \in Nat

Threads == First \cup Second

VARIABLES round,     \* main: rounds of its loop begun
          part,      \* main: the program it runs, "rwlock", "spinlock", "cond" or "sem"
          mpc,       \* main: "create", "assert", "join", "exited" or, in assert, "failed"
          tpc,       \* where each thread stands
          i,         \* rounds of each thread's loop done
          reg,       \* the value of cnt each thread is incrementing
          reading,   \* readers that hold the rwlock
          owner,     \* who holds the mutex, the spin lock or the rwlock for writing
          condition, \* arg->condition
          asleep,    \* the waiter is in pthread_cond_wait's wait set
          spurious,
          sem,       \* the value of the semaphore
          cnt        \* arg->cnt

mainVars == <<round, part, mpc>>
lockVars == <<reading, owner>>
condVars == <<condition, asleep, spurious>>
vars     == <<mainVars, tpc, i, reg, lockVars, condVars, sem, cnt>>

(* The threads a program creates. *)
Crew(p) ==
  CASE p = "spinlock" -> First
    [] p = "cond"     -> {Waiter, Signer}
    [] OTHER          -> Threads

(* The locks, the semaphore and the counter of a program are made anew.    *)
Init ==
  /\ round = 1 /\ part = "rwlock" /\ mpc = "create"
  /\ tpc = [t \in Threads |-> "none"]
  /\ i = [t \in Threads |-> 0]
  /\ reg = [t \in Threads |-> 0]
  /\ reading = {} /\ owner = NoThread
  /\ condition = FALSE /\ asleep = FALSE /\ spurious = 0
  /\ sem = 0
  /\ cnt = 0

Begin(r, p) ==
  /\ round' = r /\ part' = p /\ mpc' = "create"
  /\ tpc' = [t \in Threads |-> "none"]
  /\ i' = [t \in Threads |-> 0]
  /\ reg' = [t \in Threads |-> 0]
  /\ reading' = {} /\ owner' = NoThread
  /\ condition' = FALSE /\ asleep' = FALSE /\ spurious' = 0
  /\ sem' = 0
  /\ cnt' = 0

Move(t, from, to) ==
  /\ mpc # "failed"
  /\ tpc[t] = from
  /\ tpc' = [tpc EXCEPT ![t] = to]

(* Mutant: the lock is taken whether it is free or not. *)
AcquireAnyway(t) == owner' = t /\ UNCHANGED reading

(* A lock that excludes everybody, and its release. *)
Acquire(t) == owner = NoThread /\ reading = {} /\ owner' = t /\ UNCHANGED reading
Release    == owner' = NoThread /\ UNCHANGED reading

(* The end of a round of a thread's loop, and of the thread after the last.*)
NextRound(t, from, to) ==
  /\ i' = [i EXCEPT ![t] = @ + 1]
  /\ Move(t, from, IF i'[t] = TEST_CASE_NUM THEN "exited" ELSE to)

-----------------------------------------------------------------------------
(* main, and the main part of the four programs.                           *)

(* pthread_cond asserts in between, with the waiter running already.       *)
Create(t) ==
  /\ mpc = "create" /\ t \in Crew(part)
  /\ t \in Second => \A u \in First \cap Crew(part) : tpc[u] # "none"
  /\ Move(t, "none", IF part = "sem" THEN "sem" ELSE "lock")
  /\ mpc' = IF part = "cond" /\ t = Waiter THEN "assert"
            ELSE IF \A u \in Crew(part) \ {t} : tpc[u] # "none" THEN "join" ELSE "create"
  /\ UNCHANGED <<round, part, i, reg, lockVars, condVars, sem, cnt>>

MainGoes(how) ==
  mpc' = how /\ UNCHANGED <<round, part, tpc, i, reg, lockVars, condVars, sem, cnt>>

AssertZero == mpc = "assert" /\ MainGoes(IF cnt = 0 THEN "create" ELSE "failed")

Expected ==
  CASE part = "rwlock" -> Cardinality(Second) * TEST_CASE_NUM
    [] part = "cond"   -> 1
    [] OTHER           -> Cardinality(First) * TEST_CASE_NUM

NextPart ==
  CASE part = "rwlock"   -> Begin(round, "spinlock")
    [] part = "spinlock" -> Begin(round, "cond")
    [] part = "cond"     -> Begin(round, "sem")
    [] part = "sem"      -> IF round < Rounds THEN Begin(round + 1, "rwlock")
                                              ELSE MainGoes("exited")

(* The joins, the assertion, and what main does next. *)
Join ==
  /\ mpc = "join" /\ \A t \in Crew(part) : tpc[t] = "exited"
  /\ IF cnt = Expected THEN NextPart ELSE MainGoes("failed")

MainStep == AssertZero \/ Join \/ \E t \in Threads : Create(t)

-----------------------------------------------------------------------------
(* pthread_rwlock_read: the readers are the first group.                   *)
RdLock(r) ==
  /\ part = "rwlock" /\ r \in First
  /\ Move(r, "lock", "read")
  /\ owner = NoThread
  /\ reading' = reading \cup {r}
  /\ UNCHANGED <<mainVars, i, reg, owner, condVars, sem, cnt>>

RdUnlock(r) ==
  /\ NextRound(r, "read", "lock")
  /\ reading' = reading \ {r}
  /\ UNCHANGED <<mainVars, reg, owner, condVars, sem, cnt>>

(* pthread_rwlock_write; "cnt++" is a load and a store.                    *)
WrLock(w) ==
  /\ part = "rwlock" /\ w \in Second
  /\ Move(w, "lock", "load")
  /\ Acquire(w)
  /\ UNCHANGED <<mainVars, i, reg, condVars, sem, cnt>>

LoadCnt(t) ==
  /\ Move(t, "load", "store")
  /\ reg' = [reg EXCEPT ![t] = cnt]
  /\ UNCHANGED <<mainVars, i, lockVars, condVars, sem, cnt>>

StoreCnt(t) ==
  /\ Move(t, "store", "unlock")
  /\ cnt' = reg[t] + 1
  /\ UNCHANGED <<mainVars, i, reg, lockVars, condVars, sem>>

(* The unlock of a writer, and of a thread of pthread_spinlock.            *)
UnlockCnt(t) ==
  /\ part \in {"rwlock", "spinlock"}
  /\ NextRound(t, "unlock", "lock")
  /\ Release
  /\ UNCHANGED <<mainVars, reg, condVars, sem, cnt>>

(* pthread_spinlock_do, whose "cnt++" and unlock are those above.          *)
SpinLock(t) ==
  /\ part = "spinlock"
  /\ Move(t, "lock", "load")
  /\ Acquire(t)
  /\ UNCHANGED <<mainVars, i, reg, condVars, sem, cnt>>

-----------------------------------------------------------------------------
(* pthread_cond_do_sign, and pthread_cond_do_wait ("relock" is the end of  *)
(* pthread_cond_wait).                                                     *)
CondLock(t) ==
  /\ part = "cond"
  /\ \/ t = Signer /\ Move(t, "lock", "set")
     \/ t = Waiter /\ (Move(t, "lock", "test") \/ Move(t, "relock", "test"))
  /\ Acquire(t)
  /\ UNCHANGED <<mainVars, i, reg, condVars, sem, cnt>>

SetCondition ==
  /\ Move(Signer, "set", "signal")
  /\ condition' = TRUE
  /\ UNCHANGED <<mainVars, i, reg, lockVars, asleep, spurious, sem, cnt>>

(* The signal is lost when nobody sleeps.                                  *)
Signal ==
  /\ tpc[Signer] = "signal" /\ mpc # "failed"
  /\ tpc' = IF asleep THEN [tpc EXCEPT ![Signer] = "unlock", ![Waiter] = "relock"]
                      ELSE [tpc EXCEPT ![Signer] = "unlock"]
  /\ asleep' = FALSE
  /\ UNCHANGED <<mainVars, i, reg, lockVars, condition, spurious, sem, cnt>>

(* Mutant: the mutex is released between the test and the wait. *)
TestConditionThenUnlock ==
  /\ Move(Waiter, "test", IF condition THEN "consume" ELSE "wait")
  /\ IF condition THEN UNCHANGED lockVars ELSE Release
  /\ UNCHANGED <<mainVars, i, reg, condVars, sem, cnt>>

TestCondition ==
  /\ Move(Waiter, "test", IF condition THEN "consume" ELSE "wait")
  /\ UNCHANGED <<mainVars, i, reg, lockVars, condVars, sem, cnt>>

(* The mutex is released and the thread falls asleep in one step.          *)
Sleep ==
  /\ Move(Waiter, "wait", "sleep")
  /\ asleep' = TRUE
  /\ Release
  /\ UNCHANGED <<mainVars, i, reg, condition, spurious, sem, cnt>>

SpuriousWakeup ==
  /\ spurious < MaxSpurious
  /\ Move(Waiter, "sleep", "relock")
  /\ asleep' = FALSE
  /\ spurious' = spurious + 1
  /\ UNCHANGED <<mainVars, i, reg, lockVars, condition, sem, cnt>>

Consume ==
  /\ Move(Waiter, "consume", "unlock")
  /\ condition' = FALSE
  /\ cnt' = cnt + 1
  /\ UNCHANGED <<mainVars, i, reg, lockVars, asleep, spurious, sem>>

CondUnlock(t) ==
  /\ part = "cond"
  /\ Move(t, "unlock", "exited")
  /\ Release
  /\ UNCHANGED <<mainVars, i, reg, condVars, sem, cnt>>

-----------------------------------------------------------------------------
(* pthread_sem_wait: the waiters are the first group.  atomic_inc is one   *)
(* step.                                                                   *)
SemWait(w) ==
  /\ w \in First /\ sem > 0
  /\ Move(w, "sem", "count")
  /\ sem' = sem - 1
  /\ UNCHANGED <<mainVars, i, reg, lockVars, condVars, cnt>>

AtomicInc(w) ==
  /\ NextRound(w, "count", "sem")
  /\ cnt' = cnt + 1
  /\ UNCHANGED <<mainVars, reg, lockVars, condVars, sem>>

(* Mutant: a binary semaphore. *)
PostedBinary == 1

Posted == sem + 1

(* pthread_sem_post *)
SemPost(p) ==
  /\ p \in Second
  /\ NextRound(p, "sem", "sem")
  /\ sem' = Posted
  /\ UNCHANGED <<mainVars, reg, lockVars, condVars, cnt>>

-----------------------------------------------------------------------------
ThreadStep(t) ==
  \/ RdLock(t) \/ RdUnlock(t) \/ WrLock(t) \/ SpinLock(t)
  \/ LoadCnt(t) \/ StoreCnt(t) \/ UnlockCnt(t)
  \/ CondLock(t) \/ CondUnlock(t)
  \/ t = Signer /\ (SetCondition \/ Signal)
  \/ t = Waiter /\ (TestCondition \/ Sleep \/ Consume)
  \/ SemWait(t) \/ AtomicInc(t) \/ SemPost(t)

Next == MainStep \/ SpuriousWakeup \/ \E t \in Threads : ThreadStep(t)

(* Every thread that is not blocked is scheduled again and again; spurious *)
(* wakeups need not happen.  No order is assumed among the threads that    *)
(* want a lock: their loops are finite.                                    *)
Spec ==
  /\ Init /\ [][Next]_vars
  /\ WF_vars(MainStep)
  /\ \A t \in Threads : WF_vars(ThreadStep(t))

-----------------------------------------------------------------------------
TypeOK ==
  /\ round \in 1..Rounds /\ part \in {"rwlock", "spinlock", "cond", "sem"}
  /\ mpc \in {"create", "assert", "join", "exited", "failed"}
  /\ tpc \in [Threads -> {"none", "lock", "read", "load", "store", "unlock", "set", "signal",
                         "test", "wait", "sleep", "relock", "consume", "sem", "count",
                         "exited"}]
  /\ i \in [Threads -> 0..TEST_CASE_NUM] /\ reg \in [Threads -> Nat]
  /\ reading \subseteq First /\ owner \in Threads \cup {NoThread}
  /\ condition \in BOOLEAN /\ asleep \in BOOLEAN /\ spurious \in 0..MaxSpurious
  /\ sem \in Nat /\ cnt \in Nat

(* No assertion of the four programs fails: no increment under a lock is   *)
(* lost, the waiter of pthread_cond counts once and not before the signal, *)
(* and every sem_post is matched by one sem_wait.                          *)
AssertionsHold == TypeOK /\ mpc # "failed"

(* The waiter never sleeps through the wakeup, whether the signal comes    *)
(* before the wait, between the test and the sleep, or after it: what the  *)
(* flag and the mutex are for (lines 115 to 125 and 131 of the source).    *)
SignalNotLost == asleep => tpc[Signer] \in {"none", "lock", "set", "signal"}

(* No post is lost and none is taken twice: at every moment the posts made *)
(* are the ones counted, being counted, and still in the semaphore.        *)
PostsAccounted ==
  part = "sem" =>
    MapThenSumSet(LAMBDA p : i[p], Second)
      = cnt + Cardinality({w \in First : tpc[w] = "count"}) + sem

(* Neither the signal of pthread_cond nor a post of pthread_sem is lost,   *)
(* however early or late it comes.                                         *)
WakeupsArrive == SignalNotLost /\ PostsAccounted

(* Nobody is starved or left blocked: main returns.                        *)
Finishes == <>(mpc = "exited")

=============================================================================
