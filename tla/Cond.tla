-------------------------------- MODULE Cond --------------------------------
(***************************************************************************)
(* src/clib/cond.h: a condition variable that counts its wakeups, so that  *)
(* a wakeup sent before anybody waits is not lost.                         *)
(*                                                                         *)
(* The module holds the state of one Cond and the steps of the threads     *)
(* that are inside cond_wakeup or cond_wait.  It has no Next of its own:   *)
(* the modules that own a Cond (CondClients, ThreadQueue) EXTEND it and    *)
(* say who calls what.  The mutex and the condition variable are those of  *)
(* pthread: pthread_cond_wait releases the mutex and starts waiting in one *)
(* step, is released by a signal or for no reason at all (a spurious       *)
(* wakeup), and takes the mutex again before it returns.                   *)
(***************************************************************************)
EXTENDS Naturals, FiniteSets

CONSTANTS Threads,      \* the threads that may call into the Cond
          NoThread,     \* "nobody": the owner of a free lock
          MaxSpurious   \* bound: spurious wakeups in one behaviour

ASSUME ThreadsAssumption == NoThread \notin Threads /\ IsFiniteSet(Threads)
ASSUME SpuriousAssumption == MaxSpurious \in Nat

VARIABLES mtx,       \* owner of mtx_, or NoThread
          cnt,       \* the counter "cnt": wakeups not consumed yet
          waiters,   \* threads asleep in pthread_cond_wait
          cpc,       \* where each thread stands in cond_wakeup / cond_wait
          spurious   \* spurious wakeups so far

condVars == <<mtx, cnt, waiters, cpc, spurious>>

WakeupSteps == {"wakeup_lock", "wakeup_inc", "wakeup_signal", "wakeup_unlock"}
WaitSteps   == {"wait_lock", "wait_test", "wait_sleep", "wait_relock", "wait_dec",
                "wait_unlock"}

(* Threads that have been released from pthread_cond_wait, and have not    *)
(* tested the counter again yet.  "wait_test" is also reached by a fresh   *)
(* caller: those threads are about to test the counter all the same.       *)
Testing   == {t \in Threads : cpc[t] \in {"wait_relock", "wait_test", "wait_dec"}}
Signalling == {t \in Threads : cpc[t] = "wakeup_signal"}

-----------------------------------------------------------------------------
(* cond_init *)
CondInit ==
  /\ mtx = NoThread
  /\ cnt = 0
  /\ waiters = {}
  /\ cpc = [t \in Threads |-> "idle"]
  /\ spurious = 0

Goto(t, from, to) ==
  /\ cpc[t] = from
  /\ cpc' = [cpc EXCEPT ![t] = to]

Lock(t, from, to) ==
  /\ Goto(t, from, to)
  /\ mtx = NoThread
  /\ mtx' = t
  /\ UNCHANGED <<cnt, waiters, spurious>>

Unlock(t, from) ==
  /\ Goto(t, from, "idle")
  /\ mtx' = NoThread
  /\ UNCHANGED <<cnt, waiters, spurious>>

-----------------------------------------------------------------------------
(* cond_wakeup *)
CallWakeup(t) ==
  /\ Goto(t, "idle", "wakeup_lock")
  /\ UNCHANGED <<mtx, cnt, waiters, spurious>>

WakeupLock(t) == Lock(t, "wakeup_lock", "wakeup_inc")

WakeupInc(t) ==
  /\ Goto(t, "wakeup_inc", "wakeup_signal")
  /\ cnt' = cnt + 1
  /\ UNCHANGED <<mtx, waiters, spurious>>

(* Mutant: signal only for the first wakeup in the counter. *)
WakeupSignalOnFirst(t) ==
  /\ cpc[t] = "wakeup_signal"
  /\ \/ /\ waiters = {} \/ cnt > 1
        /\ cpc' = [cpc EXCEPT ![t] = "wakeup_unlock"]
        /\ UNCHANGED waiters
     \/ /\ cnt = 1
        /\ \E w \in waiters :
             /\ waiters' = waiters \ {w}
             /\ cpc' = [cpc EXCEPT ![t] = "wakeup_unlock", ![w] = "wait_relock"]
  /\ UNCHANGED <<mtx, cnt, spurious>>

(* pthread_cond_signal releases one sleeper if there is one, and is lost   *)
(* otherwise.                                                              *)
WakeupSignal(t) ==
  /\ cpc[t] = "wakeup_signal"
  /\ \/ /\ waiters = {}
        /\ cpc' = [cpc EXCEPT ![t] = "wakeup_unlock"]
        /\ UNCHANGED waiters
     \/ \E w \in waiters :
          /\ waiters' = waiters \ {w}
          /\ cpc' = [cpc EXCEPT ![t] = "wakeup_unlock", ![w] = "wait_relock"]
  /\ UNCHANGED <<mtx, cnt, spurious>>

WakeupUnlock(t) == Unlock(t, "wakeup_unlock")

-----------------------------------------------------------------------------
(* cond_wait *)
CallWait(t) ==
  /\ Goto(t, "idle", "wait_lock")
  /\ UNCHANGED <<mtx, cnt, waiters, spurious>>

WaitLock(t) == Lock(t, "wait_lock", "wait_test")

(* The test of the while loop; with a zero counter the thread releases the *)
(* mutex and falls asleep in one step.                                     *)
WaitTest(t) ==
  /\ cpc[t] = "wait_test"
  /\ \/ /\ cnt = 0
        /\ cpc' = [cpc EXCEPT ![t] = "wait_sleep"]
        /\ waiters' = waiters \cup {t}
        /\ mtx' = NoThread
     \/ /\ cnt # 0
        /\ cpc' = [cpc EXCEPT ![t] = "wait_dec"]
        /\ UNCHANGED <<waiters, mtx>>
  /\ UNCHANGED <<cnt, spurious>>

(* pthread_cond_wait returns without a signal. *)
SpuriousWakeup(t) ==
  /\ t \in waiters
  /\ spurious < MaxSpurious
  /\ spurious' = spurious + 1
  /\ waiters' = waiters \ {t}
  /\ Goto(t, "wait_sleep", "wait_relock")
  /\ UNCHANGED <<mtx, cnt>>

(* Mutant: "if" in place of "while" around pthread_cond_wait. *)
WaitRelockWithoutTest(t) == Lock(t, "wait_relock", "wait_dec")

WaitRelock(t) == Lock(t, "wait_relock", "wait_test")

(* Mutant: the counter stays as it is. *)
WaitDecForgotten(t) == Goto(t, "wait_dec", "wait_unlock") /\ UNCHANGED <<mtx, cnt, waiters, spurious>>

WaitDec(t) ==
  /\ Goto(t, "wait_dec", "wait_unlock")
  /\ cnt' = cnt - 1
  /\ UNCHANGED <<mtx, waiters, spurious>>

WaitUnlock(t) == Unlock(t, "wait_unlock")

-----------------------------------------------------------------------------
(* What a thread inside the Cond does by itself. *)
CondStep(t) ==
  \/ WakeupLock(t) \/ WakeupInc(t) \/ WakeupSignal(t) \/ WakeupUnlock(t)
  \/ WaitLock(t) \/ WaitTest(t) \/ WaitRelock(t) \/ WaitDec(t) \/ WaitUnlock(t)

-----------------------------------------------------------------------------
(* The mutex is held from the return of pthread_mutex_lock, and of         *)
(* pthread_cond_wait, to pthread_mutex_unlock.                             *)
HoldsMutex(t) ==
  cpc[t] \in {"wakeup_inc", "wakeup_signal", "wakeup_unlock", "wait_test", "wait_dec",
             "wait_unlock"}

(* Type invariant of one Cond: the counter is never negative (cnt is       *)
(* decremented only where it was seen positive under the mutex).           *)
CondTypeOK ==
  /\ mtx \in Threads \cup {NoThread}
  /\ cnt \in Nat
  /\ waiters \subseteq Threads
  /\ cpc \in [Threads -> {"idle"} \cup WakeupSteps \cup WaitSteps]
  /\ spurious \in 0..MaxSpurious

MutexInv == \A t \in Threads : HoldsMutex(t) <=> mtx = t

SleepInv == waiters = {t \in Threads : cpc[t] = "wait_sleep"}

DecInv == \A t \in Threads : cpc[t] = "wait_dec" => cnt > 0

(* No wakeup is lost (the reason for the counter, cond.h line 12, and for  *)
(* holding the mutex in cond_wakeup and cond_wait): whenever a thread      *)
(* sleeps, every wakeup in the counter is matched by a thread that is      *)
(* about to test the counter, or by a signal about to be sent.             *)
NoLostWakeup ==
  waiters # {} => cnt <= Cardinality(Testing) + Cardinality(Signalling)

CondInv == CondTypeOK /\ MutexInv /\ SleepInv /\ DecInv /\ NoLostWakeup

=============================================================================
