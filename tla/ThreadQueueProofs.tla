------------------------- MODULE ThreadQueueProofs --------------------------
(***************************************************************************)
(* The Cond, for any finite set of threads and any bounds: it loses no     *)
(* wakeup, and is a counting semaphore to its clients (the safety part;    *)
(* that a permit is taken in the end is checked by TLC only).  The lemmas  *)
(* about its actions are cited for the threads of CondClients and for      *)
(* ThreadQueue.                                                            *)
(* The queue, for any set of pushers and tasks and any bounds: the worker  *)
(* never sleeps on a task nobody will wake it up for, thread_queue.c is a  *)
(* first-in-first-out task queue (the safety part), and the main that      *)
(* polls the list exits when all tasks but at most the last have run.      *)
(***************************************************************************)
EXTENDS ThreadQueueMain, CondClients, FiniteSetTheorems, SequenceTheorems, TLAPS

USE ThreadsAssumption, SpuriousAssumption

-----------------------------------------------------------------------------
(* The Cond: every step a thread takes on it preserves CondInv, whoever    *)
(* owns it.                                                                *)
(* The actions of Cond, those of the caller and the spurious wakeup        *)
(* included.                                                               *)
CondAction(t) ==
  CondStep(t) \/ SpuriousWakeup(t) \/ CallWakeup(t) \/ CallWait(t)

(* What CondInv says besides NoLostWakeup: no cardinality is involved.     *)
CondCtl == CondTypeOK /\ MutexInv /\ SleepInv /\ DecInv

(* Nothing is running on a fresh Cond: cond_init establishes CondInv.      *)
LEMMA CondInitInv == CondInit => CondInv
  BY DEF CondInit, CondInv, CondTypeOK, MutexInv, SleepInv, DecInv, NoLostWakeup,
         HoldsMutex, WakeupSteps, WaitSteps

(* The counts of threads in NoLostWakeup are natural numbers.              *)
LEMMA CountsFinite ==
  /\ IsFiniteSet(Testing) /\ IsFiniteSet(Signalling)
  /\ Cardinality(Testing) \in Nat /\ Cardinality(Signalling) \in Nat
<1>1. Testing \subseteq Threads /\ Signalling \subseteq Threads
  BY DEF Testing, Signalling
<1>2. IsFiniteSet(Testing) /\ IsFiniteSet(Signalling)
  BY <1>1, FS_Subset
<1>3. QED
  BY <1>2, FS_CardinalityType

(* The control part of the invariant: ownership of the mutex, the set of   *)
(* sleepers, and a positive counter where it is about to be decremented.   *)
LEMMA CondCtlStep ==
  ASSUME NEW t \in Threads, CondCtl, CondAction(t)
  PROVE  CondCtl'
<1> USE DEF CondCtl, CondTypeOK, MutexInv, SleepInv, DecInv, HoldsMutex, WakeupSteps,
            WaitSteps, Goto, Lock, Unlock
<1>1. CASE WakeupLock(t)
  BY <1>1 DEF WakeupLock
<1>2. CASE WakeupInc(t)
  BY <1>2 DEF WakeupInc
<1>3. CASE WakeupSignal(t)
  BY <1>3 DEF WakeupSignal
<1>4. CASE WakeupUnlock(t)
  BY <1>4 DEF WakeupUnlock
<1>5. CASE WaitLock(t)
  BY <1>5 DEF WaitLock
<1>6. CASE WaitTest(t)
  BY <1>6 DEF WaitTest
<1>7. CASE WaitRelock(t)
  BY <1>7 DEF WaitRelock
<1>8. CASE WaitDec(t)
  BY <1>8 DEF WaitDec
<1>9. CASE WaitUnlock(t)
  BY <1>9 DEF WaitUnlock
<1>10. CASE SpuriousWakeup(t)
  BY <1>10 DEF SpuriousWakeup
<1>11. CASE CallWakeup(t)
  BY <1>11 DEF CallWakeup
<1>12. CASE CallWait(t)
  BY <1>12 DEF CallWait
<1>13. QED
  BY <1>1, <1>2, <1>3, <1>4, <1>5, <1>6, <1>7, <1>8, <1>9, <1>10, <1>11, <1>12,
     CondAction(t) DEF CondAction, CondStep

(* How an action changes the two counts of NoLostWakeup: the thread that   *)
(* moves may join or leave them, and a signal turns a sleeper into a       *)
(* thread about to test the counter.                                       *)
LEMMA CountStep ==
  ASSUME NEW S, IsFiniteSet(S), NEW x
  PROVE  /\ Cardinality(S) \in Nat
         /\ x \notin S => Cardinality(S \cup {x}) = Cardinality(S) + 1
         /\ x \in S => Cardinality(S \ {x}) = Cardinality(S) - 1
         /\ x \in S => Cardinality(S) > 0
<1>1. Cardinality(S) \in Nat
  BY FS_CardinalityType
<1>2. x \notin S => Cardinality(S \cup {x}) = Cardinality(S) + 1
  BY FS_AddElement
<1>3. x \in S => Cardinality(S \ {x}) = Cardinality(S) - 1
  BY FS_RemoveElement
<1>4. x \in S => Cardinality(S) > 0
  BY <1>1, FS_EmptySet
<1>5. QED
  BY <1>1, <1>2, <1>3, <1>4

(* No action of a thread on the Cond loses a wakeup.                       *)
LEMMA NoLostWakeupStep ==
  ASSUME NEW t \in Threads, CondInv, CondAction(t)
  PROVE  NoLostWakeup'
<1> USE DEF Goto, Lock, Unlock, CondTypeOK, WakeupSteps, WaitSteps
<1>0. CondTypeOK /\ SleepInv /\ DecInv /\ NoLostWakeup
  BY DEF CondInv
<1>1. /\ IsFiniteSet(Testing) /\ IsFiniteSet(Signalling)
      /\ Cardinality(Testing) \in Nat /\ Cardinality(Signalling) \in Nat
  BY CountsFinite
<1>2. CASE WakeupLock(t) \/ WakeupUnlock(t) \/ WaitUnlock(t) \/ CallWakeup(t) \/ CallWait(t)
  <2>1. Testing' = Testing /\ Signalling' = Signalling /\ cnt' = cnt /\ waiters' = waiters
    BY <1>0, <1>2 DEF WakeupLock, WakeupUnlock, WaitUnlock, CallWakeup, CallWait, Testing,
                      Signalling
  <2>2. QED
    BY <1>0, <2>1 DEF NoLostWakeup
<1>3. CASE WakeupInc(t)
  <2>1. /\ Testing' = Testing /\ Signalling' = Signalling \cup {t} /\ t \notin Signalling
        /\ cnt' = cnt + 1 /\ waiters' = waiters
    BY <1>0, <1>3 DEF WakeupInc, Testing, Signalling
  <2>2. Cardinality(Signalling') = Cardinality(Signalling) + 1
    BY <1>1, <2>1, CountStep
  <2>3. QED
    BY <1>0, <1>1, <2>1, <2>2 DEF NoLostWakeup
<1>4. CASE WakeupSignal(t)
  <2>1. CASE waiters = {}
    BY <1>4, <2>1 DEF WakeupSignal, NoLostWakeup
  <2>2. CASE waiters # {}
    <3>1. PICK w \in waiters :
            /\ waiters' = waiters \ {w}
            /\ cpc' = [cpc EXCEPT ![t] = "wakeup_unlock", ![w] = "wait_relock"]
      BY <1>4, <2>2 DEF WakeupSignal
    <3>2. cpc[t] = "wakeup_signal" /\ cnt' = cnt /\ cpc[w] = "wait_sleep" /\ w \in Threads
      BY <1>0, <1>4, <3>1 DEF WakeupSignal, SleepInv
    <3>3. /\ Testing' = Testing \cup {w} /\ w \notin Testing
          /\ Signalling' = Signalling \ {t} /\ t \in Signalling
      BY <1>0, <3>1, <3>2 DEF Testing, Signalling
    <3>4. /\ Cardinality(Testing') = Cardinality(Testing) + 1
          /\ Cardinality(Signalling') = Cardinality(Signalling) - 1
      BY <1>1, <3>3, CountStep
    <3>5. QED
      BY <1>0, <1>1, <2>2, <3>2, <3>4 DEF NoLostWakeup
  <2>3. QED
    BY <2>1, <2>2
<1>5. CASE WaitLock(t)
  <2>1. CASE t \in Testing
    BY <1>5, <2>1 DEF WaitLock, Testing
  <2>2. CASE t \notin Testing
    <3>1. /\ Testing' = Testing \cup {t} /\ Signalling' = Signalling
          /\ cnt' = cnt /\ waiters' = waiters
      BY <1>0, <1>5 DEF WaitLock, Testing, Signalling
    <3>2. Cardinality(Testing') = Cardinality(Testing) + 1
      BY <1>1, <2>2, <3>1, CountStep
    <3>3. QED
      BY <1>0, <1>1, <3>1, <3>2 DEF NoLostWakeup
  <2>3. QED
    BY <2>1, <2>2
<1>6. CASE WaitTest(t)
  <2>1. CASE cnt = 0
    <3>1. cnt' = 0 /\ Testing' \subseteq Threads /\ Signalling' \subseteq Threads
      BY <1>6, <2>1 DEF WaitTest, Testing, Signalling
    <3>2. Cardinality(Testing') \in Nat /\ Cardinality(Signalling') \in Nat
      BY <3>1, FS_Subset, FS_CardinalityType
    <3>3. QED
      BY <3>1, <3>2 DEF NoLostWakeup
  <2>2. CASE cnt # 0
    <3>1. /\ Testing' = Testing /\ Signalling' = Signalling
          /\ cnt' = cnt /\ waiters' = waiters
      BY <1>0, <1>6, <2>2 DEF WaitTest, Testing, Signalling
    <3>2. QED
      BY <1>0, <3>1 DEF NoLostWakeup
  <2>3. QED
    BY <2>1, <2>2
<1>7. CASE WaitRelock(t)
  <2>1. Testing' = Testing /\ Signalling' = Signalling /\ cnt' = cnt /\ waiters' = waiters
    BY <1>0, <1>7 DEF WaitRelock, Testing, Signalling
  <2>2. QED
    BY <1>0, <2>1 DEF NoLostWakeup
<1>8. CASE WaitDec(t)
  <2>1. /\ Testing' = Testing \ {t} /\ t \in Testing /\ Signalling' = Signalling
        /\ cnt' = cnt - 1 /\ waiters' = waiters
    BY <1>0, <1>8 DEF WaitDec, Testing, Signalling
  <2>2. Cardinality(Testing') = Cardinality(Testing) - 1
    BY <1>1, <2>1, CountStep
  <2>3. QED
    BY <1>0, <1>1, <2>1, <2>2 DEF NoLostWakeup
<1>9. CASE SpuriousWakeup(t)
  <2>1. /\ Testing' = Testing \cup {t} /\ t \notin Testing /\ Signalling' = Signalling
        /\ cnt' = cnt /\ waiters' = waiters \ {t}
    BY <1>0, <1>9 DEF SpuriousWakeup, Testing, Signalling
  <2>2. Cardinality(Testing') = Cardinality(Testing) + 1
    BY <1>1, <2>1, CountStep
  <2>3. QED
    BY <1>0, <1>1, <2>1, <2>2 DEF NoLostWakeup
<1>10. QED
  BY <1>2, <1>3, <1>4, <1>5, <1>6, <1>7, <1>8, <1>9, CondAction(t) DEF CondAction, CondStep

(* CondInv is preserved by every action of every thread on the Cond.       *)
LEMMA CondInvStep ==
  ASSUME NEW t \in Threads, CondInv, CondAction(t)
  PROVE  CondInv'
<1>1. CondCtl'
  BY CondCtlStep DEF CondInv, CondCtl
<1>2. NoLostWakeup'
  BY NoLostWakeupStep
<1>3. QED
  BY <1>1, <1>2 DEF CondInv, CondCtl

(* ... and by a step that leaves the Cond alone.                           *)
LEMMA CondInvStutter ==
  ASSUME CondInv, UNCHANGED condVars
  PROVE  CondInv'
BY DEF CondInv, CondTypeOK, MutexInv, SleepInv, DecInv, NoLostWakeup, HoldsMutex, Testing,
       Signalling, condVars

-----------------------------------------------------------------------------
(* The clients of module CondClients.                                      *)
USE CallsAssumption

(* A step of the clients is an action of one thread on the Cond, or leaves *)
(* it alone.                                                               *)
LEMMA ClientsNextActs ==
  ASSUME [ClientsNext]_clientsVars
  PROVE  (\E t \in Threads : CondAction(t)) \/ UNCHANGED condVars
BY DEF ClientsNext, clientsVars, ClientsCall, ClientsStep, ClientsSpurious, CondAction

(* ClientsInv is an inductive invariant of the Cond with its clients.      *)
THEOREM CondInvariant == ClientsSpec => []ClientsInv
<1>1. ClientsInit => ClientsInv
  <2>1. ClientsInit => CondInv
    BY CondInitInv DEF ClientsInit
  <2>2. QED
    BY <2>1 DEF ClientsInit, ClientsInv, ClientsTypeOK, CondInv
<1>2. ClientsInv /\ [ClientsNext]_clientsVars => ClientsInv'
  <2> SUFFICES ASSUME ClientsInv, [ClientsNext]_clientsVars PROVE ClientsInv'
    OBVIOUS
  <2>1. CondInv'
    BY ClientsNextActs, CondInvStep, CondInvStutter DEF ClientsInv
  <2>2. (calls \in [Threads -> 0..MaxCalls])'
    BY DEF ClientsInv, ClientsTypeOK, ClientsNext, clientsVars, ClientsCall, ClientsStep, ClientsSpurious
  <2>3. QED
    BY <2>1, <2>2 DEF ClientsInv, ClientsTypeOK, CondInv
<1>3. QED
  BY <1>1, <1>2, PTL DEF ClientsSpec

(* No wakeup of cond_wakeup is lost, whatever the interleaving with the    *)
(* threads in cond_wait.                                                   *)
THEOREM WakeupsNeverLost == ClientsSpec => []NoLostWakeup
<1>1. ClientsInv => NoLostWakeup
  BY DEF ClientsInv, CondInv
<1>2. QED
  BY <1>1, CondInvariant, PTL

-----------------------------------------------------------------------------
(* The refinement: a call is a Request, the increment of cnt a Post, its   *)
(* decrement a Take; every other step leaves the semaphore unchanged.      *)

LEMMA RefineCall ==
  ASSUME NEW t \in Threads, CondInv, CallWakeup(t) \/ CallWait(t)
  PROVE  Sem!Request(t)
<1> USE DEF CondTypeOK, WaitSteps, WakeupSteps, PendingOp, Goto
<1>1. CASE CallWakeup(t)
  BY <1>1 DEF CallWakeup, CondInv, Sem!Request
<1>2. CASE CallWait(t)
  BY <1>2 DEF CallWait, CondInv, Sem!Request
<1>3. QED
  BY <1>1, <1>2

LEMMA RefinePost ==
  ASSUME NEW t \in Threads, CondInv, WakeupInc(t)
  PROVE  Sem!Post(t)
BY DEF CondInv, CondTypeOK, WaitSteps, WakeupSteps, PendingOp, Goto, WakeupInc, Sem!Post

LEMMA RefineTake ==
  ASSUME NEW t \in Threads, CondInv, WaitDec(t)
  PROVE  Sem!Take(t)
BY DEF CondInv, CondTypeOK, DecInv, WaitSteps, WakeupSteps, PendingOp, Goto, WaitDec, Sem!Take

(* The locks, the test, the sleep, the signal and the unlocks are          *)
(* invisible to the semaphore.                                             *)
LEMMA RefineStutter ==
  ASSUME NEW t \in Threads, CondInv,
         \/ WakeupLock(t) \/ WakeupSignal(t) \/ WakeupUnlock(t) \/ WaitLock(t)
         \/ WaitTest(t) \/ WaitRelock(t) \/ WaitUnlock(t) \/ SpuriousWakeup(t)
  PROVE  UNCHANGED Sem!semVars
<1> USE DEF CondInv, CondTypeOK, SleepInv, WaitSteps, WakeupSteps, PendingOp, Goto, Lock,
            Unlock, Sem!semVars
<1>1. CASE WakeupLock(t) \/ WaitLock(t) \/ WaitRelock(t)
  BY <1>1 DEF WakeupLock, WaitLock, WaitRelock
<1>2. CASE WakeupUnlock(t) \/ WaitUnlock(t)
  BY <1>2 DEF WakeupUnlock, WaitUnlock
<1>3. CASE WakeupSignal(t)
  BY <1>3 DEF WakeupSignal
<1>4. CASE WaitTest(t)
  BY <1>4 DEF WaitTest
<1>5. CASE SpuriousWakeup(t)
  BY <1>5 DEF SpuriousWakeup
<1>6. QED
  BY <1>1, <1>2, <1>3, <1>4, <1>5

(* cond.h implements the safety part of the counting semaphore.            *)
THEOREM RefinesSemaphore == ClientsSpec => Sem!SemSafety
<1>1. ClientsInit => Sem!SemInit
  BY DEF ClientsInit, CondInit, Sem!SemInit, PendingOp, WaitSteps
<1>2. ClientsInv /\ [ClientsNext]_clientsVars => [Sem!SemNext]_(Sem!semVars)
  <2> SUFFICES ASSUME ClientsInv, [ClientsNext]_clientsVars PROVE Sem!SemNext \/ UNCHANGED Sem!semVars
    OBVIOUS
  <2>1. CASE UNCHANGED condVars
    BY <2>1 DEF condVars, Sem!semVars, PendingOp
  <2>2. ASSUME NEW t \in Threads, CondAction(t)
        PROVE  Sem!SemNext \/ UNCHANGED Sem!semVars
    <3>1. CASE CallWakeup(t) \/ CallWait(t)
      BY <3>1, RefineCall DEF ClientsInv, Sem!SemNext
    <3>2. CASE WakeupInc(t)
      BY <3>2, RefinePost DEF ClientsInv, Sem!SemNext
    <3>3. CASE WaitDec(t)
      BY <3>3, RefineTake DEF ClientsInv, Sem!SemNext
    <3>4. QED
      BY <2>2, <3>1, <3>2, <3>3, RefineStutter DEF ClientsInv, CondAction, CondStep
  <2>3. QED
    BY <2>1, <2>2, ClientsNextActs
<1>3. QED
  BY <1>1, <1>2, CondInvariant, PTL DEF ClientsSpec, Sem!SemSafety

-----------------------------------------------------------------------------
(* thread_queue.c and its main.                                            *)
USE ThreadQueueAssumption

(* A step of the system, for one thread at a time, by what it touches:     *)
(* thread_queue.c alone, the Cond alone, or both when a call begins.       *)
LEMMA NextCases ==
  ASSUME Next
  PROVE  \/ \E p \in Pushers : PushCall(p) \/ PushRejected(p) \/ PushLock(p) \/ PushLink(p)
                               \/ PushUnlock(p) \/ PushWakeup(p) \/ PushReturn(p)
         \/ WorkLock \/ WorkRemove \/ WorkUnlock \/ WorkRun \/ WorkWait \/ WorkReturn
         \/ \E t \in Threads : (CondStep(t) \/ (t = Worker /\ SpuriousWakeup(t)))
                               /\ UNCHANGED queueVars
BY DEF Next, PushStep, WorkStep, InCond, Spurious

(* The Cond of the queue keeps the invariant of a Cond.                    *)
LEMMA QueueCondInv ==
  ASSUME CondInv, [Next]_vars
  PROVE  CondInv'
<1>1. CASE UNCHANGED condVars
  BY <1>1, CondInvStutter
<1>2. CASE \E t \in Threads : CondAction(t)
  BY <1>2, CondInvStep
<1>3. UNCHANGED condVars \/ \E t \in Threads : CondAction(t)
  <2>1. CASE UNCHANGED vars
    BY <2>1 DEF vars
  <2>2. ASSUME NEW p \in Pushers,
               PushCall(p) \/ PushRejected(p) \/ PushLock(p) \/ PushLink(p)
               \/ PushUnlock(p) \/ PushWakeup(p) \/ PushReturn(p)
        PROVE  UNCHANGED condVars \/ \E t \in Threads : CondAction(t)
    BY <2>2 DEF PushCall, PushRejected, PushLock, PushLink, PushUnlock, PushWakeup,
                PushReturn, SpinLock, CondAction
  <2>3. CASE WorkLock \/ WorkRemove \/ WorkUnlock \/ WorkRun \/ WorkWait \/ WorkReturn
    BY <2>3 DEF WorkLock, WorkRemove, WorkUnlock, WorkRun, WorkWait, WorkReturn, SpinLock,
                CondAction
  <2>4. ASSUME NEW t \in Threads, CondStep(t) \/ SpuriousWakeup(t)
        PROVE  \E u \in Threads : CondAction(u)
    BY <2>4 DEF CondAction
  <2>5. QED
    BY <2>1, <2>2, <2>3, <2>4, NextCases
<1>4. QED
  BY <1>1, <1>2, <1>3

(* The part of Inv that is about thread_queue.c alone.                     *)
QueueCtl == TypeOK /\ SpinInv /\ PlaceInv

LEMMA PushCtl ==
  ASSUME NEW p \in Pushers, QueueCtl, CondTypeOK',
         PushCall(p) \/ PushRejected(p) \/ PushLock(p) \/ PushLink(p) \/ PushUnlock(p)
         \/ PushWakeup(p) \/ PushReturn(p)
  PROVE  QueueCtl'
<1> USE DEF QueueCtl, TypeOK, SpinInv, PlaceInv, HoldsSpin, PushSteps, WorkSteps, Move,
            condVars
<1>1. CASE PushCall(p)
  BY <1>1 DEF PushCall
<1>2. CASE PushRejected(p)
  BY <1>2 DEF PushRejected
<1>3. CASE PushLock(p)
  BY <1>3 DEF PushLock, SpinLock
<1>4. CASE PushLink(p)
  BY <1>4 DEF PushLink
<1>5. CASE PushUnlock(p)
  BY <1>5 DEF PushUnlock
<1>6. CASE PushWakeup(p)
  BY <1>6 DEF PushWakeup, CallWakeup, Goto, CondTypeOK, WakeupSteps, WaitSteps
<1>7. CASE PushReturn(p)
  BY <1>7 DEF PushReturn
<1>8. QED
  BY <1>1, <1>2, <1>3, <1>4, <1>5, <1>6, <1>7

LEMMA WorkCtl ==
  ASSUME QueueCtl, CondTypeOK',
         WorkLock \/ WorkRemove \/ WorkUnlock \/ WorkRun \/ WorkWait \/ WorkReturn
  PROVE  QueueCtl'
<1> USE DEF QueueCtl, TypeOK, SpinInv, PlaceInv, HoldsSpin, PushSteps, WorkSteps, Move,
            condVars
<1>1. CASE WorkLock
  BY <1>1 DEF WorkLock, SpinLock
<1>2. CASE WorkRemove
  <2>1. tasks' \in Seq(Tasks) /\ node' \in Tasks \cup {NoTask}
    <3>1. ASSUME tasks # <<>> PROVE Head(tasks) \in Tasks /\ Tail(tasks) \in Seq(Tasks)
      BY <3>1
    <3>2. QED
      BY <1>2, <3>1 DEF WorkRemove
  <2>2. /\ pc[Worker] = "work_remove" /\ pc' = [pc EXCEPT ![Worker] = "work_unlock"]
        /\ spin' = spin /\ arg' = arg /\ pushes' = pushes /\ cpc' = cpc
    BY <1>2 DEF WorkRemove
  <2>3. QED
    BY <2>1, <2>2
<1>3. CASE WorkUnlock
  BY <1>3 DEF WorkUnlock
<1>4. CASE WorkRun
  BY <1>4 DEF WorkRun
<1>5. CASE WorkWait
  BY <1>5 DEF WorkWait, CallWait, Goto, CondTypeOK, WakeupSteps, WaitSteps
<1>6. CASE WorkReturn
  BY <1>6 DEF WorkReturn
<1>7. QED
  BY <1>1, <1>2, <1>3, <1>4, <1>5, <1>6

(* A thread inside the Cond stays on its side of cond.h: a pusher in       *)
(* cond_wakeup, the worker in cond_wait.                                   *)
LEMMA CondPlaces ==
  ASSUME NEW t \in Threads, CondTypeOK, SleepInv, CondTypeOK',
         CondStep(t) \/ SpuriousWakeup(t)
  PROVE  /\ \A u \in Threads : cpc'[u] # "idle" => cpc[u] # "idle"
         /\ \A u \in Threads : cpc[u] \in WakeupSteps => cpc'[u] \in {"idle"} \cup WakeupSteps
         /\ \A u \in Threads : cpc[u] \in WaitSteps => cpc'[u] \in {"idle"} \cup WaitSteps
<1> USE DEF CondTypeOK, SleepInv, WakeupSteps, WaitSteps, Goto, Lock, Unlock
<1>1. CASE WakeupLock(t) \/ WakeupInc(t) \/ WakeupUnlock(t)
  BY <1>1 DEF WakeupLock, WakeupInc, WakeupUnlock
<1>2. CASE WakeupSignal(t)
  BY <1>2 DEF WakeupSignal
<1>3. CASE WaitLock(t) \/ WaitTest(t) \/ WaitRelock(t) \/ WaitDec(t) \/ WaitUnlock(t)
  BY <1>3 DEF WaitLock, WaitTest, WaitRelock, WaitDec, WaitUnlock
<1>4. CASE SpuriousWakeup(t)
  BY <1>4 DEF SpuriousWakeup
<1>5. QED
  BY <1>1, <1>2, <1>3, <1>4 DEF CondStep

LEMMA InCondCtl ==
  ASSUME NEW t \in Threads, QueueCtl, CondInv, CondTypeOK',
         CondStep(t) \/ SpuriousWakeup(t), UNCHANGED queueVars
  PROVE  QueueCtl'
<1>1. TypeOK' /\ SpinInv'
  BY DEF QueueCtl, TypeOK, SpinInv, HoldsSpin, queueVars
<1>2. PlaceInv'
  <2>1. CondTypeOK /\ SleepInv
    BY DEF CondInv
  <2>2. \A u \in Threads : cpc'[u] \in {"idle"} \cup WakeupSteps \cup WaitSteps
    BY DEF CondTypeOK
  <2>3. QED
    BY <2>1, <2>2, CondPlaces DEF QueueCtl, PlaceInv, queueVars, WakeupSteps, WaitSteps
<1>3. QED
  BY <1>1, <1>2 DEF QueueCtl

(* Every step of the system keeps the control part.                        *)
LEMMA QueueCtlStep ==
  ASSUME QueueCtl, CondInv, CondTypeOK', [Next]_vars
  PROVE  QueueCtl'
<1>1. CASE UNCHANGED vars
  BY <1>1 DEF vars, queueVars, condVars, QueueCtl, TypeOK, SpinInv, PlaceInv, HoldsSpin
<1>2. CASE Next
  BY <1>2, NextCases, PushCtl, WorkCtl, InCondCtl
<1>3. QED
  BY <1>1, <1>2

-----------------------------------------------------------------------------
(* WakeupInv: what each kind of step does to the three things it relates,  *)
(* the list, the worker's position and the pushers that owe a wakeup.      *)

LEMMA PushWakeupInv ==
  ASSUME NEW p \in Pushers, QueueCtl, WakeupInv,
         PushCall(p) \/ PushRejected(p) \/ PushLock(p) \/ PushLink(p) \/ PushUnlock(p)
         \/ PushWakeup(p) \/ PushReturn(p)
  PROVE  WakeupInv'
<1> USE DEF QueueCtl, TypeOK, CondTypeOK, PlaceInv, WakeupInv, FoundEmpty, OwesWakeup, Move,
            PushSteps, WorkSteps, WakeupSteps, WaitSteps, condVars
<1>1. CASE PushCall(p)
  BY <1>1 DEF PushCall
<1>2. CASE PushRejected(p)
  BY <1>2 DEF PushRejected
<1>3. CASE PushLock(p)
  BY <1>3 DEF PushLock, SpinLock
<1>4. CASE PushLink(p)
  BY <1>4 DEF PushLink
<1>5. CASE PushUnlock(p)
  BY <1>5 DEF PushUnlock
<1>6. CASE PushWakeup(p)
  BY <1>6 DEF PushWakeup, CallWakeup, Goto
<1>7. CASE PushReturn(p)
  BY <1>7 DEF PushReturn
<1>8. QED
  BY <1>1, <1>2, <1>3, <1>4, <1>5, <1>6, <1>7

LEMMA WorkWakeupInv ==
  ASSUME QueueCtl, WakeupInv,
         WorkLock \/ WorkRemove \/ WorkUnlock \/ WorkRun \/ WorkWait \/ WorkReturn
  PROVE  WakeupInv'
<1> USE DEF QueueCtl, TypeOK, CondTypeOK, PlaceInv, WakeupInv, FoundEmpty, OwesWakeup, Move,
            PushSteps, WorkSteps, WakeupSteps, WaitSteps, condVars
<1>1. CASE WorkLock
  BY <1>1 DEF WorkLock, SpinLock
<1>2. CASE WorkRemove
  <2>1. pc'[Worker] = "work_unlock"
    BY <1>2 DEF WorkRemove
  <2>2. CASE tasks = <<>>
    BY <1>2, <2>1, <2>2 DEF WorkRemove
  <2>3. CASE tasks # <<>>
    <3>1. node' # NoTask
      BY <1>2, <2>3 DEF WorkRemove
    <3>2. QED
      BY <2>1, <3>1
  <2>4. QED
    BY <2>2, <2>3
<1>3. CASE WorkUnlock
  BY <1>3 DEF WorkUnlock
<1>4. CASE WorkRun
  BY <1>4 DEF WorkRun
<1>5. CASE WorkWait
  BY <1>5 DEF WorkWait, CallWait, Goto
<1>6. CASE WorkReturn
  BY <1>6 DEF WorkReturn
<1>7. QED
  BY <1>1, <1>2, <1>3, <1>4, <1>5, <1>6

(* The worker consumes a wakeup only on its way out of cond_wait, and a    *)
(* pusher stops owing one only by incrementing the counter.                *)
LEMMA InCondWakeupInv ==
  ASSUME NEW t \in Threads, QueueCtl, CondInv, WakeupInv,
         CondStep(t) \/ SpuriousWakeup(t), UNCHANGED queueVars
  PROVE  WakeupInv'
<1> USE DEF QueueCtl, TypeOK, CondInv, CondTypeOK, SleepInv, PlaceInv, WakeupInv, FoundEmpty,
            OwesWakeup, PushSteps, WorkSteps, WakeupSteps, WaitSteps, queueVars, Goto, Lock,
            Unlock
<1>1. CASE WakeupLock(t)
  BY <1>1 DEF WakeupLock
<1>2. CASE WakeupInc(t)
  BY <1>2 DEF WakeupInc
<1>3. CASE WakeupSignal(t)
  BY <1>3 DEF WakeupSignal
<1>4. CASE WakeupUnlock(t)
  BY <1>4 DEF WakeupUnlock
<1>5. CASE WaitLock(t) \/ WaitTest(t) \/ WaitRelock(t)
  BY <1>5 DEF WaitLock, WaitTest, WaitRelock
<1>6. CASE WaitDec(t)
  BY <1>6 DEF WaitDec
<1>7. CASE WaitUnlock(t)
  BY <1>7 DEF WaitUnlock
<1>8. CASE SpuriousWakeup(t)
  BY <1>8 DEF SpuriousWakeup
<1>9. QED
  BY <1>1, <1>2, <1>3, <1>4, <1>5, <1>6, <1>7, <1>8 DEF CondStep

LEMMA WakeupInvStep ==
  ASSUME Inv, [Next]_vars
  PROVE  WakeupInv'
<1>0. QueueCtl /\ CondInv /\ WakeupInv
  BY DEF Inv, QueueCtl
<1>1. CASE UNCHANGED vars
  BY <1>0, <1>1 DEF vars, queueVars, condVars, WakeupInv, FoundEmpty, OwesWakeup
<1>2. CASE Next
  BY <1>0, <1>2, NextCases, PushWakeupInv, WorkWakeupInv, InCondWakeupInv
<1>3. QED
  BY <1>1, <1>2

-----------------------------------------------------------------------------
(* Inv is an inductive invariant of the thread queue.                      *)
THEOREM QueueInvariant == Spec => []Inv
<1>1. Init => Inv
  <2> SUFFICES ASSUME Init PROVE Inv
    OBVIOUS
  <2>1. CondInv
    BY CondInitInv DEF Init
  <2>2. QueueCtl
    BY <2>1 DEF Init, CondInit, QueueCtl, TypeOK, SpinInv, PlaceInv, HoldsSpin, PushSteps,
                WorkSteps, WakeupSteps, WaitSteps, CondInv
  <2>3. WakeupInv
    BY DEF Init, WakeupInv, FoundEmpty
  <2>4. QED
    BY <2>1, <2>2, <2>3 DEF Inv, QueueCtl
<1>2. Inv /\ [Next]_vars => Inv'
  <2> SUFFICES ASSUME Inv, [Next]_vars PROVE Inv'
    OBVIOUS
  <2>1. CondInv'
    BY QueueCondInv DEF Inv
  <2>2. QueueCtl'
    BY <2>1, QueueCtlStep DEF Inv, QueueCtl, CondInv
  <2>3. WakeupInv'
    BY WakeupInvStep
  <2>4. QED
    BY <2>1, <2>2, <2>3 DEF Inv, QueueCtl
<1>3. QED
  BY <1>1, <1>2, PTL DEF Spec

(* The worker never sleeps on a task without a signal on its way.          *)
THEOREM NeverSleepsOnWork == Spec => []NoSleepOnWork
<1>1. Inv => NoSleepOnWork
  <2> SUFFICES ASSUME Inv, Worker \in waiters, tasks # <<>>
               PROVE  \E p \in Pushers : OwesWakeup(p) \/ cpc[p] = "wakeup_signal"
    BY DEF NoSleepOnWork
  <2>1. cpc[Worker] = "wait_sleep"
    BY DEF Inv, CondInv, SleepInv
  <2>2. FoundEmpty
    BY <2>1 DEF Inv, PlaceInv, FoundEmpty
  <2>3. CASE \E p \in Pushers : OwesWakeup(p)
    BY <2>3
  <2>4. CASE cnt > 0
    <3>1. Testing = {}
      BY <2>1 DEF Testing, Inv, PlaceInv, WakeupSteps
    <3>2. Cardinality(Testing) = 0
      BY <3>1, FS_EmptySet
    <3>3. Signalling # {}
      <4>1. cnt <= 0 + Cardinality(Signalling) /\ cnt \in Nat
        BY <3>2, CountsFinite DEF Inv, CondInv, CondTypeOK, NoLostWakeup
      <4>2. CASE Signalling = {}
        BY <2>4, <4>1, <4>2, FS_EmptySet
      <4>3. QED
        BY <4>2
    <3>4. QED
      BY <2>1, <3>3 DEF Signalling
  <2>5. QED
    BY <2>2, <2>3, <2>4 DEF Inv, WakeupInv
<1>2. QED
  BY <1>1, QueueInvariant, PTL

-----------------------------------------------------------------------------
(* The refinement: linking a task submits it, removing it starts it, and   *)
(* the return of its work function finishes it.                            *)

LEMMA RefineSubmit ==
  ASSUME NEW p \in Pushers, QueueCtl, PushLink(p)
  PROVE  TQ!Submit
BY DEF QueueCtl, TypeOK, PlaceInv, PushLink, Move, TQ!Submit

LEMMA RefineStart ==
  ASSUME QueueCtl, WorkRemove
  PROVE  TQ!Start \/ UNCHANGED TQ!queueVars
<1>1. /\ pc[Worker] = "work_remove" /\ pc'[Worker] = "work_unlock"
  BY DEF QueueCtl, TypeOK, WorkRemove, Move
<1>2. CASE tasks = <<>>
  BY <1>1, <1>2 DEF WorkRemove, TQ!queueVars
<1>3. CASE tasks # <<>>
  BY <1>1, <1>3 DEF WorkRemove, TQ!Start
<1>4. QED
  BY <1>2, <1>3

LEMMA RefineFinish ==
  ASSUME QueueCtl, WorkRun, node # NoTask
  PROVE  TQ!Finish
BY DEF QueueCtl, TypeOK, WorkRun, Move, TQ!Finish

(* thread_queue.c implements the safety part of the task queue.            *)
THEOREM RefinesTaskQueue == Spec => TQ!QueueSafety
<1>1. Init => TQ!QueueInit
  BY DEF Init, TQ!QueueInit
<1>2. Inv /\ [Next]_vars => [TQ!QueueNext]_(TQ!queueVars)
  <2> SUFFICES ASSUME Inv, [Next]_vars PROVE TQ!QueueNext \/ UNCHANGED TQ!queueVars
    OBVIOUS
  <2>0. QueueCtl
    BY DEF Inv, QueueCtl
  <2>1. CASE UNCHANGED queueVars
    BY <2>1 DEF queueVars, TQ!queueVars
  <2>2. ASSUME NEW p \in Pushers,
               PushCall(p) \/ PushRejected(p) \/ PushLock(p) \/ PushUnlock(p)
               \/ PushWakeup(p) \/ PushReturn(p)
        PROVE  UNCHANGED TQ!queueVars
    BY <2>0, <2>2 DEF QueueCtl, TypeOK, PushCall, PushRejected, PushLock, SpinLock,
                      PushUnlock, PushWakeup, PushReturn, Move, TQ!queueVars
  <2>3. CASE WorkLock \/ WorkUnlock \/ WorkWait \/ WorkReturn
    BY <2>0, <2>3 DEF QueueCtl, TypeOK, WorkLock, SpinLock, WorkUnlock, WorkWait, WorkReturn,
                      Move, TQ!queueVars
  <2>4. CASE WorkRun /\ node = NoTask
    BY <2>0, <2>4 DEF QueueCtl, TypeOK, WorkRun, Move, TQ!queueVars
  <2>5. CASE UNCHANGED vars
    BY <2>1, <2>5 DEF vars
  <2>6. QED
    BY <2>0, <2>1, <2>2, <2>3, <2>4, <2>5, NextCases, RefineSubmit, RefineStart, RefineFinish
       DEF TQ!QueueNext
<1>3. QED
  BY <1>1, <1>2, QueueInvariant, PTL DEF Spec, TQ!QueueSafety

-----------------------------------------------------------------------------
(* The program of thread_queue.c (module ThreadQueueMain).  main takes the *)
(* spin lock in its polling loop too, so SpinInv is not enough here; what  *)
(* happens inside the Cond does not matter.                                *)

(* main has the lock from the test to the unlock, and keeps it at the exit. *)
MainHolds(t) == HoldsSpin(t) \/ (t = Main /\ mpc \in {"test", "unlock", "exited"})

MainTypes ==
  /\ tasks \in Seq(Tasks) /\ done \in Seq(Tasks)
  /\ node \in Tasks \cup {NoTask}
  /\ pushes \in 0..Len(Program)
  /\ arg \in [Pushers -> Tasks \cup {NoTask}]
  /\ pc \in [Threads -> {"ready"} \cup PushSteps \cup WorkSteps]
  /\ pc[Main] \in {"ready"} \cup PushSteps /\ pc[Worker] \in WorkSteps
  /\ mpc \in {"push", "poll", "test", "unlock", "exited"}

MainPlaces ==
  /\ \A t \in Threads : MainHolds(t) => spin = t
  /\ pc[Main] \in {"push_lock", "push_link"} => pushes > 0 /\ arg[Main] = Program[pushes]
  /\ mpc # "push" => pc[Main] = "ready" /\ pushes = Len(Program)
  /\ mpc = "exited" => tasks = <<>>
  /\ pc[Worker] = "work_run" => node # NoTask

(* What the worker has in hand, and how much of the program is in the list. *)
InHand == IF pc[Worker] \in {"work_unlock", "work_run"} /\ node # NoTask
            THEN <<node>> ELSE <<>>
Linked == IF pushes > 0 /\ pc[Main] \in {"push_lock", "push_link"}
            THEN pushes - 1 ELSE pushes

(* The inductive invariant of the program. *)
MainInv == MainTypes /\ MainPlaces /\ NothingLost

LEMMA NothingLostIs == NothingLost <=> done \o InHand \o tasks = SubSeq(Program, 1, Linked)
BY DEF NothingLost, InHand, Linked

LEMMA MainThreads ==
  /\ Threads = {Main, Worker} /\ Main # Worker /\ Main \in Pushers
  /\ Program \in Seq(Tasks) /\ Len(Program) \in Nat
BY MainAssumption

(* The program as far as it is linked, one task longer. *)
LEMMA ProgramGrows ==
  ASSUME NEW n \in 1..Len(Program)
  PROVE  /\ Program[n] \in Tasks
         /\ SubSeq(Program, 1, n - 1) \in Seq(Tasks)
         /\ SubSeq(Program, 1, n) = Append(SubSeq(Program, 1, n - 1), Program[n])
<1> USE MainThreads
<1>1. SubSeq(Program, 1, n) = SubSeq(Program, 1, n - 1) \o <<Program[n]>>
  BY SubSeqRecursiveSecond
<1>2. Program[n] \in Tasks /\ SubSeq(Program, 1, n - 1) \in Seq(Tasks)
  <2>1. \A i \in 1..(n - 1) : Program[i] \in Tasks
    BY ElementOfSeq
  <2>2. SubSeq(Program, 1, n - 1) \in Seq(Tasks)
    BY <2>1, SubSeqProperties
  <2>3. QED
    BY <2>2, ElementOfSeq
<1>3. QED
  BY <1>1, <1>2, AppendIsConcat

(* A step that neither links, removes nor finishes a task. *)
LEMMA NothingLostKept ==
  ASSUME NothingLost, UNCHANGED <<done, tasks, InHand, Linked>>
  PROVE  NothingLost'
<1>1. done \o InHand \o tasks = SubSeq(Program, 1, Linked)
  BY NothingLostIs
<1>2. (done \o InHand \o tasks = SubSeq(Program, 1, Linked))'
  BY <1>1
<1>3. QED
  BY <1>2 DEF NothingLost, InHand, Linked

(* main's own steps. *)
LEMMA MainStepKeeps ==
  ASSUME MainInv, MainPush \/ MainPolls \/ MainLock \/ MainTest \/ MainUnlock
  PROVE  MainInv'
<1> USE MainThreads
<1> USE DEF MainInv, MainTypes, MainPlaces, MainHolds, HoldsSpin, PushSteps, WorkSteps
<1>1. CASE MainPush
  <2>1. MainTypes' /\ MainPlaces'
    BY <1>1 DEF MainPush, PushCall, Move
  <2>2. UNCHANGED <<done, tasks, InHand, Linked>>
    BY <1>1 DEF MainPush, PushCall, Move, InHand, Linked
  <2>3. QED
    BY <2>1, <2>2, NothingLostKept
<1>2. CASE MainPolls
  <2>1. MainTypes' /\ MainPlaces'
    BY <1>2 DEF MainPolls, vars, queueVars
  <2>2. UNCHANGED <<done, tasks, InHand, Linked>>
    BY <1>2 DEF MainPolls, vars, queueVars, InHand, Linked
  <2>3. QED
    BY <2>1, <2>2, NothingLostKept
<1>3. CASE MainLock
  <2>1. MainTypes' /\ MainPlaces'
    BY <1>3, ThreadsAssumption DEF MainLock
  <2>2. UNCHANGED <<done, tasks, InHand, Linked>>
    BY <1>3 DEF MainLock, InHand, Linked
  <2>3. QED
    BY <2>1, <2>2, NothingLostKept
<1>4. CASE MainTest
  <2>1. MainTypes' /\ MainPlaces'
    BY <1>4 DEF MainTest, vars, queueVars
  <2>2. UNCHANGED <<done, tasks, InHand, Linked>>
    BY <1>4 DEF MainTest, vars, queueVars, InHand, Linked
  <2>3. QED
    BY <2>1, <2>2, NothingLostKept
<1>5. CASE MainUnlock
  <2>1. MainTypes' /\ MainPlaces'
    BY <1>5 DEF MainUnlock
  <2>2. UNCHANGED <<done, tasks, InHand, Linked>>
    BY <1>5 DEF MainUnlock, InHand, Linked
  <2>3. QED
    BY <2>1, <2>2, NothingLostKept
<1>6. QED
  BY <1>1, <1>2, <1>3, <1>4, <1>5

(* Sequences: an element that is appended, and one that changes sides.      *)
LEMMA AppendedLast ==
  ASSUME NEW S, NEW h \in Seq(S), NEW t \in Seq(S), NEW x \in S
  PROVE  h \o Append(t, x) = Append(h \o t, x)
<1> DEFINE u == <<x>>
<1>1. u \in Seq(S)
  OBVIOUS
<1> HIDE DEF u
<1>2. PICK w \in Seq(S) : w = h \o t
  BY ConcatProperties
<1>3. Append(t, x) = t \o u
  BY AppendIsConcat DEF u
<1>4. Append(w, x) = w \o u
  BY AppendIsConcat DEF u
<1>5. (h \o t) \o u = h \o (t \o u)
  BY <1>1, ConcatAssociative
<1>6. QED
  BY <1>2, <1>3, <1>4, <1>5

LEMMA ChangesSides ==
  ASSUME NEW S, NEW h \in Seq(S), NEW t \in Seq(S), NEW x \in S
  PROVE  (h \o <<x>>) \o t = h \o (<<x>> \o t)
<1> DEFINE u == <<x>>
<1>1. u \in Seq(S)
  OBVIOUS
<1> HIDE DEF u
<1>2. (h \o u) \o t = h \o (u \o t)
  BY <1>1, ConcatAssociative
<1>3. QED
  BY <1>2 DEF u

(* Steps inside thread_queue_push, up to those inside the Cond. *)
LEMMA PushesOnKeeps ==
  ASSUME MainInv, PushesOn
  PROVE  MainInv'
<1> USE MainThreads
<1> USE DEF MainInv, MainTypes, MainPlaces, MainHolds, HoldsSpin, PushSteps, WorkSteps
<1>1. CASE PushLink(Main)
  <2>1. /\ pc[Main] = "push_link" /\ pc' = [pc EXCEPT ![Main] = "push_unlock"]
        /\ tasks' = Append(tasks, arg[Main])
        /\ UNCHANGED <<spin, node, arg, pushes, mpc, done>>
    BY <1>1 DEF PushesOn, PushLink, Move
  <2>2. pushes \in 1..Len(Program) /\ arg[Main] = Program[pushes] /\ mpc = "push"
    BY <2>1
  <2>3. arg[Main] \in Tasks /\ tasks' \in Seq(Tasks)
    BY <2>1, <2>2, ProgramGrows, AppendProperties
  <2>4. MainTypes' /\ MainPlaces'
    BY <2>1, <2>2, <2>3
  <2>5. Linked = pushes - 1 /\ Linked' = pushes /\ InHand' = InHand
    BY <2>1, <2>2 DEF Linked, InHand
  <2>6. done' \o InHand' \o tasks' = Append(done \o InHand \o tasks, arg[Main])
    <3>1. done \o InHand \in Seq(Tasks)
      <4>1. InHand \in Seq(Tasks)
        BY DEF InHand
      <4>2. QED
        BY <4>1, ConcatProperties
    <3> DEFINE h == done \o InHand
    <3>2. done' \o InHand' = h
      BY <2>1, <2>5
    <3> HIDE DEF h
    <3>3. h \o Append(tasks, arg[Main]) = Append(h \o tasks, arg[Main])
      <4>1. h \in Seq(Tasks)
        BY <3>1 DEF h
      <4>2. tasks \in Seq(Tasks)
        OBVIOUS
      <4>3. QED
        BY <2>3, <4>1, <4>2, AppendedLast
    <3>4. QED
      BY <2>1, <3>2, <3>3 DEF h
  <2>7. SubSeq(Program, 1, pushes) = Append(SubSeq(Program, 1, pushes - 1), Program[pushes])
    BY <2>2, ProgramGrows
  <2>8. done \o InHand \o tasks = SubSeq(Program, 1, pushes - 1)
    BY <2>5, NothingLostIs
  <2>9. done' \o InHand' \o tasks' = SubSeq(Program, 1, Linked')
    BY <2>2, <2>5, <2>6, <2>7, <2>8
  <2>10. NothingLost'
    BY <2>9 DEF NothingLost, InHand, Linked
  <2>11. QED
    BY <2>4, <2>10
<1>2. CASE PushLock(Main)
  <2>1. MainTypes' /\ MainPlaces'
    BY <1>2, ThreadsAssumption DEF PushesOn, PushLock, SpinLock, Move
  <2>2. UNCHANGED <<done, tasks, InHand, Linked>>
    BY <1>2 DEF PushesOn, PushLock, SpinLock, Move, InHand, Linked
  <2>3. QED
    BY <2>1, <2>2, NothingLostKept
<1>3. CASE PushUnlock(Main)
  <2>1. MainTypes' /\ MainPlaces'
    BY <1>3 DEF PushesOn, PushUnlock, Move
  <2>2. UNCHANGED <<done, tasks, InHand, Linked>>
    BY <1>3 DEF PushesOn, PushUnlock, Move, InHand, Linked
  <2>3. QED
    BY <2>1, <2>2, NothingLostKept
<1>4. CASE PushWakeup(Main) \/ PushReturn(Main)
  <2>1. MainTypes' /\ MainPlaces'
    BY <1>4 DEF PushesOn, PushWakeup, PushReturn, Move
  <2>2. UNCHANGED <<done, tasks, InHand, Linked>>
    BY <1>4 DEF PushesOn, PushWakeup, PushReturn, Move, InHand, Linked
  <2>3. QED
    BY <2>1, <2>2, NothingLostKept
<1>5. CASE InCond(Main)
  <2>1. MainTypes' /\ MainPlaces'
    BY <1>5 DEF PushesOn, InCond, queueVars
  <2>2. UNCHANGED <<done, tasks, InHand, Linked>>
    BY <1>5 DEF PushesOn, InCond, queueVars, InHand, Linked
  <2>3. QED
    BY <2>1, <2>2, NothingLostKept
<1>6. QED
  BY <1>1, <1>2, <1>3, <1>4, <1>5 DEF PushesOn, PushStep

LEMMA HeadThenTail ==
  ASSUME NEW S, NEW s \in Seq(S), s # <<>>
  PROVE  Head(s) \in S /\ Tail(s) \in Seq(S) /\ <<Head(s)>> \o Tail(s) = s
<1>1. /\ Head(s) \in S /\ Head(s) = s[1] /\ Tail(s) \in Seq(S)
      /\ Tail(s) = SubSeq(s, 2, Len(s)) /\ Len(s) \in Nat \ {0}
  BY HeadTailProperties
<1>2. SubSeq(s, 1, Len(s)) = <<s[1]>> \o SubSeq(s, 1 + 1, Len(s))
  <2>1. 1 \in 1..Len(s) /\ Len(s) \in 1..Len(s)
    BY <1>1
  <2>2. QED
    BY <2>1, SubSeqRecursiveFirst
<1>3. SubSeq(s, 1, Len(s)) = s
  BY SubSeqFull
<1>4. QED
  BY <1>1, <1>2, <1>3

(* The worker's steps. *)
LEMMA RemoveKeeps ==
  ASSUME MainInv, WorkerGoesOn, WorkRemove
  PROVE  MainInv'
<1> USE MainThreads
<1> USE DEF MainInv, MainTypes, MainPlaces, MainHolds, HoldsSpin, PushSteps, WorkSteps
<1>1. /\ pc[Worker] = "work_remove" /\ pc' = [pc EXCEPT ![Worker] = "work_unlock"]
      /\ mpc # "exited" /\ UNCHANGED <<spin, arg, pushes, mpc, done>>
  BY DEF WorkerGoesOn, WorkRemove, Move
<1>2. InHand = <<>> /\ Linked' = Linked
  BY <1>1 DEF InHand, Linked
<1>3. CASE tasks = <<>>
  <2>1. tasks' = tasks /\ node' = NoTask
    BY <1>3 DEF WorkRemove
  <2>2. MainTypes' /\ MainPlaces'
    BY <1>1, <2>1
  <2>3. UNCHANGED <<done, tasks, InHand, Linked>>
    BY <1>1, <1>2, <2>1 DEF InHand
  <2>4. QED
    BY <2>2, <2>3, NothingLostKept
<1>4. CASE tasks # <<>>
  <2>1. node' = Head(tasks) /\ tasks' = Tail(tasks)
    BY <1>4 DEF WorkRemove
  <2>2. /\ Head(tasks) \in Tasks /\ Tail(tasks) \in Seq(Tasks)
        /\ <<Head(tasks)>> \o Tail(tasks) = tasks
    BY <1>4, HeadThenTail
  <2>3. node' # NoTask
    BY <2>1, <2>2, ThreadQueueAssumption
  <2>4. MainTypes' /\ MainPlaces'
    BY <1>1, <2>1, <2>2, <2>3
  <2>5. InHand' = <<Head(tasks)>>
    BY <1>1, <2>1, <2>3 DEF InHand
  <2>6. done \o InHand = done
    BY <1>2, ConcatEmptySeq
  <2>7. (done \o <<Head(tasks)>>) \o Tail(tasks) = done \o (<<Head(tasks)>> \o Tail(tasks))
    <3>1. PICK d \in Seq(Tasks), e \in Tasks, r \in Seq(Tasks) :
            d = done /\ e = Head(tasks) /\ r = Tail(tasks)
      BY <2>2
    <3>2. (d \o <<e>>) \o r = d \o (<<e>> \o r)
      BY ChangesSides
    <3>3. QED
      BY <3>1, <3>2
  <2>8. done' \o InHand' \o tasks' = done \o InHand \o tasks
    BY <1>1, <2>1, <2>2, <2>5, <2>6, <2>7
  <2>9. done' \o InHand' \o tasks' = SubSeq(Program, 1, Linked')
    BY <1>2, <2>8, NothingLostIs
  <2>10. NothingLost'
    BY <2>9 DEF NothingLost, InHand, Linked
  <2>11. QED
    BY <2>4, <2>10
<1>5. QED
  BY <1>3, <1>4

LEMMA RunKeeps ==
  ASSUME MainInv, WorkerRuns
  PROVE  MainInv'
<1> USE MainThreads
<1> USE DEF MainInv, MainTypes, MainPlaces, MainHolds, HoldsSpin, PushSteps, WorkSteps
<1>1. /\ pc[Worker] = "work_run" /\ pc' = [pc EXCEPT ![Worker] = "work_lock"]
      /\ done' = Append(done, node)
      /\ UNCHANGED <<spin, arg, pushes, mpc, tasks, node>>
  BY DEF WorkerRuns, WorkRun, Move
<1>2. node \in Tasks
  BY <1>1
<1>3. MainTypes' /\ MainPlaces'
  <2>1. done' \in Seq(Tasks)
    BY <1>1, <1>2
  <2>2. QED
    BY <1>1, <2>1
<1>4. InHand = <<node>> /\ InHand' = <<>> /\ Linked' = Linked
  BY <1>1, <1>2, ThreadQueueAssumption DEF InHand, Linked
<1>5. done' \o InHand' = done \o InHand
  <2>1. done' \in Seq(Tasks) /\ done' = done \o <<node>>
    BY <1>1, <1>2, <1>3, AppendIsConcat
  <2>2. done' \o <<>> = done'
    BY <2>1, ConcatEmptySeq
  <2>3. QED
    BY <1>4, <2>1, <2>2
<1>6. done' \o InHand' \o tasks' = SubSeq(Program, 1, Linked')
  BY <1>1, <1>4, <1>5, NothingLostIs
<1>7. NothingLost'
  BY <1>6 DEF NothingLost, InHand, Linked
<1>8. QED
  BY <1>3, <1>7

LEMMA WorkerKeeps ==
  ASSUME MainInv, WorkerLocks \/ (WorkerGoesOn /\ ~WorkRemove) \/ SpuriousReturn
  PROVE  MainInv'
<1> USE MainThreads
<1> USE DEF MainInv, MainTypes, MainPlaces, MainHolds, HoldsSpin, PushSteps, WorkSteps
<1>1. CASE WorkerLocks
  <2>1. MainTypes' /\ MainPlaces'
    BY <1>1, ThreadsAssumption DEF WorkerLocks, WorkLock, SpinLock, Move
  <2>2. UNCHANGED <<done, tasks, InHand, Linked>>
    BY <1>1 DEF WorkerLocks, WorkLock, SpinLock, Move, InHand, Linked
  <2>3. QED
    BY <2>1, <2>2, NothingLostKept
<1>2. CASE WorkerGoesOn /\ WorkUnlock
  <2>1. MainTypes' /\ MainPlaces'
    BY <1>2 DEF WorkerGoesOn, WorkUnlock, Move
  <2>2. UNCHANGED <<done, tasks, InHand, Linked>>
    BY <1>2 DEF WorkerGoesOn, WorkUnlock, Move, InHand, Linked
  <2>3. QED
    BY <2>1, <2>2, NothingLostKept
<1>3. CASE WorkerGoesOn /\ (WorkWait \/ WorkReturn)
  <2>1. MainTypes' /\ MainPlaces'
    BY <1>3 DEF WorkerGoesOn, WorkWait, WorkReturn, Move
  <2>2. UNCHANGED <<done, tasks, InHand, Linked>>
    BY <1>3 DEF WorkerGoesOn, WorkWait, WorkReturn, Move, InHand, Linked
  <2>3. QED
    BY <2>1, <2>2, NothingLostKept
<1>4. CASE (WorkerGoesOn /\ InCond(Worker)) \/ SpuriousReturn
  <2>1. MainTypes' /\ MainPlaces'
    BY <1>4 DEF WorkerGoesOn, SpuriousReturn, Spurious, InCond, queueVars
  <2>2. UNCHANGED <<done, tasks, InHand, Linked>>
    BY <1>4 DEF WorkerGoesOn, SpuriousReturn, Spurious, InCond, queueVars, InHand, Linked
  <2>3. QED
    BY <2>1, <2>2, NothingLostKept
<1>5. QED
  BY <1>1, <1>2, <1>3, <1>4 DEF WorkerGoesOn

(* MainInv is an inductive invariant of main, the thread it creates and    *)
(* the queue between them.                                                 *)
THEOREM MainInvariant == MainSpec => []MainInv
<1>1. MainInit => MainInv
  <2> SUFFICES ASSUME MainInit PROVE MainInv
    OBVIOUS
  <2> USE MainThreads DEF MainInit, Init
  <2>1. MainTypes /\ MainPlaces
    BY ThreadsAssumption DEF MainTypes, MainPlaces, MainHolds, HoldsSpin, PushSteps, WorkSteps
  <2>2. InHand = <<>> /\ Linked = 0 /\ done = <<>> /\ tasks = <<>>
    BY DEF InHand, Linked
  <2>3. SubSeq(Program, 1, 0) = <<>>
    BY SubSeqEmpty
  <2>4. <<>> \o <<>> \o <<>> = <<>>
    OBVIOUS
  <2>5. NothingLost
    BY <2>2, <2>3, <2>4, NothingLostIs
  <2>6. QED
    BY <2>1, <2>5 DEF MainInv
<1>2. MainInv /\ [MainNext]_mainVars => MainInv'
  <2> SUFFICES ASSUME MainInv, [MainNext]_mainVars PROVE MainInv'
    OBVIOUS
  <2>1. CASE UNCHANGED mainVars
    BY <2>1 DEF mainVars, vars, queueVars, MainInv, MainTypes, MainPlaces, MainHolds, HoldsSpin,
                NothingLost
  <2>2. CASE MainNext
    BY <2>2, MainStepKeeps, PushesOnKeeps, RemoveKeeps, RunKeeps, WorkerKeeps
       DEF MainNext, MainStep, WorkerStep
  <2>3. QED
    BY <2>1, <2>2
<1>3. QED
  BY <1>1, <1>2, PTL DEF MainSpec

(* When main exits, all tasks but at most the last have run, in order.     *)
THEOREM ExitComplete == MainSpec => []ExitAfterAllButLast
<1>1. MainInv => ExitAfterAllButLast
  <2> SUFFICES ASSUME MainInv, mpc = "exited"
               PROVE  /\ tasks = <<>> /\ IsPrefix(done, Program)
                      /\ Len(done) >= Len(Program) - 1
                      /\ Len(done) < Len(Program)
                           => node = Last(Program) /\ pc[Worker] = "work_run"
    BY DEF MainInv, ExitAfterAllButLast
  <2> USE MainThreads
  <2>1. tasks = <<>> /\ Linked = Len(Program) /\ done \in Seq(Tasks) /\ InHand \in Seq(Tasks)
    BY DEF MainInv, MainTypes, MainPlaces, Linked, InHand
  <2>2. done \o InHand = Program
    <3>1. done \o InHand \in Seq(Tasks)
      BY <2>1, ConcatProperties
    <3>2. (done \o InHand) \o <<>> = done \o InHand
      BY <3>1, ConcatEmptySeq
    <3>3. SubSeq(Program, 1, Len(Program)) = Program
      BY SubSeqFull
    <3>4. QED
      BY <2>1, <3>2, <3>3, NothingLostIs DEF MainInv
  <2>3. pc[Worker] # "work_unlock"
    BY DEF MainInv, MainPlaces, MainHolds, HoldsSpin
  <2>4. CASE InHand = <<>>
    <3>1. done = Program
      BY <2>1, <2>2, <2>4, ConcatEmptySeq
    <3>2. QED
      BY <2>1, <3>1 DEF IsPrefix
  <2>5. CASE InHand = <<node>> /\ pc[Worker] = "work_run" /\ node \in Tasks
    <3>1. /\ Len(Program) = Len(done) + 1 /\ Len(done) \in Nat
          /\ \A i \in 1..Len(done) : Program[i] = done[i]
          /\ Program[Len(done) + 1] = node
      BY <2>1, <2>2, <2>5
    <3>2. SubSeq(Program, 1, Len(done)) = SubSeq(done, 1, Len(done))
      <4>1. Len(done) \in 1..Len(Program) \/ Len(done) = 0
        BY <3>1
      <4>2. \A i \in 1..Len(done) : done[i] \in Tasks /\ Program[i] \in Tasks
        BY <2>1, <3>1, ElementOfSeq
      <4>3. /\ SubSeq(Program, 1, Len(done)) \in Seq(Tasks)
            /\ SubSeq(done, 1, Len(done)) \in Seq(Tasks)
            /\ Len(SubSeq(Program, 1, Len(done))) = Len(done)
            /\ Len(SubSeq(done, 1, Len(done))) = Len(done)
            /\ \A i \in 1..Len(done) : SubSeq(Program, 1, Len(done))[i] = Program[i]
            /\ \A i \in 1..Len(done) : SubSeq(done, 1, Len(done))[i] = done[i]
        BY <3>1, <4>2, SubSeqProperties
      <4>4. QED
        BY <3>1, <4>3, SeqEqual
    <3>3. QED
      BY <2>1, <2>5, <3>1, <3>2 DEF IsPrefix, Last
  <2>6. InHand = <<>> \/ (InHand = <<node>> /\ pc[Worker] = "work_run" /\ node \in Tasks)
    BY <2>3 DEF InHand, MainInv, MainTypes
  <2>7. QED
    BY <2>4, <2>5, <2>6
<1>2. QED
  BY <1>1, MainInvariant, PTL

=============================================================================
