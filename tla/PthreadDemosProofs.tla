------------------------ MODULE PthreadDemosProofs --------------------------
(***************************************************************************)
(* For any numbers of threads and rounds: no assertion of                  *)
(* pthread_lock_cond_sem.c fails, and neither a signal nor a post is lost. *)
(* The assertions compare a counter with a sum over the threads.           *)
(***************************************************************************)
EXTENDS PthreadDemos, CommonLemmas, FiniteSetTheorems, TLAPS

-----------------------------------------------------------------------------
(* The increments each thread has stored. *)
Stored == [t \in Threads |-> IF tpc[t] = "unlock" THEN i[t] + 1 ELSE i[t]]

(* The threads that increment the counter under a lock. *)
Writers == IF part = "rwlock" THEN Second ELSE First

InIncrement == {"load", "store", "unlock"}

(* Where a thread may stand in each of the four programs.                  *)
Stands(t) ==
  CASE part = "rwlock"   -> {"none", "lock", "exited"} \cup
                              IF t \in First THEN {"read"} ELSE InIncrement
    [] part = "spinlock" -> {"none"} \cup
                              IF t \in First THEN {"lock", "exited"} \cup InIncrement ELSE {}
    [] part = "cond"     -> {"none"} \cup
                              (IF t = Waiter
                                 THEN {"lock", "test", "wait", "sleep", "relock", "consume",
                                       "unlock", "exited"}
                               ELSE IF t = Signer
                                 THEN {"lock", "set", "signal", "unlock", "exited"}
                               ELSE {})
    [] part = "sem"      -> {"none", "sem", "exited"} \cup
                              IF t \in First THEN {"count"} ELSE {}

Places == \A t \in Threads : tpc[t] \in Stands(t)

(* Who is between the lock and the unlock of a mutex, a spin lock or a     *)
(* rwlock held for writing is its owner.                                   *)
HasLock(t) == tpc[t] \in InIncrement \cup {"test", "wait", "consume", "set", "signal"}

Exclusion == \A t \in Threads : HasLock(t) => owner = t

(* A thread exits when it has done its rounds. *)
RoundsDone ==
  part # "cond" => \A t \in Threads : IF tpc[t] = "exited" THEN i[t] = TEST_CASE_NUM
                                                           ELSE i[t] < TEST_CASE_NUM

(* The counter under a lock: nothing that was stored is overwritten,       *)
(* because whoever is about to store has loaded the latest value.          *)
LockedCount ==
  part \in {"rwlock", "spinlock"} =>
    /\ cnt = Sum(Stored, Writers)
    /\ \A t \in Threads : tpc[t] = "store" => reg[t] = cnt

SemCount == part = "sem" => cnt = Sum(i, First)

(* The flag of pthread_cond: set before the signal, tested before the      *)
(* sleep, and consumed once.                                               *)
Signaled == tpc[Signer] \in {"signal", "unlock", "exited"}
Consumed == tpc[Waiter] \in {"unlock", "exited"}

Flag ==
  /\ part = "cond" =>
       /\ cnt = IF Consumed THEN 1 ELSE 0
       /\ condition <=> Signaled /\ ~Consumed
       /\ Consumed => Signaled
       /\ tpc[Waiter] = "consume" => condition
       /\ tpc[Waiter] = "wait" => ~condition
       /\ tpc[Waiter] = "none" => tpc[Signer] = "none"
  /\ asleep => part = "cond" /\ tpc[Waiter] = "sleep"
  /\ mpc = "assert" => part = "cond" /\ tpc[Signer] = "none"

Control == Places /\ Exclusion /\ RoundsDone

DemoInv == AssertionsHold /\ Control /\ LockedCount /\ SemCount /\ Flag /\ WakeupsArrive

-----------------------------------------------------------------------------
LEMMA Groups ==
  /\ Waiter \in First /\ Signer \in Second /\ Waiter # Signer
  /\ First \cap Second = {} /\ IsFiniteSet(First) /\ IsFiniteSet(Second)
  /\ First \subseteq Threads /\ Second \subseteq Threads
  /\ Cardinality(First) = Cardinality(Second) /\ NoThread \notin Threads
  /\ TEST_CASE_NUM \in Nat \ {0} /\ Rounds \in Nat \ {0} /\ MaxSpurious \in Nat
BY PthreadAssumption DEF Threads

(* A thread's step: the types.  No loop counter passes TEST_CASE_NUM.      *)
LEMMA TypeStep ==
  ASSUME TypeOK, Control, NEW t \in Threads, ThreadStep(t)
  PROVE  TypeOK'
<1> USE Groups DEF TypeOK, mainVars, lockVars, condVars
<1>1. CASE RdLock(t)
  BY <1>1 DEF RdLock, Move
<1>2. CASE RdUnlock(t)
  <2>1. tpc[t] = "read"
    BY <1>2 DEF RdUnlock, NextRound, Move
  <2>2. i[t] \in Nat /\ i[t] < TEST_CASE_NUM
    BY <2>1 DEF Control, Places, Stands, InIncrement, RoundsDone
  <2>3. i' \in [Threads -> 0..TEST_CASE_NUM]
    BY <1>2, <2>2 DEF RdUnlock, NextRound, Move
  <2>4. tpc' = [tpc EXCEPT ![t] = "exited"] \/ tpc' = [tpc EXCEPT ![t] = "lock"]
    BY <1>2 DEF RdUnlock, NextRound, Move
  <2>5. QED
    BY <1>2, <2>3, <2>4 DEF RdUnlock
<1>3. CASE WrLock(t)
  BY <1>3 DEF WrLock, Move, Acquire
<1>4. CASE SpinLock(t)
  BY <1>4 DEF SpinLock, Move, Acquire
<1>5. CASE LoadCnt(t)
  BY <1>5 DEF LoadCnt, Move
<1>6. CASE StoreCnt(t)
  BY <1>6 DEF StoreCnt, Move
<1>7. CASE UnlockCnt(t)
  <2>1. tpc[t] = "unlock"
    BY <1>7 DEF UnlockCnt, NextRound, Move
  <2>2. i[t] \in Nat /\ i[t] < TEST_CASE_NUM
    BY <1>7, <2>1 DEF Control, Places, Stands, InIncrement, RoundsDone, UnlockCnt
  <2>3. i' \in [Threads -> 0..TEST_CASE_NUM]
    BY <1>7, <2>2 DEF UnlockCnt, NextRound, Move
  <2>4. tpc' = [tpc EXCEPT ![t] = "exited"] \/ tpc' = [tpc EXCEPT ![t] = "lock"]
    BY <1>7 DEF UnlockCnt, NextRound, Move
  <2>5. QED
    BY <1>7, <2>3, <2>4 DEF UnlockCnt, Release
<1>8. CASE CondLock(t)
  BY <1>8 DEF CondLock, Move, Acquire
<1>9. CASE CondUnlock(t)
  BY <1>9 DEF CondUnlock, Move, Release
<1>10. CASE t = Signer /\ SetCondition
  BY <1>10 DEF SetCondition, Move
<1>11. CASE t = Signer /\ Signal
  BY <1>11 DEF Signal
<1>12. CASE t = Waiter /\ TestCondition
  BY <1>12 DEF TestCondition, Move
<1>13. CASE t = Waiter /\ Sleep
  BY <1>13 DEF Sleep, Move, Release
<1>14. CASE t = Waiter /\ Consume
  <2>1. cnt' \in Nat
    BY <1>14 DEF Consume
  <2>2. QED
    BY <1>14, <2>1 DEF Consume, Move
<1>15. CASE SemWait(t)
  BY <1>15 DEF SemWait, Move
<1>16. CASE AtomicInc(t)
  <2>1. tpc[t] = "count"
    BY <1>16 DEF AtomicInc, NextRound, Move
  <2>2. i[t] \in Nat /\ i[t] < TEST_CASE_NUM
    BY <2>1 DEF Control, Places, Stands, InIncrement, RoundsDone
  <2>3. i' \in [Threads -> 0..TEST_CASE_NUM]
    BY <1>16, <2>2 DEF AtomicInc, NextRound, Move
  <2>4. tpc' = [tpc EXCEPT ![t] = "exited"] \/ tpc' = [tpc EXCEPT ![t] = "sem"]
    BY <1>16 DEF AtomicInc, NextRound, Move
  <2>5. QED
    BY <1>16, <2>3, <2>4 DEF AtomicInc
<1>17. CASE SemPost(t)
  <2>1. tpc[t] = "sem"
    BY <1>17 DEF SemPost, NextRound, Move
  <2>2. i[t] \in Nat /\ i[t] < TEST_CASE_NUM
    BY <2>1 DEF Control, Places, Stands, InIncrement, RoundsDone
  <2>3. i' \in [Threads -> 0..TEST_CASE_NUM]
    BY <1>17, <2>2 DEF SemPost, NextRound, Move
  <2>4. tpc' = [tpc EXCEPT ![t] = "exited"] \/ tpc' = [tpc EXCEPT ![t] = "sem"]
    BY <1>17 DEF SemPost, NextRound, Move
  <2>5. QED
    BY <1>17, <2>3, <2>4 DEF SemPost, Posted
<1>18. QED
  BY <1>1, <1>2, <1>3, <1>4, <1>5, <1>6, <1>7, <1>8, <1>9, <1>10, <1>11, <1>12, <1>13, <1>14, <1>15, <1>16, <1>17 DEF ThreadStep

(* A thread's step: who stands where, and who has the lock.                *)
LEMMA ControlStep ==
  ASSUME TypeOK, Control, NEW t \in Threads, ThreadStep(t)
  PROVE  Control'
<1> USE Groups DEF TypeOK, mainVars, lockVars, condVars, Control, Places, Stands, Exclusion, HasLock, InIncrement, RoundsDone
<1>1. CASE RdLock(t)
  BY <1>1 DEF RdLock, Move
<1>2. CASE RdUnlock(t)
  BY <1>2 DEF RdUnlock, NextRound, Move
<1>3. CASE WrLock(t)
  BY <1>3 DEF WrLock, Move, Acquire
<1>4. CASE SpinLock(t)
  BY <1>4 DEF SpinLock, Move, Acquire
<1>5. CASE LoadCnt(t)
  BY <1>5 DEF LoadCnt, Move
<1>6. CASE StoreCnt(t)
  BY <1>6 DEF StoreCnt, Move
<1>7. CASE UnlockCnt(t)
  BY <1>7 DEF UnlockCnt, NextRound, Move, Release
<1>8. CASE CondLock(t)
  BY <1>8 DEF CondLock, Move, Acquire
<1>9. CASE CondUnlock(t)
  BY <1>9 DEF CondUnlock, Move, Release
<1>10. CASE t = Signer /\ SetCondition
  BY <1>10 DEF SetCondition, Move
<1>11. CASE t = Signer /\ Signal
  BY <1>11 DEF Signal
<1>12. CASE t = Waiter /\ TestCondition
  BY <1>12 DEF TestCondition, Move
<1>13. CASE t = Waiter /\ Sleep
  BY <1>13 DEF Sleep, Move, Release
<1>14. CASE t = Waiter /\ Consume
  BY <1>14 DEF Consume, Move
<1>15. CASE SemWait(t)
  BY <1>15 DEF SemWait, Move
<1>16. CASE AtomicInc(t)
  BY <1>16 DEF AtomicInc, NextRound, Move
<1>17. CASE SemPost(t)
  BY <1>17 DEF SemPost, NextRound, Move, Posted
<1>18. QED
  BY <1>1, <1>2, <1>3, <1>4, <1>5, <1>6, <1>7, <1>8, <1>9, <1>10, <1>11, <1>12, <1>13, <1>14, <1>15, <1>16, <1>17 DEF ThreadStep

(* A thread's step: the flag of pthread_cond.                              *)
LEMMA FlagStep ==
  ASSUME TypeOK, Control, Flag, NEW t \in Threads, ThreadStep(t)
  PROVE  Flag'
<1> USE Groups DEF TypeOK, mainVars, lockVars, condVars, Control, Places, Stands, Exclusion, HasLock, InIncrement, Flag, Signaled, Consumed
<1>1. CASE RdLock(t)
  BY <1>1 DEF RdLock, Move
<1>2. CASE RdUnlock(t)
  BY <1>2 DEF RdUnlock, NextRound, Move
<1>3. CASE WrLock(t)
  BY <1>3 DEF WrLock, Move, Acquire
<1>4. CASE SpinLock(t)
  BY <1>4 DEF SpinLock, Move, Acquire
<1>5. CASE LoadCnt(t)
  BY <1>5 DEF LoadCnt, Move
<1>6. CASE StoreCnt(t)
  BY <1>6 DEF StoreCnt, Move
<1>7. CASE UnlockCnt(t)
  BY <1>7 DEF UnlockCnt, NextRound, Move, Release
<1>8. CASE CondLock(t)
  BY <1>8 DEF CondLock, Move, Acquire
<1>9. CASE CondUnlock(t)
  BY <1>9 DEF CondUnlock, Move, Release
<1>10. CASE t = Signer /\ SetCondition
  BY <1>10 DEF SetCondition, Move
<1>11. CASE t = Signer /\ Signal
  BY <1>11 DEF Signal
<1>12. CASE t = Waiter /\ TestCondition
  BY <1>12 DEF TestCondition, Move
<1>13. CASE t = Waiter /\ Sleep
  BY <1>13 DEF Sleep, Move, Release
<1>14. CASE t = Waiter /\ Consume
  BY <1>14 DEF Consume, Move
<1>15. CASE SemWait(t)
  BY <1>15 DEF SemWait, Move
<1>16. CASE AtomicInc(t)
  BY <1>16 DEF AtomicInc, NextRound, Move
<1>17. CASE SemPost(t)
  BY <1>17 DEF SemPost, NextRound, Move, Posted
<1>18. QED
  BY <1>1, <1>2, <1>3, <1>4, <1>5, <1>6, <1>7, <1>8, <1>9, <1>10, <1>11, <1>12, <1>13, <1>14, <1>15, <1>16, <1>17 DEF ThreadStep

(* A step that stores nothing into the counter. *)
LEMMA StoredUnchanged ==
  ASSUME LockedCount, part' = part, cnt' = cnt,
         \A t \in Threads : (IF tpc'[t] = "unlock" THEN i'[t] + 1 ELSE i'[t])
                             = (IF tpc[t] = "unlock" THEN i[t] + 1 ELSE i[t]),
         \A t \in Threads : tpc'[t] = "store" =>
           reg'[t] = cnt \/ (tpc[t] = "store" /\ reg'[t] = reg[t])
  PROVE  LockedCount'
<1>1. Stored' = Stored /\ Writers' = Writers
  BY DEF Stored, Writers
<1>2. Sum(Stored, Writers)' = Sum(Stored, Writers)
  BY <1>1
<1>3. QED
  BY <1>2 DEF LockedCount

(* The counter under a lock: a load, a store and an unlock.                *)
LEMMA LockedStep ==
  ASSUME TypeOK, Control, LockedCount, NEW t \in Threads, ThreadStep(t)
  PROVE  LockedCount'
<1> USE Groups DEF TypeOK, mainVars, lockVars, condVars
<1>1. part' = part
  BY DEF ThreadStep, RdLock, RdUnlock, WrLock, SpinLock, LoadCnt, StoreCnt, UnlockCnt, CondLock,
         CondUnlock, SetCondition, Signal, TestCondition, Sleep, Consume, SemWait, AtomicInc, SemPost
<1>2. CASE part \notin {"rwlock", "spinlock"}
  BY <1>1, <1>2 DEF LockedCount
<1>3. CASE part \in {"rwlock", "spinlock"}
  <2>0. tpc[t] \in {"none", "lock", "exited", "read", "load", "store", "unlock"}
    BY <1>3 DEF Control, Places, Stands, InIncrement
  <2>1. CASE RdLock(t) \/ WrLock(t) \/ SpinLock(t)
    BY <2>1, StoredUnchanged DEF RdLock, WrLock, SpinLock, Move
  <2>2. CASE RdUnlock(t)
    <3>1. /\ tpc[t] = "read" /\ tpc'[t] # "store"
          /\ \A u \in Threads \ {t} : tpc'[u] = tpc[u] /\ i'[u] = i[u]
          /\ UNCHANGED <<reg, cnt>>
      BY <2>2 DEF RdUnlock, NextRound, Move
    <3>2. part = "rwlock" /\ t \in First
      BY <1>3, <3>1 DEF Control, Places, Stands, InIncrement
    <3>3. \A u \in Second : Stored'[u] = Stored[u]
      BY <3>1, <3>2 DEF Stored
    <3>4. Sum(Stored', Second) = Sum(Stored, Second)
      BY <3>3, SumSame
    <3>5. Writers = Second /\ Writers' = Second
      BY <1>1, <3>2 DEF Writers
    <3>6. QED
      BY <1>3, <3>1, <3>4, <3>5 DEF LockedCount
  <2>3. CASE LoadCnt(t)
    <3>1. /\ tpc[t] = "load" /\ tpc' = [tpc EXCEPT ![t] = "store"]
          /\ reg' = [reg EXCEPT ![t] = cnt] /\ UNCHANGED <<i, cnt>>
      BY <2>3 DEF LoadCnt, Move
    <3>2. \A u \in Threads : tpc'[u] = "unlock" <=> tpc[u] = "unlock"
      BY <3>1
    <3>3. ASSUME NEW u \in Threads, tpc'[u] = "store"
          PROVE  reg'[u] = cnt \/ (tpc[u] = "store" /\ reg'[u] = reg[u])
      <4>1. CASE u = t
        BY <3>1, <4>1
      <4>2. CASE u # t
        BY <3>1, <3>3, <4>2
      <4>3. QED
        BY <4>1, <4>2
    <3>4. QED
      BY <1>1, <3>1, <3>2, <3>3, StoredUnchanged
  <2>4. CASE StoreCnt(t)
    <3>1. /\ tpc[t] = "store" /\ tpc' = [tpc EXCEPT ![t] = "unlock"]
          /\ cnt' = cnt + 1 /\ UNCHANGED <<i, reg>>
      BY <1>3, <2>4 DEF StoreCnt, Move, LockedCount
    <3>2. t \in Writers /\ IsFiniteSet(Writers) /\ Writers \subseteq Threads
      <4>1. IF part = "rwlock" THEN t \notin First ELSE t \in First
        BY <1>3, <3>1 DEF Control, Places, Stands, InIncrement
      <4>2. QED
        BY <4>1 DEF Writers, Threads
    <3>3. \A u \in Writers : Stored[u] \in Nat
      BY <3>2 DEF Stored
    <3>4. Stored'[t] = Stored[t] + 1
      BY <3>1 DEF Stored
    <3>5. \A u \in Writers \ {t} : Stored'[u] = Stored[u]
      BY <3>1, <3>2 DEF Stored
    <3>6. Sum(Stored', Writers) = Sum(Stored, Writers) + 1
      BY <3>2, <3>3, <3>4, <3>5, SumIncrement
    <3>7. Writers' = Writers
      BY <1>1 DEF Writers
    <3>8. \A u \in Threads : tpc'[u] # "store"
      BY <3>1 DEF Control, Exclusion, HasLock, InIncrement
    <3>9. QED
      BY <1>1, <1>3, <3>1, <3>6, <3>7, <3>8 DEF LockedCount
  <2>5. CASE UnlockCnt(t)
    <3>1. /\ tpc[t] = "unlock" /\ i'[t] = i[t] + 1 /\ tpc'[t] \in {"lock", "exited"}
          /\ \A u \in Threads \ {t} : tpc'[u] = tpc[u] /\ i'[u] = i[u]
          /\ UNCHANGED <<reg, cnt>>
      BY <2>5 DEF UnlockCnt, NextRound, Move
    <3>2. QED
      BY <1>1, <3>1, StoredUnchanged
  <2>6. QED
    BY <1>3, <2>0, <2>1, <2>2, <2>3, <2>4, <2>5
       DEF ThreadStep, CondLock, CondUnlock, SetCondition, Signal, TestCondition, Sleep, Consume,
           SemWait, AtomicInc, SemPost, NextRound, Move
<1>4. QED
  BY <1>2, <1>3

(* The semaphore: posts made, counted, being counted and still there.      *)
Counting == {w \in First : tpc[w] = "count"}

PostsKept == part = "sem" => Sum(i, Second) = cnt + Cardinality(Counting) + sem

LEMMA PostsAccountedIs == PostsAccounted <=> PostsKept
BY DEF PostsAccounted, PostsKept, Counting, Sum

LEMMA SemStep ==
  ASSUME TypeOK, Control, SemCount, PostsKept, NEW t \in Threads, ThreadStep(t)
  PROVE  SemCount' /\ PostsKept'
<1> USE Groups DEF TypeOK, mainVars, lockVars, condVars
<1>1. part' = part
  BY DEF ThreadStep, RdLock, RdUnlock, WrLock, SpinLock, LoadCnt, StoreCnt, UnlockCnt, CondLock,
         CondUnlock, SetCondition, Signal, TestCondition, Sleep, Consume, SemWait, AtomicInc, SemPost
<1>2. CASE part # "sem"
  BY <1>1, <1>2 DEF SemCount, PostsKept
<1>3. CASE part = "sem"
  <2>0. tpc[t] \in {"none", "sem", "exited", "count"} /\ (tpc[t] = "count" => t \in First)
    BY <1>3 DEF Control, Places, Stands
  <2>1. IsFiniteSet(Counting) /\ Cardinality(Counting) \in Nat
    BY FS_Subset, FS_CardinalityType DEF Counting
  <2>2. /\ \A u \in First : i[u] \in Nat
        /\ \A u \in Second : i[u] \in Nat
    OBVIOUS
  <2>3. CASE SemWait(t)
    <3>1. /\ t \in First /\ tpc[t] = "sem" /\ tpc' = [tpc EXCEPT ![t] = "count"]
          /\ sem' = sem - 1 /\ UNCHANGED <<i, cnt>>
      BY <2>3 DEF SemWait, Move
    <3>2. Counting' = Counting \cup {t} /\ t \notin Counting
      BY <3>1 DEF Counting
    <3>3. Cardinality(Counting') = Cardinality(Counting) + 1
      BY <2>1, <3>2, FS_AddElement
    <3>4. cnt = Sum(i, First) /\ Sum(i, Second) = cnt + Cardinality(Counting) + sem
      BY <1>3 DEF SemCount, PostsKept
    <3>5. cnt' = Sum(i', First) /\ Sum(i', Second) = cnt' + Cardinality(Counting') + sem'
      BY <2>1, <3>1, <3>3, <3>4
    <3>6. QED
      BY <3>5 DEF SemCount, PostsKept
  <2>4. CASE AtomicInc(t)
    <3>1. /\ t \in First /\ tpc[t] = "count" /\ i' = [i EXCEPT ![t] = @ + 1]
          /\ tpc'[t] # "count" /\ \A u \in Threads \ {t} : tpc'[u] = tpc[u]
          /\ cnt' = cnt + 1 /\ sem' = sem
      BY <2>0, <2>4 DEF AtomicInc, NextRound, Move
    <3>2. Counting' = Counting \ {t} /\ t \in Counting
      BY <3>1 DEF Counting
    <3>3. Cardinality(Counting') = Cardinality(Counting) - 1
      BY <2>1, <3>2, FS_RemoveElement
    <3>4. cnt = Sum(i, First) /\ Sum(i, Second) = cnt + Cardinality(Counting) + sem
      BY <1>3 DEF SemCount, PostsKept
    <3>5. i'[t] = i[t] + 1 /\ \A u \in First \ {t} : i'[u] = i[u]
      BY <3>1
    <3>6. Sum(i', First) = Sum(i, First) + 1
      BY <2>2, <3>1, <3>5, SumIncrement
    <3>7. \A u \in Second : i'[u] = i[u]
      BY <3>1
    <3>8. Sum(i', Second) = Sum(i, Second)
      BY <3>7, SumSame
    <3>9. cnt' = Sum(i', First) /\ Sum(i', Second) = cnt' + Cardinality(Counting') + sem'
      BY <2>1, <3>1, <3>3, <3>4, <3>6, <3>8
    <3>10. QED
      BY <3>9 DEF SemCount, PostsKept
  <2>5. CASE SemPost(t)
    <3>1. /\ t \in Second /\ tpc[t] = "sem" /\ i' = [i EXCEPT ![t] = @ + 1]
          /\ tpc'[t] # "count" /\ \A u \in Threads \ {t} : tpc'[u] = tpc[u]
          /\ cnt' = cnt /\ sem' = sem + 1
      BY <2>0, <2>5 DEF SemPost, NextRound, Move, Posted
    <3>2. Counting' = Counting
      BY <3>1 DEF Counting
    <3>3. cnt = Sum(i, First) /\ Sum(i, Second) = cnt + Cardinality(Counting) + sem
      BY <1>3 DEF SemCount, PostsKept
    <3>4. i'[t] = i[t] + 1 /\ \A u \in Second \ {t} : i'[u] = i[u]
      BY <3>1
    <3>5. Sum(i', Second) = Sum(i, Second) + 1
      BY <2>2, <3>1, <3>4, SumIncrement
    <3>6. \A u \in First : i'[u] = i[u]
      BY <3>1
    <3>7. Sum(i', First) = Sum(i, First)
      BY <3>6, SumSame
    <3>8. cnt' = Sum(i', First) /\ Sum(i', Second) = cnt' + Cardinality(Counting') + sem'
      BY <2>1, <3>1, <3>2, <3>3, <3>5, <3>7
    <3>9. QED
      BY <3>8 DEF SemCount, PostsKept
  <2>6. QED
    BY <1>3, <2>0, <2>3, <2>4, <2>5
       DEF ThreadStep, RdLock, RdUnlock, WrLock, SpinLock, LoadCnt, StoreCnt, UnlockCnt, CondLock,
           CondUnlock, SetCondition, Signal, TestCondition, Sleep, Consume, NextRound, Move
<1>4. QED
  BY <1>2, <1>3

(* The signal: whoever falls asleep has seen the flag before it was set.   *)
LEMMA SignalStep ==
  ASSUME TypeOK, Control, Flag, SignalNotLost, NEW t \in Threads, ThreadStep(t)
  PROVE  SignalNotLost'
<1> USE Groups DEF TypeOK, mainVars, lockVars, condVars, Flag, Signaled, Consumed, SignalNotLost
<1>1. CASE part # "cond"
  <2>1. ~asleep /\ tpc[t] \notin {"set", "signal", "test", "wait", "consume"}
    BY <1>1 DEF Control, Places, Stands, InIncrement
  <2>2. asleep' = asleep
    BY <2>1 DEF ThreadStep, RdLock, RdUnlock, WrLock, SpinLock, LoadCnt, StoreCnt, UnlockCnt,
         CondLock, CondUnlock, SetCondition, Signal, TestCondition, Sleep, Consume, SemWait,
         AtomicInc, SemPost, NextRound, Move
  <2>3. QED
    BY <2>1, <2>2
<1>2. CASE part = "cond"
  <2>1. tpc[t] \notin {"read", "load", "store", "sem", "count"} /\ (t = Waiter \/ t = Signer \/ tpc[t] = "none")
    BY <1>2 DEF Control, Places, Stands
  <2>2. CASE CondLock(t)
    BY <2>2 DEF CondLock, Move
  <2>3. CASE CondUnlock(t)
    BY <2>3 DEF CondUnlock, Move
  <2>4. CASE t = Signer /\ SetCondition
    BY <2>4 DEF SetCondition, Move
  <2>5. CASE t = Signer /\ Signal
    BY <2>5 DEF Signal
  <2>6. CASE t = Waiter /\ (TestCondition \/ Consume)
    BY <2>6 DEF TestCondition, Consume, Move
  <2>7. CASE t = Waiter /\ Sleep
    <3>1. tpc[Waiter] = "wait" /\ tpc' = [tpc EXCEPT ![Waiter] = "sleep"]
      BY <2>7 DEF Sleep, Move
    <3>2. tpc[Signer] \notin {"signal", "unlock", "exited"}
      BY <1>2, <3>1
    <3>3. tpc[Signer] \in {"none", "lock", "set"}
      <4>1. tpc[Signer] \in Stands(Signer) /\ Signer # Waiter /\ Signer \in Threads
        BY DEF Control, Places
      <4>2. QED
        BY <1>2, <3>2, <4>1 DEF Stands
    <3>4. QED
      BY <3>1, <3>3
  <2>8. QED
    BY <1>2, <2>1, <2>2, <2>3, <2>4, <2>5, <2>6, <2>7
       DEF ThreadStep, RdLock, RdUnlock, WrLock, SpinLock, LoadCnt, StoreCnt, UnlockCnt, SemWait,
           AtomicInc, SemPost, NextRound, Move
<1>3. QED
  BY <1>1, <1>2

LEMMA ThreadKeeps ==
  ASSUME DemoInv, NEW t \in Threads, ThreadStep(t)
  PROVE  DemoInv'
<1>1. mpc' = mpc
  BY DEF ThreadStep, RdLock, RdUnlock, WrLock, SpinLock, LoadCnt, StoreCnt, UnlockCnt, CondLock,
         CondUnlock, SetCondition, Signal, TestCondition, Sleep, Consume, SemWait, AtomicInc,
         SemPost, mainVars
<1>2. TypeOK /\ Control /\ LockedCount /\ SemCount /\ Flag /\ SignalNotLost /\ PostsKept
  BY PostsAccountedIs DEF DemoInv, AssertionsHold, WakeupsArrive
<1>3. TypeOK' /\ Control' /\ LockedCount' /\ SemCount' /\ Flag' /\ SignalNotLost' /\ PostsKept'
  BY <1>2, TypeStep, ControlStep, LockedStep, SemStep, FlagStep, SignalStep
<1>4. PostsAccounted' <=> PostsKept'
  BY PostsAccountedIs, PTL
<1>5. QED
  BY <1>1, <1>3, <1>4 DEF DemoInv, AssertionsHold, WakeupsArrive

LEMMA SpuriousKeeps ==
  ASSUME DemoInv, SpuriousWakeup
  PROVE  DemoInv'
<1> USE Groups
<1>1. /\ tpc[Waiter] = "sleep" /\ tpc' = [tpc EXCEPT ![Waiter] = "relock"]
      /\ asleep' = FALSE /\ spurious' = spurious + 1 /\ spurious < MaxSpurious
      /\ UNCHANGED <<round, part, mpc, i, reg, reading, owner, condition, sem, cnt>>
  BY DEF SpuriousWakeup, Move, mainVars, lockVars
<1>2. TypeOK
  BY DEF DemoInv, AssertionsHold
<1>3. part = "cond"
  <2>1. Waiter \in Threads /\ part \in {"rwlock", "spinlock", "cond", "sem"}
    BY <1>2 DEF TypeOK
  <2>2. tpc[Waiter] \in Stands(Waiter)
    BY <2>1 DEF DemoInv, Control, Places
  <2>3. QED
    BY <1>1, <2>1, <2>2 DEF Stands, InIncrement
<1>4. TypeOK'
  <2>1. spurious' \in 0..MaxSpurious
    BY <1>1, <1>2 DEF TypeOK
  <2>2. QED
    BY <1>1, <1>2, <2>1 DEF TypeOK
<1>5. Control'
  BY <1>1, <1>2, <1>3 DEF DemoInv, TypeOK, Control, Places, Stands, Exclusion, HasLock, InIncrement, RoundsDone
<1>6. LockedCount' /\ SemCount' /\ PostsAccounted'
  BY <1>1, <1>3 DEF LockedCount, SemCount, PostsAccounted
<1>7. Flag' /\ SignalNotLost'
  BY <1>1, <1>2, <1>3 DEF DemoInv, TypeOK, Flag, Signaled, Consumed, SignalNotLost
<1>8. QED
  BY <1>1, <1>4, <1>5, <1>6, <1>7 DEF DemoInv, AssertionsHold, WakeupsArrive

-----------------------------------------------------------------------------
(* A program begins with everything at zero. *)
Fresh ==
  /\ round \in 1..Rounds /\ part \in {"rwlock", "spinlock", "cond", "sem"}
  /\ mpc = "create"
  /\ tpc = [t \in Threads |-> "none"]
  /\ i = [t \in Threads |-> 0]
  /\ reg = [t \in Threads |-> 0]
  /\ reading = {} /\ owner = NoThread
  /\ condition = FALSE /\ asleep = FALSE /\ spurious = 0
  /\ sem = 0
  /\ cnt = 0

LEMMA FreshIsGood == Fresh => DemoInv
<1> SUFFICES ASSUME Fresh PROVE DemoInv
  OBVIOUS
<1> USE Groups DEF Fresh
<1>1. TypeOK
  <2>1. 0 \in 0..TEST_CASE_NUM /\ 0 \in 0..MaxSpurious /\ 0 \in Nat
    OBVIOUS
  <2>2. /\ i \in [Threads -> 0..TEST_CASE_NUM] /\ reg \in [Threads -> Nat]
        /\ spurious \in 0..MaxSpurious
    BY <2>1
  <2>3. QED
    BY <2>2 DEF TypeOK
<1>2. Control
  BY DEF Control, Places, Stands, Exclusion, HasLock, InIncrement, RoundsDone
<1>3. Sum(i, First) = 0 /\ Sum(i, Second) = 0
  <2>1. Sum(i, First) = Cardinality(First) * 0 /\ Sum(i, Second) = Cardinality(Second) * 0
    BY SumOfEquals
  <2>2. QED
    BY <2>1, FS_CardinalityType
<1>4. Sum(Stored, Writers) = 0
  <2>1. Stored = i
    BY DEF Stored
  <2>2. QED
    BY <1>3, <2>1 DEF Writers
<1>5. LockedCount /\ SemCount
  BY <1>3, <1>4 DEF LockedCount, SemCount
<1>6. PostsKept
  <2>1. Counting = {}
    BY DEF Counting
  <2>2. QED
    BY <1>3, <2>1, FS_EmptySet DEF PostsKept
<1>7. Flag /\ SignalNotLost
  BY DEF Flag, Signaled, Consumed, SignalNotLost
<1>8. QED
  BY <1>1, <1>2, <1>5, <1>6, <1>7, PostsAccountedIs DEF DemoInv, AssertionsHold, WakeupsArrive

LEMMA CreateKeeps ==
  ASSUME DemoInv, NEW t \in Threads, Create(t)
  PROVE  DemoInv'
<1> USE Groups
<1>1. /\ mpc = "create" /\ tpc[t] = "none" /\ t \in Crew(part)
      /\ t \in Second => \A u \in First \cap Crew(part) : tpc[u] # "none"
      /\ tpc' = [tpc EXCEPT ![t] = IF part = "sem" THEN "sem" ELSE "lock"]
      /\ mpc' = IF part = "cond" /\ t = Waiter THEN "assert"
                ELSE IF \A u \in Crew(part) \ {t} : tpc[u] # "none" THEN "join" ELSE "create"
      /\ UNCHANGED <<round, part, i, reg, reading, owner, condition, asleep, spurious, sem, cnt>>
  BY DEF Create, Move, lockVars, condVars
<1>2. TypeOK
  BY DEF DemoInv, AssertionsHold
<1>3. TypeOK' /\ mpc' # "failed"
  BY <1>1, <1>2 DEF TypeOK
<1>4. Control'
  BY <1>1, <1>2 DEF DemoInv, TypeOK, Control, Places, Stands, Exclusion, HasLock, InIncrement, RoundsDone, Crew
<1>5. LockedCount'
  BY <1>1, <1>2, StoredUnchanged DEF DemoInv, TypeOK
<1>6. SemCount' /\ PostsAccounted'
  <2>1. Counting' = Counting
    BY <1>1, <1>2 DEF Counting, TypeOK
  <2>2. PostsKept
    BY PostsAccountedIs DEF DemoInv, WakeupsArrive
  <2>3. PostsKept'
    BY <1>1, <2>1, <2>2 DEF PostsKept
  <2>4. SemCount'
    BY <1>1 DEF DemoInv, SemCount
  <2>5. QED
    BY <2>3, <2>4, PostsAccountedIs, PTL
<1>7. Flag' /\ SignalNotLost'
  BY <1>1, <1>2 DEF DemoInv, WakeupsArrive, TypeOK, Flag, Signaled, Consumed, SignalNotLost, Crew
<1>8. QED
  BY <1>3, <1>4, <1>5, <1>6, <1>7 DEF DemoInv, AssertionsHold, WakeupsArrive

(* main goes on, and no thread does. *)
LEMMA GoesKeeps ==
  ASSUME DemoInv, NEW how \in {"create", "exited"}, MainGoes(how)
  PROVE  DemoInv'
<1>1. /\ mpc' = how
      /\ UNCHANGED <<round, part, tpc, i, reg, reading, owner, condition, asleep, spurious, sem, cnt>>
  BY DEF MainGoes, lockVars, condVars
<1>2. TypeOK' /\ mpc' # "failed"
  BY <1>1 DEF DemoInv, AssertionsHold, TypeOK
<1>3. Control' = Control /\ LockedCount' = LockedCount /\ SemCount' = SemCount
  BY <1>1 DEF Control, Places, Stands, Exclusion, HasLock, RoundsDone, LockedCount, Stored, Writers, SemCount
<1>4. Flag'
  BY <1>1 DEF DemoInv, Flag, Signaled, Consumed
<1>5. SignalNotLost' /\ PostsAccounted'
  <2>1. PostsKept
    BY PostsAccountedIs DEF DemoInv, WakeupsArrive
  <2>2. SignalNotLost' /\ PostsKept'
    BY <1>1, <2>1 DEF DemoInv, WakeupsArrive, SignalNotLost, PostsKept, Counting
  <2>3. QED
    BY <2>2, PostsAccountedIs, PTL
<1>6. QED
  BY <1>2, <1>3, <1>4, <1>5 DEF DemoInv, AssertionsHold, WakeupsArrive

(* What main asserts when it has joined the threads. *)
LEMMA CountIsExpected ==
  ASSUME DemoInv, mpc = "join", \A t \in Crew(part) : tpc[t] = "exited"
  PROVE  cnt = Expected
<1> USE Groups
<1>1. TypeOK
  BY DEF DemoInv, AssertionsHold
<1>2. CASE part \in {"rwlock", "spinlock"}
  <2>1. \A t \in Writers : t \in Threads /\ tpc[t] = "exited"
    BY <1>2 DEF Writers, Crew, Threads
  <2>2. \A t \in Writers : Stored[t] = TEST_CASE_NUM
    BY <1>2, <2>1 DEF DemoInv, Control, RoundsDone, Stored
  <2>3. IsFiniteSet(Writers) /\ Sum(Stored, Writers) = Cardinality(Writers) * TEST_CASE_NUM
    BY <2>2, SumOfEquals DEF Writers
  <2>4. QED
    BY <1>2, <2>3 DEF DemoInv, LockedCount, Writers, Expected
<1>3. CASE part = "cond"
  BY <1>3 DEF DemoInv, Flag, Consumed, Crew, Expected
<1>4. CASE part = "sem"
  <2>1. \A t \in First : t \in Threads /\ tpc[t] = "exited"
    BY <1>4 DEF Crew, Threads
  <2>2. \A t \in First : i[t] = TEST_CASE_NUM
    BY <1>4, <2>1 DEF DemoInv, Control, RoundsDone
  <2>3. Sum(i, First) = Cardinality(First) * TEST_CASE_NUM
    BY <2>2, SumOfEquals
  <2>4. QED
    BY <1>4, <2>3 DEF DemoInv, SemCount, Expected
<1>5. QED
  BY <1>1, <1>2, <1>3, <1>4 DEF TypeOK

LEMMA MainKeeps ==
  ASSUME DemoInv, MainStep
  PROVE  DemoInv'
<1> USE Groups
<1>1. TypeOK
  BY DEF DemoInv, AssertionsHold
<1>2. CASE AssertZero
  <2>1. cnt = 0
    BY <1>2 DEF AssertZero, DemoInv, Flag, Signaled, Consumed
  <2>2. MainGoes("create")
    BY <1>2, <2>1 DEF AssertZero
  <2>3. QED
    BY <2>2, GoesKeeps
<1>3. CASE Join
  <2>1. NextPart
    BY <1>3, CountIsExpected DEF Join
  <2>2. \/ \E r \in 1..Rounds, p \in {"rwlock", "spinlock", "cond", "sem"} : Begin(r, p)
        \/ MainGoes("exited")
    <3>1. round \in 1..Rounds /\ part \in {"rwlock", "spinlock", "cond", "sem"}
      BY <1>1 DEF TypeOK
    <3>2. round < Rounds => round + 1 \in 1..Rounds
      BY <3>1
    <3>3. QED
      BY <2>1, <3>1, <3>2 DEF NextPart
  <2>3. CASE MainGoes("exited")
    BY <2>3, GoesKeeps
  <2>4. ASSUME NEW r \in 1..Rounds, NEW p \in {"rwlock", "spinlock", "cond", "sem"}, Begin(r, p)
        PROVE  DemoInv'
    <3>1. Fresh'
      BY <2>4 DEF Begin, Fresh
    <3>2. QED
      BY <3>1, FreshIsGood, PTL
  <2>5. QED
    BY <2>2, <2>3, <2>4
<1>4. CASE \E t \in Threads : Create(t)
  BY <1>4, CreateKeeps
<1>5. QED
  BY <1>2, <1>3, <1>4 DEF MainStep

-----------------------------------------------------------------------------
(* DemoInv is an inductive invariant of the four programs. *)
THEOREM DemoInvariant == Spec => []DemoInv
<1>1. Init => DemoInv
  <2>1. Init => Fresh
    BY Groups DEF Init, Fresh
  <2>2. QED
    BY <2>1, FreshIsGood
<1>2. DemoInv /\ [Next]_vars => DemoInv'
  <2> SUFFICES ASSUME DemoInv, [Next]_vars PROVE DemoInv'
    OBVIOUS
  <2>1. CASE UNCHANGED vars
    <3>1. UNCHANGED <<round, part, mpc, tpc, i, reg, reading, owner, condition, asleep, spurious, sem, cnt>>
      BY <2>1 DEF vars, mainVars, lockVars, condVars
    <3>2. AssertionsHold' = AssertionsHold /\ Control' = Control /\ LockedCount' = LockedCount
      BY <3>1 DEF AssertionsHold, TypeOK, Control, Places, Stands, Exclusion, HasLock, RoundsDone,
                  LockedCount, Stored, Writers
    <3>3. SemCount' = SemCount /\ Flag' = Flag /\ SignalNotLost' = SignalNotLost
      BY <3>1 DEF SemCount, Flag, Signaled, Consumed, SignalNotLost
    <3>4. PostsKept' = PostsKept
      BY <3>1 DEF PostsKept, Counting
    <3>5. WakeupsArrive => SignalNotLost /\ PostsKept
      BY PostsAccountedIs DEF WakeupsArrive
    <3>6. SignalNotLost' /\ PostsKept' => WakeupsArrive'
      <4>1. PostsKept' => PostsAccounted'
        BY PostsAccountedIs, PTL
      <4>2. QED
        BY <4>1 DEF WakeupsArrive
    <3>7. QED
      BY <3>2, <3>3, <3>4, <3>5, <3>6 DEF DemoInv
  <2>2. CASE Next
    BY <2>2, MainKeeps, SpuriousKeeps, ThreadKeeps DEF Next
  <2>3. QED
    BY <2>1, <2>2
<1>3. QED
  BY <1>1, <1>2, PTL DEF Spec

(* No assertion of pthread_lock_cond_sem.c fails: no increment under a     *)
(* lock is lost, the waiter counts once and after the signal, and each     *)
(* post is waited for once.                                                *)
THEOREM AssertionsAlwaysHold == Spec => []AssertionsHold
<1>1. DemoInv => AssertionsHold
  BY DEF DemoInv
<1>2. QED
  BY <1>1, DemoInvariant, PTL

(* Neither the signal nor a post is lost, however early or late it comes.  *)
THEOREM WakeupsAlwaysArrive == Spec => []WakeupsArrive
<1>1. DemoInv => WakeupsArrive
  BY DEF DemoInv
<1>2. QED
  BY <1>1, DemoInvariant, PTL

=============================================================================
