---------------------------- MODULE CondClients -----------------------------
(***************************************************************************)
(* Threads that call cond_wakeup and cond_wait of one Cond in any order,   *)
(* each a bounded number of times, and the proof obligation that the Cond  *)
(* is a counting semaphore to them.                                        *)
(***************************************************************************)
EXTENDS Cond

CONSTANT MaxCalls   \* bound: calls one thread makes in one behaviour

ASSUME CallsAssumption == MaxCalls \in Nat

VARIABLE calls      \* calls each thread has made so far

clientsVars == <<condVars, calls>>

ClientsInit ==
  /\ CondInit
  /\ calls = [t \in Threads |-> 0]

ClientsCall(t) ==
  /\ calls[t] < MaxCalls
  /\ calls' = [calls EXCEPT ![t] = @ + 1]
  /\ CallWakeup(t) \/ CallWait(t)

ClientsStep(t) == CondStep(t) /\ UNCHANGED calls

ClientsSpurious(t) == SpuriousWakeup(t) /\ UNCHANGED calls

ClientsNext == \E t \in Threads : ClientsCall(t) \/ ClientsStep(t) \/ ClientsSpurious(t)

(* A thread inside cond_wakeup or cond_wait is scheduled again and again.  *)
(* Nothing is assumed of the order in which the mutex is granted: calls    *)
(* and spurious wakeups are finitely many, so the mutex is free for good   *)
(* in the end.  Callers may stop calling, and spurious wakeups need not    *)
(* happen.                                                                 *)
ClientsFairness == \A t \in Threads : WF_clientsVars(ClientsStep(t))

ClientsSpec == ClientsInit /\ [][ClientsNext]_clientsVars /\ ClientsFairness

-----------------------------------------------------------------------------
ClientsTypeOK == CondTypeOK /\ calls \in [Threads -> 0..MaxCalls]

(* The inductive invariant of the Cond under any clients. *)
ClientsInv == ClientsTypeOK /\ CondInv

(* The abstract operation a thread has pending: cond_wakeup takes effect   *)
(* when it increments cnt, cond_wait when it decrements it.                *)
PendingOp(t) ==
  IF cpc[t] \in {"wakeup_lock", "wakeup_inc"} THEN "post"
  ELSE IF cpc[t] \in WaitSteps \ {"wait_unlock"} THEN "take"
  ELSE "none"

Sem == INSTANCE Semaphore
         WITH permits <- cnt, op <- [t \in Threads |-> PendingOp(t)]

(* cond.h implements the counting semaphore: every cond_wait that returns  *)
(* has consumed one cond_wakeup, and a wakeup is not left in the counter   *)
(* for ever while a thread waits.                                          *)
ImplementsSemaphore == Sem!SemSpec

=============================================================================
