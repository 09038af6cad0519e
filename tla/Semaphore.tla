----------------------------- MODULE Semaphore ------------------------------
(***************************************************************************)
(* What cond.h promises its callers: a counting semaphore.  A wakeup adds  *)
(* one permit, a wait takes one permit and does not return without it, and *)
(* a permit does not stay untaken while somebody waits.                    *)
(***************************************************************************)
EXTENDS Naturals

CONSTANT Threads

VARIABLES permits,   \* permits not taken yet
          op         \* what each thread has asked for and not obtained yet

semVars == <<permits, op>>

SemInit ==
  /\ permits = 0
  /\ op = [t \in Threads |-> "none"]

Request(t) ==
  /\ op[t] = "none"
  /\ \E o \in {"post", "take"} : op' = [op EXCEPT ![t] = o]
  /\ UNCHANGED permits

Post(t) ==
  /\ op[t] = "post"
  /\ op' = [op EXCEPT ![t] = "none"]
  /\ permits' = permits + 1

Take(t) ==
  /\ op[t] = "take"
  /\ permits > 0
  /\ op' = [op EXCEPT ![t] = "none"]
  /\ permits' = permits - 1

SemNext == \E t \in Threads : Request(t) \/ Post(t) \/ Take(t)

(* A post always completes.  Some waiting thread, not a given one, obtains *)
(* an available permit: neither pthread mutexes nor condition variables    *)
(* are first-in-first-out.                                                 *)
SemFairness ==
  /\ \A t \in Threads : WF_semVars(Post(t))
  /\ WF_semVars(\E t \in Threads : Take(t))

SemSafety == SemInit /\ [][SemNext]_semVars

SemSpec == SemSafety /\ SemFairness

=============================================================================
