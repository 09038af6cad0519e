------------------------------ MODULE Recency -------------------------------
(***************************************************************************)
(* What an LRU cache promises: a map of at most Capacity keys, in the      *)
(* order of their last use; Put stores the value it is called with, Find   *)
(* answers with it, and a new key that does not fit displaces the one that *)
(* has not been used for longest.                                          *)
(***************************************************************************)
EXTENDS SequencesExt

CONSTANTS Keys, Vals, Capacity, Null

VARIABLES order,   \* the keys, the last one used first
          value,   \* the value of each of them
          ret      \* the last call: <<"add", key, value>>, or <<"get", key, value or Null>>

recencyVars == <<order, value, ret>>

RecencyInit == order = <<>> /\ value = <<>> /\ ret = <<"none">>

(* A use of k, which is there. *)
Touch(k) == \E i \in DOMAIN order : order[i] = k /\ order' = <<k>> \o RemoveAt(order, i)

Enter(k) ==
  /\ k \notin Range(order)
  /\ order' = <<k>> \o IF Len(order) < Capacity THEN order ELSE Front(order)

Put(k, v) ==
  /\ Touch(k) \/ Enter(k)
  /\ value' = [x \in Range(order') |-> IF x = k THEN v ELSE value[x]]
  /\ ret' = <<"add", k, v>>

Find(k) ==
  /\ Touch(k)
  /\ ret' = <<"get", k, value[k]>>
  /\ UNCHANGED value

Miss(k) ==
  /\ k \notin Range(order)
  /\ ret' = <<"get", k, Null>>
  /\ UNCHANGED <<order, value>>

RecencyNext == \E k \in Keys : Find(k) \/ Miss(k) \/ \E v \in Vals : Put(k, v)

RecencySpec == RecencyInit /\ [][RecencyNext]_recencyVars

=============================================================================
