------------------------------ MODULE SeqLists ------------------------------
(***************************************************************************)
(* What list.h promises: each list is a sequence of distinct nodes, a node *)
(* is in one list at most, and a call changes the lists as its name and    *)
(* its arguments say.                                                      *)
(***************************************************************************)
EXTENDS SequencesExt

CONSTANTS Heads, Nodes, Null

VARIABLES order,   \* the nodes of each list, in order
          call     \* the last call: its name, its arguments, and the node it returned

listsVars == <<order, call>>

Used == UNION {Range(order[h]) : h \in Heads}

ListsInit ==
  /\ order = [h \in Heads |-> <<>>]
  /\ call = <<"none">>

AddHead(h, n) ==
  /\ n \notin Used
  /\ order' = [order EXCEPT ![h] = <<n>> \o @]
  /\ call' = <<"list_add", h, n>>

AddTail(h, n) ==
  /\ n \notin Used
  /\ order' = [order EXCEPT ![h] = Append(@, n)]
  /\ call' = <<"list_add_tail", h, n>>

RemoveFrom(h, n) ==
  \E i \in DOMAIN order[h] :
    order[h][i] = n /\ order' = [order EXCEPT ![h] = RemoveAt(@, i)]

(* Whatever list the node is in; nothing if it is in none. *)
Delete(n) ==
  /\ (n \notin Used /\ UNCHANGED order) \/ \E h \in Heads : RemoveFrom(h, n)
  /\ call' = <<"list_del", n>>

RemoveHead(h) ==
  /\ order[h] # <<>>
  /\ order' = [order EXCEPT ![h] = Tail(@)]
  /\ call' = <<"list_remove_head", h, Head(order[h])>>

RemoveHeadEmpty(h) ==
  /\ order[h] = <<>>
  /\ call' = <<"list_remove_head", h, Null>>
  /\ UNCHANGED order

ListsNext ==
  \/ \E h \in Heads, n \in Nodes : AddHead(h, n) \/ AddTail(h, n)
  \/ \E n \in Nodes : Delete(n)
  \/ \E h \in Heads : RemoveHead(h) \/ RemoveHeadEmpty(h)

ListsSpec == ListsInit /\ [][ListsNext]_listsVars

=============================================================================
