--------------------------- MODULE IntrusiveList ----------------------------
(***************************************************************************)
(* src/clib/list.h: circular doubly linked lists whose links are embedded  *)
(* in the nodes.  The memory is two functions, next and prev, over the     *)
(* cells: the list heads and the nodes.  An action is a call of a function *)
(* of list.h by one thread (callers hold a lock, or the list is their      *)
(* own); the order of the stores inside a call is that of the EXCEPTs.     *)
(* A list_for_each loop may be under way, whose body calls the functions.  *)
(***************************************************************************)
EXTENDS Naturals, FiniteSets

CONSTANTS Heads,     \* list heads, initialised by list_init
          Nodes,     \* nodes, never initialised by list_init before they are added
          Null       \* the NULL pointer

Cells == Heads \cup Nodes

ASSUME ListAssumption ==
  /\ Heads \cap Nodes = {}
  /\ Null \notin Cells
  /\ IsFiniteSet(Cells)

VARIABLES next, prev,   \* the links of each cell
          pos,          \* list_for_each: the cell the loop is at, or Null outside a loop
          loopHead,     \* the head of the list being traversed, or Null
          visited,      \* history: the nodes the loop has been at
          stayed,       \* history: nodes in that list since the loop began
          call          \* history: the last call that could change a list, and its answer

links == <<next, prev>>
loop  == <<pos, loopHead, visited>>
vars  == <<links, loop, stayed, call>>

(* A node that is in no list: never added, or linked to itself by list_del.*)
Free(n) == next[n] \in {Null, n}

Init ==
  /\ next = [c \in Cells |-> IF c \in Heads THEN c ELSE Null]
  /\ prev = [c \in Cells |-> IF c \in Heads THEN c ELSE Null]
  /\ pos = Null
  /\ loopHead = Null
  /\ visited = {}
  /\ stayed = {}
  /\ call = <<"none">>

-----------------------------------------------------------------------------
(* Mutant: the head's next is overwritten before it is read. *)
ListAddEarlyStore(l, n) ==
  /\ Free(n)
  /\ next' = [next EXCEPT ![l] = n, ![n] = n]
  /\ prev' = [prev EXCEPT ![n] = l]
  /\ call' = <<"list_add", l, n>>
  /\ UNCHANGED <<loop, stayed>>

(* list_add: after the head.  A caller adds a node that is in no list.     *)
ListAdd(l, n) ==
  /\ Free(n)
  /\ prev' = [prev EXCEPT ![next[l]] = n, ![n] = l]
  /\ next' = [next EXCEPT ![n] = next[l], ![l] = n]
  /\ call' = <<"list_add", l, n>>
  /\ UNCHANGED <<loop, stayed>>

(* Mutant: the new last node leads to the first node, past the head. *)
ListAddTailPastHead(l, n) ==
  /\ Free(n)
  /\ next' = [next EXCEPT ![prev[l]] = n, ![n] = IF next[l] = l THEN l ELSE next[l]]
  /\ prev' = [prev EXCEPT ![n] = prev[l], ![l] = n]
  /\ call' = <<"list_add_tail", l, n>>
  /\ UNCHANGED <<loop, stayed>>

(* list_add_tail: before the head. *)
ListAddTail(l, n) ==
  /\ Free(n)
  /\ next' = [next EXCEPT ![prev[l]] = n, ![n] = l]
  /\ prev' = [prev EXCEPT ![n] = prev[l], ![l] = n]
  /\ call' = <<"list_add_tail", l, n>>
  /\ UNCHANGED <<loop, stayed>>

(* The stores of list_del, which ends by linking the node to itself.       *)
Unlink(n) ==
  /\ prev' = [prev EXCEPT ![next[n]] = prev[n], ![n] = n]
  /\ next' = [next EXCEPT ![prev[n]] = next[n], ![n] = n]
  /\ stayed' = stayed \ {n}

(* list_del of a node that has been added once; it may be in no list any   *)
(* more.  A loop body does not delete the node the loop is at: the loop    *)
(* would not leave it again.                                               *)
ListDel(n) ==
  /\ next[n] # Null
  /\ n # pos
  /\ Unlink(n)
  /\ call' = <<"list_del", n>>
  /\ UNCHANGED loop

ListEmpty(l) == next[l] = l

(* Mutant: the node before the head is the first. *)
FirstIsPrev(l) == prev[l]

(* The node list_remove_head takes out and returns. *)
First(l) == next[l]

ListRemoveHead(l) ==
  /\ ~ListEmpty(l)
  /\ First(l) # pos
  /\ Unlink(First(l))
  /\ call' = <<"list_remove_head", l, First(l)>>
  /\ UNCHANGED loop

ListRemoveHeadEmpty(l) ==
  /\ ListEmpty(l)
  /\ call' = <<"list_remove_head", l, Null>>
  /\ UNCHANGED <<links, loop, stayed>>

-----------------------------------------------------------------------------
(* The cells next leads to from the head of list l, and the nodes met      *)
(* before the head comes back.                                             *)
Steps == 0..Cardinality(Cells)

Walk(l) ==
  LET w[i \in Steps] == IF i = 0 THEN next[l] ELSE next[w[i - 1]]
  IN  w

Members(l) == {Walk(l)[i] : i \in Steps} \ {l}

Size(l) == CHOOSE i \in Steps : Walk(l)[i] = l /\ \A j \in 0..(i - 1) : Walk(l)[j] # l

Contents(l) == [i \in 1..Size(l) |-> Walk(l)[i - 1]]

-----------------------------------------------------------------------------
(* list_for_each *)
ForEachBegin(l) ==
  /\ pos = Null
  /\ pos' = next[l]
  /\ loopHead' = l
  /\ visited' = {next[l]}
  /\ stayed' = Members(l)
  /\ UNCHANGED <<links, call>>

(* Mutant: the loop advances twice, unless the head is next. *)
ForEachNextTwice ==
  /\ pos \notin {Null, loopHead}
  /\ pos' = IF next[pos] = loopHead THEN loopHead ELSE next[next[pos]]
  /\ visited' = visited \cup {pos'}
  /\ UNCHANGED <<links, loopHead, stayed, call>>

ForEachNext ==
  /\ pos \notin {Null, loopHead}
  /\ pos' = next[pos]
  /\ visited' = visited \cup {next[pos]}
  /\ UNCHANGED <<links, loopHead, stayed, call>>

ForEachEnd ==
  /\ pos # Null /\ pos = loopHead
  /\ pos' = Null
  /\ loopHead' = Null
  /\ visited' = {}
  /\ stayed' = {}
  /\ UNCHANGED <<links, call>>

Next ==
  \/ \E l \in Heads, n \in Nodes : ListAdd(l, n) \/ ListAddTail(l, n)
  \/ \E n \in Nodes : ListDel(n)
  \/ \E l \in Heads : ListRemoveHead(l) \/ ListRemoveHeadEmpty(l) \/ ForEachBegin(l)
  \/ ForEachNext \/ ForEachEnd

Spec == Init /\ [][Next]_vars

-----------------------------------------------------------------------------
LinkType ==
  /\ next \in [Cells -> Cells \cup {Null}]
  /\ prev \in [Cells -> Cells \cup {Null}]

Calls ==
  {<<"none">>} \cup ({"list_add", "list_add_tail"} \X Heads \X Nodes)
    \cup ({"list_del"} \X Nodes) \cup ({"list_remove_head"} \X Heads \X (Cells \cup {Null}))

TypeOK ==
  /\ LinkType
  /\ call \in Calls
  /\ pos \in Cells \cup {Null}
  /\ loopHead \in Heads \cup {Null}
  /\ visited \subseteq Cells
  /\ stayed \subseteq Nodes

(* The links of a cell that has been linked are never dangling, and next   *)
(* and prev are each other's inverse.                                      *)
InverseLinks ==
  /\ \A h \in Heads : next[h] # Null
  /\ \A c \in Cells :
       /\ next[c] = Null <=> prev[c] = Null
       /\ next[c] # Null => prev[next[c]] = c /\ next[prev[c]] = c

(* A loop that ends has met every node that was in the list all along.     *)
LoopComplete ==
  TypeOK /\ (pos # Null /\ pos = loopHead => stayed \subseteq visited)

(* ... and meets none of them twice. *)
LoopMeetsOnce ==
  [][ForEachNext => pos' \notin visited \cap stayed]_vars

(* list.h implements sequences: the lists are disjoint, and each call does *)
(* to them what its name and its arguments say.  list_add puts its node    *)
(* first in the list it names, list_add_tail last, list_remove_head takes  *)
(* out and returns the first, and a second list_del of a node changes      *)
(* nothing; no call changes another list.                                  *)
Seqs == INSTANCE SeqLists WITH order <- [h \in Heads |-> Contents(h)]

ImplementsSeqLists == Seqs!ListsSpec

=============================================================================
