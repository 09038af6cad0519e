--------------------------- MODULE PriorityQueue ----------------------------
(***************************************************************************)
(* What the heap promises: a set of nodes from which a greatest one, in    *)
(* the order of the caller's comparison, is removed.                       *)
(***************************************************************************)
EXTENDS Integers

CONSTANTS Nodes, Priority, Null

VARIABLES members,   \* the nodes in the queue
          got        \* the node the last call returned, or Null

pqVars == <<members, got>>

QueueInit == members = {} /\ got = Null

Insert(n) ==
  /\ n \notin members
  /\ members' = members \cup {n}
  /\ got' = Null

RemoveGreatest(n) ==
  /\ n \in members
  /\ \A m \in members : Priority[m] <= Priority[n]
  /\ members' = members \ {n}
  /\ got' = n

FindEmpty == members = {} /\ got' = Null /\ UNCHANGED members

QueueNext == FindEmpty \/ \E n \in Nodes : Insert(n) \/ RemoveGreatest(n)

QueueSpec == QueueInit /\ [][QueueNext]_pqVars

=============================================================================
