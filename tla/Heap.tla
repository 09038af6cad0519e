-------------------------------- MODULE Heap --------------------------------
(***************************************************************************)
(* src/clib/heap_interface.c: a binary heap as a complete binary tree of   *)
(* nodes linked by parent, left and right pointers, which are embedded in  *)
(* the caller's nodes.  A position in the tree is reached from the root by *)
(* the bits of its number.  An operation is the step that links or unlinks *)
(* a node, followed by one step for each round of the loop that restores   *)
(* the order; node is that loop's variable.  ValueHeap has the programs    *)
(* that these steps belong to.                                             *)
(***************************************************************************)
EXTENDS Integers, FiniteSets

CONSTANTS Nodes,
          Priority,   \* heap->cmp(a, b) is the sign of Priority[a] - Priority[b]
          Null        \* the NULL pointer

ASSUME HeapAssumption ==
  /\ IsFiniteSet(Nodes) /\ Null \notin Nodes
  /\ Priority \in [Nodes -> Int]

VARIABLES parent, left, right,   \* the links of each node
          root, cnt,             \* the Heap
          pc,                    \* "idle", "up", "down" or "freed"
          node,                  \* the node being moved up or down, or Null
          destroying,            \* heapDestruct is under way
          got                    \* what the last heapGet returned

links    == <<parent, left, right>>
treeVars == <<links, root, cnt, pc, node, destroying, got>>

(* heapCreate, when malloc succeeds *)
HeapCreate ==
  /\ parent = [n \in Nodes |-> Null]
  /\ left = [n \in Nodes |-> Null]
  /\ right = [n \in Nodes |-> Null]
  /\ root = Null /\ cnt = 0
  /\ pc = "idle" /\ node = Null
  /\ destroying = FALSE
  /\ got = Null

(* heap->cmp(a, b) *)
Cmp(a, b) == Priority[a] - Priority[b]

(* heapGetOffset: the weight of the second highest bit of k, or 0; offset  *)
(* is doubled until it exceeds half of k.                                  *)
HeapGetOffset(k) ==
  LET from[offset \in 1..k] == IF offset > k \div 2 THEN offset \div 2 ELSE from[2 * offset]
  IN  from[1]

(* The node the bits of k below the highest one lead to. *)
Position(k) ==
  LET reach[offset \in 1..(2 * k)] ==
        IF offset > HeapGetOffset(k) THEN root
        ELSE IF (k \div offset) % 2 = 1 THEN right[reach[2 * offset]]
                                        ELSE left[reach[2 * offset]]
  IN  reach[1]

Linked == {Position(k) : k \in 1..cnt}

(* A store to a link of node c, unless c is NULL. *)
Store(link, c, v) == IF c = Null THEN link ELSE [link EXCEPT ![c] = v]

(* The link of pp to its child p is stored anew: left if that is p, else   *)
(* right if that is p.                                                     *)
AboveL(lf, pp, p, n) == IF pp # Null /\ lf[pp] = p THEN Store(lf, pp, n) ELSE lf

AboveR(lf, rg, pp, p, n) ==
  IF pp # Null /\ lf[pp] # p /\ rg[pp] = p THEN Store(rg, pp, n) ELSE rg

(* The other child of p. *)
Beside(p, n) == IF left[p] = n THEN right[p] ELSE left[p]

(* The stores of a round of heapAdjustUp, in their order: its node n and   *)
(* the parent p change places in the tree.  The old links of both are read *)
(* into locals first.                                                      *)
UpRound(p, n) ==
  LET lf == AboveL(left, parent[p], p, n)
      rg == AboveR(left, right, parent[p], p, n)
      pa == Store([parent EXCEPT ![n] = parent[p]], Beside(p, n), n)
  IN  /\ left' = [lf EXCEPT ![n] = IF left[p] = n THEN p ELSE Beside(p, n), ![p] = left[n]]
      /\ right' = [rg EXCEPT ![n] = IF left[p] = n THEN Beside(p, n) ELSE p, ![p] = right[n]]
      /\ parent' = Store(Store([pa EXCEPT ![p] = n], left[n], p), right[n], p)

(* Mutant: the links of n are stored before its children are visited. *)
DownParentsLate(lf, rg, p, n) ==
  LET pa == Store(Store([parent EXCEPT ![p] = n], p, p), Beside(p, n), p)
  IN  Store([pa EXCEPT ![n] = parent[p]], Beside(p, n), n)

(* The stores to parent of a round of heapAdjustDown, which reads the      *)
(* children of n through its links lf and rg in the middle of the round.   *)
DownParents(lf, rg, p, n) ==
  LET pa == Store(Store([parent EXCEPT ![p] = n], lf[n], p), rg[n], p)
  IN  Store([pa EXCEPT ![n] = parent[p]], Beside(p, n), n)

(* ... and all its stores: the node p and its child n change places.       *)
DownRound(p, n) ==
  LET lf0 == [left EXCEPT ![p] = left[n]]
      rg0 == [right EXCEPT ![p] = right[n]]
      lf  == AboveL(lf0, parent[p], p, n)
      rg  == AboveR(lf0, rg0, parent[p], p, n)
  IN  /\ parent' = DownParents(lf, rg, p, n)
      /\ left' = [lf EXCEPT ![n] = IF left[p] = n THEN p ELSE Beside(p, n)]
      /\ right' = [rg EXCEPT ![n] = IF left[p] = n THEN Beside(p, n) ELSE p]

-----------------------------------------------------------------------------
(* heapAdd of a node that is not in the heap, up to the call of            *)
(* heapAdjustUp.  The first node does not need it.                         *)
HeapAddFirst(n) ==
  /\ pc = "idle" /\ ~destroying
  /\ root = Null
  /\ parent' = [parent EXCEPT ![n] = Null]
  /\ left' = [left EXCEPT ![n] = Null]
  /\ right' = [right EXCEPT ![n] = Null]
  /\ root' = n
  /\ cnt' = cnt + 1
  /\ got' = Null
  /\ UNCHANGED <<pc, node, destroying>>

HeapAdd(n) ==
  /\ pc = "idle" /\ ~destroying
  /\ root # Null /\ n \notin Linked
  /\ LET now == Position((cnt + 1) \div 2)
     IN  /\ parent' = [parent EXCEPT ![n] = now]
         /\ IF (cnt + 1) % 2 = 0
              THEN /\ left' = [left EXCEPT ![n] = Null, ![now] = n]
                   /\ right' = [right EXCEPT ![n] = Null]
              ELSE /\ left' = [left EXCEPT ![n] = Null]
                   /\ right' = [right EXCEPT ![n] = Null, ![now] = n]
  /\ cnt' = cnt + 1
  /\ pc' = "up" /\ node' = n
  /\ got' = Null
  /\ UNCHANGED <<root, destroying>>

(* A round of heapAdjustUp. *)
MoveUp ==
  /\ pc = "up"
  /\ parent[node] # Null /\ Cmp(parent[node], node) < 0
  /\ UpRound(parent[node], node)
  /\ UNCHANGED <<root, cnt, pc, node, destroying, got>>

(* Mutant: the root pointer is left as it is. *)
RootAfterUpIsOld == root

RootAfterUp == IF parent[node] = Null THEN node ELSE root

AdjustUpEnds ==
  /\ pc = "up"
  /\ parent[node] # Null => Cmp(parent[node], node) >= 0
  /\ root' = RootAfterUp
  /\ pc' = "idle" /\ node' = Null
  /\ UNCHANGED <<links, cnt, destroying, got>>

-----------------------------------------------------------------------------
(* heapGet, up to the call of heapAdjustDown: the last node takes the      *)
(* root's place.                                                           *)
HeapGet ==
  /\ pc = "idle" /\ root # Null
  /\ LET last   == Position(cnt)
         above  == parent[last]
         cutL   == IF above # Null /\ left[above] = last
                     THEN [left EXCEPT ![above] = Null] ELSE left
         cutR   == IF above # Null /\ left[above] # last /\ right[above] = last
                     THEN [right EXCEPT ![above] = Null] ELSE right
     IN  /\ left' = [cutL EXCEPT ![last] = cutL[root], ![root] = Null]
         /\ right' = [cutR EXCEPT ![last] = cutR[root], ![root] = Null]
         /\ parent' = [c \in Nodes |->
                         IF c \in {last, root} THEN Null
                         ELSE IF c \in {cutL[root], cutR[root]} THEN last ELSE parent[c]]
         /\ root' = IF root = last THEN Null ELSE last
         /\ node' = root'
  /\ cnt' = cnt - 1
  /\ pc' = IF node' = Null THEN "idle" ELSE "down"
  /\ got' = root
  /\ UNCHANGED destroying

HeapGetEmpty ==
  /\ pc = "idle" /\ root = Null /\ ~destroying
  /\ got' = Null
  /\ UNCHANGED <<links, root, cnt, pc, node, destroying>>

(* Mutant: the left child is taken when it is greater than the node. *)
ChildLeftFirst ==
  LET l == left[node]
      r == right[node]
  IN  CASE l # Null /\ Priority[l] > Priority[node] -> l
        [] r # Null /\ Priority[r] > Priority[node] -> r
        [] OTHER -> Null

(* The child heapAdjustDown exchanges the node with: the greater one, the  *)
(* left one of two equals; Null when neither is greater than the node.     *)
Child ==
  LET l == left[node]
      r == right[node]
  IN  IF l # Null /\ r # Null
        THEN IF Cmp(node, l) >= 0 /\ Cmp(node, r) >= 0 THEN Null
             ELSE IF Cmp(node, l) >= 0 THEN r
             ELSE IF Cmp(node, r) >= 0 THEN l
             ELSE IF Cmp(l, r) >= 0 THEN l ELSE r
        ELSE IF l # Null /\ Cmp(node, l) < 0 THEN l
        ELSE IF r # Null /\ Cmp(node, r) < 0 THEN r
        ELSE Null

(* A round of heapAdjustDown. *)
MoveDown ==
  /\ pc = "down"
  /\ Child # Null
  /\ DownRound(node, Child)
  /\ root' = IF root = node THEN Child ELSE root
  /\ UNCHANGED <<cnt, pc, node, destroying, got>>

(* Mutant: the break for a node with one child or none is missing. *)
BreaksWithTwo == Child = Null /\ left[node] # Null /\ right[node] # Null

Breaks == Child = Null

AdjustDownEnds ==
  /\ pc = "down"
  /\ Breaks
  /\ pc' = "idle" /\ node' = Null
  /\ UNCHANGED <<links, root, cnt, destroying, got>>

-----------------------------------------------------------------------------
(* heapDestruct: heapGet until it returns NULL, then free. *)
HeapDestruct ==
  /\ pc = "idle" /\ ~destroying
  /\ destroying' = TRUE
  /\ UNCHANGED <<links, root, cnt, pc, node, got>>

HeapFree ==
  /\ pc = "idle" /\ destroying /\ root = Null
  /\ cnt' = 0
  /\ got' = Null
  /\ pc' = "freed"
  /\ UNCHANGED <<links, root, node, destroying>>

-----------------------------------------------------------------------------
Pointers == Nodes \cup {Null}

HeapTypeOK ==
  /\ {parent, left, right} \subseteq [Nodes -> Pointers]
  /\ root \in Pointers /\ node \in Pointers /\ got \in Pointers
  /\ cnt \in 0..Cardinality(Nodes)
  /\ pc \in {"idle", "up", "down", "freed"}
  /\ destroying \in BOOLEAN

(* The top of the tree.  While a node moves up, the root pointer may lag   *)
(* behind: it is set when the loop ends.                                   *)
Top == IF pc = "up" /\ parent[node] = Null THEN node ELSE root

At(k) ==
  LET at[i \in 1..k] ==
        IF i = 1 THEN Top
        ELSE IF at[i \div 2] = Null THEN Null
        ELSE IF i % 2 = 1 THEN right[at[i \div 2]] ELSE left[at[i \div 2]]
  IN  at[k]

(* The links are those of the complete tree of cnt nodes, between any two  *)
(* rounds of the loops: no node is lost, reached twice or left with a      *)
(* link that its other end does not have.                                  *)
CompleteTree ==
  /\ HeapTypeOK
  /\ root = Null <=> cnt = 0
  /\ \A k \in 1..cnt :
       /\ At(k) # Null
       /\ parent[At(k)] = IF k = 1 THEN Null ELSE At(k \div 2)
       /\ left[At(k)] = IF 2 * k <= cnt THEN At(2 * k) ELSE Null
       /\ right[At(k)] = IF 2 * k + 1 <= cnt THEN At(2 * k + 1) ELSE Null
  /\ \A j, k \in 1..cnt : At(j) = At(k) => j = k

Members == {At(k) : k \in 1..cnt}

(* A node is no greater than its parent, but for the one that is moving;   *)
(* when the heap is idle that is the order heapGet relies on.              *)
HeapOrder ==
  \A n \in Members \ {Top} :
    LET p == parent[n]
    IN  /\ ~(pc = "up" /\ n = node) /\ ~(pc = "down" /\ p = node) => Cmp(p, n) >= 0
        /\ p = node /\ parent[p] # Null => Cmp(parent[p], n) >= 0

(* heap_interface.c implements the priority queue: heapGet returns a       *)
(* greatest node, each node once.                                          *)
Queue == INSTANCE PriorityQueue WITH members <- Members

ImplementsQueue == Queue!QueueSpec

(* Both loops end. *)
EveryCallReturns == []<>(pc \in {"idle", "freed"})

=============================================================================
