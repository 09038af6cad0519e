----------------------------- MODULE ValueHeap ------------------------------
(***************************************************************************)
(* The two heap programs of the repository: src/clib/heap_interface.c, for *)
(* nodes that a caller owns, and its earlier version src/clib/heap.c,      *)
(* which holds values and allocates and frees a node for each.  The tree   *)
(* and the loops of module Heap are common to both.  A node of heap.c is a *)
(* block of memory with the value stored in it.                            *)
(***************************************************************************)
EXTENDS Heap

CONSTANTS Blocks,    \* the memory heap.c allocates nodes from
          Values,
          Embedded   \* the nodes of a caller of heap_interface.c

ASSUME ValueHeapAssumption == Blocks \X Values \subseteq Nodes /\ Embedded \subseteq Nodes

VARIABLES program,   \* the program that runs: "heap_interface.c" or "heap.c"
          allocated  \* the blocks malloc has given to heap.c

heapVars == <<program, allocated, treeVars>>

HeapInit ==
  /\ HeapCreate
  /\ program \in {"heap_interface.c", "heap.c"}
  /\ allocated = {}

ByCaller == program = "heap_interface.c" /\ UNCHANGED <<program, allocated>>
ByValue  == program = "heap.c" /\ UNCHANGED program

-----------------------------------------------------------------------------
(* heap.c: heapAdd.  When malloc fails it returns ERR and nothing changes. *)
AddValue(b, v) ==
  /\ ByValue
  /\ b \notin allocated
  /\ HeapAddFirst(<<b, v>>) \/ HeapAdd(<<b, v>>)
  /\ allocated' = allocated \cup {b}

AdjustUp == ByValue /\ (MoveUp \/ AdjustUpEnds) /\ UNCHANGED allocated

(* Mutant: the node that takes the root's place is freed. *)
FreedLast(n) == root'

(* The node heapGet frees is the one whose value it hands out. *)
FreedNode(n) == n

(* heap.c: heapGet, up to the call of heapAdjustDown. *)
GetValue ==
  /\ ByValue
  /\ HeapGet
  /\ allocated' = {b \in allocated : FreedNode(got') = Null \/ b # FreedNode(got')[1]}

GetValueEmpty == ByValue /\ HeapGetEmpty /\ UNCHANGED allocated

AdjustDown == ByValue /\ (MoveDown \/ AdjustDownEnds) /\ UNCHANGED allocated

-----------------------------------------------------------------------------
HeapNext ==
  \/ ByCaller /\ \E n \in Embedded : HeapAddFirst(n) \/ HeapAdd(n)
  \/ ByCaller /\ (MoveUp \/ AdjustUpEnds)
  \/ ByCaller /\ (HeapGet \/ HeapGetEmpty)
  \/ ByCaller /\ (MoveDown \/ AdjustDownEnds)
  \/ ByCaller /\ (HeapDestruct \/ HeapFree)
  \/ \E b \in Blocks, v \in Values : AddValue(b, v)
  \/ AdjustUp
  \/ GetValue \/ GetValueEmpty
  \/ AdjustDown

(* A call goes on to its end. *)
HeapSpec ==
  /\ HeapInit /\ [][HeapNext]_heapVars
  /\ WF_heapVars(ByCaller /\ (MoveUp \/ AdjustUpEnds \/ MoveDown \/ AdjustDownEnds))
  /\ WF_heapVars(AdjustUp \/ AdjustDown)

-----------------------------------------------------------------------------
(* The memory of heap.c is exactly that of the nodes in the tree: none is  *)
(* lost, freed twice or still linked when it is freed, also between two    *)
(* rounds of the loops.  The caller of heap_interface.c owns its nodes.    *)
OwnedNodes ==
  /\ program \in {"heap_interface.c", "heap.c"}
  /\ program = "heap.c" =>
       /\ allocated = {n[1] : n \in Members}
       /\ Cardinality(allocated) = cnt
  /\ program = "heap_interface.c" => allocated = {}

=============================================================================
