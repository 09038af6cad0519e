------------------------------- MODULE MCHeap -------------------------------
(* Six nodes: three levels, the last one with one and with two children    *)
(* under a node.  The caller of heap_interface.c has two nodes of equal    *)
(* priority; heap.c may hold any values.                                   *)
EXTENDS ValueHeap, TLC

CONSTANTS a, b, c, d, e, f

CallersNodes == {<<a, 1>>, <<b, 2>>, <<c, 2>>, <<d, 3>>, <<e, 4>>, <<f, 5>>}
MCNodes      == Blocks \X Values \cup CallersNodes
MCPriority   == [n \in MCNodes |-> n[2]]

=============================================================================
