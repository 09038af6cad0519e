------------------------- MODULE MCThreadQueueMain --------------------------
(* The main of thread_queue.c with one task more than the source's two.    *)
EXTENDS ThreadQueueMain

CONSTANTS k1, k2, k3

ThreeTasks == <<k1, k2, k3>>

=============================================================================
