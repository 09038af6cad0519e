----------------------------- MODULE MCSemRing ------------------------------
(* Fewer numbers on a line than in the source, which change nothing after  *)
(* the first round of the ring; TEST_NUM is more than THREAD_NUM, so that  *)
(* the first thread's turn comes again.                                    *)
EXTENDS SemRing

=============================================================================
