---------------------------- MODULE BoundedFifo -----------------------------
(***************************************************************************)
(* What kfifo.c promises one producer and one consumer: a first-in         *)
(* first-out queue of at most Size bytes.  The k-th byte of the stream is  *)
(* called k.                                                               *)
(***************************************************************************)
EXTENDS Naturals, Sequences

CONSTANT Size

VARIABLES held,      \* bytes in the queue
          sent       \* bytes put so far

fifoVars == <<held, sent>>

FifoInit == held = <<>> /\ sent = 0

(* A put of any number of bytes accepts at most what there is room for.    *)
Put(k) ==
  /\ Len(held) + k <= Size
  /\ held' = held \o [i \in 1..k |-> sent + i]
  /\ sent' = sent + k

Get(k) ==
  /\ k <= Len(held)
  /\ held' = SubSeq(held, k + 1, Len(held))
  /\ UNCHANGED sent

FifoNext == \E k \in 1..Size : Put(k) \/ Get(k)

FifoSpec == FifoInit /\ [][FifoNext]_fifoVars

=============================================================================
