------------------------------ MODULE MCKfifo -------------------------------
(* The counters wrap: MaxBytes is more than twice M.  MaxWant is more than *)
(* the size, so that puts and gets are cut short.                          *)
EXTENDS Kfifo

(* All small sizes, main's 588, and those next to a power of two.          *)
MCRequests ==
  (0..300) \cup {588} \cup {2^k + d : k \in 2..(W - 3), d \in {-1, 0, 1}}
    \cup {2^(W - 2) - 1, 2^(W - 2)}

MCIndices == (0..9) \cup {2^k + d : k \in 4..(W - 1), d \in {-1, 3}} \cup {2^W - 1}

=============================================================================
