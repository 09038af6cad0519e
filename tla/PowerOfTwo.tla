----------------------------- MODULE PowerOfTwo -----------------------------
(***************************************************************************)
(* nextPowerOfTwo of src/clib/kfifo.c, which kfifo_init calls, and the     *)
(* masks kfifo_put and kfifo_get index with.  A number of W bits is the    *)
(* set of its bits.  The argument is an unsigned int that the call         *)
(* converts to int: with the highest bit it is negative.                   *)
(***************************************************************************)
EXTENDS Integers, SequencesExt, FiniteSetsExt

CONSTANT W     \* bits of an int

ASSUME WidthAssumption == W \in Nat /\ W >= 2

Sign == W - 1

Bits(n) == {b \in 0..Sign : (n \div 2^b) % 2 = 1}

Number(bits) == MapThenSumSet(LAMBDA b : 2^b, bits)

(* n |= (n >> s), where a shift to the right keeps the sign. *)
OrShifted(bits, s) ==
  bits \cup {b \in 0..Sign : b + s \in bits}
       \cup {b \in 0..Sign : Sign \in bits /\ b + s > Sign}

(* Mutant: the shifts a 16-bit int needs. *)
ShortShifts == <<1, 1, 2, 4, 8>>

(* The right operands of the shifts, in order. *)
Shifts == <<1, 1, 2, 4, 8, 16>>

NextPowerOfTwo(n) ==
  IF n = 0 THEN 1 ELSE (Number(FoldLeft(OrShifted, Bits(n - 1), Shifts)) + 1) % 2^W

(* i & mask *)
Masked(i, mask) == Number(Bits(i) \cap Bits(mask))

-----------------------------------------------------------------------------
PowersOfTwo == {2^k : k \in 0..Sign}

(* The smallest power of two that holds n; 0 is rounded up to 1.           *)
IsLeastPower(p, n) == p \in PowersOfTwo /\ p >= n /\ \A q \in PowersOfTwo : q >= n => q >= p

=============================================================================
