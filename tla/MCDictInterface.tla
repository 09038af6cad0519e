-------------------------- MODULE MCDictInterface ---------------------------
(* Three texts and three integers: of each, two in one bucket and one in   *)
(* the last of four.                                                       *)
EXTENDS DictInterface, TLC

CONSTANTS ta, tb, tc

MCHash == ta :> 1 @@ tb :> 5 @@ tc :> 3 @@ 10 :> 2 @@ 20 :> 6 @@ 30 :> 7

MCBytes == ta :> 2 @@ tb :> 1 @@ tc :> 3

StringSymmetry == Permutations(Strings)

=============================================================================
