------------------------------- MODULE MCDict -------------------------------
(* Two buckets; the keys are numbers with chains of three and of one.      *)
EXTENDS Dict, TLC

DictSymmetry == Permutations(Entries)

=============================================================================
