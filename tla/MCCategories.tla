---------------------------- MODULE MCCategories ----------------------------
(* Small instances of Categories. *)
EXTENDS Categories, TLC

IdSymmetry == Permutations(Ids) \cup Permutations(Writers)
=============================================================================
