------------------------------ MODULE MCGoals ------------------------------
(* Small instances of Goals. *)
EXTENDS Goals, TLC

RowSymmetry == Permutations(ContributionIds) \cup Permutations(Requests)
=============================================================================
