---------------------------- MODULE MCRecurring ----------------------------
(* Small instances of Recurring. *)
EXTENDS Recurring, TLC

PassSymmetry == Permutations(Passes)
=============================================================================
