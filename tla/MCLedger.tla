------------------------------ MODULE MCLedger ------------------------------
(* Instances of the ledger for TLC. *)
EXTENDS Ledger, TLC

MCOpenings == {0}
MCOpeningsAtLimit == {0, MaxMinor}

\* Row ids, requests and accounts are interchangeable.
RowSymmetry == Permutations(TxnIds) \cup Permutations(Requests) \cup Permutations(Accounts)
               \cup Permutations(TransferIds)

=============================================================================
