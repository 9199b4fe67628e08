---------------------------- MODULE AtomicLedger ----------------------------
(***************************************************************************)
(* What the ledger promises its clients: every operation happens at once,  *)
(* an instalment group is entered and removed as a whole, and the balance  *)
(* of an account is at every moment its opening balance plus its rows.     *)
(***************************************************************************)
EXTENDS LedgerRows

VARIABLES accounts, opening, balance, txns, transfers

vars == <<accounts, opening, balance, txns, transfers>>

Known(a) == accounts[a] # "none"

\* The balance column is what the rows say, and it fits its INT column.
Balanced == /\ balance' = [a \in Accounts |-> RebuiltFrom(opening', txns', transfers', a)]
            /\ \A a \in Accounts : balance'[a] \in Minor

Open(a) ==
    /\ ~Known(a)
    /\ accounts' = [accounts EXCEPT ![a] = "open"]
    /\ opening' = [opening EXCEPT ![a] = opening'[a]]
    /\ UNCHANGED <<txns, transfers>>

Archive(a) ==
    /\ accounts[a] = "open"
    /\ accounts' = [accounts EXCEPT ![a] = "archived"]
    /\ UNCHANGED <<opening, txns, transfers>>

\* Enters one row, or the equal legs of one instalment purchase, under fresh ids.
Post(ids) ==
    /\ ids # {} /\ \A i \in ids : txns[i] = Unborn
    /\ \E row \in {txns'[i] : i \in ids} :
         /\ row \in TxnRow
         /\ Known(row.account)
         /\ row.group = IF Cardinality(ids) = 1 THEN NoGroup ELSE ids
         /\ txns' = [i \in TxnIds |-> IF i \in ids THEN row ELSE txns[i]]
    /\ UNCHANGED <<accounts, opening, transfers>>

Amend(i) ==
    /\ txns[i] \in TxnRow
    /\ txns'[i] \in TxnRow
    /\ Known(txns'[i].account)
    /\ txns'[i].group = txns[i].group
    /\ txns' = [txns EXCEPT ![i] = txns'[i]]
    /\ UNCHANGED <<accounts, opening, transfers>>

Remove(i) ==
    /\ txns[i] \in TxnRow
    /\ txns' = [j \in TxnIds |-> IF j \in {i} \cup txns[i].group THEN Gone ELSE txns[j]]
    /\ UNCHANGED <<accounts, opening, transfers>>

Move(t) ==
    /\ transfers[t] = Unborn
    /\ transfers'[t] \in TransferRow
    /\ transfers'[t].from # transfers'[t].to
    /\ Known(transfers'[t].from) /\ Known(transfers'[t].to)
    /\ transfers' = [transfers EXCEPT ![t] = transfers'[t]]
    /\ UNCHANGED <<accounts, opening, txns>>

Unmove(t) ==
    /\ transfers[t] \in TransferRow
    /\ transfers' = [transfers EXCEPT ![t] = Gone]
    /\ UNCHANGED <<accounts, opening, txns>>

Init ==
    /\ accounts = [a \in Accounts |-> "none"]
    /\ opening = [a \in Accounts |-> 0]
    /\ balance = [a \in Accounts |-> 0]
    /\ txns = [i \in TxnIds |-> Unborn]
    /\ transfers = [t \in TransferIds |-> Unborn]

Change ==
    \/ \E a \in Accounts : Open(a) \/ Archive(a)
    \/ \E ids \in SUBSET TxnIds : Post(ids)
    \/ \E i \in TxnIds : Amend(i) \/ Remove(i)
    \/ \E t \in TransferIds : Move(t) \/ Unmove(t)

Next == Change /\ Balanced

Spec == Init /\ [][Next]_vars

=============================================================================
