----------------------------- MODULE LedgerRows -----------------------------
(***************************************************************************)
(* The rows of the ledger tables (schema.prisma: Account, Transaction,     *)
(* Transfer), and what a set of rows adds up to on an account.  Shared by  *)
(* the ledger of the API and by the abstract ledger it implements.         *)
(***************************************************************************)
EXTENDS MinorUnits

CONSTANTS
    Accounts,       \* account ids of one user (every query is scoped by userId)
    TxnIds,         \* row ids of the transactions table; a UUID is used once
    TransferIds,    \* row ids of the transfers table
    Unborn,         \* a row id not used yet
    Gone            \* a row id whose row was deleted

ASSUME RowsAssumption ==
    IsFiniteSet(Accounts) /\ IsFiniteSet(TxnIds) /\ IsFiniteSet(TransferIds)

FlowTypes == {"INCOME", "EXPENSE"}
NoGroup == {}

\* An instalment group is named by the ids of the legs it was created with.
TxnRow == [account : Accounts, type : FlowTypes, amount : 1..MaxMinor,
           group : SUBSET TxnIds]
TransferRow == [from : Accounts, to : Accounts,
                fromAmount : 1..MaxMinor, toAmount : 1..MaxMinor]
NoRow == {Unborn, Gone}

ASSUME NullAssumption == /\ Unborn # Gone
                         /\ NoRow \cap (TxnRow \cup TransferRow) = {}

-----------------------------------------------------------------------------
SignedDelta(row) == IF row.type = "INCOME" THEN row.amount ELSE -row.amount

\* What one row of the transactions table adds to, or takes from, an account.
Credit(row, a) ==
    IF row \in TxnRow /\ row.account = a /\ row.type = "INCOME" THEN row.amount ELSE 0
Debit(row, a) ==
    IF row \in TxnRow /\ row.account = a /\ row.type = "EXPENSE" THEN row.amount ELSE 0
Effect(rows, a) == Total([i \in TxnIds |-> Credit(rows[i], a)])
                   - Total([i \in TxnIds |-> Debit(rows[i], a)])

TransferEffect(rows, a) ==
    Total([t \in TransferIds |->
             IF rows[t] \in TransferRow /\ rows[t].to = a THEN rows[t].toAmount ELSE 0])
    - Total([t \in TransferIds |->
               IF rows[t] \in TransferRow /\ rows[t].from = a THEN rows[t].fromAmount ELSE 0])

\* The balance rebuilt from an opening balance and the rows of both tables.
RebuiltFrom(open, rows, moves, a) == open[a] + Effect(rows, a) + TransferEffect(moves, a)

=============================================================================
