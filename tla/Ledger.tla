------------------------------- MODULE Ledger -------------------------------
(***************************************************************************)
(* The account ledger of the API (modules/accounts, modules/transactions,  *)
(* modules/transfers): stored account balances, income/expense rows,       *)
(* instalment groups and transfers, served to concurrent HTTP requests.    *)
(*                                                                         *)
(* A request first reads and checks OUTSIDE any database transaction, then *)
(* runs one prisma.$transaction.  The reads and the transaction are        *)
(* separate steps here, and so is the read of an instalment group, which   *)
(* the delete handler makes inside its transaction but before it takes any *)
(* row lock (PostgreSQL's default isolation is READ COMMITTED).  Balances  *)
(* are changed by relative increments and rows by primary key, so the rest *)
(* of a transaction takes effect at its commit as one step.                *)
(***************************************************************************)
EXTENDS LedgerRows

CONSTANTS
    Requests,       \* HTTP requests the API processes are serving concurrently
    Amounts,        \* amounts the clients send, in minor units
    Openings,       \* initial balances the clients send
    MaxLegs,        \* MAX_INSTALLMENTS
    Ops,            \* the operations the clients use
    OverlappingEdits, \* may two edits of the same row or group be in flight?
    Keep            \* a field the PATCH body leaves out

AllOps == {"create", "update", "delete", "transfer", "deleteTransfer", "archive"}

ASSUME LedgerAssumption ==
    /\ MaxLegs \in Nat \ {0}
    /\ Amounts \subseteq 1..MaxMinor
    /\ Openings \subseteq (-MaxMinor - 1)..MaxMinor
    /\ Ops \subseteq AllOps
    /\ OverlappingEdits \in BOOLEAN
    /\ Keep \notin Accounts /\ Keep \notin FlowTypes /\ Keep \notin 1..MaxMinor

UpdateDto == [account : Accounts \cup {Keep}, type : FlowTypes \cup {Keep},
              amount : (1..MaxMinor) \cup {Keep}]

VARIABLES
    accounts,   \* account id -> "none", "open" or "archived"
    opening,    \* initialBalanceMinor
    balance,    \* balanceMinor
    txns,       \* transaction id -> row, Unborn or Gone
    transfers,  \* transfer id -> row, Unborn or Gone
    req         \* what each request has read and is about to commit

vars == <<accounts, opening, balance, txns, transfers, req>>

Idle == [op |-> "idle"]
CreateReq == [op : {"create"}, row : TxnRow, legs : 1..MaxLegs]
UpdateReq == [op : {"update"}, id : TxnIds, seen : TxnRow, dto : UpdateDto]
DeleteReq == [op : {"delete"}, id : TxnIds, seen : TxnRow]
GroupReq == [op : {"deleteGroup"}, id : TxnIds, seen : TxnRow,
             legs : [TxnIds -> TxnRow \cup NoRow]]
TransferReq == [op : {"transfer"}, row : TransferRow]
UntransferReq == [op : {"deleteTransfer"}, id : TransferIds, seen : TransferRow]

TypeOK ==
    /\ accounts \in [Accounts -> {"none", "open", "archived"}]
    /\ opening \in [Accounts -> Minor]
    /\ balance \in [Accounts -> Minor]
    /\ txns \in [TxnIds -> TxnRow \cup NoRow]
    /\ transfers \in [TransferIds -> TransferRow \cup NoRow]
    /\ req \in [Requests -> {Idle} \cup CreateReq \cup UpdateReq \cup DeleteReq
                            \cup GroupReq \cup TransferReq \cup UntransferReq]

-----------------------------------------------------------------------------
Live(i) == txns[i] \in TxnRow
LiveTransfer(t) == transfers[t] \in TransferRow

-----------------------------------------------------------------------------
(* Accounts: accounts.service.ts *)

CreateAccount(a, o) ==
    /\ accounts[a] = "none"
    /\ accounts' = [accounts EXCEPT ![a] = "open"]
    /\ opening' = [opening EXCEPT ![a] = o]
    /\ balance' = [balance EXCEPT ![a] = o]
    /\ UNCHANGED <<txns, transfers, req>>

ArchiveAccount(a) ==
    /\ "archive" \in Ops
    /\ accounts[a] = "open"
    /\ accounts' = [accounts EXCEPT ![a] = "archived"]
    /\ UNCHANGED <<opening, balance, txns, transfers, req>>

\* assertAccountOwned: archived accounts pass too.
Owned(a) == accounts[a] # "none"

\* adjustBalance: an increment; PostgreSQL rejects a result outside the INT
\* column, which rolls the whole transaction back.
Adjusted(bal, a, delta) == [bal EXCEPT ![a] = @ + delta]
FitsUnchecked(bal) == TRUE                                          \* mutant
Fits(bal) == \A a \in Accounts : bal[a] \in Minor

\* The balances after n equal rows are applied, after one row is reversed,
\* and after a transfer is made or undone.
AppliedOnce(bal, row, n) == Adjusted(bal, row.account, SignedDelta(row))  \* mutant
Applied(bal, row, n) == Adjusted(bal, row.account, n * SignedDelta(row))
ReappliedNotReversed(bal, row) == Adjusted(bal, row.account, SignedDelta(row))  \* mutant
Reversed(bal, row) == Adjusted(bal, row.account, -SignedDelta(row))
Moved(bal, row) == Adjusted(Adjusted(bal, row.from, -row.fromAmount), row.to, row.toAmount)
UnmovedByFromAmount(bal, row) ==                                    \* mutant
    Adjusted(Adjusted(bal, row.from, row.fromAmount), row.to, -row.fromAmount)
Unmoved(bal, row) == Adjusted(Adjusted(bal, row.from, row.fromAmount), row.to, -row.toAmount)

-----------------------------------------------------------------------------
(* Transactions: transactions.service.ts *)

AcceptCreate(r, row, legs) ==
    /\ "create" \in Ops
    /\ req[r] = Idle
    /\ Owned(row.account)
    /\ req' = [req EXCEPT ![r] = [op |-> "create", row |-> row, legs |-> legs]]
    /\ UNCHANGED <<accounts, opening, balance, txns, transfers>>

\* One row, or one row per leg under a fresh group; every leg adjusts the balance.
CommitCreate(r, ids) ==
    /\ req[r].op = "create"
    /\ Cardinality(ids) = req[r].legs
    /\ \A i \in ids : txns[i] = Unborn
    /\ LET row == [req[r].row EXCEPT !.group = IF req[r].legs = 1 THEN NoGroup ELSE ids]
       IN /\ txns' = [i \in TxnIds |-> IF i \in ids THEN row ELSE txns[i]]
          /\ balance' = Applied(balance, row, req[r].legs)
    /\ Fits(balance')
    /\ req' = [req EXCEPT ![r] = Idle]
    /\ UNCHANGED <<accounts, opening, transfers>>

\* The rows an edit of row image s of id i may touch.
Scope(i, s) == {i} \cup s.group
InFlight(r) == IF req[r].op \in {"update", "delete", "deleteGroup"}
               THEN Scope(req[r].id, req[r].seen) ELSE {}
MayEdit(i) == OverlappingEdits \/ \A r \in Requests : InFlight(r) \cap Scope(i, txns[i]) = {}

ReadForUpdate(r, i, dto) ==
    /\ "update" \in Ops
    /\ req[r] = Idle
    /\ Live(i)
    /\ MayEdit(i)
    /\ dto.account \notin {Keep, txns[i].account} => Owned(dto.account)
    /\ req' = [req EXCEPT ![r] = [op |-> "update", id |-> i, seen |-> txns[i], dto |-> dto]]
    /\ UNCHANGED <<accounts, opening, balance, txns, transfers>>

Patched(row, dto) ==
    [row EXCEPT !.account = IF dto.account = Keep THEN @ ELSE dto.account,
                !.type = IF dto.type = Keep THEN @ ELSE dto.type,
                !.amount = IF dto.amount = Keep THEN @ ELSE dto.amount]

\* Reverses the effect of the image read before the transaction, applies the
\* new one, and patches the row as it is NOW; a missing row rolls back (P2025).
CommitUpdate(r) ==
    /\ req[r].op = "update"
    /\ Live(req[r].id)
    /\ Fits(Reversed(balance, req[r].seen))
    /\ balance' = Applied(Reversed(balance, req[r].seen), Patched(req[r].seen, req[r].dto), 1)
    /\ Fits(balance')
    /\ txns' = [txns EXCEPT ![req[r].id] = Patched(@, req[r].dto)]
    /\ req' = [req EXCEPT ![r] = Idle]
    /\ UNCHANGED <<accounts, opening, transfers>>

ReadForDelete(r, i) ==
    /\ "delete" \in Ops
    /\ req[r] = Idle
    /\ Live(i)
    /\ MayEdit(i)
    /\ req' = [req EXCEPT ![r] = [op |-> "delete", id |-> i, seen |-> txns[i]]]
    /\ UNCHANGED <<accounts, opening, balance, txns, transfers>>

CommitDelete(r) ==
    /\ req[r].op = "delete"
    /\ req[r].seen.group = NoGroup
    /\ Live(req[r].id)
    /\ balance' = Reversed(balance, req[r].seen)
    /\ Fits(balance')
    /\ txns' = [txns EXCEPT ![req[r].id] = Gone]
    /\ req' = [req EXCEPT ![r] = Idle]
    /\ UNCHANGED <<accounts, opening, transfers>>

\* findByGroup: the group's legs, as committed when the query runs.
Legs(g) == {i \in TxnIds : Live(i) /\ txns[i].group = g}

ReadLegs(r) ==
    /\ req[r].op = "delete"
    /\ req[r].seen.group # NoGroup
    /\ req' = [req EXCEPT ![r] =
                 [op |-> "deleteGroup", id |-> req[r].id, seen |-> req[r].seen,
                  legs |-> [i \in TxnIds |-> IF i \in Legs(req[r].seen.group)
                                             THEN txns[i] ELSE Unborn]]]
    /\ UNCHANGED <<accounts, opening, balance, txns, transfers>>

\* Reverses the legs read, then deletes the legs that are there; deleteMany
\* does not mind finding none.
CommitDeleteGroup(r) ==
    /\ req[r].op = "deleteGroup"
    /\ balance' = [a \in Accounts |-> balance[a] - Effect(req[r].legs, a)]
    /\ Fits(balance')
    /\ txns' = [i \in TxnIds |-> IF i \in Legs(req[r].seen.group) THEN Gone ELSE txns[i]]
    /\ req' = [req EXCEPT ![r] = Idle]
    /\ UNCHANGED <<accounts, opening, transfers>>

-----------------------------------------------------------------------------
(* Transfers: transfers.service.ts *)

AcceptTransfer(r, row) ==
    /\ "transfer" \in Ops
    /\ req[r] = Idle
    /\ row.from # row.to
    /\ Owned(row.from)
    /\ Owned(row.to)
    /\ req' = [req EXCEPT ![r] = [op |-> "transfer", row |-> row]]
    /\ UNCHANGED <<accounts, opening, balance, txns, transfers>>

CommitTransfer(r, t) ==
    /\ req[r].op = "transfer"
    /\ transfers[t] = Unborn
    /\ transfers' = [transfers EXCEPT ![t] = req[r].row]
    /\ balance' = Moved(balance, req[r].row)
    /\ Fits(balance')
    /\ req' = [req EXCEPT ![r] = Idle]
    /\ UNCHANGED <<accounts, opening, txns>>

ReadForUntransfer(r, t) ==
    /\ "deleteTransfer" \in Ops
    /\ req[r] = Idle
    /\ LiveTransfer(t)
    /\ req' = [req EXCEPT ![r] = [op |-> "deleteTransfer", id |-> t, seen |-> transfers[t]]]
    /\ UNCHANGED <<accounts, opening, balance, txns, transfers>>

\* A transfer is never edited, and deleting a missing one rolls back.
CommitUntransfer(r) ==
    /\ req[r].op = "deleteTransfer"
    /\ LiveTransfer(req[r].id)
    /\ balance' = Unmoved(balance, req[r].seen)
    /\ Fits(balance')
    /\ transfers' = [transfers EXCEPT ![req[r].id] = Gone]
    /\ req' = [req EXCEPT ![r] = Idle]
    /\ UNCHANGED <<accounts, opening, txns>>

\* A statement fails (missing row, INT overflow, deadlock victim, transaction
\* timeout) or the process dies: nothing of the request is kept.
Rollback(r) ==
    /\ req[r] # Idle
    /\ req' = [req EXCEPT ![r] = Idle]
    /\ UNCHANGED <<accounts, opening, balance, txns, transfers>>

-----------------------------------------------------------------------------
Init ==
    /\ accounts = [a \in Accounts |-> "none"]
    /\ opening = [a \in Accounts |-> 0]
    /\ balance = [a \in Accounts |-> 0]
    /\ txns = [i \in TxnIds |-> Unborn]
    /\ transfers = [t \in TransferIds |-> Unborn]
    /\ req = [r \in Requests |-> Idle]

NewRow == [account : Accounts, type : FlowTypes, amount : Amounts, group : {NoGroup}]
NewDto == [account : Accounts \cup {Keep}, type : FlowTypes \cup {Keep},
           amount : Amounts \cup {Keep}]
NewTransfer == [from : Accounts, to : Accounts, fromAmount : Amounts, toAmount : Amounts]

AccountStep ==
    \E a \in Accounts : \/ \E o \in Openings : CreateAccount(a, o)
                        \/ ArchiveAccount(a)

TransactionStep(r) ==
    \/ \E row \in NewRow, legs \in 1..MaxLegs : AcceptCreate(r, row, legs)
    \/ \E ids \in SUBSET TxnIds : CommitCreate(r, ids)
    \/ \E i \in TxnIds, dto \in NewDto : ReadForUpdate(r, i, dto)
    \/ CommitUpdate(r)
    \/ \E i \in TxnIds : ReadForDelete(r, i)
    \/ CommitDelete(r)
    \/ ReadLegs(r)
    \/ CommitDeleteGroup(r)

TransferStep(r) ==
    \/ \E row \in NewTransfer : AcceptTransfer(r, row)
    \/ \E t \in TransferIds : CommitTransfer(r, t)
    \/ \E t \in TransferIds : ReadForUntransfer(r, t)
    \/ CommitUntransfer(r)

Next == \/ AccountStep
        \/ \E r \in Requests : TransactionStep(r) \/ TransferStep(r) \/ Rollback(r)

Spec == Init /\ [][Next]_vars

-----------------------------------------------------------------------------
(* Properties *)

Rebuilt(a) == RebuiltFrom(opening, txns, transfers, a)
Drift(a) == balance[a] - Rebuilt(a)

\* The stored balance of every existing account is its opening balance plus everything
\* its rows add up to (transactions.service.ts: "account balances never drift").
BalanceMatchesLedger == \A a \in Accounts : Owned(a) => balance[a] = Rebuilt(a)

\* An instalment group is there with all its legs or not at all, whichever leg
\* a delete named and however the legs were edited since.
GroupWhole ==
    \A i \in TxnIds : Live(i) => \A j \in txns[i].group :
        Live(j) /\ txns[j].group = txns[i].group

\* What request r read before its transaction is no longer what is stored.
Stale(r) ==
    \/ /\ req[r].op \in {"update", "delete"}
       /\ txns[req[r].id] # req[r].seen
    \/ /\ req[r].op = "deleteGroup"
       /\ \E i \in TxnIds : IF i \in Legs(req[r].seen.group)
                            THEN req[r].legs[i] # txns[i]
                            ELSE req[r].legs[i] \in TxnRow

\* When edits of one row, or of one row's group, are never in flight together, no
\* request ever commits on a stale image, whatever else runs in between.
SerialEditsStayFresh == ~OverlappingEdits => \A r \in Requests : ~Stale(r)

\* Whatever runs concurrently, a step that does not finish a request on a stale
\* row image leaves every existing account's drift as it was: stale images are the ONLY
\* way a stored balance and its rows can part (update, delete, group delete).
DriftOnlyFromStaleRead ==
    [][\/ UNCHANGED <<opening, balance, txns, transfers>>
       \/ \E r \in Requests : Stale(r) /\ req'[r] # req[r]
       \/ \A a \in Accounts : Owned(a) => Drift(a)' = Drift(a)]_vars

\* The ledger of the API, its requests hidden, is the ledger whose balances are
\* by definition rebuilt from its rows and whose operations are atomic.
Atomic == INSTANCE AtomicLedger
    WITH accounts <- accounts, opening <- opening, balance <- balance,
         txns <- txns, transfers <- transfers
ImplementsAtomicLedger == Atomic!Spec

=============================================================================
