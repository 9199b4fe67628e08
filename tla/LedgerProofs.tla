---------------------------- MODULE LedgerProofs ----------------------------
(* What is proved of the ledger, for every value of its constants. *)
EXTENDS Ledger, MinorUnitsProofs

-----------------------------------------------------------------------------
(* What rows of the transactions table add up to. *)

TxnTable == [TxnIds -> TxnRow \cup NoRow]

\* Which rows are rows: the null values are none.
LEMMA NullsAreNoRows ==
  /\ Unborn \notin TxnRow /\ Gone \notin TxnRow
  /\ Unborn \notin TransferRow /\ Gone \notin TransferRow
  BY NullAssumption DEF NoRow

\* Credits and debits are amounts.
LEMMA CreditDebitType ==
  ASSUME NEW row, NEW a
  PROVE  Credit(row, a) \in 0..MaxMinor /\ Debit(row, a) \in 0..MaxMinor
  BY RowsAssumption, MinorAssumption DEF Credit, Debit, TxnRow

\* The effect of a table on an account is an integer.
LEMMA EffectType ==
  ASSUME NEW rows \in TxnTable, NEW a
  PROVE  Effect(rows, a) \in Int
<1>1. [i \in TxnIds |-> Credit(rows[i], a)] \in [TxnIds -> 0..MaxMinor]
  BY CreditDebitType
<1>2. [i \in TxnIds |-> Debit(rows[i], a)] \in [TxnIds -> 0..MaxMinor]
  BY CreditDebitType
<1> QED
  BY <1>1, <1>2, TotalType, RowsAssumption, MinorAssumption DEF Effect

\* Two tables no id of which has a row in both add up like their union.
LEMMA EffectSplit ==
  ASSUME NEW rows \in TxnTable, NEW p \in TxnTable, NEW q \in TxnTable, NEW a,
         \A i \in TxnIds : \/ p[i] \notin TxnRow /\ (rows[i] = q[i] \/ (rows[i] \notin TxnRow /\ q[i] \notin TxnRow))
                           \/ q[i] \notin TxnRow /\ (rows[i] = p[i] \/ (rows[i] \notin TxnRow /\ p[i] \notin TxnRow))
  PROVE  Effect(rows, a) = Effect(p, a) + Effect(q, a)
<1> DEFINE C(t) == [i \in TxnIds |-> Credit(t[i], a)]
           D(t) == [i \in TxnIds |-> Debit(t[i], a)]
<1>1. /\ C(rows) \in [TxnIds -> 0..MaxMinor] /\ C(p) \in [TxnIds -> 0..MaxMinor]
      /\ C(q) \in [TxnIds -> 0..MaxMinor] /\ D(rows) \in [TxnIds -> 0..MaxMinor]
      /\ D(p) \in [TxnIds -> 0..MaxMinor] /\ D(q) \in [TxnIds -> 0..MaxMinor]
  BY CreditDebitType
<1>2. \A i \in TxnIds : (C(p)[i] = 0 /\ C(rows)[i] = C(q)[i]) \/ (C(q)[i] = 0 /\ C(rows)[i] = C(p)[i])
  BY DEF Credit
<1>3. \A i \in TxnIds : (D(p)[i] = 0 /\ D(rows)[i] = D(q)[i]) \/ (D(q)[i] = 0 /\ D(rows)[i] = D(p)[i])
  BY DEF Debit
<1>4. Total(C(rows)) = Total(C(p)) + Total(C(q))
  BY <1>1, <1>2, TotalSplit, RowsAssumption, MinorAssumption
<1>5. Total(D(rows)) = Total(D(p)) + Total(D(q))
  BY <1>1, <1>3, TotalSplit, RowsAssumption, MinorAssumption
<1>6. /\ Total(C(p)) \in Nat /\ Total(C(q)) \in Nat
      /\ Total(D(p)) \in Nat /\ Total(D(q)) \in Nat
  BY <1>1, TotalType, RowsAssumption, MinorAssumption
<1> QED
  BY <1>4, <1>5, <1>6 DEF Effect

\* n copies of one row move its account by n signed deltas, and no other.
LEMMA EffectUniform ==
  ASSUME NEW T \in SUBSET TxnIds, NEW row \in TxnRow, NEW a
  PROVE  /\ Effect([i \in TxnIds |-> IF i \in T THEN row ELSE Unborn], a)
              = IF row.account = a THEN Cardinality(T) * SignedDelta(row) ELSE 0
         /\ Cardinality(T) \in Nat
         /\ SignedDelta(row) \in Int
<1> DEFINE rows == [i \in TxnIds |-> IF i \in T THEN row ELSE Unborn]
           c == Credit(row, a)
           d == Debit(row, a)
<1>1. c \in 0..MaxMinor /\ d \in 0..MaxMinor
  BY CreditDebitType
<1>2. [i \in TxnIds |-> Credit(rows[i], a)] = [i \in TxnIds |-> IF i \in T THEN c ELSE 0]
  BY NullsAreNoRows DEF Credit
<1>3. [i \in TxnIds |-> Debit(rows[i], a)] = [i \in TxnIds |-> IF i \in T THEN d ELSE 0]
  BY NullsAreNoRows DEF Debit
<1>4. /\ Total([i \in TxnIds |-> IF i \in T THEN c ELSE 0]) = Cardinality(T) * c
      /\ Total([i \in TxnIds |-> IF i \in T THEN d ELSE 0]) = Cardinality(T) * d
      /\ Cardinality(T) \in Nat
  BY <1>1, TotalUniform, RowsAssumption, MinorAssumption
<1>5. Effect(rows, a) = Cardinality(T) * c - Cardinality(T) * d
  BY <1>2, <1>3, <1>4 DEF Effect
<1>6. /\ row.account = a => (c = SignedDelta(row) /\ d = 0) \/ (c = 0 /\ d = -SignedDelta(row))
      /\ row.account # a => c = 0 /\ d = 0
      /\ SignedDelta(row) \in Int
  BY RowsAssumption, MinorAssumption DEF Credit, Debit, SignedDelta, TxnRow, FlowTypes
<1> HIDE DEF c, d
<1>7. \A n \in Nat, k \in Int : n * 0 = 0 /\ 0 - n * (-k) = n * k /\ n * k \in Int
  OBVIOUS
<1> QED
  BY <1>1, <1>4, <1>5, <1>6, <1>7

-----------------------------------------------------------------------------
(* What rows of the transfers table add up to. *)

TransferTable == [TransferIds -> TransferRow \cup NoRow]

\* A table of transfers moves an account by an integer.
LEMMA TransferEffectType ==
  ASSUME NEW moves \in TransferTable, NEW a
  PROVE  TransferEffect(moves, a) \in Int
<1> DEFINE In(m) == [t \in TransferIds |-> IF m[t] \in TransferRow /\ m[t].to = a THEN m[t].toAmount ELSE 0]
           Out(m) == [t \in TransferIds |-> IF m[t] \in TransferRow /\ m[t].from = a THEN m[t].fromAmount ELSE 0]
<1>1. In(moves) \in [TransferIds -> 0..MaxMinor] /\ Out(moves) \in [TransferIds -> 0..MaxMinor]
  BY RowsAssumption, MinorAssumption DEF TransferRow
<1>2. Total(In(moves)) \in Nat /\ Total(Out(moves)) \in Nat
  BY <1>1, TotalType, RowsAssumption, MinorAssumption
<1> QED
  BY <1>2 DEF TransferEffect

\* Entering one transfer moves what it says from one account to the other.
LEMMA TransferEffectStep ==
  ASSUME NEW moves \in TransferTable, NEW with \in TransferTable, NEW t \in TransferIds,
         NEW row \in TransferRow, NEW a,
         moves[t] \notin TransferRow, with[t] = row,
         \A u \in TransferIds \ {t} : with[u] = moves[u]
  PROVE  TransferEffect(with, a) = TransferEffect(moves, a)
           + (IF row.to = a THEN row.toAmount ELSE 0) - (IF row.from = a THEN row.fromAmount ELSE 0)
<1> DEFINE In(m) == [u \in TransferIds |-> IF m[u] \in TransferRow /\ m[u].to = a THEN m[u].toAmount ELSE 0]
           Out(m) == [u \in TransferIds |-> IF m[u] \in TransferRow /\ m[u].from = a THEN m[u].fromAmount ELSE 0]
           x == IF row.to = a THEN row.toAmount ELSE 0
           y == IF row.from = a THEN row.fromAmount ELSE 0
           One(n) == [u \in TransferIds |-> IF u \in {t} THEN n ELSE 0]
<1>1. x \in 0..MaxMinor /\ y \in 0..MaxMinor
  BY RowsAssumption, MinorAssumption DEF TransferRow
<1>2. /\ In(moves) \in [TransferIds -> 0..MaxMinor] /\ Out(moves) \in [TransferIds -> 0..MaxMinor]
      /\ In(with) \in [TransferIds -> 0..MaxMinor] /\ Out(with) \in [TransferIds -> 0..MaxMinor]
      /\ One(x) \in [TransferIds -> 0..MaxMinor] /\ One(y) \in [TransferIds -> 0..MaxMinor]
  BY <1>1, RowsAssumption, MinorAssumption DEF TransferRow
<1>3. \A u \in TransferIds : \/ In(moves)[u] = 0 /\ In(with)[u] = One(x)[u]
                             \/ One(x)[u] = 0 /\ In(with)[u] = In(moves)[u]
  OBVIOUS
<1>4. \A u \in TransferIds : \/ Out(moves)[u] = 0 /\ Out(with)[u] = One(y)[u]
                             \/ One(y)[u] = 0 /\ Out(with)[u] = Out(moves)[u]
  OBVIOUS
<1>5. Total(In(with)) = Total(In(moves)) + Total(One(x))
  BY <1>2, <1>3, TotalSplit, RowsAssumption, MinorAssumption
<1>6. Total(Out(with)) = Total(Out(moves)) + Total(One(y))
  BY <1>2, <1>4, TotalSplit, RowsAssumption, MinorAssumption
<1>7. Total(One(x)) = Cardinality({t}) * x /\ Total(One(y)) = Cardinality({t}) * y
  BY <1>1, TotalUniform, RowsAssumption, MinorAssumption
<1>8. Cardinality({t}) = 1
  BY FS_Singleton
<1>9. Total(In(moves)) \in Nat /\ Total(Out(moves)) \in Nat
  BY <1>2, TotalType, RowsAssumption, MinorAssumption
<1>10. TransferEffect(with, a) = Total(In(with)) - Total(Out(with))
  BY DEF TransferEffect
<1>11. TransferEffect(moves, a) = Total(In(moves)) - Total(Out(moves))
  BY DEF TransferEffect
<1> HIDE DEF x, y, In, Out, One
<1>12. TransferEffect(with, a) = TransferEffect(moves, a) + x - y
  BY <1>1, <1>5, <1>6, <1>7, <1>8, <1>9, <1>10, <1>11, RowsAssumption, MinorAssumption
<1> QED
  BY <1>12 DEF x, y

-----------------------------------------------------------------------------
(* Type correctness. *)

\* Every kind of request has the fields its kind says.
LEMMA RequestKinds ==
  ASSUME TypeOK, NEW r \in Requests
  PROVE  /\ req[r].op = "create" => req[r] \in CreateReq
         /\ req[r].op = "update" => req[r] \in UpdateReq
         /\ req[r].op = "delete" => req[r] \in DeleteReq
         /\ req[r].op = "deleteGroup" => req[r] \in GroupReq
         /\ req[r].op = "transfer" => req[r] \in TransferReq
         /\ req[r].op = "deleteTransfer" => req[r] \in UntransferReq
  BY DEF TypeOK, Idle, CreateReq, UpdateReq, DeleteReq, GroupReq, TransferReq, UntransferReq

\* A patched row is a row, in the group it was in.
LEMMA PatchedType ==
  ASSUME NEW row \in TxnRow, NEW dto \in UpdateDto
  PROVE  Patched(row, dto) \in TxnRow /\ Patched(row, dto).group = row.group
  BY DEF Patched, TxnRow, UpdateDto

\* An adjusted balance stays in the column when it fits (adjustBalance).
LEMMA AdjustedType ==
  ASSUME NEW bal \in [Accounts -> Int], NEW a \in Accounts, NEW delta \in Int
  PROVE  /\ Adjusted(bal, a, delta) \in [Accounts -> Int]
         /\ \A b \in Accounts : Adjusted(bal, a, delta)[b] = IF b = a THEN bal[b] + delta ELSE bal[b]
  BY DEF Adjusted

\* The balance updates of the transactions handlers, account by account.
LEMMA RowBalances ==
  ASSUME NEW bal \in [Accounts -> Int], NEW row \in TxnRow, NEW n \in Nat
  PROVE  /\ SignedDelta(row) \in Int
         /\ Applied(bal, row, n) \in [Accounts -> Int]
         /\ Reversed(bal, row) \in [Accounts -> Int]
         /\ \A a \in Accounts :
              /\ Applied(bal, row, n)[a] = bal[a] + (IF row.account = a THEN n * SignedDelta(row) ELSE 0)
              /\ Reversed(bal, row)[a] = bal[a] - (IF row.account = a THEN SignedDelta(row) ELSE 0)
<1>1. SignedDelta(row) \in Int /\ row.account \in Accounts
  BY RowsAssumption, MinorAssumption DEF SignedDelta, TxnRow
<1>2. n * SignedDelta(row) \in Int /\ -SignedDelta(row) \in Int
  BY <1>1
<1> DEFINE m == n * SignedDelta(row)
           k == SignedDelta(row)
<1>3. Applied(bal, row, n) = Adjusted(bal, row.account, m) /\ Reversed(bal, row) = Adjusted(bal, row.account, -k)
  BY DEF Applied, Reversed
<1> HIDE DEF m, k
<1>4. m \in Int /\ k \in Int /\ -k \in Int
  BY <1>1, <1>2 DEF m, k
<1>5. /\ Applied(bal, row, n) \in [Accounts -> Int]
      /\ \A a \in Accounts :
            Applied(bal, row, n)[a] = bal[a] + (IF row.account = a THEN m ELSE 0)
  <2>1. /\ Adjusted(bal, row.account, m) \in [Accounts -> Int]
        /\ \A b \in Accounts : Adjusted(bal, row.account, m)[b] =
              IF b = row.account THEN bal[b] + m ELSE bal[b]
    BY <1>1, <1>4, AdjustedType
  <2> QED
    BY <1>3, <1>4, <2>1
<1>6. /\ Reversed(bal, row) \in [Accounts -> Int]
      /\ \A a \in Accounts :
            Reversed(bal, row)[a] = bal[a] - (IF row.account = a THEN k ELSE 0)
  <2>1. /\ Adjusted(bal, row.account, -k) \in [Accounts -> Int]
        /\ \A b \in Accounts : Adjusted(bal, row.account, -k)[b] =
              IF b = row.account THEN bal[b] + -k ELSE bal[b]
    BY <1>1, <1>4, AdjustedType
  <2> QED
    BY <1>3, <1>4, <2>1
<1> QED
  BY <1>1, <1>5, <1>6 DEF m, k

\* The balance updates of the transfers handlers, account by account.
LEMMA TransferBalances ==
  ASSUME NEW bal \in [Accounts -> Int], NEW row \in TransferRow
  PROVE  /\ Moved(bal, row) \in [Accounts -> Int]
         /\ Unmoved(bal, row) \in [Accounts -> Int]
         /\ \A a \in Accounts :
              /\ Moved(bal, row)[a] = bal[a] + (IF row.to = a THEN row.toAmount ELSE 0)
                                            - (IF row.from = a THEN row.fromAmount ELSE 0)
              /\ Unmoved(bal, row)[a] = bal[a] - (IF row.to = a THEN row.toAmount ELSE 0)
                                              + (IF row.from = a THEN row.fromAmount ELSE 0)
<1>1. /\ row.from \in Accounts /\ row.to \in Accounts
      /\ row.fromAmount \in Int /\ row.toAmount \in Int
      /\ -row.fromAmount \in Int /\ -row.toAmount \in Int
  BY RowsAssumption, MinorAssumption DEF TransferRow
<1> DEFINE debited == Adjusted(bal, row.from, -row.fromAmount)
           refunded == Adjusted(bal, row.from, row.fromAmount)
<1>2. /\ debited \in [Accounts -> Int] /\ refunded \in [Accounts -> Int]
      /\ \A a \in Accounts :
           /\ debited[a] = IF row.from = a THEN bal[a] - row.fromAmount ELSE bal[a]
           /\ refunded[a] = IF row.from = a THEN bal[a] + row.fromAmount ELSE bal[a]
  BY <1>1 DEF Adjusted
<1>3. Moved(bal, row) = Adjusted(debited, row.to, row.toAmount)
  BY DEF Moved
<1>4. Unmoved(bal, row) = Adjusted(refunded, row.to, -row.toAmount)
  BY DEF Unmoved
<1> HIDE DEF debited, refunded
<1>5. /\ Moved(bal, row) \in [Accounts -> Int]
      /\ \A a \in Accounts :
           Moved(bal, row)[a] = IF row.to = a THEN debited[a] + row.toAmount ELSE debited[a]
  BY <1>1, <1>2, <1>3 DEF Adjusted
<1>6. /\ Unmoved(bal, row) \in [Accounts -> Int]
      /\ \A a \in Accounts :
           Unmoved(bal, row)[a] = IF row.to = a THEN refunded[a] - row.toAmount ELSE refunded[a]
  BY <1>1, <1>2, <1>4 DEF Adjusted
<1> QED
  BY <1>1, <1>2, <1>5, <1>6

\* Nothing but requests may change besides the parts named.
LEMMA TypeStep ==
  ASSUME TypeOK, Next
  PROVE  TypeOK'
<1> USE RowsAssumption, MinorAssumption, LedgerAssumption
<1>1. CASE AccountStep
  <2>1. CASE \E a \in Accounts, o \in Openings : CreateAccount(a, o)
    BY <2>1 DEF CreateAccount, TypeOK, Minor, MinMinor
  <2>2. CASE \E a \in Accounts : ArchiveAccount(a)
    BY <2>2 DEF ArchiveAccount, TypeOK
  <2> QED
    BY <1>1, <2>1, <2>2 DEF AccountStep
<1>2. ASSUME NEW r \in Requests, TransactionStep(r)
      PROVE  TypeOK'
  <2>0. balance \in [Accounts -> Int] /\ Minor \subseteq Int
    BY DEF TypeOK, Minor, MinMinor
  <2>1. ASSUME NEW row \in NewRow, NEW legs \in 1..MaxLegs, AcceptCreate(r, row, legs)
        PROVE  TypeOK'
    <3>1. row \in TxnRow
      BY DEF NewRow, TxnRow, NoGroup
    <3> QED
      BY <2>1, <3>1 DEF AcceptCreate, TypeOK, CreateReq
  <2>2. ASSUME NEW ids \in SUBSET TxnIds, CommitCreate(r, ids)
        PROVE  TypeOK'
    <3> DEFINE row == [req[r].row EXCEPT !.group = IF req[r].legs = 1 THEN NoGroup ELSE ids]
    <3>1. req[r].row \in TxnRow /\ req[r].legs \in Nat
      BY <2>2, RequestKinds DEF CommitCreate, CreateReq
    <3>2. row \in TxnRow
      BY <3>1 DEF TxnRow, NoGroup
    <3>3. balance' \in [Accounts -> Minor]
      <4>1. balance' = Applied(balance, row, req[r].legs) /\ Fits(balance')
        BY <2>2 DEF CommitCreate
      <4> HIDE DEF row
      <4>2. balance' \in [Accounts -> Int]
        BY <2>0, <3>1, <3>2, <4>1, RowBalances
      <4> QED
        BY <4>1, <4>2 DEF Fits
    <3>4. txns' \in [TxnIds -> TxnRow \cup NoRow]
      BY <2>2, <3>2 DEF CommitCreate, TypeOK
    <3> QED
      BY <2>2, <3>3, <3>4 DEF CommitCreate, TypeOK
  <2>3. ASSUME NEW i \in TxnIds, NEW dto \in NewDto, ReadForUpdate(r, i, dto)
        PROVE  TypeOK'
    <3>1. dto \in UpdateDto
      BY DEF NewDto, UpdateDto
    <3> QED
      BY <2>3, <3>1 DEF ReadForUpdate, TypeOK, UpdateReq, Live
  <2>4. CASE CommitUpdate(r)
    <3>1. /\ req[r].seen \in TxnRow /\ req[r].dto \in UpdateDto /\ req[r].id \in TxnIds
      BY <2>4, RequestKinds DEF CommitUpdate, UpdateReq
    <3>2. /\ Patched(req[r].seen, req[r].dto) \in TxnRow
          /\ Patched(txns[req[r].id], req[r].dto) \in TxnRow
      BY <2>4, <3>1, PatchedType DEF CommitUpdate, Live
    <3>3. Reversed(balance, req[r].seen) \in [Accounts -> Int]
      BY <2>0, <3>1, RowBalances
    <3>4. Applied(Reversed(balance, req[r].seen), Patched(req[r].seen, req[r].dto), 1) \in [Accounts -> Int]
      BY <3>2, <3>3, RowBalances
    <3>5. balance' \in [Accounts -> Minor]
      BY <2>4, <3>4 DEF CommitUpdate, Fits
    <3> QED
      BY <2>4, <3>1, <3>2, <3>5 DEF CommitUpdate, TypeOK
  <2>5. ASSUME NEW i \in TxnIds, ReadForDelete(r, i)
        PROVE  TypeOK'
    BY <2>5 DEF ReadForDelete, TypeOK, DeleteReq, Live
  <2>6. CASE CommitDelete(r)
    <3>1. req[r].seen \in TxnRow /\ req[r].id \in TxnIds
      BY <2>6, RequestKinds DEF CommitDelete, DeleteReq
    <3>2. balance' \in [Accounts -> Minor]
      BY <2>0, <2>6, <3>1, RowBalances DEF CommitDelete, Fits
    <3> QED
      BY <2>6, <3>1, <3>2 DEF CommitDelete, TypeOK, NoRow
  <2>7. CASE ReadLegs(r)
    <3>1. req[r] \in DeleteReq
      BY <2>7, RequestKinds DEF ReadLegs
    <3> DEFINE legs == [i \in TxnIds |-> IF i \in Legs(req[r].seen.group) THEN txns[i] ELSE Unborn]
    <3>2. legs \in [TxnIds -> TxnRow \cup NoRow]
      BY DEF TypeOK, NoRow
    <3>3. [op |-> "deleteGroup", id |-> req[r].id, seen |-> req[r].seen, legs |-> legs] \in GroupReq
      BY <3>1, <3>2 DEF GroupReq, DeleteReq
    <3> HIDE DEF legs
    <3> QED
      BY <2>7, <3>3 DEF ReadLegs, TypeOK, legs
  <2>8. CASE CommitDeleteGroup(r)
    <3>1. req[r].legs \in TxnTable
      BY <2>8, RequestKinds DEF CommitDeleteGroup, GroupReq, TxnTable
    <3>2. balance' \in [Accounts -> Minor]
      BY <2>0, <2>8, <3>1, EffectType DEF CommitDeleteGroup, Fits
    <3> QED
      BY <2>8, <3>2 DEF CommitDeleteGroup, TypeOK, NoRow
  <2> QED
    BY <1>2, <2>1, <2>2, <2>3, <2>4, <2>5, <2>6, <2>7, <2>8 DEF TransactionStep
<1>3. ASSUME NEW r \in Requests, TransferStep(r)
      PROVE  TypeOK'
  <2>0. balance \in [Accounts -> Int] /\ Minor \subseteq Int
    BY DEF TypeOK, Minor, MinMinor
  <2>1. ASSUME NEW row \in NewTransfer, AcceptTransfer(r, row)
        PROVE  TypeOK'
    <3>1. row \in TransferRow
      BY DEF NewTransfer, TransferRow
    <3> QED
      BY <2>1, <3>1 DEF AcceptTransfer, TypeOK, TransferReq
  <2>2. ASSUME NEW t \in TransferIds, CommitTransfer(r, t)
        PROVE  TypeOK'
    <3>1. req[r].row \in TransferRow
      BY <2>2, RequestKinds DEF CommitTransfer, TransferReq
    <3>2. balance' \in [Accounts -> Minor]
      BY <2>0, <2>2, <3>1, TransferBalances DEF CommitTransfer, Fits
    <3> QED
      BY <2>2, <3>1, <3>2 DEF CommitTransfer, TypeOK
  <2>3. ASSUME NEW t \in TransferIds, ReadForUntransfer(r, t)
        PROVE  TypeOK'
    BY <2>3 DEF ReadForUntransfer, TypeOK, UntransferReq, LiveTransfer
  <2>4. CASE CommitUntransfer(r)
    <3>1. req[r].seen \in TransferRow /\ req[r].id \in TransferIds
      BY <2>4, RequestKinds DEF CommitUntransfer, UntransferReq
    <3>2. balance' \in [Accounts -> Minor]
      BY <2>0, <2>4, <3>1, TransferBalances DEF CommitUntransfer, Fits
    <3> QED
      BY <2>4, <3>1, <3>2 DEF CommitUntransfer, TypeOK, NoRow
  <2> QED
    BY <1>3, <2>1, <2>2, <2>3, <2>4 DEF TransferStep
<1>4. ASSUME NEW r \in Requests, Rollback(r)
      PROVE  TypeOK'
  BY <1>4 DEF Rollback, TypeOK
<1> QED
  BY <1>1, <1>2, <1>3, <1>4 DEF Next

\* The variables keep their types; in particular no stored balance ever leaves
\* its 32-bit column (validation/constants.ts, adjustBalance).
THEOREM TypeCorrect == Spec => []TypeOK
<1>1. Init => TypeOK
  BY RowsAssumption, MinorAssumption DEF Init, TypeOK, NoRow, Minor, MinMinor
<1>2. TypeOK /\ [Next]_vars => TypeOK'
  <2>1. TypeOK /\ UNCHANGED vars => TypeOK'
    BY DEF TypeOK, vars
  <2> QED
    BY <2>1, TypeStep
<1> QED
  BY <1>1, <1>2, PTL DEF Spec

-----------------------------------------------------------------------------
(* Where drift comes from. *)

\* A transfer is never edited, so the image a delete has read is the stored one
\* until the transfer is gone.
TransfersFresh ==
    \A r \in Requests : req[r].op = "deleteTransfer" =>
        transfers[req[r].id] \in {req[r].seen, Gone}

LEMMA TransfersFreshStep ==
  ASSUME TypeOK, TransfersFresh, Next
  PROVE  TransfersFresh'
<1>0. req \in [Requests -> {Idle} \cup CreateReq \cup UpdateReq \cup DeleteReq
                         \cup GroupReq \cup TransferReq \cup UntransferReq]
  BY DEF TypeOK
<1>1. CASE UNCHANGED <<transfers, req>>
  BY <1>1 DEF TransfersFresh
<1>2. ASSUME NEW r \in Requests, transfers' = transfers,
             \E x : x.op # "deleteTransfer" /\ req' = [req EXCEPT ![r] = x]
      PROVE  TransfersFresh'
  BY <1>0, <1>2 DEF TransfersFresh
<1>3. ASSUME NEW r \in Requests, TransactionStep(r)
      PROVE  TransfersFresh'
  BY <1>2, <1>3 DEF TransactionStep, AcceptCreate, CommitCreate, ReadForUpdate, CommitUpdate,
     ReadForDelete, CommitDelete, ReadLegs, CommitDeleteGroup, Idle
<1>4. ASSUME NEW r \in Requests, TransferStep(r)
      PROVE  TransfersFresh'
  <2>1. ASSUME NEW row \in NewTransfer, AcceptTransfer(r, row)
        PROVE  TransfersFresh'
    BY <1>2, <2>1 DEF AcceptTransfer
  <2>2. ASSUME NEW t \in TransferIds, CommitTransfer(r, t)
        PROVE  TransfersFresh'
    <3>1. \A q \in Requests : req[q].op = "deleteTransfer" =>
             req[q].seen \in TransferRow /\ req[q].id \in TransferIds
      BY RequestKinds DEF UntransferReq
    <3>2. transfers \in [TransferIds -> TransferRow \cup NoRow]
      BY DEF TypeOK
    <3> QED
      BY <1>0, <2>2, <3>1, <3>2, NullsAreNoRows, NullAssumption DEF CommitTransfer, TransfersFresh, Idle
  <2>3. ASSUME NEW t \in TransferIds, ReadForUntransfer(r, t)
        PROVE  TransfersFresh'
    BY <1>0, <2>3 DEF ReadForUntransfer, TransfersFresh
  <2>4. CASE CommitUntransfer(r)
    <3>1. transfers \in [TransferIds -> TransferRow \cup NoRow]
      BY DEF TypeOK
    <3>2. \A q \in Requests : req[q].op = "deleteTransfer" => req[q].id \in TransferIds
      BY RequestKinds DEF UntransferReq
    <3> QED
      BY <1>0, <2>4, <3>1, <3>2 DEF CommitUntransfer, TransfersFresh, Idle
  <2> QED
    BY <1>4, <2>1, <2>2, <2>3, <2>4 DEF TransferStep
<1>5. ASSUME NEW r \in Requests, Rollback(r)
      PROVE  TransfersFresh'
  BY <1>2, <1>5 DEF Rollback, Idle
<1> QED
  BY <1>1, <1>3, <1>4, <1>5 DEF Next, AccountStep, CreateAccount, ArchiveAccount

\* Entering n equal rows under unused ids moves their account by n signed deltas.
LEMMA EffectEnter ==
  ASSUME NEW rows \in TxnTable, NEW with \in TxnTable, NEW T \in SUBSET TxnIds,
         NEW row \in TxnRow, NEW a,
         \A i \in T : rows[i] \notin TxnRow /\ with[i] = row,
         \A i \in TxnIds \ T : with[i] = rows[i]
  PROVE  Effect(with, a) = Effect(rows, a)
           + (IF row.account = a THEN Cardinality(T) * SignedDelta(row) ELSE 0)
<1> DEFINE new == [i \in TxnIds |-> IF i \in T THEN row ELSE Unborn]
<1>1. new \in TxnTable
  BY DEF TxnTable, NoRow
<1>2. \A i \in TxnIds : \/ rows[i] \notin TxnRow /\ with[i] = new[i]
                        \/ new[i] \notin TxnRow /\ with[i] = rows[i]
  BY NullsAreNoRows
<1>3. Effect(with, a) = Effect(rows, a) + Effect(new, a)
  BY <1>1, <1>2, EffectSplit
<1> QED
  BY <1>3, EffectUniform

\* Entering or taking out the one row of an id.
LEMMA EffectOne ==
  ASSUME NEW rows \in TxnTable, NEW with \in TxnTable, NEW i \in TxnIds,
         NEW row \in TxnRow, NEW a,
         rows[i] \notin TxnRow, with[i] = row,
         \A j \in TxnIds \ {i} : with[j] = rows[j]
  PROVE  /\ Effect(with, a) = Effect(rows, a) + (IF row.account = a THEN SignedDelta(row) ELSE 0)
         /\ SignedDelta(row) \in Int
<1>1. Effect(with, a) = Effect(rows, a)
           + (IF row.account = a THEN Cardinality({i}) * SignedDelta(row) ELSE 0)
  <2> DEFINE T == {i}
  <2>1. /\ T \in SUBSET TxnIds
        /\ \A j \in T : rows[j] \notin TxnRow /\ with[j] = row
        /\ \A j \in TxnIds \ T : with[j] = rows[j]
    OBVIOUS
  <2> HIDE DEF T
  <2>2. Effect(with, a) = Effect(rows, a)
           + (IF row.account = a THEN Cardinality(T) * SignedDelta(row) ELSE 0)
    BY ONLY <2>1, EffectEnter, rows \in TxnTable, with \in TxnTable, row \in TxnRow
  <2> QED
    BY <2>2 DEF T
<1>2. Cardinality({i}) = 1 /\ SignedDelta(row) \in Int
  BY FS_Singleton, EffectUniform
<1> QED
  BY <1>1, <1>2

\* Every number the drift is made of is an integer.
LEMMA DriftParts ==
  ASSUME TypeOK, NEW a \in Accounts
  PROVE  /\ balance[a] \in Int /\ opening[a] \in Int
         /\ Effect(txns, a) \in Int /\ TransferEffect(transfers, a) \in Int
         /\ Drift(a) = balance[a] - (opening[a] + Effect(txns, a) + TransferEffect(transfers, a))
  BY RowsAssumption, MinorAssumption, EffectType, TransferEffectType
     DEF TypeOK, Minor, MinMinor, TxnTable, TransferTable, Drift, Rebuilt, RebuiltFrom

\* A step on an up-to-date row image moves a balance exactly as it moves the rows.
LEMMA DriftStep ==
  ASSUME TypeOK, TypeOK', TransfersFresh, Next,
         \A r \in Requests : Stale(r) => req'[r] = req[r],
         NEW a \in Accounts, Owned(a) \/ ~Owned(a)'
  PROVE  Drift(a)' = Drift(a)
<1>0. /\ balance \in [Accounts -> Int] /\ txns \in TxnTable /\ txns' \in TxnTable
      /\ transfers \in TransferTable /\ transfers' \in TransferTable
      /\ req \in [Requests -> {Idle} \cup CreateReq \cup UpdateReq \cup DeleteReq
                            \cup GroupReq \cup TransferReq \cup UntransferReq]
  BY RowsAssumption, MinorAssumption DEF TypeOK, Minor, MinMinor, TxnTable, TransferTable
<1>p. /\ balance[a] \in Int /\ opening[a] \in Int
      /\ Effect(txns, a) \in Int /\ TransferEffect(transfers, a) \in Int
      /\ Drift(a) = balance[a] - (opening[a] + Effect(txns, a) + TransferEffect(transfers, a))
  BY DriftParts
<1>q. /\ balance'[a] \in Int /\ opening'[a] \in Int
      /\ Effect(txns', a) \in Int /\ TransferEffect(transfers', a) \in Int
      /\ Drift(a)' = balance'[a] - (opening'[a] + Effect(txns', a) + TransferEffect(transfers', a))
  BY <1>0, RowsAssumption, MinorAssumption, EffectType, TransferEffectType
     DEF TypeOK, Minor, MinMinor, Drift, Rebuilt, RebuiltFrom
<1>1. CASE UNCHANGED <<opening, balance, txns, transfers>>
  BY <1>1, <1>p, <1>q
<1>2. ASSUME NEW b \in Accounts, NEW o \in Openings, CreateAccount(b, o)
      PROVE  Drift(a)' = Drift(a)
  <2>1. b # a
    BY <1>2 DEF CreateAccount, Owned, TypeOK
  <2>2. balance'[a] = balance[a] /\ opening'[a] = opening[a] /\ txns' = txns /\ transfers' = transfers
    BY <1>2, <2>1 DEF CreateAccount, TypeOK
  <2> QED
    BY <2>2, <1>p, <1>q
<1>3. ASSUME NEW r \in Requests, NEW ids \in SUBSET TxnIds, CommitCreate(r, ids)
      PROVE  Drift(a)' = Drift(a)
  <2> DEFINE row == [req[r].row EXCEPT !.group = IF req[r].legs = 1 THEN NoGroup ELSE ids]
             n == req[r].legs
  <2>1. req[r].row \in TxnRow /\ n \in Nat
    BY <1>3, RequestKinds, LedgerAssumption DEF CommitCreate, CreateReq
  <2>2. row \in TxnRow
    BY <2>1 DEF TxnRow, NoGroup
  <2>3. /\ balance' = Applied(balance, row, n)
        /\ Cardinality(ids) = n
        /\ \A i \in ids : txns[i] = Unborn
        /\ txns' = [i \in TxnIds |-> IF i \in ids THEN row ELSE txns[i]]
        /\ opening' = opening /\ transfers' = transfers
    BY <1>3 DEF CommitCreate
  <2> HIDE DEF row, n
  <2>4. Effect(txns', a) = Effect(txns, a) + (IF row.account = a THEN n * SignedDelta(row) ELSE 0)
    BY <1>0, <2>2, <2>3, EffectEnter, NullsAreNoRows
  <2>5. balance'[a] = balance[a] + (IF row.account = a THEN n * SignedDelta(row) ELSE 0)
    BY <1>0, <2>1, <2>2, <2>3, RowBalances
  <2>6. (IF row.account = a THEN n * SignedDelta(row) ELSE 0) \in Int
    BY <2>1, <2>2, RowBalances, <1>0
  <2> DEFINE m == IF row.account = a THEN n * SignedDelta(row) ELSE 0
  <2> HIDE DEF m
  <2>7. Effect(txns', a) = Effect(txns, a) + m /\ balance'[a] = balance[a] + m /\ m \in Int
    BY <2>4, <2>5, <2>6 DEF m
  <2> QED
    BY <2>3, <2>7, <1>p, <1>q
<1>4. ASSUME NEW r \in Requests, CommitUpdate(r)
      PROVE  Drift(a)' = Drift(a)
  <2> DEFINE id == req[r].id
             seen == req[r].seen
             next == Patched(seen, req[r].dto)
             mid == [txns EXCEPT ![id] = Gone]
  <2>1. /\ seen \in TxnRow /\ req[r].dto \in UpdateDto /\ id \in TxnIds /\ req[r] # Idle
    BY <1>4, RequestKinds DEF CommitUpdate, UpdateReq, Idle
  <2>2. txns[id] = seen
    BY <1>0, <1>4, <2>1 DEF CommitUpdate, Stale
  <2>3. next \in TxnRow
    BY <2>1, PatchedType
  <2>4. /\ balance' = Applied(Reversed(balance, seen), next, 1)
        /\ txns' = [txns EXCEPT ![id] = next]
        /\ opening' = opening /\ transfers' = transfers
    BY <1>4, <2>2 DEF CommitUpdate
  <2>5. mid \in TxnTable /\ mid[id] = Gone /\ txns'[id] = next
        /\ \A j \in TxnIds \ {id} : txns[j] = mid[j] /\ txns'[j] = mid[j]
    BY <1>0, <2>1, <2>4 DEF TxnTable, NoRow
  <2> HIDE DEF id, seen, next, mid
  <2> DEFINE before == IF seen.account = a THEN SignedDelta(seen) ELSE 0
             after == IF next.account = a THEN SignedDelta(next) ELSE 0
  <2>6. Effect(txns, a) = Effect(mid, a) + before /\ before \in Int
    BY <1>0, <2>1, <2>2, <2>5, EffectOne, NullsAreNoRows
  <2>7. Effect(txns', a) = Effect(mid, a) + after /\ after \in Int
    BY <1>0, <2>1, <2>3, <2>5, EffectOne, NullsAreNoRows
  <2>8. Reversed(balance, seen) \in [Accounts -> Int] /\ Reversed(balance, seen)[a] = balance[a] - before
    BY <1>0, <2>1, RowBalances
  <2>9. Applied(Reversed(balance, seen), next, 1)[a] = Reversed(balance, seen)[a] + after
    <3>1. 1 * SignedDelta(next) = SignedDelta(next)
      BY <1>0, <2>3, RowBalances
    <3> QED
      BY <2>3, <2>8, <3>1, RowBalances
  <2>10. Effect(mid, a) \in Int
    BY <2>5, EffectType
  <2> HIDE DEF before, after
  <2> QED
    BY <2>4, <2>6, <2>7, <2>8, <2>9, <2>10, <1>p, <1>q
<1>5. ASSUME NEW r \in Requests, CommitDelete(r)
      PROVE  Drift(a)' = Drift(a)
  <2> DEFINE id == req[r].id
             seen == req[r].seen
  <2>1. seen \in TxnRow /\ id \in TxnIds /\ req[r] # Idle
    BY <1>5, RequestKinds DEF CommitDelete, DeleteReq, Idle
  <2>2. txns[id] = seen
    BY <1>0, <1>5, <2>1 DEF CommitDelete, Stale
  <2>3. /\ balance' = Reversed(balance, seen)
        /\ txns' = [txns EXCEPT ![id] = Gone]
        /\ opening' = opening /\ transfers' = transfers
    BY <1>5 DEF CommitDelete
  <2>4. txns'[id] = Gone /\ \A j \in TxnIds \ {id} : txns[j] = txns'[j]
    BY <1>0, <2>1, <2>3 DEF TxnTable
  <2> HIDE DEF id, seen
  <2> DEFINE before == IF seen.account = a THEN SignedDelta(seen) ELSE 0
  <2>5. Effect(txns, a) = Effect(txns', a) + before /\ before \in Int
    BY <1>0, <2>1, <2>2, <2>4, EffectOne, NullsAreNoRows
  <2>6. balance'[a] = balance[a] - before
    BY <1>0, <2>1, <2>3, RowBalances
  <2> HIDE DEF before
  <2> QED
    BY <2>3, <2>5, <2>6, <1>p, <1>q
<1>6. ASSUME NEW r \in Requests, CommitDeleteGroup(r)
      PROVE  Drift(a)' = Drift(a)
  <2> DEFINE legs == req[r].legs
             group == Legs(req[r].seen.group)
  <2>1. legs \in TxnTable /\ req[r] # Idle
    BY <1>6, RequestKinds DEF CommitDeleteGroup, GroupReq, TxnTable, Idle
  <2>2. \A i \in TxnIds : IF i \in group THEN legs[i] = txns[i] ELSE legs[i] \notin TxnRow
    BY <1>0, <1>6, <2>1 DEF CommitDeleteGroup, Stale
  <2>3. /\ balance' = [b \in Accounts |-> balance[b] - Effect(legs, b)]
        /\ txns' = [i \in TxnIds |-> IF i \in group THEN Gone ELSE txns[i]]
        /\ opening' = opening /\ transfers' = transfers
    BY <1>6 DEF CommitDeleteGroup
  <2> HIDE DEF legs, group
  <2>4. \A i \in TxnIds : \/ txns'[i] \notin TxnRow /\ txns[i] = legs[i]
                          \/ legs[i] \notin TxnRow /\ txns[i] = txns'[i]
    BY <2>2, <2>3, NullsAreNoRows
  <2>5. Effect(txns, a) = Effect(txns', a) + Effect(legs, a)
    BY <1>0, <2>1, <2>4, EffectSplit
  <2>6. Effect(legs, a) \in Int
    BY <2>1, EffectType
  <2> QED
    BY <2>3, <2>5, <2>6, <1>p, <1>q
<1>7. ASSUME NEW r \in Requests, NEW t \in TransferIds, CommitTransfer(r, t)
      PROVE  Drift(a)' = Drift(a)
  <2> DEFINE row == req[r].row
             in == IF row.to = a THEN row.toAmount ELSE 0
             out == IF row.from = a THEN row.fromAmount ELSE 0
  <2>1. row \in TransferRow
    BY <1>7, RequestKinds DEF CommitTransfer, TransferReq
  <2>2. in \in Int /\ out \in Int
    BY <2>1, RowsAssumption, MinorAssumption DEF TransferRow
  <2>3. /\ balance' = Moved(balance, row)
        /\ transfers[t] = Unborn /\ transfers' = [transfers EXCEPT ![t] = row]
        /\ opening' = opening /\ txns' = txns
    BY <1>7 DEF CommitTransfer
  <2>4. transfers'[t] = row /\ \A u \in TransferIds \ {t} : transfers'[u] = transfers[u]
    BY <1>0, <2>3 DEF TransferTable
  <2> HIDE DEF row
  <2>5. TransferEffect(transfers', a) = TransferEffect(transfers, a) + in - out
    <3>1. transfers[t] \notin TransferRow
      BY <2>3, NullsAreNoRows
    <3> QED
      BY <1>0, <2>1, <2>4, <3>1, TransferEffectStep, SMTT(30)
  <2>6. balance'[a] = balance[a] + in - out
    BY <1>0, <2>1, <2>3, TransferBalances
  <2> HIDE DEF in, out
  <2> QED
    BY <2>2, <2>3, <2>5, <2>6, <1>p, <1>q
<1>8. ASSUME NEW r \in Requests, CommitUntransfer(r), transfers[req[r].id] = req[r].seen
      PROVE  Drift(a)' = Drift(a)
  <2> DEFINE row == req[r].seen
             t == req[r].id
             in == IF row.to = a THEN row.toAmount ELSE 0
             out == IF row.from = a THEN row.fromAmount ELSE 0
  <2>1. row \in TransferRow /\ t \in TransferIds
    BY <1>8, RequestKinds DEF CommitUntransfer, UntransferReq
  <2>2. in \in Int /\ out \in Int
    BY <2>1, RowsAssumption, MinorAssumption DEF TransferRow
  <2>3. /\ balance' = Unmoved(balance, row)
        /\ transfers[t] = row /\ transfers' = [transfers EXCEPT ![t] = Gone]
        /\ opening' = opening /\ txns' = txns
    BY <1>8 DEF CommitUntransfer
  <2>4. transfers'[t] = Gone /\ \A u \in TransferIds \ {t} : transfers[u] = transfers'[u]
    BY <1>0, <2>1, <2>3 DEF TransferTable
  <2> HIDE DEF row, t
  <2>5. TransferEffect(transfers, a) = TransferEffect(transfers', a) + in - out
    <3>1. transfers'[t] \notin TransferRow
      BY <2>4, NullsAreNoRows
    <3> DEFINE kept == transfers'
    <3>2. kept \in TransferTable /\ transfers \in TransferTable /\ transfers[t] = row
          /\ kept[t] \notin TransferRow /\ \A u \in TransferIds \ {t} : transfers[u] = kept[u]
      BY <1>0, <2>3, <2>4, <3>1
    <3> HIDE DEF kept
    <3>3. TransferEffect(transfers, a) = TransferEffect(kept, a) + in - out
      BY <2>1, <3>2, TransferEffectStep, SMTT(30)
    <3> QED
      BY <3>3 DEF kept
  <2>6. balance'[a] = balance[a] - in + out
    BY <1>0, <2>1, <2>3, TransferBalances
  <2> HIDE DEF in, out
  <2> QED
    BY <2>2, <2>3, <2>5, <2>6, <1>p, <1>q
<1>9. CASE \E r \in Requests : CommitUntransfer(r)
  BY <1>8, <1>9, NullsAreNoRows DEF TransfersFresh, CommitUntransfer, LiveTransfer
<1>10. CASE AccountStep
  BY <1>1, <1>2, <1>10 DEF AccountStep, ArchiveAccount
<1>11. ASSUME NEW r \in Requests, TransactionStep(r)
       PROVE  Drift(a)' = Drift(a)
  BY <1>1, <1>3, <1>4, <1>5, <1>6, <1>11
     DEF TransactionStep, AcceptCreate, ReadForUpdate, ReadForDelete, ReadLegs
<1>12. ASSUME NEW r \in Requests, TransferStep(r)
       PROVE  Drift(a)' = Drift(a)
  BY <1>1, <1>7, <1>9, <1>12 DEF TransferStep, AcceptTransfer, ReadForUntransfer
<1>13. ASSUME NEW r \in Requests, Rollback(r)
       PROVE  Drift(a)' = Drift(a)
  BY <1>1, <1>13 DEF Rollback
<1> QED
  BY <1>10, <1>11, <1>12, <1>13 DEF Next

\* Stale row images are the only source of drift, however requests interleave,
\* fail or overlap (transactions.service.ts, transfers.service.ts).
THEOREM DriftNeedsStaleRead == Spec => DriftOnlyFromStaleRead
<1> DEFINE Inv == TypeOK /\ TransfersFresh
           Good == \/ UNCHANGED <<opening, balance, txns, transfers>>
                   \/ \E r \in Requests : Stale(r) /\ req'[r] # req[r]
                   \/ \A a \in Accounts : Owned(a) => Drift(a)' = Drift(a)
<1>1. Init => Inv
  <2>1. Init => TypeOK
    BY RowsAssumption, MinorAssumption DEF Init, TypeOK, NoRow, Minor, MinMinor
  <2> QED
    BY <2>1 DEF Init, TransfersFresh, Idle
<1>2. Inv /\ [Next]_vars => Inv'
  <2>1. TypeOK /\ TransfersFresh /\ UNCHANGED vars => TypeOK' /\ TransfersFresh'
    BY DEF TypeOK, TransfersFresh, vars
  <2> QED
    BY <2>1, TypeStep, TransfersFreshStep
<1>3. Inv /\ [Next]_vars => [Good]_vars
  <2> SUFFICES ASSUME Inv, Next PROVE Good
    OBVIOUS
  <2> QED
    BY TypeStep, DriftStep
<1> QED
  BY <1>1, <1>2, <1>3, PTL DEF Spec, DriftOnlyFromStaleRead

-----------------------------------------------------------------------------
(* No drift at all when edits of one row or group do not overlap.          *)
(*                                                                         *)
(* BalanceMatchesLedger is not inductive: a commit reverses what its       *)
(* request has read.  It becomes inductive with: two edits in flight never *)
(* share a row (Exclusive), so an image read stays current (FreshImages,   *)
(* FreshLegs); instalment groups are whole, so a group's legs are in scope *)
(* of whoever edits one of them (GroupWhole, SelfInGroup); and rows and    *)
(* requests only name accounts that exist (ForeignKeys), so a new account  *)
(* has no rows.                                                            *)

Editing(r) == req[r].op \in {"update", "delete", "deleteGroup"}
Exclusive == \A r, q \in Requests : r # q => InFlight(r) \cap InFlight(q) = {}
SelfInGroup == \A i \in TxnIds : Live(i) /\ txns[i].group # NoGroup => i \in txns[i].group
FreshImages == \A r \in Requests : Editing(r) => txns[req[r].id] = req[r].seen
FreshLegs ==
    \A r \in Requests : req[r].op = "deleteGroup" =>
        /\ req[r].seen.group # NoGroup
        /\ \A i \in TxnIds : IF txns[i] \in TxnRow /\ txns[i].group = req[r].seen.group
                            THEN req[r].legs[i] = txns[i]
                            ELSE req[r].legs[i] \notin TxnRow
RowKeys == /\ \A i \in TxnIds : Live(i) => Owned(txns[i].account)
           /\ \A t \in TransferIds : LiveTransfer(t) =>
                 Owned(transfers[t].from) /\ Owned(transfers[t].to)
RequestKeys == \A r \in Requests :
    /\ req[r].op = "create" => Owned(req[r].row.account)
    /\ req[r].op = "update" => (req[r].dto.account # Keep => Owned(req[r].dto.account))
    /\ req[r].op = "transfer" => Owned(req[r].row.from) /\ Owned(req[r].row.to)

SerialInv == /\ TypeOK /\ TransfersFresh
             /\ GroupWhole /\ SelfInGroup
             /\ Exclusive /\ FreshImages /\ FreshLegs

\* What an edit in flight is about, once and for all kinds of edit.
LEMMA EditingType ==
  ASSUME TypeOK, NEW r \in Requests
  PROVE  /\ Editing(r) => /\ req[r].id \in TxnIds /\ req[r].seen \in TxnRow
                          /\ InFlight(r) = {req[r].id} \cup req[r].seen.group
         /\ ~Editing(r) => InFlight(r) = {}
  BY RequestKinds DEF Editing, InFlight, Scope, UpdateReq, DeleteReq, GroupReq

\* Creating rows disturbs no group and no request in flight.
LEMMA SerialCreate ==
  ASSUME SerialInv, TypeOK', TransfersFresh', NEW r \in Requests,
         NEW ids \in SUBSET TxnIds, CommitCreate(r, ids)
  PROVE  SerialInv'
<1>0. /\ txns \in [TxnIds -> TxnRow \cup NoRow]
      /\ req \in [Requests -> {Idle} \cup CreateReq \cup UpdateReq \cup DeleteReq
                            \cup GroupReq \cup TransferReq \cup UntransferReq]
  BY DEF SerialInv, TypeOK
<1> DEFINE row == [req[r].row EXCEPT !.group = IF req[r].legs = 1 THEN NoGroup ELSE ids]
<1>1. /\ \A i \in ids : txns[i] = Unborn
      /\ txns' = [i \in TxnIds |-> IF i \in ids THEN row ELSE txns[i]]
      /\ req' = [req EXCEPT ![r] = Idle]
  BY <1>0 DEF CommitCreate
<1>2. req[r].row \in TxnRow
  BY RequestKinds DEF CommitCreate, CreateReq, SerialInv
<1>3. row \in TxnRow /\ row.group \in {NoGroup, ids}
  BY <1>2 DEF TxnRow, NoGroup
<1> HIDE DEF row
<1>4. GroupWhole' /\ SelfInGroup'
  <2>1. \A i \in TxnIds : \/ i \in ids /\ txns'[i] = row /\ txns[i] \notin TxnRow
                          \/ i \notin ids /\ txns'[i] = txns[i]
    BY <1>0, <1>1, NullsAreNoRows
  <2>2. \A i \in TxnIds : txns[i] \in TxnRow => txns[i].group \subseteq TxnIds
    BY DEF TxnRow
  <2>3. SelfInGroup'
    BY <1>3, <2>1 DEF SerialInv, SelfInGroup, Live
  <2>4. GroupWhole'
    <3> SUFFICES ASSUME NEW i \in TxnIds, txns'[i] \in TxnRow, NEW j \in txns'[i].group
                 PROVE  txns'[j] \in TxnRow /\ txns'[j].group = txns'[i].group
      BY DEF GroupWhole, Live
    <3>1. CASE i \in ids
      BY <1>3, <2>1, <3>1 DEF NoGroup
    <3>2. CASE i \notin ids
      <4>1. txns[i] \in TxnRow /\ j \in txns[i].group /\ txns'[i] = txns[i]
        BY <2>1, <3>2
      <4>2. txns[j] \in TxnRow /\ txns[j].group = txns[i].group /\ j \in TxnIds
        BY <2>2, <4>1 DEF SerialInv, GroupWhole, Live
      <4> QED
        BY <2>1, <4>1, <4>2
    <3> QED
      BY <3>1, <3>2
  <2> QED
    BY <2>3, <2>4
<1>5. ASSUME NEW q \in Requests, Editing(q)'
      PROVE  /\ q # r /\ Editing(q) /\ req'[q] = req[q]
             /\ req[q].id \in TxnIds \ ids /\ txns[req[q].id] = req[q].seen
             /\ req[q].seen \in TxnRow
  BY <1>0, <1>1, <1>5, EditingType, NullsAreNoRows DEF SerialInv, FreshImages, Editing, Idle
<1>6. FreshImages'
  BY <1>0, <1>1, <1>5 DEF FreshImages
<1>7. FreshLegs'
  <2> SUFFICES ASSUME NEW q \in Requests, (req[q].op = "deleteGroup")'
               PROVE  /\ req'[q].seen.group # NoGroup
                      /\ \A i \in TxnIds : IF txns'[i] \in TxnRow /\ txns'[i].group = req'[q].seen.group
                                          THEN req'[q].legs[i] = txns'[i]
                                          ELSE req'[q].legs[i] \notin TxnRow
    BY DEF FreshLegs
  <2>1. Editing(q)'
    BY DEF Editing
  <2>2. /\ req'[q] = req[q] /\ req[q].op = "deleteGroup"
        /\ req[q].seen.group # NoGroup /\ req[q].id \notin ids
    BY <1>5, <2>1 DEF SerialInv, FreshLegs
  <2>3. req[q].id \in req[q].seen.group
    BY <1>5, <2>1, <2>2 DEF SerialInv, SelfInGroup, Live
  <2>4. req[q].seen.group \notin {NoGroup, ids}
    BY <2>2, <2>3
  <2> QED
    BY <1>0, <1>1, <1>3, <2>2, <2>4, NullsAreNoRows DEF SerialInv, FreshLegs
<1>8. Exclusive'
  <2>1. \A q \in Requests : InFlight(q)' \subseteq InFlight(q)
    BY <1>0, <1>1 DEF InFlight, Idle, Scope
  <2> QED
    BY <2>1 DEF SerialInv, Exclusive
<1> QED
  BY <1>4, <1>6, <1>7, <1>8 DEF SerialInv

\* Patching a row disturbs no group, and no other edit's scope holds the row.
LEMMA SerialUpdate ==
  ASSUME SerialInv, TypeOK', TransfersFresh', NEW r \in Requests, CommitUpdate(r)
  PROVE  SerialInv'
<1>0. /\ txns \in [TxnIds -> TxnRow \cup NoRow]
      /\ req \in [Requests -> {Idle} \cup CreateReq \cup UpdateReq \cup DeleteReq
                            \cup GroupReq \cup TransferReq \cup UntransferReq]
  BY DEF SerialInv, TypeOK
<1> DEFINE id == req[r].id
           new == Patched(txns[id], req[r].dto)
<1>1. /\ id \in TxnIds /\ txns[id] \in TxnRow /\ req[r].dto \in UpdateDto
      /\ txns' = [txns EXCEPT ![id] = new]
      /\ req' = [req EXCEPT ![r] = Idle]
      /\ Editing(r)
  BY RequestKinds DEF CommitUpdate, UpdateReq, SerialInv, Live, Editing
<1>2. new \in TxnRow /\ new.group = txns[id].group
  BY <1>1, PatchedType
<1>3. id \in InFlight(r)
  BY <1>1, EditingType DEF SerialInv
<1> HIDE DEF id, new
<1>4. /\ \A i \in TxnIds \ {id} : txns'[i] = txns[i]
      /\ txns'[id] = new
      /\ \A i \in TxnIds : txns'[i] \in TxnRow => txns[i] \in TxnRow /\ txns'[i].group = txns[i].group
      /\ \A i \in TxnIds : txns[i] \in TxnRow => txns'[i] \in TxnRow /\ txns'[i].group = txns[i].group
  BY <1>0, <1>1, <1>2
<1>5. GroupWhole' /\ SelfInGroup'
  <2>1. \A i \in TxnIds : txns[i] \in TxnRow => txns[i].group \subseteq TxnIds
    BY DEF TxnRow
  <2> QED
    BY <1>4, <2>1 DEF SerialInv, GroupWhole, SelfInGroup, Live
<1>6. ASSUME NEW q \in Requests, Editing(q)'
      PROVE  /\ q # r /\ Editing(q) /\ req'[q] = req[q]
             /\ req[q].id \in TxnIds \ {id} /\ txns[req[q].id] = req[q].seen
             /\ id \notin req[q].seen.group /\ req[q].seen \in TxnRow
  <2>1. q # r /\ Editing(q) /\ req'[q] = req[q]
    BY <1>0, <1>1, <1>6 DEF Editing, Idle
  <2>2. id \notin InFlight(q)
    BY <1>3, <2>1 DEF SerialInv, Exclusive
  <2> QED
    BY <2>1, <2>2, EditingType DEF SerialInv, FreshImages
<1>7. FreshImages'
  BY <1>4, <1>6 DEF FreshImages
<1>8. FreshLegs'
  <2> SUFFICES ASSUME NEW q \in Requests, (req[q].op = "deleteGroup")'
               PROVE  /\ req'[q].seen.group # NoGroup
                      /\ \A i \in TxnIds : IF txns'[i] \in TxnRow /\ txns'[i].group = req'[q].seen.group
                                          THEN req'[q].legs[i] = txns'[i]
                                          ELSE req'[q].legs[i] \notin TxnRow
    BY DEF FreshLegs
  <2>1. Editing(q)'
    BY DEF Editing
  <2>2. /\ req'[q] = req[q] /\ req[q].op = "deleteGroup"
        /\ req[q].seen.group # NoGroup /\ id \notin req[q].seen.group
    BY <1>6, <2>1 DEF SerialInv, FreshLegs
  <2>3. txns[id].group # req[q].seen.group
    BY <1>1, <2>2 DEF SerialInv, SelfInGroup, Live
  <2> QED
    BY <1>1, <1>4, <2>2, <2>3 DEF SerialInv, FreshLegs
<1>9. Exclusive'
  <2>1. \A q \in Requests : InFlight(q)' \subseteq InFlight(q)
    BY <1>0, <1>1 DEF InFlight, Idle, Scope
  <2> QED
    BY <2>1 DEF SerialInv, Exclusive
<1> QED
  BY <1>5, <1>7, <1>8, <1>9 DEF SerialInv

\* Deleting rows takes out a row of no group or a whole group, all of it in the
\* scope of the request that deletes.
LEMMA SerialDelete ==
  ASSUME SerialInv, TypeOK', TransfersFresh', NEW r \in Requests,
         CommitDelete(r) \/ CommitDeleteGroup(r)
  PROVE  SerialInv'
<1>0. /\ txns \in [TxnIds -> TxnRow \cup NoRow]
      /\ req \in [Requests -> {Idle} \cup CreateReq \cup UpdateReq \cup DeleteReq
                            \cup GroupReq \cup TransferReq \cup UntransferReq]
  BY DEF SerialInv, TypeOK
<1> DEFINE seen == req[r].seen
           out == {i \in TxnIds : txns[i] # txns'[i]}
<1>1. /\ Editing(r) /\ req' = [req EXCEPT ![r] = Idle]
      /\ seen \in TxnRow /\ req[r].id \in TxnIds /\ txns[req[r].id] = seen
      /\ InFlight(r) = {req[r].id} \cup seen.group
  <2>1. Editing(r) /\ req' = [req EXCEPT ![r] = Idle]
    BY DEF Editing, CommitDelete, CommitDeleteGroup
  <2> QED
    BY <2>1, EditingType DEF SerialInv, FreshImages
<1>2. /\ out \subseteq InFlight(r)
      /\ \A i \in out : txns[i] \in TxnRow /\ txns[i].group = seen.group /\ txns'[i] = Gone
      /\ \A i \in TxnIds \ out : txns'[i] = txns[i]
      /\ \A i \in TxnIds \ out : txns[i] \in TxnRow /\ seen.group # NoGroup => txns[i].group # seen.group
  <2>1. CASE CommitDelete(r)
    <3>1. txns' = [txns EXCEPT ![req[r].id] = Gone] /\ seen.group = NoGroup
      BY <2>1 DEF CommitDelete
    <3> QED
      BY <1>0, <1>1, <3>1
  <2>2. CASE CommitDeleteGroup(r)
    <3>1. txns' = [i \in TxnIds |-> IF txns[i] \in TxnRow /\ txns[i].group = seen.group
                                    THEN Gone ELSE txns[i]]
      BY <2>2 DEF CommitDeleteGroup, Legs, Live
    <3>2. seen.group # NoGroup
      BY <2>2 DEF CommitDeleteGroup, SerialInv, FreshLegs
    <3>3. \A i \in TxnIds : txns[i] \in TxnRow /\ txns[i].group = seen.group => i \in seen.group
      BY <3>2 DEF SerialInv, SelfInGroup, Live
    <3> QED
      BY <1>0, <1>1, <3>1, <3>3, NullsAreNoRows
  <2> QED
    BY <2>1, <2>2
<1> HIDE DEF out
<1>3. out \subseteq TxnIds /\ \A i \in out : txns'[i] \notin TxnRow
  BY <1>2, NullsAreNoRows DEF out
<1>5. GroupWhole' /\ SelfInGroup'
  <2>1. \A i \in TxnIds : txns[i] \in TxnRow => txns[i].group \subseteq TxnIds
    BY DEF TxnRow
  <2>2. SelfInGroup'
    BY <1>2, <1>3 DEF SerialInv, SelfInGroup, Live
  <2>3. GroupWhole'
    <3> SUFFICES ASSUME NEW i \in TxnIds, txns'[i] \in TxnRow, NEW j \in txns'[i].group
                 PROVE  txns'[j] \in TxnRow /\ txns'[j].group = txns'[i].group
      BY DEF GroupWhole, Live
    <3>1. i \notin out /\ txns[i] \in TxnRow /\ txns'[i] = txns[i]
      BY <1>2, <1>3
    <3>2. txns[j] \in TxnRow /\ txns[j].group = txns[i].group /\ j \in TxnIds
      BY <2>1, <3>1 DEF SerialInv, GroupWhole, Live
    <3>3. j \notin out
      BY <1>2, <3>1, <3>2 DEF NoGroup
    <3> QED
      BY <1>2, <3>1, <3>2, <3>3
  <2> QED
    BY <2>2, <2>3
<1>6. ASSUME NEW q \in Requests, Editing(q)'
      PROVE  /\ q # r /\ Editing(q) /\ req'[q] = req[q]
             /\ req[q].id \in TxnIds \ out /\ txns[req[q].id] = req[q].seen
             /\ req[q].seen.group \cap InFlight(r) = {} /\ req[q].seen \in TxnRow
  <2>1. q # r /\ Editing(q) /\ req'[q] = req[q]
    BY <1>0, <1>1, <1>6 DEF Editing, Idle
  <2>2. InFlight(q) \cap InFlight(r) = {}
    BY <2>1 DEF SerialInv, Exclusive
  <2> QED
    BY <1>2, <2>1, <2>2, EditingType DEF SerialInv, FreshImages
<1>7. FreshImages'
  BY <1>2, <1>6 DEF FreshImages
<1>8. FreshLegs'
  <2> SUFFICES ASSUME NEW q \in Requests, (req[q].op = "deleteGroup")'
               PROVE  /\ req'[q].seen.group # NoGroup
                      /\ \A i \in TxnIds : IF txns'[i] \in TxnRow /\ txns'[i].group = req'[q].seen.group
                                          THEN req'[q].legs[i] = txns'[i]
                                          ELSE req'[q].legs[i] \notin TxnRow
    BY DEF FreshLegs
  <2>1. Editing(q)'
    BY DEF Editing
  <2>2. /\ req'[q] = req[q] /\ req[q].op = "deleteGroup"
        /\ req[q].seen.group # NoGroup /\ req[q].seen.group \cap InFlight(r) = {}
    BY <1>6, <2>1 DEF SerialInv, FreshLegs
  <2>3. \A i \in out : txns[i].group # req[q].seen.group
    BY <1>2, <1>3, <2>2 DEF SerialInv, SelfInGroup, Live
  <2> QED
    BY <1>2, <1>3, <2>2, <2>3 DEF SerialInv, FreshLegs
<1>9. Exclusive'
  <2>1. \A q \in Requests : InFlight(q)' \subseteq InFlight(q)
    BY <1>0, <1>1 DEF InFlight, Idle, Scope
  <2> QED
    BY <2>1 DEF SerialInv, Exclusive
<1> QED
  BY <1>5, <1>7, <1>8, <1>9 DEF SerialInv

\* Reading for an edit joins the edits in flight only when none shares a row.
LEMMA SerialRead ==
  ASSUME SerialInv, TypeOK', TransfersFresh', ~OverlappingEdits, NEW r \in Requests, NEW i \in TxnIds,
         ReadForDelete(r, i) \/ \E dto \in NewDto : ReadForUpdate(r, i, dto)
  PROVE  SerialInv'
<1>0. /\ txns \in [TxnIds -> TxnRow \cup NoRow]
      /\ req \in [Requests -> {Idle} \cup CreateReq \cup UpdateReq \cup DeleteReq
                            \cup GroupReq \cup TransferReq \cup UntransferReq]
  BY DEF SerialInv, TypeOK
<1>1. /\ txns' = txns /\ txns[i] \in TxnRow
      /\ \A q \in Requests : q # r => req'[q] = req[q]
      /\ req'[r].op \in {"update", "delete"} /\ req'[r].id = i /\ req'[r].seen = txns[i]
      /\ \A q \in Requests : InFlight(q) \cap ({i} \cup txns[i].group) = {}
  <2>1. CASE ReadForDelete(r, i)
    BY <1>0, <2>1 DEF ReadForDelete, MayEdit, Scope, Live
  <2>2. CASE \E dto \in NewDto : ReadForUpdate(r, i, dto)
    BY <1>0, <2>2 DEF ReadForUpdate, MayEdit, Scope, Live
  <2> QED
    BY <2>1, <2>2
<1>2. GroupWhole' /\ SelfInGroup'
  BY <1>1 DEF SerialInv, GroupWhole, SelfInGroup, Live
<1>3. FreshImages'
  BY <1>1 DEF SerialInv, FreshImages, Editing
<1>4. FreshLegs'
  BY <1>1 DEF SerialInv, FreshLegs
<1>5. Exclusive'
  <2>1. InFlight(r)' = {i} \cup txns[i].group
    BY <1>1 DEF InFlight, Scope
  <2>2. \A q \in Requests : q # r => InFlight(q)' = InFlight(q)
    BY <1>1 DEF InFlight, Scope
  <2> QED
    BY <1>1, <2>1, <2>2 DEF SerialInv, Exclusive
<1> QED
  BY <1>2, <1>3, <1>4, <1>5 DEF SerialInv

\* Reading the legs of a group keeps the scope of the edit.
LEMMA SerialReadLegs ==
  ASSUME SerialInv, TypeOK', TransfersFresh', NEW r \in Requests, ReadLegs(r)
  PROVE  SerialInv'
<1>0. /\ txns \in [TxnIds -> TxnRow \cup NoRow]
      /\ req \in [Requests -> {Idle} \cup CreateReq \cup UpdateReq \cup DeleteReq
                            \cup GroupReq \cup TransferReq \cup UntransferReq]
  BY DEF SerialInv, TypeOK
<1>1. /\ txns' = txns /\ req[r].op = "delete" /\ req[r].seen.group # NoGroup
      /\ \A q \in Requests : q # r => req'[q] = req[q]
      /\ req'[r].op = "deleteGroup" /\ req'[r].id = req[r].id /\ req'[r].seen = req[r].seen
      /\ req'[r].legs = [i \in TxnIds |-> IF i \in Legs(req[r].seen.group) THEN txns[i] ELSE Unborn]
  BY <1>0 DEF ReadLegs
<1>2. GroupWhole' /\ SelfInGroup'
  BY <1>1 DEF SerialInv, GroupWhole, SelfInGroup, Live
<1>3. FreshImages'
  BY <1>1 DEF SerialInv, FreshImages, Editing
<1>4. FreshLegs'
  BY <1>1, NullsAreNoRows DEF SerialInv, FreshLegs, Legs, Live
<1>5. Exclusive'
  <2>1. \A q \in Requests : InFlight(q)' = InFlight(q)
    BY <1>1 DEF InFlight, Scope
  <2> QED
    BY <2>1 DEF SerialInv, Exclusive
<1> QED
  BY <1>2, <1>3, <1>4, <1>5 DEF SerialInv

\* The strengthened invariant is inductive when edits do not overlap.
LEMMA SerialStep ==
  ASSUME SerialInv, Next, ~OverlappingEdits
  PROVE  SerialInv'
<1>0. TypeOK' /\ TransfersFresh'
  BY TypeStep, TransfersFreshStep DEF SerialInv
<1>r. req \in [Requests -> {Idle} \cup CreateReq \cup UpdateReq \cup DeleteReq
                         \cup GroupReq \cup TransferReq \cup UntransferReq]
  BY DEF SerialInv, TypeOK
<1>1. ASSUME txns' = txns,
             \/ req' = req
             \/ \E r \in Requests : \E x : x.op \notin {"update", "delete", "deleteGroup"}
                                       /\ req' = [req EXCEPT ![r] = x]
      PROVE  SerialInv'
  <2>1. \A q \in Requests : Editing(q)' => req'[q] = req[q]
    BY <1>1, <1>r DEF Editing
  <2>2. GroupWhole' /\ SelfInGroup'
    BY <1>1 DEF SerialInv, GroupWhole, SelfInGroup, Live
  <2>3. FreshImages'
    BY <1>1, <2>1 DEF SerialInv, FreshImages, Editing
  <2>4. FreshLegs'
    BY <1>1, <2>1 DEF SerialInv, FreshLegs, Editing
  <2>5. Exclusive'
    <3>1. \A q \in Requests : InFlight(q)' \subseteq InFlight(q)
      BY <2>1 DEF InFlight, Editing, Scope
    <3> QED
      BY <3>1 DEF SerialInv, Exclusive
  <2> QED
    BY <1>0, <2>2, <2>3, <2>4, <2>5 DEF SerialInv
<1>2. CASE AccountStep
  BY <1>1, <1>2 DEF AccountStep, CreateAccount, ArchiveAccount
<1>3. ASSUME NEW r \in Requests, TransactionStep(r)
      PROVE  SerialInv'
  <2>1. ASSUME NEW row \in NewRow, NEW legs \in 1..MaxLegs, AcceptCreate(r, row, legs)
        PROVE  SerialInv'
    BY <1>1, <2>1 DEF AcceptCreate
  <2> QED
    BY <1>0, <1>3, <2>1, SerialCreate, SerialUpdate, SerialDelete, SerialRead, SerialReadLegs
       DEF TransactionStep
<1>4. ASSUME NEW r \in Requests, TransferStep(r)
      PROVE  SerialInv'
  BY <1>1, <1>4 DEF TransferStep, AcceptTransfer, CommitTransfer, ReadForUntransfer,
     CommitUntransfer, Idle
<1>5. ASSUME NEW r \in Requests, Rollback(r)
      PROVE  SerialInv'
  BY <1>1, <1>5 DEF Rollback, Idle
<1> QED
  BY <1>2, <1>3, <1>4, <1>5 DEF Next

\* Under the strengthened invariant no request has a stale image.
LEMMA SerialIsFresh ==
  ASSUME SerialInv, NEW r \in Requests
  PROVE  ~Stale(r)
<1>1. req[r].op \in {"update", "delete"} => txns[req[r].id] = req[r].seen
  BY DEF SerialInv, FreshImages, Editing
<1>2. req[r].op = "deleteGroup" =>
        \A i \in TxnIds : IF i \in Legs(req[r].seen.group)
                         THEN req[r].legs[i] = txns[i] ELSE req[r].legs[i] \notin TxnRow
  BY DEF SerialInv, FreshLegs, Legs, Live
<1> QED
  BY <1>1, <1>2 DEF Stale

LEMMA SerialInit == Init => SerialInv
<1>1. Init => TypeOK
  BY RowsAssumption, MinorAssumption DEF Init, TypeOK, NoRow, Minor, MinMinor
<1>2. Init => /\ TransfersFresh /\ GroupWhole /\ SelfInGroup /\ FreshImages /\ FreshLegs
  BY NullsAreNoRows DEF Init, TransfersFresh, GroupWhole, SelfInGroup, FreshImages,
     FreshLegs, Live, Idle, Editing
<1>3. Init => Exclusive
  BY DEF Init, Exclusive, InFlight, Idle
<1> QED
  BY <1>1, <1>2, <1>3 DEF SerialInv

\* Rows and requests only name accounts that exist (assertAccountOwned).
LEMMA KeysStep ==
  ASSUME TypeOK, TypeOK', RowKeys, RequestKeys, Next
  PROVE  RowKeys' /\ RequestKeys'
<1>0. /\ txns \in [TxnIds -> TxnRow \cup NoRow]
      /\ transfers \in [TransferIds -> TransferRow \cup NoRow]
      /\ accounts \in [Accounts -> {"none", "open", "archived"}]
      /\ req \in [Requests -> {Idle} \cup CreateReq \cup UpdateReq \cup DeleteReq
                            \cup GroupReq \cup TransferReq \cup UntransferReq]
  BY DEF TypeOK
<1>1. CASE AccountStep
  <2>1. txns' = txns /\ transfers' = transfers /\ req' = req
    BY <1>1 DEF AccountStep, CreateAccount, ArchiveAccount
  <2>2. \A a : Owned(a) => Owned(a)'
    <3>1. ASSUME NEW b \in Accounts, NEW x, x # "none", accounts' = [accounts EXCEPT ![b] = x], NEW a, Owned(a)
          PROVE  Owned(a)'
      <4>1. CASE a \in Accounts
        BY <1>0, <3>1, <4>1 DEF Owned
      <4>2. CASE a \notin Accounts
        BY <1>0, <3>1, <4>2 DEF Owned
      <4> QED
        BY <4>1, <4>2
    <3> QED
      BY <1>1, <3>1 DEF AccountStep, CreateAccount, ArchiveAccount
  <2> QED
    BY <2>1, <2>2 DEF RowKeys, RequestKeys, Live, LiveTransfer
<1>2. ASSUME NEW r \in Requests, accounts' = accounts, transfers' = transfers,
             \A i \in TxnIds : txns'[i] \in TxnRow => Owned(txns'[i].account),
             \/ req'[r].op \notin {"create", "update", "transfer"}
             \/ req'[r].op = "create" /\ Owned(req'[r].row.account)
             \/ req'[r].op = "update" /\ (req'[r].dto.account # Keep => Owned(req'[r].dto.account)),
             \A q \in Requests : q # r => req'[q] = req[q]
      PROVE  RowKeys' /\ RequestKeys'
  BY <1>2 DEF RowKeys, RequestKeys, Owned, Live, LiveTransfer
<1>3. ASSUME NEW r \in Requests, TransactionStep(r)
      PROVE  RowKeys' /\ RequestKeys'
  <2>0. \A i \in TxnIds : txns[i] \in TxnRow => Owned(txns[i].account)
    BY DEF RowKeys, Live
  <2>1. ASSUME NEW row \in NewRow, NEW legs \in 1..MaxLegs, AcceptCreate(r, row, legs)
        PROVE  RowKeys' /\ RequestKeys'
    BY <1>0, <1>2, <2>0, <2>1 DEF AcceptCreate
  <2>2. ASSUME NEW ids \in SUBSET TxnIds, CommitCreate(r, ids)
        PROVE  RowKeys' /\ RequestKeys'
    <3> DEFINE row == [req[r].row EXCEPT !.group = IF req[r].legs = 1 THEN NoGroup ELSE ids]
    <3>1. req[r].row \in TxnRow
      BY <2>2, RequestKinds DEF CommitCreate, CreateReq
    <3>2. row.account = req[r].row.account /\ Owned(req[r].row.account)
      BY <2>2, <3>1 DEF CommitCreate, RequestKeys, TxnRow
    <3>3. /\ txns' = [i \in TxnIds |-> IF i \in ids THEN row ELSE txns[i]]
          /\ accounts' = accounts /\ transfers' = transfers /\ req' = [req EXCEPT ![r] = Idle]
      BY <2>2 DEF CommitCreate
    <3> HIDE DEF row
    <3> QED
      BY <1>0, <1>2, <2>0, <3>2, <3>3 DEF Idle
  <2>3. ASSUME NEW i \in TxnIds, NEW dto \in NewDto, ReadForUpdate(r, i, dto)
        PROVE  RowKeys' /\ RequestKeys'
    <3>1. dto.account # Keep => Owned(dto.account)
      BY <2>0, <2>3 DEF ReadForUpdate, Live
    <3> QED
      BY <1>0, <1>2, <2>0, <2>3, <3>1 DEF ReadForUpdate
  <2>4. CASE CommitUpdate(r)
    <3> DEFINE id == req[r].id
               dto == req[r].dto
               new == Patched(txns[id], dto)
    <3>1. id \in TxnIds /\ dto \in UpdateDto /\ txns[id] \in TxnRow
      BY <2>4, RequestKinds DEF CommitUpdate, UpdateReq, Live
    <3>2. dto.account # Keep => Owned(dto.account)
      BY <2>4 DEF CommitUpdate, RequestKeys
    <3>3. new.account = IF dto.account = Keep THEN txns[id].account ELSE dto.account
      BY <3>1 DEF Patched, TxnRow
    <3>4. Owned(new.account)
      BY <2>0, <3>1, <3>2, <3>3
    <3>5. /\ txns' = [txns EXCEPT ![id] = new]
          /\ accounts' = accounts /\ transfers' = transfers /\ req' = [req EXCEPT ![r] = Idle]
      BY <2>4 DEF CommitUpdate
    <3> HIDE DEF id, dto, new
    <3> QED
      BY <1>0, <1>2, <2>0, <3>1, <3>4, <3>5 DEF Idle
  <2>5. ASSUME NEW i \in TxnIds, ReadForDelete(r, i)
        PROVE  RowKeys' /\ RequestKeys'
    BY <1>0, <1>2, <2>0, <2>5 DEF ReadForDelete
  <2>6. CASE CommitDelete(r)
    BY <1>0, <1>2, <2>0, <2>6, NullsAreNoRows DEF CommitDelete, Idle
  <2>7. CASE ReadLegs(r)
    BY <1>0, <1>2, <2>0, <2>7 DEF ReadLegs
  <2>8. CASE CommitDeleteGroup(r)
    BY <1>0, <1>2, <2>0, <2>8, NullsAreNoRows DEF CommitDeleteGroup, Idle
  <2> QED
    BY <1>3, <2>1, <2>2, <2>3, <2>4, <2>5, <2>6, <2>7, <2>8 DEF TransactionStep
<1>5. ASSUME NEW r \in Requests, TransferStep(r)
      PROVE  RowKeys' /\ RequestKeys'
  <2>1. accounts' = accounts /\ txns' = txns
    BY <1>5 DEF TransferStep, AcceptTransfer, CommitTransfer, ReadForUntransfer, CommitUntransfer
  <2>2. \A t \in TransferIds : transfers'[t] \in TransferRow =>
          Owned(transfers'[t].from) /\ Owned(transfers'[t].to)
    BY <1>0, <1>5, NullsAreNoRows DEF TransferStep, AcceptTransfer, CommitTransfer,
       ReadForUntransfer, CommitUntransfer, RowKeys, RequestKeys, LiveTransfer
  <2>3. RequestKeys'
    BY <1>0, <1>5, <2>1 DEF TransferStep, AcceptTransfer, CommitTransfer,
       ReadForUntransfer, CommitUntransfer, RequestKeys, Owned, Idle
  <2> QED
    BY <2>1, <2>2, <2>3 DEF RowKeys, Owned, Live, LiveTransfer
<1>4. ASSUME NEW r \in Requests, Rollback(r)
      PROVE  RowKeys' /\ RequestKeys'
  BY <1>0, <1>4 DEF Rollback, RowKeys, RequestKeys, Owned, Live, LiveTransfer, Idle
<1> QED
  BY <1>1, <1>3, <1>4, <1>5 DEF Next

\* An account no row names is moved by no row.
LEMMA EffectNone ==
  ASSUME NEW rows, NEW moves, NEW a,
         \A i \in TxnIds : rows[i] \in TxnRow => rows[i].account # a,
         \A t \in TransferIds : moves[t] \in TransferRow => moves[t].from # a /\ moves[t].to # a
  PROVE  Effect(rows, a) = 0 /\ TransferEffect(moves, a) = 0
<1>1. ASSUME NEW S, IsFiniteSet(S)
      PROVE  Total([i \in S |-> 0]) = 0
  <2>1. [i \in S |-> IF i \in {} THEN 0 ELSE 0] = [i \in S |-> 0]
    OBVIOUS
  <2>2. 0 \in 0..MaxMinor /\ {} \in SUBSET S
    BY RowsAssumption, MinorAssumption
  <2>3. Total([i \in S |-> IF i \in {} THEN 0 ELSE 0]) = Cardinality({}) * 0
    BY <1>1, <2>2, TotalUniform
  <2> QED
    BY <2>1, <2>3, FS_EmptySet
<1>2. /\ [i \in TxnIds |-> Credit(rows[i], a)] = [i \in TxnIds |-> 0]
      /\ [i \in TxnIds |-> Debit(rows[i], a)] = [i \in TxnIds |-> 0]
  BY DEF Credit, Debit
<1>3. /\ [t \in TransferIds |-> IF moves[t] \in TransferRow /\ moves[t].to = a
                                THEN moves[t].toAmount ELSE 0] = [t \in TransferIds |-> 0]
      /\ [t \in TransferIds |-> IF moves[t] \in TransferRow /\ moves[t].from = a
                                THEN moves[t].fromAmount ELSE 0] = [t \in TransferIds |-> 0]
  OBVIOUS
<1> QED
  BY <1>1, <1>2, <1>3, RowsAssumption, MinorAssumption DEF Effect, TransferEffect

\* Balances stay what the rows say from one step to the next.
LEMMA BalanceStep ==
  ASSUME SerialInv, SerialInv', RowKeys, BalanceMatchesLedger, Next
  PROVE  BalanceMatchesLedger'
<1> SUFFICES ASSUME NEW a \in Accounts, Owned(a)' PROVE balance'[a] = Rebuilt(a)'
  BY DEF BalanceMatchesLedger
<1>0. TypeOK /\ TypeOK' /\ TransfersFresh
  BY DEF SerialInv
<1>1. CASE Owned(a)
  <2>1. balance[a] = opening[a] + Effect(txns, a) + TransferEffect(transfers, a)
    BY <1>1 DEF BalanceMatchesLedger, Rebuilt, RebuiltFrom
  <2>2. /\ balance[a] \in Int /\ opening[a] \in Int
        /\ Effect(txns, a) \in Int /\ TransferEffect(transfers, a) \in Int
        /\ Drift(a) = balance[a] - (opening[a] + Effect(txns, a) + TransferEffect(transfers, a))
    BY <1>0, DriftParts
  <2>3. Drift(a)' = Drift(a)
    BY <1>0, <1>1, SerialIsFresh, DriftStep
  <2>4. /\ balance'[a] \in Int /\ opening'[a] \in Int
        /\ Effect(txns', a) \in Int /\ TransferEffect(transfers', a) \in Int
        /\ Drift(a)' = balance'[a] - (opening'[a] + Effect(txns', a) + TransferEffect(transfers', a))
    BY <1>0, RowsAssumption, MinorAssumption, EffectType, TransferEffectType
       DEF TypeOK, Minor, MinMinor, TxnTable, TransferTable, Drift, Rebuilt, RebuiltFrom
  <2>5. balance'[a] = opening'[a] + Effect(txns', a) + TransferEffect(transfers', a)
    <3> DEFINE b == balance'[a]
               o == opening'[a]
               e == Effect(txns', a)
               m == TransferEffect(transfers', a)
               d == Drift(a)'
    <3>1. d = b - (o + e + m) /\ b \in Int /\ o \in Int /\ e \in Int /\ m \in Int
      BY <2>4
    <3>2. d = 0
      BY <2>1, <2>2, <2>3
    <3> HIDE DEF b, o, e, m, d
    <3>3. b = o + e + m
      BY <3>1, <3>2
    <3> QED
      BY <3>3 DEF b, o, e, m
  <2> QED
    BY <2>5 DEF Rebuilt, RebuiltFrom
<1>2. CASE ~Owned(a)
  <2>1. \E o \in Openings : CreateAccount(a, o)
    <3>1. accounts[a] = "none" /\ accounts'[a] # "none"
      BY <1>2 DEF Owned
    <3>2. CASE AccountStep
      <4>1. ASSUME NEW b \in Accounts, b # a, accounts' \in {[accounts EXCEPT ![b] = "open"], [accounts EXCEPT ![b] = "archived"]}
            PROVE  FALSE
        BY <1>0, <3>1, <4>1 DEF TypeOK
      <4> QED
        BY <3>1, <3>2, <4>1 DEF AccountStep, CreateAccount, ArchiveAccount
    <3>3. ASSUME NEW r \in Requests, TransactionStep(r) \/ TransferStep(r) \/ Rollback(r)
          PROVE  FALSE
      <4>1. accounts' = accounts
        BY <3>3 DEF TransactionStep, TransferStep, AcceptCreate, CommitCreate, ReadForUpdate,
           CommitUpdate, ReadForDelete, CommitDelete, ReadLegs, CommitDeleteGroup,
           AcceptTransfer, CommitTransfer, ReadForUntransfer, CommitUntransfer, Rollback
      <4> QED
        BY <3>1, <4>1
    <3> QED
      BY <3>2, <3>3 DEF Next
  <2>2. /\ balance'[a] = opening'[a] /\ txns' = txns /\ transfers' = transfers
        /\ opening'[a] \in Int
    BY <1>0, <2>1, RowsAssumption, MinorAssumption DEF CreateAccount, TypeOK, Minor, MinMinor
  <2>3. Effect(txns, a) = 0 /\ TransferEffect(transfers, a) = 0
    <3>1. /\ \A i \in TxnIds : txns[i] \in TxnRow => txns[i].account # a
          /\ \A t \in TransferIds : transfers[t] \in TransferRow =>
                transfers[t].from # a /\ transfers[t].to # a
      BY <1>2 DEF RowKeys, Live, LiveTransfer
    <3> QED
      BY <3>1, EffectNone
  <2> QED
    BY <2>2, <2>3 DEF Rebuilt, RebuiltFrom
<1> QED
  BY <1>1, <1>2

DriftInv == SerialInv /\ RowKeys /\ RequestKeys /\ BalanceMatchesLedger

LEMMA DriftInvInit == Init => DriftInv
<1>1. Init => RowKeys /\ RequestKeys /\ BalanceMatchesLedger
  BY NullsAreNoRows DEF Init, RowKeys, RequestKeys, BalanceMatchesLedger, Live, LiveTransfer,
     Idle, Owned
<1> QED
  BY <1>1, SerialInit DEF DriftInv

\* The invariant behind "never drift" is inductive when edits do not overlap.
LEMMA DriftInvStep ==
  ASSUME ~OverlappingEdits
  PROVE  DriftInv /\ [Next]_vars => DriftInv'
<1>1. ASSUME DriftInv, Next PROVE DriftInv'
  BY <1>1, SerialStep, KeysStep, BalanceStep DEF SerialInv, DriftInv
<1>2. ASSUME DriftInv, UNCHANGED vars PROVE DriftInv'
  <2>1. TypeOK' /\ TransfersFresh'
    BY <1>2 DEF DriftInv, SerialInv, TypeOK, TransfersFresh, vars
  <2>2. GroupWhole' /\ SelfInGroup' /\ Exclusive' /\ FreshImages' /\ FreshLegs'
    BY <1>2 DEF DriftInv, SerialInv, GroupWhole, SelfInGroup, Exclusive, FreshImages, FreshLegs,
       vars, Live, Editing, InFlight, Scope
  <2>3. RowKeys' /\ RequestKeys'
    BY <1>2 DEF DriftInv, RowKeys, RequestKeys, Owned, Live, LiveTransfer, vars
  <2>4. BalanceMatchesLedger'
    BY <1>2 DEF DriftInv, BalanceMatchesLedger, Owned, Rebuilt, vars
  <2> QED
    BY <2>1, <2>2, <2>3, <2>4 DEF DriftInv, SerialInv
<1> QED
  BY <1>1, <1>2

\* When edits of one row or group do not overlap, every stored balance is its
\* opening balance plus its rows, an instalment group is whole and no request
\* commits on a stale image, for any number of accounts, rows and requests
\* (transactions.service.ts: "account balances never drift").
THEOREM SerialEditsNeverDrift ==
  ASSUME ~OverlappingEdits
  PROVE  Spec => [](BalanceMatchesLedger /\ GroupWhole /\ SerialEditsStayFresh)
<1>1. DriftInv => BalanceMatchesLedger /\ GroupWhole /\ SerialEditsStayFresh
  BY SerialIsFresh DEF DriftInv, SerialInv, SerialEditsStayFresh
<1> QED
  BY <1>1, DriftInvInit, DriftInvStep, PTL DEF Spec

-----------------------------------------------------------------------------
(* The ledger implements the atomic ledger. *)

\* The atomic ledger speaks of the same rows and the same sums.
LEMMA SameRows ==
  /\ Atomic!TxnRow = TxnRow /\ Atomic!TransferRow = TransferRow
  /\ Atomic!NoGroup = NoGroup /\ Atomic!Minor = Minor
  /\ \A S : Atomic!Cardinality(S) = Cardinality(S)
  /\ \A open, rows, moves, a :
        Atomic!RebuiltFrom(open, rows, moves, a) = RebuiltFrom(open, rows, moves, a)
<1>1. /\ Atomic!TxnRow = TxnRow /\ Atomic!TransferRow = TransferRow
      /\ Atomic!NoGroup = NoGroup /\ Atomic!Minor = Minor
  BY DEF Atomic!TxnRow, TxnRow, Atomic!TransferRow, TransferRow, Atomic!FlowTypes, FlowTypes,
     Atomic!NoGroup, NoGroup, Atomic!Minor, Minor, Atomic!MinMinor, MinMinor
<1>7. \A S : Atomic!Cardinality(S) = Cardinality(S)
  BY DEF Atomic!Cardinality, Cardinality
<1>2. \A f : Atomic!Total(f) = Total(f)
  BY <1>7 DEF Atomic!Total, Total, Atomic!Units, Units
<1>3. \A row, a : Atomic!Credit(row, a) = Credit(row, a) /\ Atomic!Debit(row, a) = Debit(row, a)
  BY <1>1 DEF Atomic!Credit, Credit, Atomic!Debit, Debit
<1>4. \A rows, a : Atomic!Effect(rows, a) = Effect(rows, a)
  BY <1>2, <1>3 DEF Atomic!Effect, Effect
<1>5. \A moves, a : Atomic!TransferEffect(moves, a) = TransferEffect(moves, a)
  BY <1>1, <1>2 DEF Atomic!TransferEffect, TransferEffect
<1>6. \A open, rows, moves, a :
        Atomic!RebuiltFrom(open, rows, moves, a) = RebuiltFrom(open, rows, moves, a)
  BY <1>4, <1>5 DEF Atomic!RebuiltFrom, RebuiltFrom
<1> QED
  BY <1>1, <1>6, <1>7

\* What the refinement needs besides DriftInv: an account that does not exist
\* is at zero, and an accepted transfer is between two accounts.
UnopenedAtZero == \A a \in Accounts : ~Owned(a) => opening[a] = 0 /\ balance[a] = 0
TransfersApart == \A r \in Requests :
    req[r].op = "transfer" => req[r].row.from # req[r].row.to

LEMMA TransfersApartStep ==
  ASSUME TypeOK, TransfersApart, Next
  PROVE  TransfersApart'
<1>0. req \in [Requests -> {Idle} \cup CreateReq \cup UpdateReq \cup DeleteReq
                         \cup GroupReq \cup TransferReq \cup UntransferReq]
  BY DEF TypeOK
<1>1. CASE req' = req
  BY <1>1 DEF TransfersApart
<1>2. ASSUME NEW r \in Requests, NEW x, x.op = "transfer" => x.row.from # x.row.to,
             req' = [req EXCEPT ![r] = x]
      PROVE  TransfersApart'
  BY <1>0, <1>2 DEF TransfersApart
<1>3. ASSUME NEW r \in Requests, TransactionStep(r)
      PROVE  TransfersApart'
  BY <1>2, <1>3 DEF TransactionStep, AcceptCreate, CommitCreate, ReadForUpdate, CommitUpdate,
     ReadForDelete, CommitDelete, ReadLegs, CommitDeleteGroup, Idle
<1>4. ASSUME NEW r \in Requests, TransferStep(r)
      PROVE  TransfersApart'
  BY <1>2, <1>4 DEF TransferStep, AcceptTransfer, CommitTransfer, ReadForUntransfer,
     CommitUntransfer, Idle
<1>5. ASSUME NEW r \in Requests, Rollback(r)
      PROVE  TransfersApart'
  BY <1>2, <1>5 DEF Rollback, Idle
<1> QED
  BY <1>1, <1>3, <1>4, <1>5 DEF Next, AccountStep, CreateAccount, ArchiveAccount

\* Only accounts that exist are moved: every row and request names such accounts.
LEMMA UnopenedStep ==
  ASSUME DriftInv, DriftInv', UnopenedAtZero, Next
  PROVE  UnopenedAtZero'
<1> SUFFICES ASSUME NEW a \in Accounts, accounts'[a] = "none"
             PROVE  opening'[a] = 0 /\ balance'[a] = 0
  BY DEF UnopenedAtZero, Owned
<1>0. TypeOK /\ TypeOK' /\ TransfersFresh
  BY DEF DriftInv, SerialInv
<1>1. accounts[a] = "none" /\ opening'[a] = opening[a]
  <2>1. CASE AccountStep
    BY <1>0, <2>1 DEF AccountStep, CreateAccount, ArchiveAccount, TypeOK
  <2>2. ASSUME NEW r \in Requests, TransactionStep(r) \/ TransferStep(r) \/ Rollback(r)
        PROVE  accounts' = accounts /\ opening' = opening
    BY <2>2 DEF TransactionStep, TransferStep, AcceptCreate, CommitCreate, ReadForUpdate,
       CommitUpdate, ReadForDelete, CommitDelete, ReadLegs, CommitDeleteGroup,
       AcceptTransfer, CommitTransfer, ReadForUntransfer, CommitUntransfer, Rollback
  <2> QED
    BY <2>1, <2>2 DEF Next
<1>2. opening'[a] = 0 /\ balance[a] = 0 /\ opening[a] = 0
  BY <1>1 DEF UnopenedAtZero, Owned
<1>3. Effect(txns, a) = 0 /\ TransferEffect(transfers, a) = 0
  <2>1. /\ \A i \in TxnIds : txns[i] \in TxnRow => txns[i].account # a
        /\ \A t \in TransferIds : transfers[t] \in TransferRow =>
              transfers[t].from # a /\ transfers[t].to # a
    BY <1>1 DEF DriftInv, RowKeys, Live, LiveTransfer, Owned
  <2> QED
    BY <2>1, EffectNone
<1>4. Effect(txns', a) = 0 /\ TransferEffect(transfers', a) = 0
  <2>1. /\ \A i \in TxnIds : txns'[i] \in TxnRow => txns'[i].account # a
        /\ \A t \in TransferIds : transfers'[t] \in TransferRow =>
              transfers'[t].from # a /\ transfers'[t].to # a
    BY DEF DriftInv, RowKeys, Live, LiveTransfer, Owned
  <2> QED
    BY <2>1, EffectNone
<1>5. Drift(a)' = Drift(a)
  <2>1. \A r \in Requests : ~Stale(r)
    BY SerialIsFresh DEF DriftInv
  <2> QED
    BY <1>0, <2>1, DriftStep DEF Owned
<1>6. Drift(a) = 0
  BY <1>2, <1>3 DEF Drift, Rebuilt, RebuiltFrom
<1>7. Drift(a)' = balance'[a] - 0
  BY <1>2, <1>4 DEF Drift, Rebuilt, RebuiltFrom
<1>8. balance'[a] \in Int
  BY <1>0, MinorAssumption DEF TypeOK, Minor, MinMinor
<1> QED
  BY <1>2, <1>5, <1>6, <1>7, <1>8

\* Every account, existing or not, holds what the rows say.
RefinementInv == DriftInv /\ UnopenedAtZero /\ TransfersApart

InBalance ==
    /\ balance = [a \in Accounts |-> Atomic!RebuiltFrom(opening, txns, transfers, a)]
    /\ \A a \in Accounts : balance[a] \in Atomic!Minor

LEMMA AllBalanced ==
  ASSUME RefinementInv
  PROVE  InBalance
<1>0. TypeOK
  BY DEF RefinementInv, DriftInv, SerialInv
<1>1. ASSUME NEW a \in Accounts
      PROVE  balance[a] = Rebuilt(a)
  <2>1. CASE Owned(a)
    BY <2>1 DEF RefinementInv, DriftInv, BalanceMatchesLedger
  <2>2. CASE ~Owned(a)
    <3>1. /\ \A i \in TxnIds : txns[i] \in TxnRow => txns[i].account # a
          /\ \A t \in TransferIds : transfers[t] \in TransferRow =>
                transfers[t].from # a /\ transfers[t].to # a
      BY <2>2 DEF RefinementInv, DriftInv, RowKeys, Live, LiveTransfer
    <3>2. Effect(txns, a) = 0 /\ TransferEffect(transfers, a) = 0
      BY <3>1, EffectNone
    <3>3. opening[a] = 0 /\ balance[a] = 0
      BY <2>2 DEF RefinementInv, UnopenedAtZero
    <3> QED
      BY <3>2, <3>3 DEF Rebuilt, RebuiltFrom
  <2> QED
    BY <2>1, <2>2
<1>2. balance = [a \in Accounts |-> Rebuilt(a)]
  BY <1>0, <1>1 DEF TypeOK
<1> QED
  BY <1>0, <1>2, SameRows DEF TypeOK, Rebuilt, InBalance

\* Every commit is one operation of the atomic ledger, everything else stutters.
LEMMA StepRefines ==
  ASSUME RefinementInv, TypeOK', RowKeys', Next
  PROVE  Atomic!Change \/ UNCHANGED <<accounts, opening, balance, txns, transfers>>
<1> DEFINE Stutter == UNCHANGED <<accounts, opening, balance, txns, transfers>>
<1>0. /\ SerialInv /\ TypeOK /\ RowKeys /\ RequestKeys /\ TransfersApart
      /\ accounts \in [Accounts -> {"none", "open", "archived"}]
      /\ opening \in [Accounts -> Minor]
      /\ txns \in [TxnIds -> TxnRow \cup NoRow]
      /\ transfers \in [TransferIds -> TransferRow \cup NoRow]
  BY DEF RefinementInv, DriftInv, SerialInv, TypeOK
<1>1. CASE \E a \in Accounts, o \in Openings : CreateAccount(a, o)
  <2>1. PICK a \in Accounts, o \in Openings : CreateAccount(a, o)
    BY <1>1
  <2>2. Atomic!Open(a)
    BY <1>0, <2>1 DEF CreateAccount, Atomic!Open, Atomic!Known
  <2> QED
    BY <2>2 DEF Atomic!Change
<1>2. CASE \E a \in Accounts : ArchiveAccount(a)
  BY <1>2 DEF ArchiveAccount, Atomic!Archive, Atomic!Change
<1>3. ASSUME NEW r \in Requests, NEW ids \in SUBSET TxnIds, CommitCreate(r, ids)
      PROVE  Atomic!Change
  <2> DEFINE row == [req[r].row EXCEPT !.group = IF req[r].legs = 1 THEN NoGroup ELSE ids]
  <2>1. /\ req[r].row \in TxnRow /\ req[r].legs \in 1..MaxLegs
        /\ Owned(req[r].row.account)
    BY <1>0, <1>3, RequestKinds DEF CommitCreate, CreateReq, RequestKeys
  <2>2. /\ row \in TxnRow /\ row.account = req[r].row.account
        /\ row.group = IF req[r].legs = 1 THEN NoGroup ELSE ids
    BY <2>1 DEF TxnRow, NoGroup
  <2>3. /\ Cardinality(ids) = req[r].legs
        /\ \A i \in ids : txns[i] = Unborn
        /\ txns' = [i \in TxnIds |-> IF i \in ids THEN row ELSE txns[i]]
        /\ UNCHANGED <<accounts, opening, transfers>>
    BY <1>3 DEF CommitCreate
  <2> HIDE DEF row
  <2>4. ids # {}
    <3>1. 0 \notin 1..MaxLegs
      BY LedgerAssumption
    <3> QED
      BY <2>1, <2>3, <3>1, FS_EmptySet
  <2>5. row \in {txns'[i] : i \in ids}
    BY <2>3, <2>4
  <2>6. /\ row \in Atomic!TxnRow /\ Atomic!Known(row.account)
        /\ row.group = IF Atomic!Cardinality(ids) = 1 THEN Atomic!NoGroup ELSE ids
    BY <2>1, <2>2, <2>3, SameRows DEF Atomic!Known, Owned
  <2>7. Atomic!Post(ids)
    BY <2>3, <2>4, <2>5, <2>6 DEF Atomic!Post
  <2> QED
    BY <2>7 DEF Atomic!Change
<1>4. ASSUME NEW r \in Requests, CommitUpdate(r)
      PROVE  Atomic!Change
  <2> DEFINE i == req[r].id
             new == Patched(txns[i], req[r].dto)
  <2>1. /\ i \in TxnIds /\ txns[i] \in TxnRow /\ req[r].dto \in UpdateDto
        /\ txns' = [txns EXCEPT ![i] = new]
        /\ UNCHANGED <<accounts, opening, transfers>>
    BY <1>0, <1>4, RequestKinds DEF CommitUpdate, UpdateReq, Live
  <2>2. new \in TxnRow /\ new.group = txns[i].group
    BY <2>1, PatchedType
  <2> HIDE DEF i, new
  <2>3. txns'[i] = new /\ Atomic!Known(new.account)
    BY <1>0, <2>1, <2>2 DEF RowKeys, Live, Owned, Atomic!Known
  <2>4. Atomic!Amend(i)
    <3>1. txns[i] \in Atomic!TxnRow /\ txns'[i] \in Atomic!TxnRow
      BY <2>1, <2>2, <2>3, SameRows
    <3>2. txns'[i].group = txns[i].group /\ Atomic!Known(txns'[i].account)
          /\ txns' = [txns EXCEPT ![i] = txns'[i]]
      BY <2>1, <2>2, <2>3
    <3> QED
      BY <2>1, <3>1, <3>2 DEF Atomic!Amend
  <2> QED
    BY <2>1, <2>4 DEF Atomic!Change
<1>5. ASSUME NEW r \in Requests, CommitDelete(r) \/ CommitDeleteGroup(r)
      PROVE  Atomic!Change
  <2> DEFINE i == req[r].id
             seen == req[r].seen
  <2>1. i \in TxnIds /\ seen \in TxnRow /\ txns[i] = seen
    <3>1. Editing(r)
      BY <1>5 DEF Editing, CommitDelete, CommitDeleteGroup
    <3> QED
      BY <1>0, <3>1, EditingType DEF SerialInv, FreshImages
  <2>2. UNCHANGED <<accounts, opening, transfers>>
    BY <1>5 DEF CommitDelete, CommitDeleteGroup
  <2>3. txns' = [j \in TxnIds |-> IF j \in {i} \cup txns[i].group THEN Gone ELSE txns[j]]
    <3>1. CASE CommitDelete(r)
      BY <1>0, <2>1, <3>1 DEF CommitDelete, NoGroup
    <3>2. CASE CommitDeleteGroup(r)
      <4>1. seen.group # NoGroup
        BY <1>0, <3>2 DEF CommitDeleteGroup, SerialInv, FreshLegs
      <4>2. Legs(seen.group) = {i} \cup seen.group
        <5>1. Legs(seen.group) \subseteq seen.group
          BY <1>0, <4>1 DEF Legs, SerialInv, SelfInGroup
        <5>2. {i} \cup seen.group \subseteq Legs(seen.group)
          <6>1. seen.group \subseteq TxnIds
            BY <2>1 DEF TxnRow
          <6> QED
            BY <1>0, <2>1, <6>1 DEF Legs, SerialInv, GroupWhole, Live
        <5> QED
          BY <5>1, <5>2
      <4>3. txns' = [j \in TxnIds |-> IF j \in Legs(seen.group) THEN Gone ELSE txns[j]]
        BY <3>2 DEF CommitDeleteGroup
      <4> QED
        BY <2>1, <4>2, <4>3
    <3> QED
      BY <1>5, <3>1, <3>2
  <2> HIDE DEF i, seen
  <2>4. Atomic!Remove(i)
    BY <2>1, <2>2, <2>3, SameRows DEF Atomic!Remove
  <2> QED
    BY <2>1, <2>4 DEF Atomic!Change
<1>6. ASSUME NEW r \in Requests, NEW t \in TransferIds, CommitTransfer(r, t)
      PROVE  Atomic!Change
  <2> DEFINE row == req[r].row
  <2>1. /\ row \in TransferRow /\ row.from # row.to
        /\ Owned(row.from) /\ Owned(row.to)
    BY <1>0, <1>6, RequestKinds DEF CommitTransfer, TransferReq, RequestKeys, TransfersApart
  <2>2. /\ transfers[t] = Unborn /\ transfers' = [transfers EXCEPT ![t] = row]
        /\ UNCHANGED <<accounts, opening, txns>>
    BY <1>6 DEF CommitTransfer
  <2> HIDE DEF row
  <2>3. transfers'[t] = row
    BY <1>0, <2>2
  <2>4. Atomic!Move(t)
    <3>1. transfers' = [transfers EXCEPT ![t] = transfers'[t]]
      BY <2>2, <2>3
    <3>2. transfers'[t] \in TransferRow /\ transfers'[t].from # transfers'[t].to
      BY <2>1, <2>3
    <3>3. transfers'[t] \in Atomic!TransferRow
      BY <3>2, SameRows
    <3>4. Atomic!Known(transfers'[t].from) /\ Atomic!Known(transfers'[t].to)
      BY <2>1, <2>3 DEF Atomic!Known, Owned
    <3> QED
      BY <2>2, <3>1, <3>2, <3>3, <3>4 DEF Atomic!Move
  <2> QED
    BY <2>4 DEF Atomic!Change
<1>7. ASSUME NEW r \in Requests, CommitUntransfer(r)
      PROVE  Atomic!Change
  <2> DEFINE t == req[r].id
  <2>1. t \in TransferIds
    BY <1>0, <1>7, RequestKinds DEF CommitUntransfer, UntransferReq
  <2>2. Atomic!Unmove(t)
    BY <1>7, SameRows DEF CommitUntransfer, LiveTransfer, Atomic!Unmove
  <2> QED
    BY <2>1, <2>2 DEF Atomic!Change
<1>8. CASE AccountStep
  BY <1>1, <1>2, <1>8 DEF AccountStep
<1>9. ASSUME NEW r \in Requests, TransactionStep(r) \/ TransferStep(r) \/ Rollback(r)
      PROVE  Atomic!Change \/ Stutter
  BY <1>3, <1>4, <1>5, <1>6, <1>7, <1>9 DEF TransactionStep, TransferStep, Rollback, AcceptCreate,
     ReadForUpdate, ReadForDelete, ReadLegs, AcceptTransfer, ReadForUntransfer
<1> QED
  BY <1>8, <1>9 DEF Next

\* When edits of one row or group do not overlap, the API's ledger implements the
\* atomic one: to whoever sees only accounts, rows and transfers, every request
\* takes effect at once or not at all, an instalment group comes and goes whole,
\* and the balance column is at every moment what the rows say, whatever reads,
\* failures and other requests come in between (transactions.service.ts,
\* transfers.service.ts).
THEOREM LedgerIsAtomic ==
  ASSUME ~OverlappingEdits
  PROVE  Spec => ImplementsAtomicLedger
<1>1. Init => RefinementInv /\ Atomic!Init
  BY DriftInvInit DEF RefinementInv, Init, UnopenedAtZero, TransfersApart, Owned, Idle, Atomic!Init
<1>2. RefinementInv /\ [Next]_vars => RefinementInv'
  <2>1. ASSUME RefinementInv, Next PROVE RefinementInv'
    <3>1. DriftInv /\ DriftInv' /\ TypeOK
      BY <2>1, DriftInvStep DEF RefinementInv, DriftInv, SerialInv
    <3> QED
      BY <2>1, <3>1, UnopenedStep, TransfersApartStep DEF RefinementInv
  <2>2. ASSUME RefinementInv, UNCHANGED vars PROVE RefinementInv'
    <3>1. DriftInv'
      BY <2>2, DriftInvStep DEF RefinementInv
    <3> QED
      BY <2>2, <3>1 DEF RefinementInv, UnopenedAtZero, TransfersApart, Owned, vars
  <2> QED
    BY <2>1, <2>2
<1>3. RefinementInv => InBalance
  BY AllBalanced
<1>4. RefinementInv /\ RefinementInv' /\ InBalance' /\ [Next]_vars => [Atomic!Next]_(Atomic!vars)
  <2>1. ASSUME RefinementInv, RefinementInv', InBalance', Next
        PROVE  Atomic!Next \/ UNCHANGED <<accounts, opening, balance, txns, transfers>>
    <3>1. Atomic!Change \/ UNCHANGED <<accounts, opening, balance, txns, transfers>>
      BY <2>1, StepRefines DEF RefinementInv, DriftInv, SerialInv
    <3>2. Atomic!Balanced
      BY <2>1 DEF InBalance, Atomic!Balanced
    <3> QED
      BY <3>1, <3>2 DEF Atomic!Next
  <2>2. UNCHANGED vars => UNCHANGED Atomic!vars
    BY DEF vars, Atomic!vars
  <2> QED
    BY <2>1, <2>2 DEF Atomic!vars
<1> QED
  BY <1>1, <1>2, <1>3, <1>4, PTL DEF Spec, ImplementsAtomicLedger, Atomic!Spec

====
