-------------------------- MODULE TransactionPages --------------------------
(***************************************************************************)
(* The transactions page of the web client and the paginated listing       *)
(* behind it: transactions.ts of apps/web, list of transactions.service.ts *)
(* and transfers.service.ts, and the pagination helpers they share.        *)
(*                                                                         *)
(* The buttons stay enabled while a page loads, answers come in any order, *)
(* and the API reads the rows and counts them in two queries. Of the       *)
(* filters the flow type stands for all.                                   *)
(***************************************************************************)
EXTENDS Integers, FiniteSets, Functions

CONSTANTS TxnIds, TxnRows,  \* the user's transactions: their dates and types
          PageSize,         \* the page's PAGE_SIZE, shared-utils' limits
          Calls,            \* bound: requests in flight at once
          LastPage,         \* bound: the number the Next button can reach
          NoTxn             \* no such row, no such answer

MaxPageSize == 100
DefaultPageSize == 20

Flows == {"INCOME", "EXPENSE"}
AnyType == "any"
TxnRow == [day : Nat, type : Flows]
Filters == {AnyType, "EXPENSE"}         \* bound: what the user filters by

ASSUME PagesAssumption ==
    /\ PageSize \in Nat \ {0} /\ LastPage \in Nat
    /\ TxnRows \subseteq TxnRow /\ IsFiniteSet(TxnIds)

NoWalk == [page |-> 0, seen |-> {}, type |-> AnyType]

VARIABLES
    txns,       \* transaction id -> row
    view,       \* the page: number, rows and meta shown, filter, flags
    calls,      \* what is in flight
    walk        \* history: the pages shown one after the other since page 1

pagesVars == <<txns, view, calls, walk>>

Matching(type) == {t \in TxnIds : txns[t] # NoTxn /\ (type = AnyType \/ txns[t].type = type)}

Smaller(m, n) == IF m < n THEN m ELSE n
Larger(m, n) == IF m < n THEN n ELSE m

-----------------------------------------------------------------------------
(* pagination.ts *)
SkipsOnePageMore(query) ==      \* mutant: skip = page * pageSize
    [page |-> query.page, pageSize |-> query.pageSize, skip |-> query.page * query.pageSize]
ResolvePagination(query) ==
    LET page == Larger(1, query.page)
        asked == IF query.pageSize = 0 THEN DefaultPageSize ELSE query.pageSize
        size == Smaller(MaxPageSize, Larger(1, asked))
    IN  [page |-> page, pageSize |-> size, skip |-> (page - 1) * size]

BuildPaginationMeta(total, page, size) ==
    LET pages == (total + size - 1) \div size
    IN  [page |-> page, total |-> total, previous |-> page > 1, next |-> page < pages]

(* The listing's order: by date alone, so rows of one day come in any.     *)
Orders(rows) ==
    {order \in Bijection(1 .. Cardinality(rows), rows) :
        \A i, j \in DOMAIN order : i < j => txns[order[i]].day >= txns[order[j]].day}

FindManyPaginated(order, pagination) ==
    {order[i] : i \in DOMAIN order \cap (pagination.skip + 1 .. pagination.skip + pagination.pageSize)}

(* Queries the DTO lets pass: page and pageSize are at least 1.            *)
Query == [page : 1 .. LastPage, pageSize : 1 .. MaxPageSize, type : Filters]

-----------------------------------------------------------------------------
(* The page's requests.                                                    *)
Empty == [kind |-> "none"]
Free(c) == calls[c] = Empty
Others(c) == {d \in Calls \ {c} : ~Free(d)}

(* load(): the page's number and whatever stands in the filters now.       *)
LoadFrom(c, v) ==
    /\ calls' = [calls EXCEPT ![c] =
          [kind |-> "load", query |-> [page |-> v.page, pageSize |-> PageSize, type |-> v.filter],
           items |-> NoTxn, total |-> NoTxn]]
    /\ view' = [v EXCEPT !.overtaken = Others(c) # {}]

TypeFilter(type) ==
    /\ view.filter # type
    /\ view' = [view EXCEPT !.filter = type]
    /\ UNCHANGED <<txns, calls, walk>>

ApplyFilters(c) ==
    /\ Free(c)
    /\ LoadFrom(c, [view EXCEPT !.page = 1])
    /\ UNCHANGED <<txns, walk>>

PreviousPage(c) ==
    /\ Free(c)
    /\ view.meta # NoTxn /\ view.meta.previous /\ view.page > 0       \* bound
    /\ LoadFrom(c, [view EXCEPT !.page = @ - 1])
    /\ UNCHANGED <<txns, walk>>

NotLoading(c, v) == view' = v /\ UNCHANGED calls   \* mutant: the number changes, nothing is loaded
LoadNext(c, v) == LoadFrom(c, v)

NextPage(c) ==
    /\ Free(c)
    /\ view.meta # NoTxn /\ view.meta.next /\ view.page < LastPage
    /\ LoadNext(c, [view EXCEPT !.page = @ + 1])
    /\ UNCHANGED <<txns, walk>>

(* The create form, filled in and sent.                                    *)
SaveTransaction(c, row) ==
    /\ ~view.saving /\ Free(c)
    /\ calls' = [calls EXCEPT ![c] = [kind |-> "save", done |-> FALSE, row |-> row]]
    /\ view' = [view EXCEPT !.saving = TRUE]
    /\ UNCHANGED <<txns, walk>>

RemoveTransaction(c, t) ==
    /\ Free(c) /\ t \in view.shown
    /\ calls' = [calls EXCEPT ![c] = [kind |-> "remove", done |-> FALSE, id |-> t]]
    /\ UNCHANGED <<txns, view, walk>>

-----------------------------------------------------------------------------
(* The API. list: two queries, in either order.                            *)
Loading(c) == calls[c].kind = "load" /\ calls[c].query \in Query
Writing(c) == calls[c].kind \in {"save", "remove"} /\ ~calls[c].done

ReadRows(c) ==
    /\ Loading(c) /\ calls[c].items = NoTxn
    /\ \E order \in Orders(Matching(calls[c].query.type)) :
          calls' = [calls EXCEPT ![c].items = FindManyPaginated(order, ResolvePagination(calls[c].query))]
    /\ UNCHANGED <<txns, view, walk>>

CountRows(c) ==
    /\ Loading(c) /\ calls[c].total = NoTxn
    /\ calls' = [calls EXCEPT ![c].total = Cardinality(Matching(calls[c].query.type))]
    /\ UNCHANGED <<txns, view, walk>>

(* Instalment purchases, which add several rows, are left to Ledger.       *)
WriteRows(c) ==
    /\ Writing(c)
    /\ CASE calls[c].kind = "save" ->
              \E t \in TxnIds : txns[t] = NoTxn /\ txns' = [txns EXCEPT ![t] = calls[c].row]
         [] calls[c].kind = "remove" ->
              txns[calls[c].id] # NoTxn /\ txns' = [txns EXCEPT ![calls[c].id] = NoTxn]
    /\ calls' = [calls EXCEPT ![c] = [kind |-> @.kind, done |-> TRUE]]
    /\ walk' = [NoWalk EXCEPT !.type = walk.type]
    /\ UNCHANGED view

-----------------------------------------------------------------------------
(* The callbacks. A walk goes on while the next page of the same filter is *)
(* shown and nothing else is under way.                                    *)
Walked(c, page, items) ==
    LET type == calls[c].query.type
        disturbed == Others(c) # {} \/ view.overtaken
    IN  CASE disturbed -> [NoWalk EXCEPT !.type = type]
          [] ~disturbed /\ page = 1 -> [page |-> 1, seen |-> items, type |-> type]
          [] ~disturbed /\ page > 1 /\ page = walk.page + 1 /\ type = walk.type ->
                [walk EXCEPT !.page = page, !.seen = @ \cup items]
          [] OTHER -> [NoWalk EXCEPT !.type = type]

ShowPage(c) ==
    /\ Loading(c) /\ calls[c].items # NoTxn /\ calls[c].total # NoTxn
    /\ LET p == ResolvePagination(calls[c].query)
       IN  /\ view' = [view EXCEPT !.shown = calls[c].items,
                           !.meta = BuildPaginationMeta(calls[c].total, p.page, p.pageSize)]
           /\ walk' = Walked(c, p.page, calls[c].items)
    /\ calls' = [calls EXCEPT ![c] = Empty]
    /\ UNCHANGED txns

TransactionWritten(c) ==
    /\ calls[c].kind \in {"save", "remove"} /\ calls[c].done
    /\ LoadFrom(c, IF calls[c].kind = "remove" THEN view
                   ELSE [view EXCEPT !.saving = FALSE, !.page = 1])
    /\ UNCHANGED <<txns, walk>>

(* The request is refused, as one for page 0 is, or its answer is lost.    *)
CallFailed(c) ==
    /\ ~Free(c)
    /\ view' = CASE calls[c].kind = "load"   -> [view EXCEPT !.overtaken = TRUE]
                 [] calls[c].kind = "save"   -> [view EXCEPT !.saving = FALSE, !.overtaken = TRUE]
                 [] calls[c].kind = "remove" -> [view EXCEPT !.overtaken = TRUE]
    /\ calls' = [calls EXCEPT ![c] = Empty]
    /\ UNCHANGED <<txns, walk>>

-----------------------------------------------------------------------------
PagesInit ==
    /\ txns \in [TxnIds -> TxnRows \cup {NoTxn}]
    /\ \E c \in Calls : calls = [d \in Calls |->
          IF d # c THEN Empty
          ELSE [kind |-> "load", query |-> [page |-> 1, pageSize |-> PageSize, type |-> AnyType],
                items |-> NoTxn, total |-> NoTxn]]
    /\ view = [page |-> 1, shown |-> {}, meta |-> NoTxn, filter |-> AnyType,
               saving |-> FALSE, overtaken |-> FALSE]
    /\ walk = NoWalk

CallStep(c) ==
    \/ ApplyFilters(c) \/ PreviousPage(c) \/ NextPage(c)
    \/ \E row \in TxnRows : SaveTransaction(c, row)
    \/ \E t \in TxnIds : RemoveTransaction(c, t)
    \/ ReadRows(c) \/ CountRows(c) \/ WriteRows(c)
    \/ ShowPage(c) \/ TransactionWritten(c) \/ CallFailed(c)

PagesNext ==
    \/ \E type \in Filters : TypeFilter(type)
    \/ \E c \in Calls : CallStep(c)

PagesSpec == PagesInit /\ [][PagesNext]_pagesVars

-----------------------------------------------------------------------------
(* When every answer is in, the page shows as many rows as the page it     *)
(* says it is on has, and it is the page the buttons count from, unless a  *)
(* click or a write overtook a load or a request failed: then the number   *)
(* in page and the meta that enables the buttons may be of two pages, down *)
(* to page 0, which the API refuses.                                       *)
PageShownIsPageAsked ==
    (\A c \in Calls : Free(c)) /\ ~view.overtaken =>
        LET rows == Matching(walk.type)
        IN  /\ view.meta.page = view.page /\ view.page >= 1
            /\ view.meta.total = Cardinality(rows)
            /\ view.shown \subseteq rows
            /\ Cardinality(view.shown)
                  = Smaller(PageSize, Larger(0, Cardinality(rows) - (view.page - 1) * PageSize))

(* A user who goes from page to page without changing anything sees every  *)
(* row once, provided no two rows have one date: the listing sorts by date *)
(* only, so two queries may order the rows of a day differently.           *)
WalkShowsEachRowOnce ==
    LET rows == Matching(walk.type)
    IN  walk.page > 0 /\ (\A t, u \in rows : t # u => txns[t].day # txns[u].day) =>
            /\ Cardinality(walk.seen) = Smaller(Cardinality(rows), walk.page * PageSize)
            /\ ~view.meta.next => walk.seen = rows
=============================================================================
