------------------------------ MODULE Reports ------------------------------
(***************************************************************************)
(* The figures of the dashboard (modules/reports) over a small ledger.     *)
(*                                                                         *)
(* The services only read; the ledger they read is kept here by actions    *)
(* that do at once what Ledger does in steps. The rows PostgreSQL returns  *)
(* have no order, so the dominant currency of a tie is any of the tied.    *)
(***************************************************************************)
EXTENDS Budgets, FiniteSets, FiniteSetsExt

CONSTANTS
    Wallets, Entries,   \* ids of accounts and transactions
    Currencies, DefaultCurrency,
    Openings, Sums,     \* balances and amounts that clients send
    BookingDays,        \* the days they date a transaction
    Nothing,            \* no such account or transaction
    Uncategorized,      \* categoryId = null
    ReportDays,         \* the days the reports are asked for
    ReportMonths        \* the lengths of the cash flow they ask for

ASSUME ReportAssumption ==
    /\ IsFiniteSet(Wallets) /\ IsFiniteSet(Entries)
    /\ Openings \subseteq Int /\ Sums \subseteq Nat \ {0}
    /\ BookingDays \subseteq Int /\ ReportDays \subseteq Int /\ ReportMonths \subseteq Nat \ {0}
    /\ \A d \in BookingDays : (d - 31)..d \subseteq Dates   \* the table holds their months
    /\ \A d \in ReportDays, n \in ReportMonths \cup {1} : (d - 31 * n)..(d + 62) \subseteq Dates
    /\ DefaultCurrency \in Currencies
    /\ Uncategorized \notin {Food, Salary}

Wallet ==
    [currency : Currencies, opening : Openings, balance : Int, archived : BOOLEAN]
Entry ==
    [account : Wallets, type : {"INCOME", "EXPENSE"}, category : {Food, Salary, Uncategorized},
     amount : Sums, day : BookingDays]
ASSUME NothingAssumption == Nothing \notin Wallet \cup Entry

VARIABLES wallets, entries

reportVars == <<wallets, entries>>

CategoriesFor(type) == {c \in {Food, Salary} : CategoryFlow(c) = type} \cup {Uncategorized}

Opened == {a \in Wallets : wallets[a] # Nothing}
Booked == {i \in Entries : entries[i] # Nothing}
Signed(e) == IF e.type = "INCOME" THEN e.amount ELSE -e.amount

OpenWallet(a, currency, opening) ==
    /\ a \notin Opened
    /\ wallets' = [wallets EXCEPT ![a] =
          [currency |-> currency, opening |-> opening, balance |-> opening, archived |-> FALSE]]
    /\ UNCHANGED entries

ArchiveWallet(a) ==
    /\ a \in Opened
    /\ wallets' = [wallets EXCEPT ![a].archived = TRUE]
    /\ UNCHANGED entries

Book(i, e) ==
    /\ i \notin Booked /\ e.account \in Opened
    /\ entries' = [entries EXCEPT ![i] = e]
    /\ wallets' = [wallets EXCEPT ![e.account].balance = @ + Signed(e)]

Erase(i) ==
    /\ i \in Booked
    /\ entries' = [entries EXCEPT ![i] = Nothing]
    /\ wallets' = [wallets EXCEPT ![entries[i].account].balance = @ - Signed(entries[i])]

ReportInit ==
    /\ wallets = [a \in Wallets |-> Nothing]
    /\ entries = [i \in Entries |-> Nothing]

ReportNext ==
    \/ \E a \in Wallets : ArchiveWallet(a)
          \/ \E currency \in Currencies, opening \in Openings : OpenWallet(a, currency, opening)
    \/ \E i \in Entries : Erase(i)
          \/ \E a \in Wallets, type \in {"INCOME", "EXPENSE"}, n \in Sums, d \in BookingDays :
                \E c \in CategoriesFor(type) :
                   Book(i, [account |-> a, type |-> type, category |-> c, amount |-> n, day |-> d])

ReportSpec == ReportInit /\ [][ReportNext]_reportVars

-----------------------------------------------------------------------------
(* reports.repository.ts: sums over the rows of the half-open [from, to).  *)
Amounts == [i \in Booked |-> entries[i].amount]
AmountOf(I) == SumFunctionOnSet(Amounts, I)
WithinClosed(day, range) ==     \* mutant: the end counts, as "lte" would have it
    range.start <= day /\ day <= range.end
Within(day, range) == InRange(day, range)

FlowRows(type, range) ==
    {i \in Booked : entries[i].type = type /\ InRange(entries[i].day, range)}
SumFlowsInRange(range) ==
    [income  |-> AmountOf(FlowRows("INCOME", range)),
     expense |-> AmountOf(FlowRows("EXPENSE", range))]

CategoryRows(type, range) ==
    {i \in Booked : entries[i].type = type /\ Within(entries[i].day, range)}
SumByCategory(type, range) ==
    LET rows == CategoryRows(type, range)
    IN  [c \in {entries[i].category : i \in rows} |->
            AmountOf({i \in rows : entries[i].category = c})]

FindAccounts == {a \in Opened : ~wallets[a].archived}

(* reports.service.ts                                                      *)
ThisMonth(day) == [start |-> StartOfMonth(day), end |-> StartOfNextMonth(day)]

CurrencyCount(c) == Cardinality({a \in FindAccounts : wallets[a].currency = c})
DominantCurrencies ==
    IF FindAccounts = {} THEN {DefaultCurrency}
    ELSE {c \in Currencies : \A d \in Currencies : CurrencyCount(c) >= CurrencyCount(d)}

BalanceOf(A) == SumFunctionOnSet([a \in Opened |-> wallets[a].balance], A)
InCurrency(c) == {a \in FindAccounts : wallets[a].currency = c}

SummarizeNetWorth(c) ==
    [assets      |-> BalanceOf({a \in InCurrency(c) : wallets[a].balance >= 0}),
     liabilities |-> -BalanceOf({a \in InCurrency(c) : wallets[a].balance < 0})]
NetWorth(c) == SummarizeNetWorth(c).assets - SummarizeNetWorth(c).liabilities

Overview(day, currency) ==
    LET flows == SumFlowsInRange(ThisMonth(day))
    IN  [totalBalance |-> BalanceOf(InCurrency(currency)),
         netWorth     |-> NetWorth(currency),
         income       |-> flows.income,
         expense      |-> flows.expense]

CashFlow(day, months) ==
    LET ranges == LastMonths(months, day)
    IN  [i \in 1..months |-> SumFlowsInRange(ranges[i])]

Spent(b, day) ==
    AmountOf({i \in Booked : CountsFor(b, PeriodBounds(b.period, b.start, day), entries[i])})

-----------------------------------------------------------------------------
(* Four queries of three modules give one figure for what was spent this   *)
(* month: the overview, the last point of the cash flow, the parts of the  *)
(* category breakdown, and a monthly budget that starts on a first; and    *)
(* each part of the breakdown is what the category's own budget has spent. *)
(* Before anything is booked they are all 0.                               *)
Monthly(start, c) == [period |-> "MONTHLY", start |-> start, category |-> c]
SpendingAgrees ==
    Booked # {} => \A day \in ReportDays, start \in {StartOfMonth(d) : d \in BookingDays} :
        LET month    == ThisMonth(day)
            parts    == SumByCategory("EXPENSE", month)
            expense  == AmountOf(FlowRows("EXPENSE", month))
        IN  /\ \A c \in DominantCurrencies : Overview(day, c).expense = expense
            /\ \A n \in ReportMonths : CashFlow(day, n)[n].expense = expense
            /\ SumFunction(parts) = expense
            /\ Spent(Monthly(start, AllCategories), day) = expense
            /\ Food \in DOMAIN parts => Spent(Monthly(start, Food), day) = parts[Food]

(* The cash flow of the last n months counts every transaction of theirs   *)
(* once and no other, on the last day of a long month too.                 *)
CashFlowCountsOnce ==
    \A i \in Booked, day \in ReportDays, n \in ReportMonths :
        LET ranges == LastMonths(n, day)
        IN  Cardinality({k \in 1..n : InRange(entries[i].day, ranges[k])})
            = IF MonthDiff(entries[i].day, day) \in 0..(n - 1) THEN 1 ELSE 0

(* The net worth of a currency is what its accounts were opened with and   *)
(* what was booked on them since, archived accounts left out; and the      *)
(* overview shows the same as balance and as net worth.                    *)
NetWorthAccountsForEverything ==
    /\ \A c \in Currencies :
          LET live == {a \in Opened : ~wallets[a].archived /\ wallets[a].currency = c}
              rows == {i \in Booked : entries[i].account \in live}
          IN  NetWorth(c) = SumFunction([a \in live |-> wallets[a].opening])
                            + SumFunction([i \in rows |-> Signed(entries[i])])
    /\ Opened # {} => \A c \in DominantCurrencies, day \in ReportDays :
          Overview(day, c).totalBalance = Overview(day, c).netWorth

(* Whatever is booked, erased and archived, the figures of the dashboard   *)
(* agree with each other and with the rows.                                *)
FiguresAgree == SpendingAgrees /\ NetWorthAccountsForEverything
=============================================================================
