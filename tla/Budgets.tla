------------------------------ MODULE Budgets ------------------------------
(***************************************************************************)
(* One budget and the clock (modules/budgets).                             *)
(*                                                                         *)
(* Every operation ends in one single-row write and answers with the       *)
(* progress of the period that today falls in; what is worth checking is   *)
(* that period as the days pass. No handler reads two budgets, so one is   *)
(* enough. The amount, name and rollover flag touch no decision.           *)
(***************************************************************************)
EXTENDS Calendar

CONSTANTS
    FirstDay, LastDay,  \* bound: the days the clock runs through
    StartDates,         \* start dates that clients choose
    Food,               \* an expense category
    Salary,             \* an income category
    AllCategories,      \* categoryId = null: the budget spans every category
    NoBudget

ASSUME BudgetAssumption ==
    /\ FirstDay \in Int /\ LastDay \in Int /\ FirstDay <= LastDay
    /\ StartDates \subseteq Dates
    /\ (FirstDay - 62)..(LastDay + 62) \subseteq Dates    \* a period begins and ends there
    /\ Food # Salary /\ AllCategories \notin {Food, Salary}

VARIABLES currentDay, budget

budgetVars == <<currentDay, budget>>

CategoryFlow(c) == IF c = Salary THEN "INCOME" ELSE "EXPENSE"
BudgetScopes == {Food, AllCategories}
Budget == [period : BudgetPeriods, start : StartDates, category : BudgetScopes]
Exists == budget # NoBudget

BudgetTypeOK ==
    /\ currentDay \in FirstDay..LastDay
    /\ budget \in Budget \cup {NoBudget}

-----------------------------------------------------------------------------
(* budgets.service.ts create, update, delete *)

(* assertExpenseCategory, skipped when no category is given.               *)
AllowedCategory(c) == c = AllCategories \/ CategoryFlow(c) = "EXPENSE"

CreateBudget(period, start, c) ==
    /\ ~Exists
    /\ AllowedCategory(c)
    /\ budget' = [period |-> period, start |-> start, category |-> c]
    /\ UNCHANGED currentDay

(* Fields that are left out keep their value: a client changes any of them. *)
UpdateBudget(period, start, c) ==
    /\ Exists
    /\ AllowedCategory(c)
    /\ budget' = [period |-> period, start |-> start, category |-> c]
    /\ UNCHANGED currentDay

DeleteBudget ==
    /\ Exists
    /\ budget' = NoBudget
    /\ UNCHANGED currentDay

NextDay ==
    /\ currentDay < LastDay
    /\ currentDay' = currentDay + 1
    /\ UNCHANGED budget

BudgetInit == currentDay = FirstDay /\ budget = NoBudget

BudgetNext ==
    \/ \E period \in BudgetPeriods, start \in StartDates, c \in {Food, Salary, AllCategories} :
          CreateBudget(period, start, c) \/ UpdateBudget(period, start, c)
    \/ DeleteBudget
    \/ NextDay

BudgetSpec == BudgetInit /\ [][BudgetNext]_budgetVars

-----------------------------------------------------------------------------
(* toProgress asks for the period that now falls in; sumExpenses counts    *)
(* what lies in [start, end).                                              *)
Bounds == PeriodBounds(budget.period, budget.start, currentDay)
InRange(day, range) == range.start <= day /\ day < range.end
Covers(c, category) == c = AllCategories \/ c = category
CountsFor(b, range, row) ==
    row.type = "EXPENSE" /\ InRange(row.day, range) /\ Covers(b.category, row.category)

(* Months have no day 29 to 31 of their own.                               *)
LateStart(b) == b.period = "MONTHLY" /\ DayOf(b.start) > 28

(* What is spent today shows in today's progress (period.ts 60: "the       *)
(* period that contains reference"), wherever the budget starts, future    *)
(* dates and 29 February included; monthly budgets that start after the    *)
(* 28th are the exception TodayAlwaysInPeriod shows.                       *)
TodayInPeriod ==
    Exists /\ ~LateStart(budget) => InRange(currentDay, Bounds)

(* The same without the exception, as period.ts 60 states it.              *)
TodayAlwaysInPeriod == Exists => InRange(currentDay, Bounds)

(* As the days pass a budget's periods follow each other: none overlaps    *)
(* the one before it, so nothing is counted in two, and unless it starts   *)
(* late no day is left out between them.                                   *)
PeriodsFollow ==
    [][Exists /\ budget' = budget /\ Bounds' # Bounds =>
          /\ Bounds'.start >= Bounds.end
          /\ ~LateStart(budget) => Bounds'.start = Bounds.end]_budgetVars
=============================================================================
