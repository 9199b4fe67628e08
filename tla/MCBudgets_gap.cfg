SPECIFICATION BudgetSpec
CONSTANTS
    Dates <- MCDates
    FirstDay <- MCFirstDay
    LastDay <- MCLastDay
    StartDates <- MCStartDates
    Food = Food
    Salary = Salary
    AllCategories = AllCategories
    NoBudget = NoBudget
CHECK_DEADLOCK FALSE
INVARIANT TodayAlwaysInPeriod
