SPECIFICATION MCSpec
CONSTANTS
    Templates = {t1}
    t1 = t1
    Passes = {p1, p2}
    p1 = p1
    p2 = p2
    Scopes = {user, global}
    user = user
    global = global
    Horizon = 2
    Periods = {1, 2}
    Never = Never
    Ends = {Never}
    MaxCatchUp = 2
    MaxRows = 2
    Edits = {"active", "delete"}
    Faults = {"create", "advance", "crash", "stop", "expire", "release"}
    Keep = Keep
    MfaRequests = {p1, p2}
    MaxSecrets = 2
    MaxSets = 2
    RecoveryCodeCount = 1
    MaxSeedEdits = 2
    Ttl = 3
    BlockDuration = 2
    Limit = 2
    Dates <- MCDates
    FirstRuns <- MCFirstRuns
    Intervals = {0, 1, 2}
    MaxRuns = 3
    LastRun <- MCLastRun
    NoSchedule = NoSchedule
    FirstDay <- MCFirstDay
    LastDay <- MCLastDay
    StartDates <- MCStartDates
    Food = Food
    Salary = Salary
    AllCategories = AllCategories
    NoBudget = NoBudget
    Wallets = {w1, w2}
    Entries = {e1, e2}
    Currencies = {USD, JPY}
    USD = USD
    DefaultCurrency = USD
    Openings <- MCOpenings
    Sums = {2}
    BookingDays <- MCBookingDays
    Nothing = Nothing
    Uncategorized = Uncategorized
    ReportDays <- MCReportDays
    ReportMonths = {1, 3}
SYMMETRY PassSymmetry
CHECK_DEADLOCK FALSE
INVARIANTS RecoveryCodesHold FactorIntact
INVARIANTS SeedIntact
INVARIANTS LimitHolds
INVARIANTS OccurrencesStayInStep TodayInPeriod
INVARIANTS FiguresAgree CashFlowCountsOnce
PROPERTIES NothingSteppedOver EndingFreesOnlyOwnLock
PROPERTIES SeedIdempotent BlockEarned PeriodsFollow
