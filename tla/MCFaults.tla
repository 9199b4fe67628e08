------------------------------ MODULE MCFaults ------------------------------
(* Components that act over time and can stop half way: a pass of the      *)
(* scheduler, a handler of several statements, a script; and the figures   *)
(* that are computed from dates. A behaviour runs one of them, the others  *)
(* stay at rest.                                                           *)
EXTENDS Recurring, Mfa, Seed, Schedules, Reports, Throttler, TLC

VARIABLE part

Parts == {"recurring", "mfa", "seed", "throttler", "schedules", "budgets", "reports"}

MCDates == Utc(2022, 0, 1)..Utc(2026, 11, 31)
MCStartDates ==
    {Utc(2023, 11, 31), Utc(2024, 0, 1), Utc(2024, 0, 15), Utc(2024, 0, 28),
     Utc(2024, 0, 31), Utc(2024, 1, 29), Utc(2024, 7, 30)}
MCFirstDay == Utc(2023, 10, 20)
MCLastDay == Utc(2025, 2, 5)
MCFirstRuns ==
    {Utc(2023, 11, 31), Utc(2024, 0, 15), Utc(2024, 0, 29), Utc(2024, 0, 30), Utc(2024, 1, 29)}
MCLastRun == Utc(2024, 4, 31)
MCOpenings == {-1}
MCBookingDays == {Utc(2024, 0, 31), Utc(2024, 1, 1), Utc(2024, 1, 29), Utc(2024, 2, 1)}
MCReportDays == {Utc(2024, 1, 29), Utc(2024, 2, 31), Utc(2024, 1, 15)}

MCInit ==
    /\ part \in Parts
    /\ Init /\ MfaInit /\ SeedInit /\ ThrottlerInit
    /\ ScheduleInit /\ BudgetInit /\ ReportInit

MCNext ==
    /\ UNCHANGED part
    /\ \/ part = "recurring" /\ Next
       \/ part = "mfa" /\ MfaNext
       \/ part = "seed" /\ SeedNext
       \/ part = "throttler" /\ ThrottlerNext
       \/ part = "schedules" /\ ScheduleNext
       \/ part = "budgets" /\ BudgetNext
       \/ part = "reports" /\ ReportNext
    /\ IF part = "recurring" THEN TRUE ELSE UNCHANGED vars
    /\ IF part = "mfa" THEN TRUE ELSE UNCHANGED mfaVars
    /\ IF part = "seed" THEN TRUE ELSE UNCHANGED seedVars
    /\ IF part = "throttler" THEN TRUE ELSE UNCHANGED throttlerVars
    /\ IF part = "schedules" THEN TRUE ELSE UNCHANGED schedule
    /\ IF part = "budgets" THEN TRUE ELSE UNCHANGED budgetVars
    /\ IF part = "reports" THEN TRUE ELSE UNCHANGED reportVars

MCVars ==
    <<part, vars, mfaVars, seedVars, throttlerVars, schedule, budgetVars, reportVars>>
MCSpec == MCInit /\ [][MCNext]_MCVars

PassSymmetry == Permutations(Passes)
=============================================================================
