------------------------------ MODULE MCBudgets ------------------------------
(* A small instance of Budgets alone, through February and long months.    *)
EXTENDS Budgets

MCDates == Utc(2022, 0, 1)..Utc(2026, 11, 31)
MCFirstDay == Utc(2024, 0, 15)
MCLastDay == Utc(2024, 4, 31)
MCStartDates == {Utc(2023, 11, 31), Utc(2024, 0, 15), Utc(2024, 0, 31)}
=============================================================================
