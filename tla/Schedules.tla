----------------------------- MODULE Schedules -----------------------------
(* The dates of one recurring template (modules/recurring): its next run   *)
(* date, advanced by the calendar from the one before it. Recurring models *)
(* the pass around it, with day numbers for dates.                         *)
EXTENDS Calendar

CONSTANTS FirstRuns,        \* start dates that clients choose
          Intervals,        \* intervals they choose
          MaxRuns,          \* bound: occurrences between two edits
          LastRun,          \* bound: the last day an occurrence is booked
          NoSchedule

ASSUME ScheduleAssumption ==
    /\ Intervals \subseteq Nat /\ MaxRuns \in Nat /\ LastRun \in Int
    /\ FirstRuns \subseteq Dates
    /\ \A start \in FirstRuns :                 \* the dates reached are in the table
          /\ start..(start + 31) \subseteq Dates
          /\ \A i \in Intervals : start..(LastRun + 366 * Steps(i) + 62) \subseteq Dates

(* since and runs are history: the run date when the rhythm was last set,  *)
(* and the occurrences booked from there.                                  *)
VARIABLE schedule

Scheduled == schedule # NoSchedule

Rhythm(next, frequency, interval) ==
    [next |-> next, frequency |-> frequency, interval |-> interval, since |-> next, runs |-> 0]

(* RecurringService.create and update, which leaves nextRunDate alone.     *)
CreateSchedule(start, frequency, interval) ==
    /\ ~Scheduled
    /\ schedule' = Rhythm(start, frequency, interval)

ResetRhythm(frequency, interval) ==
    /\ Scheduled
    /\ schedule' = Rhythm(schedule.next, frequency, interval)

AdvanceDate ==
    /\ Scheduled
    /\ schedule.runs < MaxRuns /\ schedule.next <= LastRun
    /\ schedule' = [schedule EXCEPT
          !.next = Advance(@, schedule.frequency, schedule.interval), !.runs = @ + 1]

ScheduleInit == schedule = NoSchedule

ScheduleNext ==
    \/ \E start \in FirstRuns, f \in Frequencies, i \in Intervals : CreateSchedule(start, f, i)
    \/ \E f \in Frequencies, i \in Intervals : ResetRhythm(f, i)
    \/ AdvanceDate

ScheduleSpec == ScheduleInit /\ [][ScheduleNext]_schedule

-----------------------------------------------------------------------------
(* The date of the occurrence, counted from the first one in one leap.     *)
DueDate ==
    LET steps == schedule.runs * Steps(schedule.interval)
    IN  IF steps = 0 THEN schedule.since ELSE Advance(schedule.since, schedule.frequency, steps)

(* A schedule advanced step by step stays with its rhythm: every           *)
(* occurrence falls in the month it is due in, on the due day if months    *)
(* always have one, and otherwise, once a short month has clamped it, at   *)
(* most three days before it.                                              *)
OccurrencesStayInStep ==
    Scheduled =>
        /\ MonthDiff(DueDate, schedule.next) = 0
        /\ DayOf(schedule.since) <= 28 => schedule.next = DueDate
        /\ schedule.next \in (DueDate - 3)..DueDate
=============================================================================
