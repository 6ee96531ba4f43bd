------------------------------- MODULE Schedule -------------------------------
(***************************************************************************)
(* calculate_next_run: when a scheduled task fires next.  Time is counted  *)
(* in units since a Monday at midnight, DayLength of them per day, on the  *)
(* wall clock of the task's time zone; the zone keeps one offset, as       *)
(* America/Lima, the default, does.                                        *)
(*                                                                         *)
(* The state machine fires one task again and again: due is next_run_at.   *)
(***************************************************************************)
EXTENDS Naturals, FiniteSetsExt

CONSTANTS DayLength, Horizon, Configs, Never

ScheduleAssumption ==
    /\ DayLength \in Nat \ {0}
    /\ Horizon \in Nat
    /\ Never \notin Nat

Day(t) == t \div DayLength
TimeOfDay(t) == t % DayLength
Weekday(t) == Day(t) % 7

Earliest(S) == IF S = {} THEN Never ELSE Min(S)

\* What validate_schedule_config accepts.
ValidConfig(c) ==
    CASE c.kind = "INTERVAL_MINUTES" -> c.minutes > 0
      [] c.kind = "DAILY" -> c.times # {} /\ c.times \subseteq 0 .. DayLength - 1
      [] c.kind = "WINDOW_INTERVAL" ->
           /\ c.minutes > 0
           /\ c.weekdays # {} /\ c.weekdays \subseteq 0..6
           /\ c.start < c.end /\ c.end < DayLength

-----------------------------------------------------------------------------
\* Today at the given hour, or tomorrow when that has passed.
NextDaily(times, current) ==
    Earliest({LET t == Day(current) * DayLength + h
              IN  IF t <= current THEN t + DayLength ELSE t : h \in times})

\* Days of the search: today and the seven that follow.
SearchDays_OneWeek == 0..6
SearchDays == 0..7

\* Steps of `minutes` from the start of the window of one day to its end.
WindowSteps(c, day) ==
    LET open == day * DayLength + c.start
        close == day * DayLength + c.end
    IN  {t \in open .. close : (t - open) % c.minutes = 0}

\* The first day with a step after now decides.
NextWindowInterval(c, current) ==
    LET days == {Day(current) + d : d \in SearchDays}
        after(day) == {t \in WindowSteps(c, day) : t > current}
        open == {d \in days : d % 7 \in c.weekdays /\ after(d) # {}}
    IN  IF open = {} THEN Never ELSE Min(after(Min(open)))

CalculateNextRun(c, after) ==
    CASE c.kind = "INTERVAL_MINUTES" -> after + c.minutes
      [] c.kind = "DAILY" -> NextDaily(c.times, after)
      [] c.kind = "WINDOW_INTERVAL" -> NextWindowInterval(c, after)

-----------------------------------------------------------------------------
VARIABLES config, due

vars == <<config, due>>

Init == /\ config \in {c \in Configs : ValidConfig(c)}
        /\ due \in 0 .. 7 * DayLength - 1

Advance == /\ due # Never
           /\ due < Horizon
           /\ due' = CalculateNextRun(config, due)
           /\ UNCHANGED config

Next == Advance

Spec == Init /\ [][Next]_vars

-----------------------------------------------------------------------------
\* What the configuration asks for, instant by instant.
IsSlot(c, t) ==
    CASE c.kind = "INTERVAL_MINUTES" -> TRUE
      [] c.kind = "DAILY" -> TimeOfDay(t) \in c.times
      [] c.kind = "WINDOW_INTERVAL" ->
           /\ Weekday(t) \in c.weekdays
           /\ TimeOfDay(t) \in c.start .. c.end
           /\ (TimeOfDay(t) - c.start) % c.minutes = 0

\* A configuration that was accepted always has another run (or the scheduler
\* would disable the task: _next_window_interval raises), a slot of the calendar
\* later than this one, and no slot between the two is passed over: the last step
\* of a window, the same weekday of the next week, the first hour of tomorrow
\* (calculate_next_run).
ToTheNextSlot ==
    /\ due' # Never
    /\ due' > due
    /\ IsSlot(config, due')
    /\ config.kind = "INTERVAL_MINUTES" \/ \A t \in due + 1 .. due' - 1 : ~IsSlot(config, t)
NoSlotPassedOver == [][ToTheNextSlot]_vars
=============================================================================
