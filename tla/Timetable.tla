----------------------------- MODULE Timetable ------------------------------
(***************************************************************************)
(* NextRun of Schedule checked against what a schedule means, for a week    *)
(* of four hours a day, two minutes an hour and two moments a minute.       *)
(***************************************************************************)
EXTENDS Integers

Cal == INSTANCE Schedule WITH Unit <- 2, HourLen <- 2, DayLen <- 4

Strike(hour, minute) == [hour |-> hour, minute |-> minute]

Timetables ==
  {Cal!Hourly(minute) : minute \in 0..1}
    \cup {Cal!Daily(hour, minute) : hour \in 0..3, minute \in 0..1}
    \cup {Cal!Weekdays(hour, minute) : hour \in 0..3, minute \in 0..1}
    \cup {Cal!Interval(minutes, from, to) : minutes \in {1, 3, 7, 20}, from \in 0..3, to \in 0..3}
    \cup {Cal!Interval(minutes, Cal!NoHour, 2) : minutes \in {1, 7}}
    \cup {Cal!Clock(days, <<Strike(1, 0), Strike(3, 1)>>) : days \in SUBSET (0..6) \ {{}}}

-----------------------------------------------------------------------------
\* What the words of a schedule mean, a moment at a time.
AtMinute(t, minute) == t % Cal!Hour = minute * 2
AtTime(t, hour, minute) == t % Cal!Day = hour * Cal!Hour + minute * 2

Windowed(plan) == Cal!NoHour \notin {plan.from, plan.to}

\* The end of the interval, on the minute if there is a window.
Elapsed(plan, at) ==
  LET end == at + plan.minutes * 2
  IN  IF Windowed(plan) THEN end - (end % 2) ELSE end

Meant(plan, at, t) ==
  CASE plan.kind = "hourly" -> AtMinute(t, plan.minute)
    [] plan.kind = "daily" -> AtTime(t, plan.hour, plan.minute)
    [] plan.kind = "weekdays" -> Cal!DayOf(t) \in 1..5 /\ AtTime(t, plan.hour, plan.minute)
    [] plan.kind = "clock" ->
         /\ Cal!DayOf(t) \in plan.days
         /\ \E i \in DOMAIN plan.times : AtTime(t, plan.times[i].hour, plan.times[i].minute)
    [] plan.kind = "interval" ->
         /\ t >= Elapsed(plan, at) /\ (t - Elapsed(plan, at)) % Cal!Hour = 0
         /\ Windowed(plan) => Cal!InWindow(Cal!HourOf(t), plan.from, plan.to)

\* The next run is the first moment after now that the schedule means: on any
\* day of the week, at any second between two minutes, over midnight and over
\* the weekend (next_run).
ASSUME NextIsFirstMeant ==
  \A plan \in Timetables, at \in 0..(7 * Cal!Day - 1) :
    LET next == Cal!NextRun(plan, at)
    IN  next > at /\ Meant(plan, at, next) /\ \A t \in (at + 1)..(next - 1) : ~Meant(plan, at, t)

=============================================================================
