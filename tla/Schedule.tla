------------------------------ MODULE Schedule ------------------------------
(***************************************************************************)
(* When a routine runs next (server/src/schedule.rs).  Time is counted in   *)
(* units from midnight of a Sunday, Unit of them to the minute, so that     *)
(* "from" may lie between two minutes as it does in the code.  The length   *)
(* of an hour and of a day are parameters; a week has seven days.  The      *)
(* zone's changes between summer and winter time are left out.              *)
(***************************************************************************)
EXTENDS Integers, Sequences, FiniteSets, FiniteSetsExt

CONSTANTS Unit, HourLen, DayLen

ASSUME CalendarAssumption == {Unit, HourLen, DayLen} \subseteq Nat \ {0}

NoHour == -1
Hour == HourLen * Unit
Day == DayLen * Hour

DayOf(t) == (t \div Day) % 7
HourOf(t) == (t % Day) \div Hour
StartOf(t, span) == t - (t % span)
Sunday == 0
Saturday == 6

\* The five shapes of a schedule.
Interval(minutes, from, to) == [kind |-> "interval", minutes |-> minutes, from |-> from, to |-> to]
Hourly(minute) == [kind |-> "hourly", minute |-> minute]
Daily(hour, minute) == [kind |-> "daily", hour |-> hour, minute |-> minute]
Weekdays(hour, minute) == [kind |-> "weekdays", hour |-> hour, minute |-> minute]
Clock(days, times) == [kind |-> "clock", days |-> days, times |-> times]

\* The time of day c on the day of t.
On(t, c) == StartOf(t, Day) + c.hour * Hour + c.minute * Unit

InWindow(hour, from, to) ==
  IF from <= to THEN hour >= from /\ hour <= to ELSE hour >= from \/ hour <= to

\* From hour to hour until the window is open, 48 times at most.
IntoWindow(t, from, to) ==
  LET open == {n \in 0..48 : InWindow(HourOf(t + n * Hour), from, to)}
  IN  t + Min(open \cup {48}) * Hour

\* Saturdays and Sundays are passed over, day by day.
PastWeekend(t) ==
  LET working == {n \in 0..2 : DayOf(t + n * Day) \notin {Sunday, Saturday}}
  IN  t + Min(working) * Day

\* The days ahead on which the clock strikes after t, today's included.
Striking(s, t) ==
  {n \in 0..8 : /\ DayOf(t + n * Day) \in s.days
                /\ \E i \in DOMAIN s.times : On(t + n * Day, s.times[i]) > t}

NextStrike(s, t) ==
  IF Striking(s, t) = {} THEN t + 7 * Day
  ELSE LET day == t + Min(Striking(s, t)) * Day
       IN  On(day, s.times[Min({i \in DOMAIN s.times : On(day, s.times[i]) > t})])

Later(next, t, span) == IF next <= t THEN next + span ELSE next

NextRun(s, t) ==
  CASE s.kind = "interval" ->
         LET next == t + s.minutes * Unit
         IN  IF NoHour \in {s.from, s.to} THEN next
             ELSE IntoWindow(StartOf(next, Unit), s.from, s.to)
    [] s.kind = "hourly" -> Later(StartOf(t, Hour) + s.minute * Unit, t, Hour)
    [] s.kind = "daily" -> Later(On(t, s), t, Day)
    [] s.kind = "weekdays" -> PastWeekend(Later(On(t, s), t, Day))
    [] s.kind = "clock" -> NextStrike(s, t)

=============================================================================
