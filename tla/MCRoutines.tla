----------------------------- MODULE MCRoutines -----------------------------
EXTENDS Routines, Timetable

MCPlans == {Interval(2, NoHour, NoHour), Daily(3, 0)}
=============================================================================
