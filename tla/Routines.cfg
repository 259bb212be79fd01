SPECIFICATION LiveSpec
CONSTANTS
  Unit = 1
  HourLen = 1
  DayLen = 4
  Routine = {r1}
  Ticker = {timer}
  Plans <- MCPlans
  AbsentAfter = 3
  MaxTime = 6
  MaxLive = 2
  MaxEdits = 2
INVARIANTS OncePerDue
PROPERTIES DueIsServed
CHECK_DEADLOCK FALSE
