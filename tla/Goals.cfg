SPECIFICATION GoalsLiveSpec
CONSTANTS
  Goal = {g1}
  Session = {s1, s2}
  Timer = timer
  Route = route
  DayLen = 4
  QuietFrom = 3
  QuietTo = 1
  Budgets = {0, 1}
  MaxTokens = 1
  MaxSpent = 1
INVARIANTS StreakIsTrue
PROPERTIES WorkedOn OverrunEnds
CHECK_DEADLOCK FALSE
