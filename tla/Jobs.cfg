SPECIFICATION JobsLiveSpec
CONSTANTS
  Job = {j1, j2}
  MaxRunning = 1
INVARIANTS DoneIsTrue CleanedUp
 
CHECK_DEADLOCK FALSE
