SPECIFICATION TalkSpec
CONSTANTS
  Message = {m1, m2, m3}
  Run = {r1, r2}
  NoRun = NoRun
  MaxSteps = 2
  Watched = {w1}
  MaxEvents = 4
  InsertFails = TRUE
INVARIANTS NewsToTheRun Accounted InOrder Seam
PROPERTIES QueueMoves StreamEnds
CHECK_DEADLOCK FALSE
