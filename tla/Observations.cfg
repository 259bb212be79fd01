SPECIFICATION LiveSpec
CONSTANTS
  Run = {r1, r2}
  Bot = {b1}
  None = None
  MaxRetained = 2
  MaxDecodes = 1
  MaxDispatches = 1
  MaxAttempts = 2
  MaxImages = 1
  MaxChanges = 1
INVARIANTS FreshAction StillFrame Bounded PixelsAreOwed
PROPERTIES DeskComesFree StopEnds
CHECK_DEADLOCK FALSE
