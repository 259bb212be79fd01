SPECIFICATION LiveSpec
CONSTANTS
  owner = owner
  guest = guest
  last = last
  Bot = {owner, guest, last}
  Order <- MCOrder
  Removable = {last}
  Poster = {p1}
  Caller = {c1}
  MayWait = TRUE
  MayBeQuiet = TRUE
  MaxFaults = 1
INVARIANTS InOrder CompleteIsAll NoStuckRound
PROPERTIES RoundEnds
CHECK_DEADLOCK FALSE
