SPECIFICATION FairSpec
CONSTANTS
  Run = {r1}
  Decider = {d1, d2}
  Sweeper = {w1}
  MaxSteps = 2
  Faults = {"insertRun", "saveResult", "parkRow", "parkApproval", "readRow", "claim", "failRow", "crash"}
INVARIANTS NoStrandedRun
PROPERTIES NoCallAfterStop RunEnds
