SPECIFICATION Spec
CONSTANTS
  Run = {r1}
  Decider = {d1, d2}
  Sweeper = {w1, w2}
  MaxSteps = 2
  Faults = {"insertRun", "saveResult", "parkRow", "parkApproval", "readRow", "claim", "failRow", "crash"}
SYMMETRY Interchangeable
INVARIANTS ExecutedOnceIfApproved OneDriver
PROPERTIES RefinesPromise
