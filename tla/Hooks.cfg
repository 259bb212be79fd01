SPECIFICATION Spec
CONSTANTS
  Delivery = {d1, d2, d3}
  Kind = {"github", "sentry"}
  Window = 0
  MaxTime = 1
  MaxOther = 1
  MaxFaults = 1
SYMMETRY Interchangeable
INVARIANTS MetFires StacksOnlyInOverlap
CHECK_DEADLOCK FALSE
