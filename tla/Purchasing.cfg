SPECIFICATION PurchasingSpec
CONSTANTS
  Call = {c1, c2}
  Charge = {a1, a2}
  Delivery = {w1, w2}
  Amounts = {20, 21}
  Limits = {20, 40}
  MaxMonth = 1
  MaxEdits = 1
SYMMETRY Interchangeable
INVARIANTS WithinLimit 
CHECK_DEADLOCK FALSE
