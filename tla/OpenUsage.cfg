CONSTANTS
  Rows = {r1, r2}
  Sources = {n1}
  Heads = {h1, h2}
  None = none
  Keyless = {1}
  MaxUsage = 2
  MaxRestarts = 0
  MaxEvents = 2
  MaxSweeps = 1
  Faults = TRUE
SPECIFICATION Spec
SYMMETRY Symmetry
INVARIANTS SumIsMark NeverOvercounted
CHECK_DEADLOCK FALSE
