CONSTANTS
  Rows = {r1}
  Sources = {n1, n2}
  Heads = {h1}
  None = none
  Keyless = {}
  MaxUsage = 1
  MaxRestarts = 1
  MaxEvents = 2
  MaxSweeps = 0
  Faults = TRUE
SPECIFICATION Spec
SYMMETRY Symmetry
INVARIANTS BootReads EndedIsReconciled
CHECK_DEADLOCK FALSE
