CONSTANTS
  Msgs = {m1, m2}
  NoMsg = none
  MaxTurns = 3
  MaxRestarts = 1
  AutoResume = TRUE
  Faults = TRUE
SPECIFICATION Spec
INVARIANTS OneHarness LockOwnerEnded StopCancels
PROPERTY LoopsDontOverlap
SYMMETRY Symmetry
CHECK_DEADLOCK FALSE
