CONSTANTS
  Msgs = {m1}
  NoMsg = none
  MaxTurns = 2
  MaxRestarts = 1
  AutoResume = FALSE
  Faults = FALSE
SPECIFICATION Spec
INVARIANT SidecarClosesWindow
CHECK_DEADLOCK FALSE
