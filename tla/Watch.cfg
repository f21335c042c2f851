CONSTANTS
  None = None
  MaxTurns = 3
  MaxRestarts = 2
SPECIFICATION Spec
PROPERTIES WatchEnds RunTellsOutcome
CHECK_DEADLOCK FALSE
