CONSTANTS
  Streams <- LogAndStderr
  Frames <- VerdictFrames
  ErrFrames <- QuietFrames
  MaxLines <- TwoAndOne
  MaxTurns = 2
  MaxRestarts = 1
  MaxFaults = 1
SPECIFICATION Spec
INVARIANTS
  CursorCovered
  ExactlyOnce
  StatusMatchesLog
PROPERTY ImplementsEventLog
CHECK_DEADLOCK FALSE
