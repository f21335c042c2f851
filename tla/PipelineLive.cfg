CONSTANTS
  Streams <- LogAndStderr
  Frames <- AnyFrames
  ErrFrames <- PlainFrames
  MaxLines <- OneAndOne
  MaxTurns = 1
  MaxRestarts = 1
  MaxFaults = 1
SPECIFICATION FairSpec
PROPERTY DeadHarnessReported
PROPERTY ShutdownEnds
PROPERTY StopEnds
PROPERTY OutputSettled
CHECK_DEADLOCK FALSE
