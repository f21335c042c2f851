CONSTANTS
  Msgs = {m1, m2}
  NoMsg = none
  MaxTurns = 3
  MaxRestarts = 1
  AutoResume = TRUE
  Faults = FALSE
SPECIFICATION FairSpec
INVARIANT ActiveIsWatched
PROPERTIES ImplementsSendQueue FailedStartKeepsMessage QueuedMessageLeaves
CHECK_DEADLOCK FALSE
