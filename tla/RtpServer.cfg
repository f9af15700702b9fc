SPECIFICATION FairSpec
INVARIANTS
  ReleasedOnce
  SendSafe
  InitFailureClean
PROPERTIES
  StopLoop
  GameOver
\* the threads end
CHECK_DEADLOCK FALSE
