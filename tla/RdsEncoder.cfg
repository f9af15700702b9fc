CONSTANT WaveLen = 3
SPECIFICATION FairSpec
INVARIANTS
  OrderedCleanup
  
PROPERTIES
  GroupOnDemand
  GameOver
\* the process may crash or stop
CHECK_DEADLOCK FALSE
