CONSTANT MaxPeriods = 2
SPECIFICATION FairSpec
INVARIANTS
  NoUseAfterRelease
  NoTornPeriod
  LocksReturned
  TeardownOnce
PROPERTIES
  TriggerIsHeard
  LastRun
\* the process may stop at any time
CHECK_DEADLOCK FALSE
