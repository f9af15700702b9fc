CONSTANT WaveLen = 2
SPECIFICATION FairSpec
PROPERTIES
  UnStuck
CHECK_DEADLOCK FALSE
