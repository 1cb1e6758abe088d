CONSTANTS
  Wrap = 4
  Quantum = 2
  Hz = 1
  MaxSleep = 2
  MaxKeys = 1
SPECIFICATION FairSpec
PROPERTY InteractiveShell
CHECK_DEADLOCK FALSE
