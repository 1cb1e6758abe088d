CONSTANTS
  Wrap = 11
  Quantum = 4
  Hz = 2
  MaxSleep = 7
  MaxKeys = 1
SPECIFICATION FairSpec
INVARIANT SchedSound
PROPERTIES KillOnlyAfterQuantum SleepNotShort ProgramLeaves KeysHeardUntilKill
CHECK_DEADLOCK FALSE
