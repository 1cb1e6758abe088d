CONSTANTS
  TotalPages = 14
  Width = 16
  BootPages = 2
  UserBase = 9
  UserPages = 4
  StackPages = 1
  Back <- MCBack
  Images <- MCImages
SPECIFICATION Spec
INVARIANTS PagesSound StartsClean BackBufferApart MemtestHonest PagesAccounted
CHECK_DEADLOCK FALSE
VIEW Seen
