CONSTANTS
  a = a
  u = u
  d1 = d1
  Names <- MCNames
  UsersDat = u
  Data <- MCData
  LastCluster = 4
  RootSlots = 1
  BlockSlots = 3
  MaxLen = 2
  DiskErrors = FALSE
  Crashes = FALSE
SPECIFICATION FairSpec
CONSTRAINT CleanButOrphans
VIEW Readable
INVARIANTS NoLeak TrailSound
PROPERTIES KeepsTree CallsReturn
