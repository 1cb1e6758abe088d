CONSTANTS
  a = a
  u = u
  d1 = d1
  Names <- MCNames
  UsersDat = u
  Data <- MCData
  LastCluster = 3
  RootSlots = 2
  BlockSlots = 3
  MaxLen = 2
  DiskErrors = TRUE
  Crashes = TRUE
SPECIFICATION Spec
CONSTRAINT Clean
VIEW Readable
INVARIANTS TypeOK VolumeSound FilesIntact EntriesSound
PROPERTY OthersUntouched
