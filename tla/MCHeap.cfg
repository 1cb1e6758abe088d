CONSTANTS
  Wrap = 128
  HeapSize = 28
  Align = 2
  Hdr = 4
  MinSplit = 8
  Requests <- MCRequests
SPECIFICATION Spec
INVARIANT HeapSound
PROPERTY KeepsPromise
VIEW Memory
