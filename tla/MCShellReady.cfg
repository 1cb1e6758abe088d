CONSTANTS
  Users = {"ann", "bob", "b-b"}
  Passwords = {"p", "p:p"}
  Valid = {"ann", "bob", "p"}
  NoUser = "none"
  Guest = "guest"
  Directories <- MCDirectories
  Pieces <- MCPieces
  PieceLen = 2
  PathMax = 8
  DbMax = 2
  DiskErrors = FALSE
SPECIFICATION Spec
INVARIANT ReadyMeansMounted
CHECK_DEADLOCK FALSE
