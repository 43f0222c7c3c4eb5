SPECIFICATION Spec
CONSTANTS
  a = a
  b = b
  txt = txt
  u1 = u1
  u2 = u2
  u3 = u3
  Blank = Blank
  NoExt = NoExt
  NoFile = NoFile
  Root = Root
  None = None
  Uids <- Three
  Labels <- Labels_ab
  DefaultExt = Blank
  Foreground = TRUE
  QueueLimit = 2
  Requests = {"create", "mkdir", "write", "unlink", "rmdir", "rename", "replace", "top", "stale", "sync", "cut", "orphan", "eager", "early", "syncdelete", "syncrename", "terminate"}
  MaxRequests = 4
  InitDisks <- EmptyVdir
  NewNames <- OneName
  SyncComponents <- AnyNote
SYMMETRY SymmetricUids
CHECK_DEADLOCK FALSE
INVARIANTS TypeOK TreeConsistent NoDanglingNode   LoadUndisturbed
