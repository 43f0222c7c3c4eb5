SPECIFICATION Spec
CONSTANTS
  a = a
  b = b
  txt = txt
  u1 = u1
  u2 = u2
  u3 = u3
  Blank = Blank
  NoExt = NoExt
  NoFile = NoFile
  Root = Root
  None = None
  Uids <- Three
  Labels <- Labels_ab
  DefaultExt = Blank
  Foreground = TRUE
  QueueLimit = 2
  Requests = {"create", "mkdir", "write", "unlink", "rmdir", "rename", "replace", "terminate"}
  MaxRequests = 6
  InitDisks <- OrderlyVdirs
  NewNames <- FileNames
  SyncComponents <- NoSync
SYMMETRY SymmetricUids
CHECK_DEADLOCK FALSE
INVARIANTS NeverAborts ShownHaveFiles TreeIsReload EntriesShown
PROPERTIES OwnEventsInvisible LikeAFileSystem
