SPECIFICATION FairSpec
CONSTANTS
  a = a
  b = b
  txt = txt
  u1 = u1
  u2 = u2
  u3 = u3
  Blank = Blank
  NoExt = NoExt
  NoFile = NoFile
  Root = Root
  None = None
  Uids <- Three
  Labels <- Labels_ab
  DefaultExt = Blank
  Foreground = FALSE
  QueueLimit = 9
  Requests = {"sync"}
  MaxRequests = 1
  InitDisks <- EmptyVdir
  NewNames <- OneName
  SyncComponents <- AnyNote
CHECK_DEADLOCK FALSE
PROPERTY ComesToListen
