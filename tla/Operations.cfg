\* Two threads of libfuse and the watcher; two writers, crashes or changes
\* by others, and any number of handlers that read.
CONSTANTS
  t1 = t1
  t2 = t2
  w = w
  a = a
  b = b
  summary = summary
  extension = extension
  parent = parent
  Absent = Absent
  Damaged = Damaged
  NoJob = NoJob
  NoThread = NoThread
  Threads = {t1, t2, w}
  Watcher = w
  Files = {a, b}
  Fields = {summary, extension, parent}
  Jobs <- MCJobs
  WatcherJobs <- Events
  DiskFails = TRUE
  MaxRequests = 2
SPECIFICATION FairSpec
INVARIANT TypeOK
PROPERTY AtomicOperations
PROPERTY ParsesWholeNotes
PROPERTY EveryHandlerReturns
CHECK_DEADLOCK FALSE
