\* A thread of libfuse, the watcher, two notes and two lost blocks; no two
\* threads and notes ever hold more than 10 blocks when an operation begins, so
\* that there is always room for five more.
CONSTANTS
  Threads = {t1, w}
  Watcher = w
  Notes = {a, b}
  NoNode = NoNode
  NULL = NULL
  MaxBlocks = 15
  MaxLost = 2
SPECIFICATION Spec
SYMMETRY AnyNote
INVARIANT TypeOK
INVARIANT OneOwner
INVARIANT HeldNamesStay
CHECK_DEADLOCK FALSE
