------------------------ MODULE OperationsProperties ------------------------
(***************************************************************************)
(* What is expected of the operations: they are atomic, readers see whole  *)
(* notes, and every one of them returns.                                   *)
(***************************************************************************)
EXTENDS Operations

Places ==
  {"idle", "waiting", "locked", "found", "parsed", "open", "returning"}

\* The types of the variables, and what the lock and the places of the threads
\* have to do with each other: a thread is in a critical section exactly when
\* it holds entries_lock, a writer holds it alone, nobody else has a file open
\* for writing, and a file that is cut to nothing since the writer has the lock
\* is the one its operation is about.
TypeOK ==
  /\ file \in [Files -> Component \cup {Absent, Damaged}]
  /\ before \in [Files -> Component \cup {Absent, Damaged}]
  /\ pc \in [Threads -> Places]
  /\ job \in [Threads -> Jobs \cup {NoJob}]
  /\ copy \in [Threads -> Component \cup {Absent, Damaged}]
  /\ stamp \in [Threads -> 0 .. MaxRequests]
  /\ step \in [Threads -> 0 .. 3]
  /\ failed \in BOOLEAN /\ running \in BOOLEAN
  /\ requests \in 0 .. MaxRequests
  /\ readers \cup ({writer} \ {NoThread})
       = {t \in Threads : pc[t] \notin {"idle", "waiting"}}
  /\ writer # NoThread => readers = {}
  /\ \A t \in Threads : pc[t] = "open" => t = writer
  /\ \A t \in Threads, f \in Files :
       t = writer /\ file[f] = Damaged => before[f] = Damaged \/ f = job[t].file

\* The files as they are between operations.
stored == IF writer = NoThread THEN file ELSE before

Store == INSTANCE AtomicStore WITH store <- stored, MaxStamp <- MaxRequests

\* Seen through the lock, an operation that parses, deletes and writes up to
\* three times is one step: it happens as a whole or not at all, unless a write
\* failed or the daemon ended within it, and then its own files only are left
\* as they were, torn between two of its writes, or empty (write_to_file,
\* do_agenda_rename, fuse_rename).
AtomicOperations == Store!Spec

\* A handler that only reads (fuse_read, fuse_getattr, fuse_getxattr, ..) gets
\* the component as the last whole operation has left it, never one that an
\* operation is writing.
ParsesWholeNotes ==
  [][\A t \in Threads :
       job[t] # NoJob /\ copy'[t] \notin {copy[t], Absent} =>
         job[t].access = "write" \/ copy'[t] = stored[job[t].file]]_vars

\* A thread is in a handler that reads, with the lock.
Reading == \E t \in Threads : t \in readers /\ pc[t] # "idle"

\* Every handler that was called returns: every lock taken is given back on
\* every path, early returns included, and nobody waits for a lock whose holder
\* waits for him.  A writer, the watcher among them, may starve when handlers
\* that read overlap for ever, for entries_lock prefers readers, and only then.
EveryHandlerReturns ==
  /\ \A t \in Threads :
       (pc[t] = "waiting" /\ job[t].access = "read") ~> pc[t] = "idle"
  /\ \A t \in Threads : pc[t] = "locked" ~> pc[t] = "idle"
  /\ []<>Reading \/ \A t \in Threads : pc[t] = "waiting" ~> pc[t] = "idle"

=============================================================================
