----------------------------- MODULE Operations -----------------------------
(***************************************************************************)
(* How an operation of the daemon runs: under entries_lock, a readers-     *)
(* writer lock, it parses the file of a note, changes the component in     *)
(* memory and writes the file again, up to three times, each time by       *)
(* truncating it first.  The threads of libfuse and the watcher thread     *)
(* interleave between any two of these steps; other programs change files  *)
(* without the lock; a write fails, or the daemon ends, anywhere.          *)
(*                                                                         *)
(* An operation is a job (see Job): how it takes the lock, whether *)
(* it is refused after the lookup (an early return), the file it is about, *)
(* the files it removes, and the parts it changes, one write for each.     *)
(* The parts of a component carry the number of the operation that changed *)
(* them last.                                                              *)
(***************************************************************************)
EXTENDS Integers, Sequences, FiniteSets

CONSTANTS
  Threads,      \* the threads of libfuse, and the watcher
  NoThread,
  Files, Fields, Absent, Damaged,
  Jobs,         \* the operations of an instance
  NoJob,        \* what a thread between two operations does
  Watcher,      \* the thread of handle_vdir_event
  WatcherJobs,  \* the operations of the watcher among them
  DiskFails,    \* whether opening and writing a file may fail
  MaxRequests   \* the writers, crashes and changes by others in a run

Component == [Fields -> 0 .. MaxRequests]

Job ==
  [access : {"read", "write"}, file : Files, refused : BOOLEAN,
   creates : BOOLEAN, removes : SUBSET Files, fields : Seq(Fields)]

ASSUME OperationsAssumption ==
  /\ NoThread \notin Threads /\ Watcher \in Threads
  /\ WatcherJobs \subseteq Jobs /\ NoJob \notin Jobs
  /\ DiskFails \in BOOLEAN
  /\ MaxRequests \in Nat \ {0}
  /\ Absent # Damaged /\ {Absent, Damaged} \cap Component = {}

\* No handler writes more than three times; one that takes the lock for reading
\* changes nothing; a note is not renamed to itself.
ASSUME JobsAssumption ==
  /\ Jobs # {} /\ Jobs \subseteq Job
  /\ \A j \in Jobs :
       /\ Len(j.fields) <= 3
       /\ j.access = "read" => j.fields = <<>> /\ j.removes = {}
       /\ j.fields # <<>> => j.file \notin j.removes

VARIABLES
  file,      \* the component in each file, Absent, or Damaged
  readers,   \* the threads that hold entries_lock for reading
  writer,    \* the thread that holds it for writing, or NoThread
  pc,        \* where each thread is
  job,       \* what it does
  stamp,     \* the number of its operation
  copy,      \* the component it has parsed
  step,      \* how many writes it has begun
  failed,    \* a write of the operation under way has failed
  running,   \* the daemon runs
  requests,  \* how many writers, crashes and changes there were
  before     \* the files without the operation of the writer, if there is one

vars == <<file, readers, writer, pc, job, stamp, copy, step, failed, running,
          requests, before>>

Request ==
  /\ requests < MaxRequests
  /\ requests' = requests + 1

GoTo(t, place) == pc' = [pc EXCEPT ![t] = place]

\* With part x changed by operation n; a created note is all new.
edited(c, x, n) ==
  IF c = Absent THEN [y \in Fields |-> n] ELSE [c EXCEPT ![x] = n]

-----------------------------------------------------------------------------

\* libfuse calls a handler, or the watcher has read an event.
Call(t, j) ==
  /\ running
  /\ pc[t] = "idle"
  /\ t = Watcher <=> j \in WatcherJobs
  /\ job' = [job EXCEPT ![t] = j]
  /\ \/ j.access = "read" /\ UNCHANGED <<stamp, requests>>
     \/ j.access = "write" /\ Request /\ stamp' = [stamp EXCEPT ![t] = requests']
  /\ GoTo(t, "waiting")
  /\ UNCHANGED <<file, readers, writer, copy, step, failed, running, before>>

\* A reader does not look who else is there.
FUSE_READ_BEGIN_anyway(t) ==
  /\ pc[t] = "waiting" /\ job[t].access = "read"
  /\ readers' = readers \cup {t}
  /\ GoTo(t, "locked")
  /\ UNCHANGED <<file, writer, job, stamp, copy, step, failed, running,
                 requests, before>>

\* A reader gets in unless a writer is; waiting writers do not keep it out.
FUSE_READ_BEGIN(t) ==
  /\ pc[t] = "waiting" /\ job[t].access = "read"
  /\ writer = NoThread
  /\ readers' = readers \cup {t}
  /\ GoTo(t, "locked")
  /\ UNCHANGED <<file, writer, job, stamp, copy, step, failed, running,
                 requests, before>>

\* A writer does not look for other writers.
FUSE_WRITE_BEGIN_among_writers(t) ==
  /\ pc[t] = "waiting" /\ job[t].access = "write"
  /\ readers = {}
  /\ writer' = t
  /\ before' = file
  /\ GoTo(t, "locked")
  /\ UNCHANGED <<file, readers, job, stamp, copy, step, failed, running,
                 requests>>

\* A writer does not look for readers.
FUSE_WRITE_BEGIN_among_readers(t) ==
  /\ pc[t] = "waiting" /\ job[t].access = "write"
  /\ writer = NoThread
  /\ writer' = t
  /\ before' = file
  /\ GoTo(t, "locked")
  /\ UNCHANGED <<file, readers, job, stamp, copy, step, failed, running,
                 requests>>

FUSE_WRITE_BEGIN(t) ==
  /\ pc[t] = "waiting" /\ job[t].access = "write"
  /\ writer = NoThread /\ readers = {}
  /\ writer' = t
  /\ before' = file
  /\ GoTo(t, "locked")
  /\ UNCHANGED <<file, readers, job, stamp, copy, step, failed, running,
                 requests>>

\* The early returns after get_node_by_path.
Refuse(t) ==
  /\ pc[t] = "locked"
  /\ \/ job[t].refused
     \/ (file[job[t].file] = Absent) # job[t].creates
  /\ GoTo(t, "returning")
  /\ UNCHANGED <<file, readers, writer, job, stamp, copy, step, failed,
                 running, requests, before>>

\* delete_vdir_entry: of the target of a rename before anything else, of an
\* unlinked note once its component was looked at.
Remove(t) ==
  /\ pc[t] \in {"locked", "parsed"} /\ job[t].removes # {}
  /\ \/ /\ pc[t] = "locked" /\ ~job[t].refused /\ job[t].fields # <<>>
        /\ GoTo(t, "found")
     \/ /\ pc[t] = "parsed" /\ job[t].fields = <<>>
        /\ GoTo(t, "returning")
  /\ file' = [f \in Files |-> IF f \in job[t].removes THEN Absent ELSE file[f]]
  /\ UNCHANGED <<readers, writer, job, stamp, copy, step, failed, running,
                 requests, before>>

\* parse_ics_file.  Of a damaged file nothing comes back, which handlers that
\* read report as EIO or do not survive (see Abort).
Parse(t) ==
  /\ \/ /\ pc[t] = "locked" /\ ~job[t].refused
        /\ job[t].removes = {} \/ job[t].fields = <<>>
     \/ pc[t] = "found"
  /\ (file[job[t].file] = Absent) = job[t].creates
  /\ file[job[t].file] # Damaged \/ job[t].access = "read"
  /\ copy' = [copy EXCEPT ![t] = file[job[t].file]]
  /\ GoTo(t, IF job[t].access = "read" THEN "returning" ELSE "parsed")
  /\ UNCHANGED <<file, readers, writer, job, stamp, step, failed, running,
                 requests, before>>

\* Where a write leads to: the next one, or the end.
after_write(t, k) == IF k = Len(job[t].fields) THEN "returning" ELSE "parsed"

\* The next write: one more part is changed in memory, and fopen(.., "w") cuts
\* the file to nothing.
Truncate(t) ==
  LET k == step[t] + 1
  IN  /\ pc[t] = "parsed" /\ job[t].fields # <<>>
      /\ step' = [step EXCEPT ![t] = k]
      /\ copy' = [copy EXCEPT ![t] = edited(@, job[t].fields[k], stamp[t])]
      /\ \/ /\ file' = [file EXCEPT ![job[t].file] = Damaged]
            /\ GoTo(t, "open")
            /\ UNCHANGED failed
         \/ /\ DiskFails
            /\ failed' = TRUE
            /\ GoTo(t, after_write(t, k))
            /\ UNCHANGED file
      /\ UNCHANGED <<readers, writer, job, stamp, running, requests, before>>

\* fputs and fclose, whose results nobody looks at: after a failure the
\* operation goes on.
Put(t) ==
  /\ pc[t] = "open"
  /\ \/ /\ file' = [file EXCEPT ![job[t].file] = copy[t]]
        /\ UNCHANGED failed
     \/ /\ DiskFails
        /\ failed' = TRUE
        /\ UNCHANGED file
  /\ GoTo(t, after_write(t, step[t]))
  /\ UNCHANGED <<readers, writer, job, stamp, copy, step, running, requests,
                 before>>

\* The handler is done; its locals are gone.
Return(t) ==
  /\ pc[t] = "returning"
  /\ GoTo(t, "idle")
  /\ job' = [job EXCEPT ![t] = NoJob]
  /\ stamp' = [stamp EXCEPT ![t] = 0]
  /\ copy' = [copy EXCEPT ![t] = Absent]
  /\ step' = [step EXCEPT ![t] = 0]
  /\ failed' = (failed /\ writer # t)
  /\ UNCHANGED <<file, running, requests, before>>

\* An early return of a handler that reads goes past the unlocking.
FUSE_CLEANUP_skipped(t) ==
  /\ Return(t)
  /\ readers' = IF job[t].refused THEN readers ELSE readers \ {t}
  /\ writer' = IF writer = t THEN NoThread ELSE writer

FUSE_CLEANUP(t) ==
  /\ Return(t)
  /\ readers' = readers \ {t}
  /\ writer' = IF writer = t THEN NoThread ELSE writer

-----------------------------------------------------------------------------

\* The process is gone, with all that is in memory.
End ==
  /\ running
  /\ running' = FALSE
  /\ pc' = [t \in Threads |-> "idle"]
  /\ job' = [t \in Threads |-> NoJob]
  /\ stamp' = [t \in Threads |-> 0]
  /\ copy' = [t \in Threads |-> Absent]
  /\ step' = [t \in Threads |-> 0]
  /\ readers' = {}
  /\ writer' = NoThread
  /\ failed' = FALSE
  /\ UNCHANGED <<file, before>>

\* An assertion fails: the file of a node that was found is not there
\* (parse_ics_file), or no component comes back from it (fuse_write,
\* fuse_readdir), or the NULL is followed.
Abort(t) ==
  /\ pc[t] \in {"locked", "found"}
  /\ ~job[t].refused /\ ~job[t].creates
  /\ \/ file[job[t].file] = Absent
     \/ /\ file[job[t].file] = Damaged
        /\ pc[t] = "found" \/ job[t].removes = {} \/ job[t].fields = <<>>
  /\ End
  /\ UNCHANGED requests

\* The daemon is killed, or exits while the watcher, which main cancels, is
\* within handle_vdir_event.
Crash == Request /\ End

Restart ==
  /\ ~running
  /\ running' = TRUE
  /\ UNCHANGED <<file, readers, writer, pc, job, stamp, copy, step, failed,
                 requests, before>>

\* Another program writes or deletes a file, atomically (it renames a finished
\* one).  Not between the parsing and the last writing of that very file by an
\* operation, which would write what it has parsed over it.
Sync(f) ==
  /\ \A t \in Threads \cap {writer} :
       f \notin {job[t].file} \cup job[t].removes
  /\ Request
  /\ \E c \in {Absent, [x \in Fields |-> requests']} :
       /\ file' = [file EXCEPT ![f] = c]
       /\ before' = [before EXCEPT ![f] = c]
  /\ UNCHANGED <<readers, writer, pc, job, stamp, copy, step, failed, running>>

Init ==
  /\ file \in [Files -> {Absent, [x \in Fields |-> 0]}]
  /\ readers = {}
  /\ writer = NoThread
  /\ pc = [t \in Threads |-> "idle"]
  /\ job = [t \in Threads |-> NoJob]
  /\ stamp = [t \in Threads |-> 0]
  /\ copy = [t \in Threads |-> Absent]
  /\ step = [t \in Threads |-> 0]
  /\ failed = FALSE
  /\ running = TRUE
  /\ requests = 0
  /\ before = file

\* A handler that has been called runs to its end.
Run(t) ==
  \/ FUSE_READ_BEGIN(t) \/ FUSE_WRITE_BEGIN(t)
  \/ Refuse(t) \/ Remove(t) \/ Parse(t) \/ Truncate(t) \/ Put(t)
  \/ FUSE_CLEANUP(t)
  \/ Abort(t)

Next ==
  \/ \E t \in Threads : Run(t) \/ \E j \in Jobs : Call(t, j)
  \/ Crash \/ Restart
  \/ \E f \in Files : Sync(f)

\* The scheduler runs every thread of a running daemon.
Fairness == \A t \in Threads : WF_vars(Run(t))

Spec == Init /\ [][Next]_vars

FairSpec == Spec /\ Fairness

=============================================================================
