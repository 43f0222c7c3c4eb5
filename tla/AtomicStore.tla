---------------------------- MODULE AtomicStore ----------------------------
(***************************************************************************)
(* What users and the other modules take for granted of the files of the   *)
(* vdir: an operation happens as a whole or not at all.  Only when a write *)
(* fails, or the daemon ends within an operation, may something else be    *)
(* found, and then only in the files of that operation.                    *)
(***************************************************************************)
EXTENDS Integers, Sequences

CONSTANTS
  Files,     \* the ics files of the vdir
  Fields,    \* the parts of a component that operations change
  Absent,    \* there is no such file
  Damaged,   \* a file that is empty or cut off
  Jobs,      \* what operations do: the files one removes, the file it changes
             \* and the parts (fields) of it, in their order
  MaxStamp   \* operations are numbered 1 .. MaxStamp; 0 is what was before

\* The number of the operation that changed each part last.
Component == [Fields -> 0 .. MaxStamp]

VARIABLES
  store,   \* the component in each file
  failed,  \* a write of the operation under way has failed
  running  \* the daemon runs

\* The component c when operation n has changed the first k parts of job j.
changed(c, j, k, n) ==
  [x \in Fields |->
     IF c = Absent \/ \E i \in 1 .. k : j.fields[i] = x THEN n ELSE c[x]]

\* An operation as a whole.  No operation changes a damaged file.
Done(j, n) ==
  /\ running /\ ~failed
  /\ store[j.file] # Damaged \/ j.fields = <<>>
  /\ store' = [f \in Files |->
                 IF f \in j.removes THEN Absent
                 ELSE IF f = j.file /\ j.fields # <<>>
                   THEN changed(store[f], j, Len(j.fields), n)
                 ELSE store[f]]
  /\ UNCHANGED <<failed, running>>

\* What a broken operation leaves: each of its files is as before, or as after
\* some of its steps, or damaged.
Torn(j, n) ==
  \A f \in Files :
    \/ store'[f] = store[f]
    \/ f \in j.removes /\ store'[f] = Absent
    \/ /\ f = j.file /\ j.fields # <<>> /\ store[f] # Damaged
       /\ \/ store'[f] = Damaged
          \/ \E k \in 1 .. Len(j.fields) : store'[f] = changed(store[f], j, k, n)

WriteFails ==
  /\ running
  /\ failed' = TRUE
  /\ UNCHANGED <<store, running>>

EndFailed(j, n) ==
  /\ running /\ failed
  /\ failed' = FALSE
  /\ Torn(j, n)
  /\ UNCHANGED running

Crash(j, n) ==
  /\ running
  /\ running' = FALSE
  /\ failed' = FALSE
  /\ Torn(j, n)

Restart ==
  /\ ~running
  /\ running' = TRUE
  /\ UNCHANGED <<store, failed>>

\* Another program changes one file, at any time.
Sync(f) ==
  /\ \A g \in Files \ {f} : store'[g] = store[g]
  /\ store'[f] # Damaged
  /\ UNCHANGED <<failed, running>>

Init ==
  /\ store \in [Files -> Component \cup {Absent, Damaged}]
  /\ failed = FALSE
  /\ running = TRUE

Next ==
  \/ \E j \in Jobs, n \in 1 .. MaxStamp :
       Done(j, n) \/ EndFailed(j, n) \/ Crash(j, n)
  \/ WriteFails
  \/ Restart
  \/ \E f \in Files : Sync(f)

Spec == Init /\ [][Next]_<<store, failed, running>>

=============================================================================
