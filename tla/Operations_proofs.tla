------------------------- MODULE Operations_proofs -------------------------
(***************************************************************************)
(* Seen through entries_lock, operations are atomic: with any threads,     *)
(* files and operations, wherever writes fail and the daemon ends.         *)
(***************************************************************************)
EXTENDS OperationsProperties, SequenceTheorems, TLAPS

-----------------------------------------------------------------------------
(* The inductive invariant *)

Types ==
  /\ file \in [Files -> Component \cup {Absent, Damaged}]
  /\ before \in [Files -> Component \cup {Absent, Damaged}]
  /\ readers \subseteq Threads
  /\ writer \in Threads \cup {NoThread}
  /\ pc \in [Threads -> Places]
  /\ job \in [Threads -> Jobs \cup {NoJob}]
  /\ copy \in [Threads -> Component \cup {Absent, Damaged}]
  /\ stamp \in [Threads -> 0 .. MaxRequests]
  /\ step \in [Threads -> 0 .. 3]
  /\ failed \in BOOLEAN /\ running \in BOOLEAN
  /\ requests \in 0 .. MaxRequests

\* Who holds entries_lock, how, and what the other threads cannot have done.
Locking ==
  /\ \A t \in Threads :
       pc[t] \in {"idle", "waiting"} <=> t \notin readers /\ t # writer
  /\ writer # NoThread => readers = {}
  /\ \A t \in Threads :
       pc[t] # "idle" =>
         /\ running
         /\ job[t] \in Jobs
         /\ job[t].access = "write" => stamp[t] # 0
  /\ \A t \in readers :
       job[t].access = "read" /\ pc[t] \in {"locked", "returning"}
  /\ \A t \in Threads : t = writer => job[t].access = "write"
  /\ \A t \in Threads : t # writer => step[t] = 0
  /\ writer = NoThread => ~failed

\* The files of before without those that job j removes.
removed(j) == [f \in Files |-> IF f \in j.removes THEN Absent ELSE before[f]]

\* The component c after k writes of job j by operation n.
progress(c, j, k, n) == IF k = 0 THEN c ELSE Store!changed(c, j, k, n)

\* The writer has touched nothing yet.
Untouched(t) ==
  /\ \/ pc[t] \in {"locked", "returning"}
     \/ pc[t] = "parsed" /\ job[t].fields = <<>>
  /\ file = before /\ ~failed /\ step[t] = 0

\* It has removed files, and that is all.
Removing(t) ==
  /\ \/ pc[t] = "found" /\ job[t].fields # <<>>
     \/ pc[t] = "returning" /\ job[t].fields = <<>>
  /\ file = removed(job[t]) /\ ~failed /\ step[t] = 0

\* The content of the file it changes: what one of the writes has left, the
\* last one if none has failed.
Written(t, c) ==
  /\ \/ c = Damaged /\ (pc[t] = "open" \/ failed)
     \/ /\ pc[t] # "open"
        /\ \E k \in 0 .. step[t] :
             c = progress(before[job[t].file], job[t], k, stamp[t])
  /\ pc[t] # "open" /\ ~failed => c = copy[t]

\* It is between its writes.
Writing(t) ==
  /\ job[t].fields # <<>>
  /\ before[job[t].file] # Damaged
  /\ \/ pc[t] = "parsed" /\ step[t] < Len(job[t].fields)
     \/ pc[t] = "open" /\ step[t] \in 1 .. Len(job[t].fields)
     \/ pc[t] = "returning" /\ step[t] = Len(job[t].fields)
  /\ copy[t] = progress(before[job[t].file], job[t], step[t], stamp[t])
  /\ \A f \in Files \ {job[t].file} : file[f] = removed(job[t])[f]
  /\ Written(t, file[job[t].file])

Left == \A t \in Threads : t = writer => Untouched(t) \/ Removing(t) \/ Writing(t)

IInv == Types /\ Locking /\ Left

-----------------------------------------------------------------------------
(* Operators *)

\* What is known of a job.
LEMMA AJob ==
  ASSUME NEW j \in Jobs
  PROVE  /\ j.access \in {"read", "write"} /\ j.file \in Files
         /\ j.fields \in Seq(Fields) /\ Len(j.fields) \in 0 .. 3
         /\ j.access = "read" => j.fields = <<>> /\ j.removes = {}
         /\ j.fields # <<>> => j.file \notin j.removes /\ Len(j.fields) # 0
         /\ \A i \in 1 .. Len(j.fields) : j.fields[i] \in Fields
  <1>1. j \in Job
    BY JobsAssumption
  <1>2. j.access \in {"read", "write"} /\ j.file \in Files
        /\ j.fields \in Seq(Fields)
    BY <1>1 DEF Job
  <1>3. Len(j.fields) \in 0 .. 3
    <2>1. Len(j.fields) \in Nat
      BY <1>2, LenProperties
    <2>2. Len(j.fields) <= 3
      BY JobsAssumption
    <2>3. \A n \in Nat : n <= 3 => n \in 0 .. 3
      OBVIOUS
    <2> QED
      BY <2>1, <2>2, <2>3
  <1>4. j.fields # <<>> => Len(j.fields) # 0
    BY <1>2, EmptySeq
  <1>5. \A i \in 1 .. Len(j.fields) : j.fields[i] \in Fields
    BY <1>2, ElementOfSeq
  <1> QED
    BY <1>2, <1>3, <1>4, <1>5, JobsAssumption

\* Changing one part more is the next write.
LEMMA NextWrite ==
  ASSUME NEW j \in Jobs, NEW c \in Component \cup {Absent}, NEW k \in Nat,
         k < Len(j.fields), NEW n \in 1 .. MaxRequests
  PROVE  /\ edited(progress(c, j, k, n), j.fields[k + 1], n)
              = progress(c, j, k + 1, n)
         /\ progress(c, j, k, n) \in Component \cup {Absent}
         /\ progress(c, j, k + 1, n) \in Component
  <1>0. /\ MaxRequests \in Nat \ {0} /\ n \in 0 .. MaxRequests
        /\ Absent \notin Component
        /\ Len(j.fields) \in Nat
        /\ \A i \in 1 .. Len(j.fields) : j.fields[i] \in Fields
    BY OperationsAssumption, AJob
  <1>1. \A i \in Nat : Store!changed(c, j, i, n) \in Component
    BY <1>0 DEF Store!changed, Component
  <1>2. progress(c, j, k, n) \in Component \cup {Absent}
    BY <1>1 DEF progress
  <1>3. progress(c, j, k + 1, n) = Store!changed(c, j, k + 1, n)
    BY DEF progress
  <1>4. progress(c, j, k + 1, n) \in Component
    BY <1>1, <1>3
  <1>5. edited(progress(c, j, k, n), j.fields[k + 1], n)
          = Store!changed(c, j, k + 1, n)
    <2> DEFINE x == j.fields[k + 1]
    <2>1. x \in Fields
      BY <1>0
    <2>2. CASE c = Absent
      <3>1. Store!changed(c, j, k + 1, n) = [y \in Fields |-> n]
        BY <2>2 DEF Store!changed
      <3>2. CASE k = 0
        BY <2>2, <3>1, <3>2 DEF progress, edited
      <3>3. CASE k # 0
        <4>1. progress(c, j, k, n) = [y \in Fields |-> n]
          BY <2>2, <3>3 DEF progress, Store!changed
        <4>2. progress(c, j, k, n) # Absent
          BY <1>0, <1>1, <3>3 DEF progress
        <4> QED
          BY <2>1, <3>1, <4>1, <4>2 DEF edited
      <3> QED
        BY <3>2, <3>3
    <2>3. CASE c \in Component
      <3>1. c # Absent /\ progress(c, j, k, n) # Absent
        BY <1>0, <1>1, <2>3 DEF progress
      <3>2. c \in [Fields -> 0 .. MaxRequests]
        BY <2>3 DEF Component
      <3>3. Store!changed(c, j, k + 1, n)
              = [y \in Fields |->
                   IF \E i \in 1 .. k + 1 : j.fields[i] = y THEN n ELSE c[y]]
        BY <3>1 DEF Store!changed
      <3>4. progress(c, j, k, n)
              = [y \in Fields |->
                   IF \E i \in 1 .. k : j.fields[i] = y THEN n ELSE c[y]]
        <4>1. CASE k = 0
          BY <3>2, <4>1 DEF progress
        <4>2. CASE k # 0
          BY <3>1, <4>2 DEF progress, Store!changed
        <4> QED
          BY <4>1, <4>2
      <3>5. edited(progress(c, j, k, n), x, n)
              = [progress(c, j, k, n) EXCEPT ![x] = n]
        BY <3>1 DEF edited
      <3>6. \A y \in Fields :
              (\E i \in 1 .. k + 1 : j.fields[i] = y)
                <=> y = x \/ \E i \in 1 .. k : j.fields[i] = y
        BY <1>0
      <3> HIDE DEF x
      <3>7. [progress(c, j, k, n) EXCEPT ![x] = n] = Store!changed(c, j, k + 1, n)
        BY <2>1, <3>3, <3>4, <3>6
      <3> QED
        BY <3>5, <3>7 DEF x
    <2> QED
      BY <2>2, <2>3
  <1> QED
    BY <1>2, <1>3, <1>4, <1>5

-----------------------------------------------------------------------------
(* Invariance *)

\* A step that leaves a writer where it is leaves the files as it needs them.
LEMMA LeftAlone ==
  ASSUME NEW t \in Threads,
         Untouched(t) \/ Removing(t) \/ Writing(t),
         UNCHANGED <<file, before, failed>>,
         pc'[t] = pc[t], job'[t] = job[t], stamp'[t] = stamp[t],
         copy'[t] = copy[t], step'[t] = step[t]
  PROVE  (Untouched(t) \/ Removing(t) \/ Writing(t))'
  <1>1. CASE Untouched(t)
    BY <1>1 DEF Untouched
  <1>2. CASE Removing(t)
    BY <1>2 DEF Removing, removed
  <1>3. CASE Writing(t)
    <2>1. \A k : progress(before[job[t].file], job[t], k, stamp[t])'
                  = progress(before[job[t].file], job[t], k, stamp[t])
      BY DEF progress, Store!changed
    <2>2. Written(t, file[job[t].file]) => Written(t, file[job[t].file])'
      BY <2>1 DEF Written
    <2> QED
      BY <1>3, <2>1, <2>2 DEF Writing, removed
  <1> QED
    BY <1>1, <1>2, <1>3

LEMMA IInit == Init => IInv
  <1> SUFFICES ASSUME Init PROVE IInv
    OBVIOUS
  <1>1. file \in [Files -> Component \cup {Absent, Damaged}]
    <2>1. [x \in Fields |-> 0] \in Component
      BY OperationsAssumption DEF Component
    <2> QED
      BY <2>1 DEF Init
  <1>2. Types
    <2>1. writer \in Threads \cup {NoThread} /\ readers \subseteq Threads
      BY DEF Init
    <2>2. pc \in [Threads -> Places]
      BY DEF Init, Places
    <2>3. /\ job \in [Threads -> Jobs \cup {NoJob}]
          /\ copy \in [Threads -> Component \cup {Absent, Damaged}]
      BY DEF Init
    <2>4. /\ stamp \in [Threads -> 0 .. MaxRequests]
          /\ step \in [Threads -> 0 .. 3]
          /\ failed \in BOOLEAN /\ running \in BOOLEAN
          /\ requests \in 0 .. MaxRequests
      <3>1. 0 \in 0 .. MaxRequests /\ 0 \in 0 .. 3
        BY OperationsAssumption
      <3> QED
        BY <3>1 DEF Init
    <2>5. before = file
      BY DEF Init
    <2> QED
      BY <1>1, <2>1, <2>2, <2>3, <2>4, <2>5 DEF Types
  <1>3. Locking
    BY OperationsAssumption DEF Init, Locking
  <1>4. Left
    BY OperationsAssumption DEF Init, Left
  <1> QED
    BY <1>2, <1>3, <1>4 DEF IInv

LEMMA CallStep ==
  ASSUME IInv, NEW t \in Threads, NEW j \in Jobs, Call(t, j)
  PROVE  IInv'
  <1>1. Types'
    BY OperationsAssumption DEF IInv, Types, Call, Request, GoTo, Places
  <1>2. Locking'
    BY OperationsAssumption DEF IInv, Types, Locking, Call, Request, GoTo
  <1>3. Left'
    <2> SUFFICES ASSUME NEW u \in Threads, u = writer
                 PROVE  (Untouched(u) \/ Removing(u) \/ Writing(u))'
      BY DEF Left, Call
    <2>1. u # t
      BY DEF IInv, Locking, Call
    <2>2. UNCHANGED <<file, before, failed, copy, step>>
      BY DEF Call
    <2>3. pc'[u] = pc[u] /\ job'[u] = job[u] /\ stamp'[u] = stamp[u]
      BY <2>1 DEF IInv, Types, Call, GoTo
    <2> QED
      BY <2>2, <2>3, LeftAlone DEF IInv, Left
  <1> QED
    BY <1>1, <1>2, <1>3 DEF IInv

LEMMA ReadBeginStep ==
  ASSUME IInv, NEW t \in Threads, FUSE_READ_BEGIN(t)
  PROVE  IInv'
  <1>1. Types'
    BY DEF IInv, Types, FUSE_READ_BEGIN, GoTo, Places
  <1>2. Locking'
    BY OperationsAssumption DEF IInv, Types, Locking, FUSE_READ_BEGIN, GoTo
  <1>3. Left'
    BY OperationsAssumption DEF Left, FUSE_READ_BEGIN
  <1> QED
    BY <1>1, <1>2, <1>3 DEF IInv

LEMMA WriteBeginStep ==
  ASSUME IInv, NEW t \in Threads, FUSE_WRITE_BEGIN(t)
  PROVE  IInv'
  <1>1. Types'
    BY DEF IInv, Types, FUSE_WRITE_BEGIN, GoTo, Places
  <1>2. Locking'
    BY OperationsAssumption DEF IInv, Types, Locking, FUSE_WRITE_BEGIN, GoTo
  <1>3. Untouched(t)'
    BY OperationsAssumption
       DEF IInv, Types, Locking, FUSE_WRITE_BEGIN, GoTo, Untouched
  <1>4. Left'
    BY <1>3 DEF Left, FUSE_WRITE_BEGIN
  <1> QED
    BY <1>1, <1>2, <1>4 DEF IInv

LEMMA RefuseStep ==
  ASSUME IInv, NEW t \in Threads, Refuse(t)
  PROVE  IInv'
  <1>1. Types'
    BY DEF IInv, Types, Refuse, GoTo, Places
  <1>2. Locking'
    BY DEF IInv, Types, Locking, Refuse, GoTo
  <1>3. Left'
    <2> SUFFICES ASSUME NEW u \in Threads, u = writer
                 PROVE  (Untouched(u) \/ Removing(u) \/ Writing(u))'
      BY DEF Left, Refuse
    <2>1. CASE u = t
      <3>1. Untouched(t)
        BY <2>1 DEF IInv, Left, Refuse, Removing, Writing
      <3>2. Untouched(t)'
        BY <3>1 DEF IInv, Types, Refuse, GoTo, Untouched
      <3> QED
        BY <2>1, <3>2
    <2>2. CASE u # t
      <3>1. UNCHANGED <<file, before, failed, copy, step, job, stamp>>
        BY DEF Refuse
      <3>2. pc'[u] = pc[u]
        BY <2>2 DEF IInv, Types, Refuse, GoTo
      <3> QED
        BY <3>1, <3>2, LeftAlone DEF IInv, Left
    <2> QED
      BY <2>1, <2>2
  <1> QED
    BY <1>1, <1>2, <1>3 DEF IInv

LEMMA RemoveStep ==
  ASSUME IInv, NEW t \in Threads, Remove(t)
  PROVE  IInv'
  <1>1. t = writer /\ job[t] \in Jobs
    BY AJob DEF IInv, Types, Locking, Remove
  <1>2. Types'
    BY DEF IInv, Types, Remove, GoTo, Places
  <1>3. Locking'
    BY <1>1 DEF IInv, Types, Locking, Remove, GoTo
  <1>4. Untouched(t)
    BY <1>1 DEF IInv, Left, Remove, Removing, Writing
  <1>5. Removing(t)'
    <2>1. file' = removed(job[t])'
      BY <1>4 DEF Remove, removed, Untouched
    <2> QED
      BY <1>4, <2>1 DEF IInv, Types, Remove, GoTo, Removing, Untouched
  <1>6. Left'
    BY <1>1, <1>5 DEF Left, Remove
  <1> QED
    BY <1>2, <1>3, <1>6 DEF IInv

LEMMA ParseStep ==
  ASSUME IInv, NEW t \in Threads, Parse(t)
  PROVE  IInv'
  <1>1. job[t] \in Jobs /\ (t \in readers \/ t = writer)
    BY DEF IInv, Locking, Parse
  <1>2. file[job[t].file] \in Component \cup {Absent, Damaged}
    BY <1>1, AJob DEF IInv, Types
  <1>3. Types'
    BY <1>2 DEF IInv, Types, Parse, GoTo, Places
  <1>4. Locking'
    BY <1>1 DEF IInv, Types, Locking, Parse, GoTo
  <1>5. Left'
    <2> SUFFICES ASSUME t = writer
                 PROVE  (Untouched(t) \/ Removing(t) \/ Writing(t))'
      BY <1>1, OperationsAssumption DEF IInv, Locking, Left, Parse
    <2>1. /\ job[t].access = "write"
          /\ Untouched(t) \/ Removing(t)
          /\ pc[t] \in {"locked", "found"}
      BY DEF IInv, Locking, Left, Parse, Writing
    <2>2. /\ pc'[t] = "parsed" /\ copy'[t] = file[job[t].file]
          /\ file[job[t].file] # Damaged
          /\ UNCHANGED <<file, before, failed, job, stamp, step>>
      BY <2>1 DEF IInv, Types, Parse, GoTo
    <2>3. CASE job[t].fields = <<>>
      <3>1. Untouched(t)
        BY <2>1, <2>3 DEF Untouched, Removing, Parse
      <3> QED
        BY <2>2, <2>3, <3>1 DEF Untouched
    <2>4. CASE job[t].fields # <<>>
      <3>1. /\ job[t].file \notin job[t].removes /\ job[t].file \in Files
            /\ 0 < Len(job[t].fields)
        BY <1>1, <2>4, AJob
      <3>2. file = removed(job[t])
        <4>1. CASE Untouched(t)
          <5>1. job[t].removes = {}
            BY <2>4, <4>1 DEF Untouched, Parse
          <5> QED
            BY <4>1, <5>1 DEF Untouched, removed, IInv, Types
        <4> QED
          BY <2>1, <4>1 DEF Removing
      <3>3. ~failed /\ step[t] = 0 /\ file[job[t].file] = before[job[t].file]
        BY <2>1, <3>1, <3>2 DEF Untouched, Removing, removed
      <3>4. Written(t, file[job[t].file])'
        BY <2>2, <3>3 DEF Written, progress
      <3>5. Writing(t)'
        BY <2>2, <2>4, <3>1, <3>2, <3>3, <3>4 DEF Writing, progress, removed
      <3> QED
        BY <3>5
    <2> QED
      BY <2>3, <2>4
  <1> QED
    BY <1>3, <1>4, <1>5 DEF IInv

\* What is known where one more part is changed.
LEMMA AboutToWrite ==
  ASSUME IInv, NEW t \in Threads, Truncate(t)
  PROVE  /\ t = writer /\ job[t] \in Jobs /\ job[t].fields # <<>>
         /\ Writing(t) /\ step[t] < Len(job[t].fields) /\ step[t] \in Nat
         /\ Len(job[t].fields) \in 0 .. 3
         /\ copy'[t] = progress(before[job[t].file], job[t], step[t] + 1, stamp[t])
         /\ copy'[t] \in Component
         /\ step' = [step EXCEPT ![t] = step[t] + 1]
  <1>1. t = writer /\ job[t] \in Jobs /\ job[t].fields # <<>>
    BY DEF IInv, Locking, Truncate
  <1>2. Writing(t)
    BY <1>1 DEF IInv, Left, Untouched, Removing, Truncate
  <1>3. step[t] < Len(job[t].fields) /\ pc[t] = "parsed"
    BY <1>2 DEF Writing, Truncate
  <1>4. step[t] \in Nat
    BY DEF IInv, Types
  <1>5. before[job[t].file] \in Component \cup {Absent}
    BY <1>1, <1>2, AJob DEF IInv, Types, Writing
  <1>6. stamp[t] \in 1 .. MaxRequests
    <2>1. stamp[t] \in 0 .. MaxRequests /\ stamp[t] # 0
      BY <1>1, <1>3 DEF IInv, Types, Locking
    <2> QED
      BY <2>1, OperationsAssumption
  <1>7. copy'[t] = edited(copy[t], job[t].fields[step[t] + 1], stamp[t])
    BY DEF IInv, Types, Truncate
  <1>8. copy[t] = progress(before[job[t].file], job[t], step[t], stamp[t])
    BY <1>2 DEF Writing
  <1>9. /\ edited(progress(before[job[t].file], job[t], step[t], stamp[t]),
                  job[t].fields[step[t] + 1], stamp[t])
             = progress(before[job[t].file], job[t], step[t] + 1, stamp[t])
        /\ progress(before[job[t].file], job[t], step[t] + 1, stamp[t])
             \in Component
    BY <1>1, <1>3, <1>4, <1>5, <1>6, NextWrite
  <1>10. step' = [step EXCEPT ![t] = step[t] + 1]
    BY DEF Truncate
  <1> QED
    BY <1>1, <1>2, <1>3, <1>4, <1>7, <1>8, <1>9, <1>10, AJob

LEMMA TruncateStep ==
  ASSUME IInv, NEW t \in Threads, Truncate(t)
  PROVE  IInv'
  <1>1. /\ t = writer /\ job[t] \in Jobs /\ job[t].fields # <<>>
        /\ Writing(t) /\ step[t] < Len(job[t].fields) /\ step[t] \in Nat
        /\ Len(job[t].fields) \in 0 .. 3
        /\ copy'[t] = progress(before[job[t].file], job[t], step[t] + 1, stamp[t])
        /\ copy'[t] \in Component
        /\ step' = [step EXCEPT ![t] = step[t] + 1]
    BY AboutToWrite
  <1> DEFINE k == step[t] + 1
  <1>2. k \in 1 .. Len(job[t].fields) /\ k \in 0 .. 3 /\ step'[t] = k
    <2>1. \A m \in Nat, l \in 0 .. 3 : m < l => m + 1 \in 1 .. l /\ m + 1 \in 0 .. 3
      OBVIOUS
    <2>2. step'[t] = k
      BY <1>1 DEF IInv, Types
    <2> QED
      BY <1>1, <2>1, <2>2
  <1>3. Types'
    <2>1. copy' \in [Threads -> Component \cup {Absent, Damaged}]
      <3>1. copy' = [copy EXCEPT ![t] = copy'[t]]
        BY DEF IInv, Types, Truncate
      <3> QED
        BY <1>1, <3>1 DEF IInv, Types
    <2>2. step' \in [Threads -> 0 .. 3]
      BY <1>1, <1>2 DEF IInv, Types
    <2>3. pc' \in [Threads -> Places]
      BY DEF IInv, Types, Truncate, GoTo, Places, after_write
    <2>4. file' \in [Files -> Component \cup {Absent, Damaged}]
      BY DEF IInv, Types, Truncate
    <2>5. failed' \in BOOLEAN
      BY DEF IInv, Types, Truncate
    <2>6. UNCHANGED <<before, readers, writer, job, stamp, running, requests>>
      BY DEF Truncate
    <2> QED
      BY <2>1, <2>2, <2>3, <2>4, <2>5, <2>6 DEF IInv, Types
  <1>4. UNCHANGED <<before, readers, writer, job, stamp, running>>
    BY DEF Truncate
  <1>5. pc' = [pc EXCEPT ![t] = pc'[t]] /\ pc'[t] \in {"open", "parsed", "returning"}
    BY DEF IInv, Types, Truncate, GoTo, after_write
  <1>6. Locking'
    BY <1>1, <1>4, <1>5, OperationsAssumption DEF IInv, Types, Locking, Truncate
  <1>7. Writing(t)'
    <2>1. CASE file' = [file EXCEPT ![job[t].file] = Damaged] /\ GoTo(t, "open")
      <3>1. /\ pc'[t] = "open" /\ file'[job[t].file] = Damaged
            /\ \A f \in Files \ {job[t].file} : file'[f] = file[f]
        BY <1>1, <2>1, AJob DEF IInv, Types, GoTo
      <3>2. Written(t, file[job[t].file])'
        BY <1>4, <3>1 DEF Written
      <3> QED
        BY <1>1, <1>2, <1>4, <3>1, <3>2
           DEF Writing, removed, progress, Store!changed
    <2>2. CASE failed' = TRUE /\ file' = file /\ GoTo(t, after_write(t, k))
      <3>1. \/ pc'[t] = "parsed" /\ k # Len(job[t].fields)
            \/ pc'[t] = "returning" /\ k = Len(job[t].fields)
        BY <2>2 DEF IInv, Types, GoTo, after_write
      <3>2. \/ file[job[t].file] = Damaged
            \/ \E i \in 0 .. step[t] :
                 file[job[t].file]
                   = progress(before[job[t].file], job[t], i, stamp[t])
        BY <1>1 DEF Writing, Written
      <3>3. \A i \in 0 .. step[t] : i \in 0 .. k
        BY <1>1
      <3>4. Written(t, file[job[t].file])'
        <4> DEFINE b == before[job[t].file]
                   c == file[job[t].file]
        <4>1. c = Damaged \/ \E i \in 0 .. k : c = progress(b, job[t], i, stamp[t])
          BY <3>2, <3>3
        <4>2. c' = c /\ b' = b /\ job'[t] = job[t] /\ stamp'[t] = stamp[t]
          BY <1>4, <2>2
        <4>3. \A i : progress(b, job[t], i, stamp[t])'
                       = progress(b, job[t], i, stamp[t])
          BY <4>2 DEF progress, Store!changed
        <4> QED
          BY <1>2, <2>2, <3>1, <4>1, <4>2, <4>3 DEF Written
      <3> QED
        BY <1>1, <1>2, <1>4, <2>2, <3>1, <3>4
           DEF Writing, removed, progress, Store!changed
    <2> QED
      BY <2>1, <2>2 DEF Truncate
  <1>8. Left'
    BY <1>1, <1>4, <1>7 DEF Left
  <1> QED
    BY <1>3, <1>6, <1>8 DEF IInv

LEMMA PutStep ==
  ASSUME IInv, NEW t \in Threads, Put(t)
  PROVE  IInv'
  <1>1. /\ t = writer /\ job[t] \in Jobs /\ pc[t] = "open"
        /\ Writing(t) /\ step[t] \in 1 .. Len(job[t].fields)
    <2>1. t = writer /\ job[t] \in Jobs /\ pc[t] = "open"
      BY DEF IInv, Locking, Put
    <2>2. Writing(t)
      BY <2>1 DEF IInv, Left, Untouched, Removing
    <2> QED
      BY <2>1, <2>2 DEF Writing
  <1>2. UNCHANGED <<before, readers, writer, job, stamp, copy, step, running,
                    requests>>
    BY DEF Put
  <1>3. Types'
    <2>1. file' \in [Files -> Component \cup {Absent, Damaged}]
      BY DEF IInv, Types, Put
    <2>2. pc' \in [Threads -> Places] /\ failed' \in BOOLEAN
      BY DEF IInv, Types, Put, GoTo, Places, after_write
    <2> QED
      BY <1>2, <2>1, <2>2 DEF IInv, Types
  <1>4. pc' = [pc EXCEPT ![t] = pc'[t]] /\ pc'[t] \in {"parsed", "returning"}
    BY DEF IInv, Types, Put, GoTo, after_write
  <1>5. Locking'
    BY <1>1, <1>2, <1>4, OperationsAssumption DEF IInv, Types, Locking, Put
  <1>6. Writing(t)'
    <2> DEFINE b == before[job[t].file]
               c == file[job[t].file]
    <2>1. \/ pc'[t] = "parsed" /\ step[t] # Len(job[t].fields)
          \/ pc'[t] = "returning" /\ step[t] = Len(job[t].fields)
      BY DEF IInv, Types, Put, GoTo, after_write
    <2>2. /\ \A f \in Files \ {job[t].file} : file'[f] = file[f]
          /\ \/ c' = copy[t]
             \/ c' = c /\ failed' = TRUE
      BY <1>1, <1>2, AJob DEF IInv, Types, Put
    <2>3. c = Damaged
      BY <1>1 DEF Writing, Written
    <2>4. copy[t] = progress(b, job[t], step[t], stamp[t])
      BY <1>1 DEF Writing
    <2>5. /\ b' = b /\ job'[t] = job[t] /\ stamp'[t] = stamp[t]
          /\ step'[t] = step[t] /\ copy'[t] = copy[t]
      BY <1>2
    <2>6. \A i : progress(b, job[t], i, stamp[t])'
                   = progress(b, job[t], i, stamp[t])
      BY <2>5 DEF progress, Store!changed
    <2>7. step[t] \in 0 .. step[t]
      BY DEF IInv, Types
    <2>8. progress(b, job[t], step[t], stamp[t])'
            = progress(b, job[t], step[t], stamp[t])
      BY <2>5 DEF progress, Store!changed
    <2>9. Written(t, c)'
      <3>1. CASE c' = copy[t]
        BY <2>1, <2>4, <2>5, <2>6, <2>7, <3>1 DEF Written
      <3>2. CASE c' = c /\ failed' = TRUE
        BY <2>1, <2>3, <3>2 DEF Written
      <3> QED
        BY <2>2, <3>1, <3>2
    <2> QED
      BY <1>1, <1>2, <2>1, <2>2, <2>4, <2>8, <2>9 DEF Writing, removed
  <1>7. Left'
    BY <1>1, <1>2, <1>6 DEF Left
  <1> QED
    BY <1>3, <1>5, <1>7 DEF IInv

LEMMA CleanupStep ==
  ASSUME IInv, NEW t \in Threads, FUSE_CLEANUP(t)
  PROVE  IInv'
  <1>1. Types'
    BY OperationsAssumption
       DEF IInv, Types, FUSE_CLEANUP, Return, GoTo, Places
  <1>2. Locking'
    BY OperationsAssumption
       DEF IInv, Types, Locking, FUSE_CLEANUP, Return, GoTo
  <1>3. Left'
    BY OperationsAssumption DEF IInv, Types, Locking, Left, FUSE_CLEANUP, Return
  <1> QED
    BY <1>1, <1>2, <1>3 DEF IInv

LEMMA EndStep ==
  ASSUME IInv, End, requests' \in 0 .. MaxRequests
  PROVE  IInv'
  <1>1. Types'
    <2>1. 0 \in 0 .. MaxRequests /\ 0 \in 0 .. 3
      BY OperationsAssumption
    <2> QED
      BY <2>1 DEF IInv, Types, End, Places
  <1>2. Locking'
    BY OperationsAssumption DEF Locking, End
  <1>3. Left'
    BY OperationsAssumption DEF Left, End
  <1> QED
    BY <1>1, <1>2, <1>3 DEF IInv

LEMMA RestartStep ==
  ASSUME IInv, Restart
  PROVE  IInv'
  <1>1. \A t \in Threads : t # writer
    BY DEF IInv, Locking, Restart
  <1>2. Types' /\ Locking'
    BY DEF IInv, Types, Locking, Restart
  <1>3. Left'
    BY <1>1 DEF Left, Restart
  <1> QED
    BY <1>2, <1>3 DEF IInv

LEMMA SyncStep ==
  ASSUME IInv, NEW g \in Files, Sync(g)
  PROVE  IInv'
  <1>1. requests' \in 0 .. MaxRequests
    BY OperationsAssumption DEF IInv, Types, Sync, Request
  <1>2. PICK c \in {Absent, [x \in Fields |-> requests']} :
          /\ file' = [file EXCEPT ![g] = c]
          /\ before' = [before EXCEPT ![g] = c]
    BY DEF Sync
  <1>3. c \in Component \cup {Absent}
    BY <1>1, <1>2 DEF Component
  <1>4. UNCHANGED <<readers, writer, pc, job, stamp, copy, step, failed, running>>
    BY DEF Sync
  <1>5. Types'
    BY <1>1, <1>2, <1>3, <1>4 DEF IInv, Types
  <1>6. Locking'
    BY <1>4 DEF IInv, Locking
  <1>7. Left'
    <2> SUFFICES ASSUME NEW t \in Threads, t = writer
                 PROVE  (Untouched(t) \/ Removing(t) \/ Writing(t))'
      BY <1>4 DEF Left
    <2>1. g # job[t].file /\ g \notin job[t].removes
      BY DEF Sync
    <2>2. job[t] \in Jobs
      BY DEF IInv, Locking
    <2>3. /\ file'[job[t].file] = file[job[t].file]
          /\ before'[job[t].file] = before[job[t].file]
      BY <1>2, <2>1, <2>2, AJob DEF IInv, Types
    <2>4. CASE Untouched(t)
      BY <1>2, <1>4, <2>4 DEF Untouched
    <2>5. CASE Removing(t)
      <3>1. file' = removed(job[t])'
        BY <1>2, <1>4, <2>1, <2>5 DEF IInv, Types, Removing, removed
      <3> QED
        BY <1>4, <2>5, <3>1 DEF Removing
    <2>6. CASE Writing(t)
      <3>1. \A f \in Files \ {job[t].file} : file'[f] = removed(job[t])'[f]
        BY <1>2, <1>4, <2>1, <2>6 DEF IInv, Types, Writing, removed
      <3>2. \A k : progress(before[job[t].file], job[t], k, stamp[t])'
                     = progress(before[job[t].file], job[t], k, stamp[t])
        BY <1>4, <2>3 DEF progress, Store!changed
      <3>3. progress(before[job[t].file], job[t], step[t], stamp[t])'
              = progress(before[job[t].file], job[t], step[t], stamp[t])
        BY <1>4, <2>3 DEF progress, Store!changed
      <3>4. Written(t, file[job[t].file])'
        BY <1>4, <2>3, <2>6, <3>2 DEF Writing, Written
      <3> QED
        BY <1>4, <2>3, <2>6, <3>1, <3>3, <3>4 DEF Writing
    <2> QED
      BY <2>4, <2>5, <2>6 DEF IInv, Left
  <1> QED
    BY <1>5, <1>6, <1>7 DEF IInv

LEMMA INext == IInv /\ [Next]_vars => IInv'
  <1> SUFFICES ASSUME IInv, [Next]_vars PROVE IInv'
    OBVIOUS
  <1>1. ASSUME NEW t \in Threads, Run(t)
        PROVE  IInv'
    <2>1. CASE FUSE_READ_BEGIN(t)
      BY <2>1, ReadBeginStep
    <2>2. CASE FUSE_WRITE_BEGIN(t)
      BY <2>2, WriteBeginStep
    <2>3. CASE Refuse(t)
      BY <2>3, RefuseStep
    <2>4. CASE Remove(t)
      BY <2>4, RemoveStep
    <2>5. CASE Parse(t)
      BY <2>5, ParseStep
    <2>6. CASE Truncate(t)
      BY <2>6, TruncateStep
    <2>7. CASE Put(t)
      BY <2>7, PutStep
    <2>8. CASE FUSE_CLEANUP(t)
      BY <2>8, CleanupStep
    <2>9. CASE Abort(t)
      <3>1. End /\ requests' \in 0 .. MaxRequests
        BY <2>9 DEF Abort, IInv, Types
      <3> QED
        BY <3>1, EndStep
    <2> QED
      BY <1>1, <2>1, <2>2, <2>3, <2>4, <2>5, <2>6, <2>7, <2>8, <2>9 DEF Run
  <1>2. ASSUME NEW t \in Threads, NEW j \in Jobs, Call(t, j)
        PROVE  IInv'
    BY <1>2, CallStep
  <1>3. CASE Crash
    <2>1. End /\ requests' \in 0 .. MaxRequests
      BY <1>3, OperationsAssumption DEF Crash, Request, IInv, Types
    <2> QED
      BY <2>1, EndStep
  <1>4. CASE Restart
    BY <1>4, RestartStep
  <1>5. ASSUME NEW f \in Files, Sync(f)
        PROVE  IInv'
    BY <1>5, SyncStep
  <1>6. CASE UNCHANGED vars
    <2>1. Types' /\ Locking'
      BY <1>6 DEF vars, IInv, Types, Locking
    <2>2. Left'
      BY <1>6, LeftAlone DEF vars, IInv, Left
    <2> QED
      BY <2>1, <2>2 DEF IInv
  <1> QED
    BY <1>1, <1>2, <1>3, <1>4, <1>5, <1>6 DEF Next

LEMMA Invariance == Spec => []IInv
  BY IInit, INext, PTL DEF Spec

LEMMA ITypeOK == IInv => TypeOK
  <1> SUFFICES ASSUME IInv PROVE TypeOK
    OBVIOUS
  <1>1. readers \cup ({writer} \ {NoThread})
          = {t \in Threads : pc[t] \notin {"idle", "waiting"}}
    BY OperationsAssumption DEF IInv, Types, Locking
  <1>2. writer # NoThread => readers = {}
    BY DEF IInv, Locking
  <1>3. \A t \in Threads : pc[t] = "open" => t = writer
    BY DEF IInv, Locking
  <1>4. ASSUME NEW t \in Threads, NEW f \in Files,
               t = writer, file[f] = Damaged
        PROVE  before[f] = Damaged \/ f = job[t].file
    <2>0. Absent # Damaged
      BY OperationsAssumption
    <2>1. CASE Untouched(t)
      BY <1>4, <2>1 DEF Untouched
    <2>2. CASE Removing(t)
      BY <1>4, <2>0, <2>2 DEF Removing, removed
    <2>3. CASE Writing(t)
      BY <1>4, <2>0, <2>3 DEF Writing, removed
    <2> QED
      BY <1>4, <2>1, <2>2, <2>3 DEF IInv, Left
  <1> QED
    BY <1>1, <1>2, <1>3, <1>4 DEF TypeOK, IInv, Types

\* Whatever the threads, files and operations, and wherever writes fail or the
\* daemon ends: a writer holds entries_lock alone, a thread is in a critical
\* section exactly when it holds the lock, only the writer has a file open for
\* writing, and of the files it finds whole it leaves none cut to nothing but the
\* one its operation is about (FUSE_READ_BEGIN, FUSE_WRITE_BEGIN, FUSE_CLEANUP,
\* write_to_file).
THEOREM LockingIsExclusive == Spec => []TypeOK
  BY Invariance, ITypeOK, PTL

-----------------------------------------------------------------------------
(* The refinement *)

\* Whatever a writer has left so far is what a broken operation may leave.
LEMMA LeftIsTorn ==
  ASSUME IInv, NEW t \in Threads, t = writer,
         stored' = file
  PROVE  Store!Torn(job[t], stamp[t])
  <1>1. job[t] \in Jobs /\ stored = before
    BY OperationsAssumption DEF IInv, Locking, stored
  <1> SUFFICES ASSUME NEW f \in Files
               PROVE  \/ file[f] = before[f]
                      \/ f \in job[t].removes /\ file[f] = Absent
                      \/ /\ f = job[t].file /\ job[t].fields # <<>>
                         /\ before[f] # Damaged
                         /\ \/ file[f] = Damaged
                            \/ \E k \in 1 .. Len(job[t].fields) :
                                 file[f] = Store!changed(before[f], job[t], k,
                                                         stamp[t])
    BY <1>1 DEF Store!Torn
  <1>1a. Len(job[t].fields) \in Nat
    BY <1>1, AJob
  <1>2. CASE Untouched(t)
    BY <1>2 DEF Untouched
  <1>3. CASE Removing(t)
    BY <1>3 DEF Removing, removed
  <1>4. CASE Writing(t)
    <2>1. CASE f # job[t].file
      BY <1>4, <2>1 DEF Writing, removed
    <2>2. CASE f = job[t].file
      <3>1. \/ file[f] = Damaged
            \/ \E k \in 0 .. step[t] :
                 file[f] = progress(before[f], job[t], k, stamp[t])
        BY <1>4, <2>2 DEF Writing, Written
      <3>2. step[t] \in Nat /\ step[t] <= Len(job[t].fields)
        BY <1>1a, <1>4 DEF Writing, IInv, Types
      <3>3. ASSUME NEW k \in 0 .. step[t],
                   file[f] = progress(before[f], job[t], k, stamp[t])
            PROVE  \/ file[f] = before[f]
                   \/ /\ k \in 1 .. Len(job[t].fields)
                      /\ file[f] = Store!changed(before[f], job[t], k, stamp[t])
        BY <1>1a, <3>2, <3>3 DEF progress
      <3> QED
        BY <1>4, <2>2, <3>1, <3>3 DEF Writing
    <2> QED
      BY <2>1, <2>2
  <1> QED
    BY <1>2, <1>3, <1>4 DEF IInv, Left

LEMMA StoreInit == Init => Store!Init
  <1> SUFFICES ASSUME Init PROVE Store!Init
    OBVIOUS
  <1>1. stored = file /\ file \in [Files -> Component \cup {Absent, Damaged}]
    BY IInit DEF Init, stored, IInv, Types
  <1>2. Store!Component = Component
    BY DEF Store!Component, Component
  <1> QED
    BY <1>1, <1>2 DEF Init, Store!Init

\* The end of a writer is the whole operation, what is left of a broken one,
\* or nothing at all.
LEMMA CleanupRefines ==
  ASSUME IInv, NEW t \in Threads, FUSE_CLEANUP(t)
  PROVE  [Store!Next]_(<<stored, failed, running>>)
  <1>1. running' = running /\ running /\ file' = file
    BY DEF IInv, Locking, FUSE_CLEANUP, Return
  <1>2. CASE t # writer
    <2>1. t \in readers /\ writer = NoThread /\ failed = FALSE
      BY <1>2 DEF IInv, Types, Locking, FUSE_CLEANUP, Return
    <2>2. writer' = NoThread /\ failed' = FALSE
      BY <1>2, <2>1 DEF FUSE_CLEANUP, Return
    <2> QED
      BY <1>1, <2>1, <2>2 DEF stored
  <1>3. CASE t = writer
    <2>1. /\ stored = before /\ stored' = file /\ failed' = FALSE
          /\ pc[t] = "returning" /\ job[t] \in Jobs
      BY <1>1, <1>3, OperationsAssumption
         DEF IInv, Locking, FUSE_CLEANUP, Return, stored
    <2>2. stamp[t] \in 1 .. MaxRequests
      <3>1. stamp[t] \in 0 .. MaxRequests /\ stamp[t] # 0
        BY <1>3, <2>1 DEF IInv, Types, Locking
      <3> QED
        BY <3>1, OperationsAssumption
    <2>2a. ~failed => failed = FALSE
      BY DEF IInv, Types
    <2>3. CASE Untouched(t)
      <3>1. failed = FALSE
        BY <2>2a, <2>3 DEF Untouched
      <3>2. file = before
        BY <2>3 DEF Untouched
      <3> QED
        BY <1>1, <2>1, <3>1, <3>2
    <2>4. CASE Removing(t)
      <3>0. failed = FALSE
        BY <2>2a, <2>4 DEF Removing
      <3>1. Store!Done(job[t], stamp[t])
        BY <1>1, <2>1, <2>4, <3>0 DEF Removing, removed, Store!Done
      <3> QED
        BY <2>1, <2>2, <3>1 DEF Store!Next
    <2>5. CASE Writing(t) /\ failed
      <3>1. Store!Torn(job[t], stamp[t])
        BY <1>3, <2>1, LeftIsTorn
      <3>2. Store!EndFailed(job[t], stamp[t])
        BY <1>1, <2>1, <2>5, <3>1 DEF Store!EndFailed
      <3> QED
        BY <2>1, <2>2, <3>2 DEF Store!Next
    <2>6. CASE Writing(t) /\ ~failed
      <3>1. /\ job[t].fields # <<>> /\ job[t].file \notin job[t].removes
            /\ Len(job[t].fields) # 0
        BY <2>1, <2>6, AJob DEF Writing
      <3>2. file[job[t].file] = Store!changed(before[job[t].file], job[t],
                                              Len(job[t].fields), stamp[t])
        BY <2>1, <2>6, <3>1 DEF Writing, Written, progress
      <3>3. file = [f \in Files |->
                      IF f \in job[t].removes THEN Absent
                      ELSE IF f = job[t].file /\ job[t].fields # <<>>
                        THEN Store!changed(before[f], job[t],
                                           Len(job[t].fields), stamp[t])
                      ELSE before[f]]
        <4>1. file = [f \in Files |-> file[f]]
          BY DEF IInv, Types
        <4>2. \A f \in Files \ {job[t].file} :
                file[f] = IF f \in job[t].removes THEN Absent ELSE before[f]
          BY <2>6 DEF Writing, removed
        <4> QED
          BY <3>1, <3>2, <4>1, <4>2
      <3>4. failed = FALSE /\ before[job[t].file] # Damaged
        BY <2>2a, <2>6 DEF Writing
      <3>5. Store!Done(job[t], stamp[t])
        BY <1>1, <2>1, <3>3, <3>4 DEF Store!Done
      <3> QED
        BY <2>1, <2>2, <3>5 DEF Store!Next
    <2> QED
      BY <1>3, <2>3, <2>4, <2>5, <2>6 DEF IInv, Left
  <1> QED
    BY <1>2, <1>3

\* The daemon ends, within an operation or not.
LEMMA EndRefines ==
  ASSUME IInv, End
  PROVE  [Store!Next]_(<<stored, failed, running>>)
  <1>1. stored' = file /\ running /\ running' = FALSE /\ failed' = FALSE
    BY DEF End, stored
  <1>2. CASE writer = NoThread
    <2>1. stored = file /\ 1 \in 1 .. MaxRequests
      BY <1>2, OperationsAssumption DEF stored
    <2>2. PICK j \in Jobs : TRUE
      BY JobsAssumption
    <2>3. Store!Crash(j, 1)
      BY <1>1, <2>1 DEF Store!Crash, Store!Torn
    <2> QED
      BY <2>1, <2>2, <2>3 DEF Store!Next
  <1>3. CASE writer # NoThread
    <2> DEFINE t == writer
    <2>1. t \in Threads /\ job[t] \in Jobs
      BY <1>3 DEF IInv, Types, Locking
    <2>2. stamp[t] \in 1 .. MaxRequests
      <3>1. stamp[t] \in 0 .. MaxRequests /\ stamp[t] # 0
        BY <2>1 DEF IInv, Types, Locking
      <3> QED
        BY <3>1, OperationsAssumption
    <2>3. Store!Torn(job[t], stamp[t])
      BY <1>1, <2>1, LeftIsTorn
    <2>4. Store!Crash(job[t], stamp[t])
      BY <1>1, <2>3 DEF Store!Crash
    <2> QED
      BY <2>1, <2>2, <2>4 DEF Store!Next
  <1> QED
    BY <1>2, <1>3

\* Another program changes a file of the store, too.
LEMMA SyncRefines ==
  ASSUME IInv, NEW g \in Files, Sync(g)
  PROVE  Store!Sync(g)
  <1>1. PICK c \in {Absent, [x \in Fields |-> requests']} :
          /\ file' = [file EXCEPT ![g] = c]
          /\ before' = [before EXCEPT ![g] = c]
    BY DEF Sync
  <1>2. c # Damaged
    <2>1. requests' \in 0 .. MaxRequests
      BY OperationsAssumption DEF IInv, Types, Sync, Request
    <2>2. c = Absent \/ c \in Component
      BY <1>1, <2>1 DEF Component
    <2> QED
      BY <2>2, OperationsAssumption
  <1>3. stored' = [stored EXCEPT ![g] = c] /\ stored \in [Files -> Component \cup {Absent, Damaged}]
    BY <1>1 DEF IInv, Types, Sync, stored
  <1>4. UNCHANGED <<failed, running>>
    BY DEF Sync
  <1> QED
    BY <1>2, <1>3, <1>4 DEF Store!Sync

\* A step that leaves the files seen through the lock.
LEMMA Stutters ==
  ASSUME UNCHANGED <<before, writer, failed, running>>,
         writer # NoThread \/ file' = file
  PROVE  UNCHANGED <<stored, failed, running>>
  BY DEF stored

LEMMA StoreNext ==
  ASSUME IInv, [Next]_vars
  PROVE  [Store!Next]_(<<stored, failed, running>>)
  <1>1. ASSUME NEW t \in Threads, Run(t)
        PROVE  [Store!Next]_(<<stored, failed, running>>)
    <2>1. CASE FUSE_READ_BEGIN(t)
      BY <2>1, Stutters DEF FUSE_READ_BEGIN
    <2>2. CASE FUSE_WRITE_BEGIN(t)
      BY <2>2, OperationsAssumption DEF FUSE_WRITE_BEGIN, stored
    <2>3. CASE Refuse(t)
      BY <2>3, Stutters DEF Refuse
    <2>4. CASE Remove(t)
      <3>1. t = writer
        BY <2>4, AJob DEF IInv, Locking, Remove
      <3> QED
        BY <2>4, <3>1, Stutters, OperationsAssumption DEF Remove
    <2>5. CASE Parse(t)
      BY <2>5, Stutters DEF Parse
    <2>6. CASE Truncate(t)
      <3>1. writer = t /\ running /\ writer # NoThread
        BY <2>6, OperationsAssumption DEF IInv, Locking, Truncate
      <3>2. UNCHANGED <<before, writer, running>>
        BY <2>6 DEF Truncate
      <3>3. stored' = stored
        BY <3>1, <3>2 DEF stored
      <3>4. failed' = failed \/ failed' = TRUE
        BY <2>6 DEF Truncate
      <3> QED
        BY <3>1, <3>2, <3>3, <3>4 DEF Store!Next, Store!WriteFails
    <2>7. CASE Put(t)
      <3>1. writer = t /\ running /\ writer # NoThread
        BY <2>7, OperationsAssumption DEF IInv, Locking, Put
      <3>2. UNCHANGED <<before, writer, running>>
        BY <2>7 DEF Put
      <3>3. stored' = stored
        BY <3>1, <3>2 DEF stored
      <3>4. failed' = failed \/ failed' = TRUE
        BY <2>7 DEF Put
      <3> QED
        BY <3>1, <3>2, <3>3, <3>4 DEF Store!Next, Store!WriteFails
    <2>8. CASE FUSE_CLEANUP(t)
      BY <2>8, CleanupRefines
    <2>9. CASE Abort(t)
      BY <2>9, EndRefines DEF Abort
    <2> QED
      BY <1>1, <2>1, <2>2, <2>3, <2>4, <2>5, <2>6, <2>7, <2>8, <2>9 DEF Run
  <1>2. ASSUME NEW t \in Threads, NEW j \in Jobs, Call(t, j)
        PROVE  [Store!Next]_(<<stored, failed, running>>)
    BY <1>2, Stutters DEF Call
  <1>3. CASE Crash
    BY <1>3, EndRefines DEF Crash
  <1>4. CASE Restart
    BY <1>4 DEF Restart, Store!Restart, Store!Next, stored
  <1>5. ASSUME NEW f \in Files, Sync(f)
        PROVE  [Store!Next]_(<<stored, failed, running>>)
    BY <1>5, SyncRefines DEF Store!Next
  <1>6. CASE UNCHANGED vars
    BY <1>6, Stutters DEF vars
  <1> QED
    BY <1>1, <1>2, <1>3, <1>4, <1>5, <1>6 DEF Next

\* Seen through entries_lock every operation happens as a whole or not at all,
\* and a failed write or the end of the daemon leaves the files of one
\* operation only as they were, torn, or empty: with any threads, files and
\* jobs (write_to_file, do_agenda_rename, fuse_rename).
THEOREM OperationsAreAtomic == Spec => AtomicOperations
  <1>1. IInv /\ [Next]_vars => [Store!Next]_(<<stored, failed, running>>)
    BY StoreNext
  <1> QED
    BY <1>1, StoreInit, Invariance, PTL DEF Spec, AtomicOperations, Store!Spec

\* Only Parse gives a handler a component, and a reader that parses excludes
\* every writer.
LEMMA WholeNotes ==
  ASSUME IInv, [Next]_vars, NEW t \in Threads,
         job[t] # NoJob, copy'[t] \notin {copy[t], Absent}
  PROVE  job[t].access = "write" \/ copy'[t] = stored[job[t].file]
  <1>1. ASSUME NEW u \in Threads, Run(u)
        PROVE  job[t].access = "write" \/ copy'[t] = stored[job[t].file]
    <2>1. CASE Parse(u)
      <3>1. u = t /\ copy'[t] = file[job[t].file]
        BY <2>1 DEF IInv, Types, Parse
      <3>2. job[t] \in Jobs /\ (t \in readers \/ t = writer)
        BY <2>1, <3>1 DEF IInv, Locking, Parse
      <3>3. t \in readers => stored = file
        BY DEF IInv, Locking, stored
      <3>4. t = writer => job[t].access = "write"
        BY DEF IInv, Locking
      <3> QED
        BY <3>1, <3>2, <3>3, <3>4
    <2>2. CASE Truncate(u)
      <3>1. u = t
        BY <2>2 DEF IInv, Types, Truncate
      <3>2. t = writer
        BY <2>2, <3>1 DEF IInv, Locking, Truncate
      <3> QED
        BY <3>2 DEF IInv, Locking
    <2>3. CASE FUSE_CLEANUP(u)
      BY <2>3 DEF IInv, Types, FUSE_CLEANUP, Return
    <2>4. CASE Abort(u)
      BY <2>4 DEF Abort, End
    <2> QED
      BY <1>1, <2>1, <2>2, <2>3, <2>4
         DEF Run, FUSE_READ_BEGIN, FUSE_WRITE_BEGIN, Refuse, Remove, Put
  <1>2. CASE Crash
    BY <1>2 DEF Crash, End
  <1>3. CASE ~Crash /\ ~\E u \in Threads : Run(u)
    BY <1>3 DEF Next, Call, Restart, Sync, vars
  <1> QED
    BY <1>1, <1>2, <1>3

\* A handler that only reads never gets a component that an operation is
\* writing, with any threads, files and jobs (fuse_read, fuse_getattr, ..).
THEOREM ReadersSeeWholeNotes == Spec => ParsesWholeNotes
  <1>1. IInv /\ [Next]_vars =>
          [\A t \in Threads :
             job[t] # NoJob /\ copy'[t] \notin {copy[t], Absent} =>
               job[t].access = "write" \/ copy'[t] = stored[job[t].file]]_vars
    BY WholeNotes
  <1> QED
    BY <1>1, Invariance, PTL DEF Spec, ParsesWholeNotes

=============================================================================
