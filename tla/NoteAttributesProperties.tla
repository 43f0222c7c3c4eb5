---------------------- MODULE NoteAttributesProperties ----------------------
(***************************************************************************)
(* What the extended attributes of a note are to guarantee.                *)
(***************************************************************************)
EXTENDS NoteAttributes

\* Every variable has its type; a class in a file is one that users can give.
TypeOK ==
  /\ note \in Note \cup {RootNote}
  /\ alive \in BOOLEAN
  /\ reply.op \in {"none", "set", "remove", "get", "list"}
  /\ reply.op \in {"set", "remove"} =>
       /\ reply.attr \in Attributes /\ reply.value \in Values
       /\ reply.result \in {"OK", "EPERM", "EINVAL", "EMSGSIZE", "EIO"}
  /\ reply.op = "get" =>
       /\ reply.attr \in Attributes
       /\ reply.answer.content \in Values \cup {NoData, Cut}

Promised ==
  INSTANCE XattrStore WITH
    store <- [a \in Attributes |-> value_of(note, a)]

\* The requests, on a note, that agendafs answers in another way than the manual
\* pages have it: removing a start or a uid does nothing and succeeds; removing
\* a class leaves the second one of a new note; a class cannot be given to a note
\* without one; any status is one; 64 kilobytes are too many; a value read into
\* a buffer of just its length, or a smaller one, comes without its end; a list
\* that is longer than the buffer is written beyond it; and a list read into a
\* larger one may kill the daemon.
Deviates(r) ==
  \/ r.op = "remove" /\ r.attr \in {"dtstart", "class", "uid"}
  \/ /\ r.op = "set"
     /\ \/ r.attr = "dtstart" /\ r.value = Empty
        \/ r.attr = "class" /\ note.class = <<>>
        \/ r.attr = "status" /\ r.value \notin StatusNames
        \/ ValueLength[r.value] = 64 * 1024
  \/ /\ r.op = "get" /\ r.answer.result = "OK"
     /\ r.size # 0 /\ r.size <= r.answer.length
  \/ /\ r.op = "list" /\ r.size # 0
     /\ \/ r.size < r.answer.length
        \/ r.size > r.answer.length + 1 /\ r.answer.result = "none"

\* What getxattr and listxattr read of a note, over every sequence of requests,
\* is what was set and not removed since: each request but those above is a step
\* of the store in the manual pages, also after one of those.
KeepsAttributes ==
  [][note = RootNote \/ Deviates(reply') \/ Promised!Next]_vars

=============================================================================
