--------------------------- MODULE MC_Operations ---------------------------
(***************************************************************************)
(* Two threads of libfuse and the watcher, on the files of two notes.      *)
(***************************************************************************)
EXTENDS OperationsProperties

CONSTANTS a, b, summary, extension, parent

Reads(f) ==
  [access |-> "read", file |-> f, refused |-> FALSE, creates |-> FALSE,
   removes |-> {}, fields |-> <<>>]

Changes(f, parts) == [Reads(f) EXCEPT !.access = "write", !.fields = parts]

Refused(j) == [j EXCEPT !.refused = TRUE]

\* A handler that reads, one that changes one part (write, setxattr, ..), a
\* rename, one that replaces a note, an unlink, a create, and handlers that
\* are refused.
FuseJobs ==
  {Reads(a), Refused(Reads(a)), Refused(Changes(a, <<parent>>)),
   Changes(a, <<summary, extension, parent>>),
   [Changes(a, <<summary, extension, parent>>) EXCEPT !.removes = {b}],
   [Changes(b, <<>>) EXCEPT !.removes = {b}],
   [Changes(b, <<summary>>) EXCEPT !.creates = TRUE]}

\* A note appears whose parent is a: the parent becomes a directory.
Events == {Changes(a, <<extension>>)}

MCJobs == FuseJobs \cup Events

=============================================================================
