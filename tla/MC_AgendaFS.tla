---------------------------- MODULE MC_AgendaFS ----------------------------
(* Small instances of AgendaFS for TLC. *)
EXTENDS AgendaFSProperties, TLC

CONSTANTS a, b, txt, u1, u2, u3

note(summary, isdir, ext, parents) ==
  [summary |-> summary, isdir |-> isdir, ext |-> ext, parents |-> parents]

Labels_ab == {a, b, txt, Blank}

\* Names users give.
OneName == {<<a, txt>>}
FileNames == {<<a, txt>>, <<b, txt>>}

EmptyVdir == {[u \in Uids |-> NoFile]}

Three == {u1, u2, u3}
SymmetricUids == Permutations(Uids)

\* Any note, with any one parent or none, always with the same summary.
AnyNote ==
  [u \in Uids |->
     {note(<<a>>, FALSE, txt, ps) : ps \in {<<>>} \cup {<<v>> : v \in Uids}}]

NoSync == [u \in Uids |-> {}]
=============================================================================
