----------------------------- MODULE NotesTree -----------------------------
(***************************************************************************)
(* Directories and files as users know them: every entry has a directory   *)
(* and a name in it, and stays as it was left until somebody changes it.   *)
(* There are no restarts here, no events and no files behind the entries.  *)
(* A step leads from the entries e to the entries f.                       *)
(***************************************************************************)
CONSTANTS
  Ids,      \* the entries there can be
  Top,      \* the mount point
  NoEntry,  \* an entry that is not there
  EntryNames

VARIABLE
  entry     \* where each entry is, what it is called, whether it is a directory

Entries(e) == {u \in Ids : e[u] # NoEntry}

Below(e, dir) == {u \in Entries(e) : e[u].dir = dir}

At(e, dir, name) == {u \in Below(e, dir) : e[u].name = name}

IsDirectory(e, dir) == dir = Top \/ (dir \in Entries(e) /\ e[dir].isdir)

\* The entries that u is in, directly or not, and u.
Above(e, u) ==
  LET closed == {S \in SUBSET Entries(e) :
                   u \in S /\ \A v \in S : e[v].dir \in S \cup {Top}}
  IN  {v \in Entries(e) : \A S \in closed : v \in S}

Make(e, f, u, dir, name, isdir) ==
  /\ u \notin Entries(e) /\ IsDirectory(e, dir) /\ At(e, dir, name) = {}
  /\ f = [e EXCEPT ![u] = [dir |-> dir, name |-> name, isdir |-> isdir]]

Delete(e, f, u) ==
  /\ u \in Entries(e) /\ Below(e, u) = {}
  /\ f = [e EXCEPT ![u] = NoEntry]

\* An entry that is there already is replaced, if it is of the same kind and
\* has nothing below it.
Move(e, f, u, dir, name) ==
  /\ u \in Entries(e) /\ IsDirectory(e, dir)
  /\ dir # Top => u \notin Above(e, dir)
  /\ \A v \in At(e, dir, name) :
       v # u /\ Below(e, v) = {} /\ e[v].isdir = e[u].isdir
  /\ f = [v \in Ids |->
            IF v \in At(e, dir, name) THEN NoEntry
            ELSE IF v = u THEN [e[u] EXCEPT !.dir = dir, !.name = name]
            ELSE e[v]]

Step(e, f) ==
  \E u \in Ids :
    \/ Delete(e, f, u)
    \/ \E dir \in Ids \cup {Top}, name \in EntryNames :
         \/ \E isdir \in BOOLEAN : Make(e, f, u, dir, name, isdir)
         \/ Move(e, f, u, dir, name)

\* Every entry is in a directory, under a name of its own there, and can be
\* reached from the top.
IsTree(e) ==
  /\ \A u \in Entries(e) :
       IsDirectory(e, e[u].dir) /\ At(e, e[u].dir, e[u].name) = {u}
  /\ \A S \in SUBSET (Ids \cup {Top}) :
       /\ Top \in S
       /\ \A u \in Entries(e) : e[u].dir \in S => u \in S
       => Entries(e) \subseteq S

Init == IsTree(entry)

Next == \E e \in {entry}, f \in {entry'} : e # f /\ Step(e, f)

Spec == Init /\ [][Next]_entry

=============================================================================
