---------------------------- MODULE Vdir_proofs ----------------------------
(***************************************************************************)
(* What the mounted tree shows of the vdir, for any set of notes and names *)
(* and any number of requests and restarts.                                *)
(*                                                                         *)
(* Users who have the vdir for themselves see an ordinary tree of files.   *)
(* What the handlers do to the vdir is one of three steps on files, each   *)
(* of which leaves it orderly; and the tree shows at any moment what the   *)
(* files say.                                                              *)
(*                                                                         *)
(* With a sync tool beside them, the tree follows.  Every note is either   *)
(* settled, that is where its file says and under a name its file asks     *)
(* for, or an event for it is waiting.                                     *)
(***************************************************************************)
EXTENDS AgendaFS_proofs

-----------------------------------------------------------------------------
(* Components *)

\* An ordinary name has two parts or more.
LEMMA OrdinaryLength ==
  ASSUME NEW name, Ordinary(name)
  PROVE  name # <<Blank>> /\ name # <<>>
  <1>1. Len(<<Blank>>) = 1 /\ Len(<<>>) = 0
    OBVIOUS
  <1>2. name = <<Blank>> => Len(name) = 1
    BY <1>1
  <1>3. name = <<>> => Len(name) = 0
    BY <1>1
  <1>4. Len(name) > 1
    BY DEF Ordinary
  <1>5. Len(name) # 1 /\ Len(name) # 0
    BY <1>4
  <1> QED
    BY <1>2, <1>3, <1>5

\* The extension and the text before it make up the name again.
LEMMA NameParts ==
  ASSUME NEW name \in Names, Ordinary(name)
  PROVE  /\ without_file_extension(name) \in Names
         /\ without_file_extension(name) # <<>>
         /\ get_file_extension(name) \in Label
         /\ Append(without_file_extension(name), get_file_extension(name)) = name
  <1>1. name \in Seq(Label) /\ Len(name) \in Nat /\ Len(name) > 1
    BY DEF Names, Ordinary
  <1>2. /\ without_file_extension(name) = SubSeq(name, 1, Len(name) - 1)
        /\ get_file_extension(name) = name[Len(name)]
    BY <1>1 DEF without_file_extension, get_file_extension
  <1> DEFINE s == SubSeq(name, 1, Len(name) - 1)
  <1>3. /\ s \in Seq(Label) /\ Len(s) = Len(name) - 1
        /\ \A i \in 1 .. Len(name) - 1 : s[i] = name[i]
    BY <1>1
  <1>4. name[Len(name)] \in Label
    BY <1>1, ElementOfSeq
  <1> HIDE DEF s
  <1>5. Append(s, name[Len(name)]) = name
    <2> DEFINE t == Append(s, name[Len(name)])
    <2>1. /\ t \in Seq(Label) /\ Len(t) = Len(name)
          /\ \A i \in 1 .. Len(s) : t[i] = s[i]
          /\ t[Len(s) + 1] = name[Len(name)]
      BY <1>1, <1>3, <1>4, AppendProperties
    <2> HIDE DEF t
    <2>2. \A i \in 1 .. Len(name) : t[i] = name[i]
      BY <1>1, <1>3, <2>1
    <2>3. t = name
      BY <1>1, <2>1, <2>2, SeqEqual
    <2> QED
      BY <2>3 DEF t
  <1>6. s # <<>>
    BY <1>1, <1>3
  <1> QED
    BY <1>2, <1>3, <1>4, <1>5, <1>6 DEF s, Names

\* What a component needs to be shown as `name` in the directory dir.
Under(c, dir) == IF dir = Root THEN c.parents = <<>> ELSE c.parents = <<dir>>

Shows(c, name, isdir) ==
  /\ c \in Component
  /\ c.summary # <<>>
  /\ entry_filename(c) = name
  /\ c.isdir = isdir

\* A new note is shown under the name it was created with.
LEMMA NewShows ==
  ASSUME NEW name \in Names, Ordinary(name)
  PROVE  /\ Shows(create_vjournal_entry(name), name, FALSE)
         /\ create_vjournal_entry(name).parents = <<>>
         /\ Shows(create_vjournal_directory(name), name, TRUE)
         /\ create_vjournal_directory(name).parents = <<>>
  <1>1. /\ create_vjournal_entry(name) \in Component
        /\ create_vjournal_directory(name) \in Component
    BY NewComponent
  <1>2. Blank \in Label /\ NoExt \notin Label
    BY LabelsAssumption DEF Label
  <1>3. name # <<Blank>> /\ name # <<>>
    BY OrdinaryLength
  <1>4. Shows(create_vjournal_directory(name), name, TRUE)
    BY <1>1, <1>3 DEF Shows, create_vjournal_directory, stored_summary,
         entry_filename
  <1>5. Shows(create_vjournal_entry(name), name, FALSE)
    <2> DEFINE c == create_vjournal_entry(name)
    <2>1. /\ c.summary = without_file_extension(name) /\ c.isdir = FALSE
          /\ c.ext = get_file_extension(name)
      BY <1>2, NameParts DEF create_vjournal_entry, stored_summary, Ordinary
    <2> HIDE DEF c
    <2>2. entry_filename(c) = name
      BY <1>2, <2>1, NameParts DEF entry_filename, Ordinary
    <2>3. c \in Component
      BY <1>1 DEF c
    <2> QED
      BY <2>1, <2>2, <2>3, NameParts DEF Shows, c
  <1> QED
    BY <1>4, <1>5 DEF create_vjournal_entry, create_vjournal_directory

\* A renamed note is shown under its new name.
LEMMA RenamedShows ==
  ASSUME NEW name \in Names, Ordinary(name), NEW c \in Component,
         NEW r, r = update_node_file_extension(update_summary(c, name), name)
  PROVE  Shows(r, name, c.isdir) /\ r.parents = c.parents
  <1>1. r \in Component
    BY RenamedComponent
  <1>2. NoExt \notin Label /\ get_file_extension(name) # NoExt
    BY LabelsAssumption, NameParts DEF Label
  <1>3. name # <<Blank>> /\ name # <<>>
    BY OrdinaryLength
  <1> DEFINE s == update_summary(c, name)
  <1>4. s \in [summary : Names, isdir : BOOLEAN, ext : Label \cup {NoExt},
               parents : Seq(Uids)]
    <2>1. stored_summary(IF c.isdir THEN name ELSE without_file_extension(name))
            \in Names
      BY StoredNames
    <2> QED
      BY <2>1 DEF update_summary, Component
  <1>5. /\ c.isdir => s.summary = name
        /\ ~c.isdir => s.summary = without_file_extension(name)
        /\ s.isdir = c.isdir /\ s.parents = c.parents
    BY <1>3 DEF update_summary, stored_summary, Component, Ordinary
  <1> HIDE DEF s
  <1>6. r = [s EXCEPT !.ext = get_file_extension(name)]
    BY <1>2 DEF update_node_file_extension, s
  <1>7. /\ r.summary = s.summary /\ r.isdir = s.isdir /\ r.parents = s.parents
        /\ r.ext = get_file_extension(name)
    BY <1>4, <1>6
  <1>8. entry_filename(r) = name
    <2>1. CASE c.isdir
      BY <1>5, <1>7, <2>1 DEF entry_filename
    <2>2. CASE ~c.isdir
      BY <1>2, <1>5, <1>7, <2>2, NameParts DEF entry_filename, Ordinary
    <2> QED
      BY <2>1, <2>2
  <1>9. r.summary # <<>>
    BY <1>3, <1>5, <1>7, NameParts
  <1> QED
    BY <1>1, <1>5, <1>7, <1>8, <1>9 DEF Shows

\* Nothing is left when the only parent goes.
LEMMA WithoutOnlyParent ==
  ASSUME NEW p \in Uids
  PROVE  without_parent(p, <<p>>) = <<>>
  <1> DEFINE s == <<p>>
             Step(f) ==
               [i \in 0 .. Len(s) |->
                  IF i = 0 THEN <<>>
                  ELSE IF s[i] = p THEN f[i - 1]
                  ELSE Append(f[i - 1], s[i])]
             g == [i \in 0 .. 1 |-> <<>>]
             kept == CHOOSE f : f = Step(f)
  <1>1. Len(s) = 1 /\ s[1] = p
    OBVIOUS
  <1>2. g = Step(g)
    BY <1>1
  <1>3. kept = Step(kept)
    BY <1>2
  <1>4. without_parent(p, s) = kept[Len(s)]
    BY DEF without_parent
  <1> HIDE DEF kept, s
  <1>5. kept[0] = <<>> /\ kept[1] = kept[0]
    BY <1>1, <1>3
  <1> QED
    BY <1>1, <1>4, <1>5 DEF s

\* A component with other parents, and nothing else changed.
WithParents(c, ps) == [c EXCEPT !.parents = ps]

LEMMA OtherParents ==
  ASSUME NEW c \in Component, NEW ps \in Seq(Uids)
  PROVE  /\ WithParents(c, ps) \in Component
         /\ WithParents(c, ps).parents = ps
         /\ WithParents(c, ps).summary = c.summary
         /\ WithParents(c, ps).isdir = c.isdir
         /\ WithParents(c, ps).ext = c.ext
  BY DEF Component, WithParents

\* A note with one parent or none has the new directory for its only parent
\* after it was moved, unless it was moved to the top.
LEMMA MovedShows ==
  ASSUME NEW name, NEW isdir, NEW c, Shows(c, name, isdir), Len(c.parents) <= 1,
         NEW old, old = WantedParent(c), NEW dir \in Nodes,
         dir = Root => old = Root
  PROVE  /\ Shows(moved_component(c, old, dir), name, isdir)
         /\ Under(moved_component(c, old, dir), dir)
  <1>1. /\ c \in Component /\ c.parents \in Seq(Uids) /\ Len(c.parents) \in Nat
    BY DEF Shows, Component
  <1>2. CASE dir = Root
    <2>1. c.parents = <<>>
      <3>1. c.parents # <<>> => c.parents[1] \in Uids
        BY <1>1
      <3> QED
        BY <1>2, <3>1, NodeAssumption DEF WantedParent
    <2>2. moved_component(c, old, dir) = c
      BY <1>2 DEF moved_component
    <2> QED
      BY <1>2, <2>1, <2>2 DEF Under
  <1>3. CASE dir # Root
    <2> DEFINE f == IF old = Root THEN c
                    ELSE remove_parent_child_relationship(old, c)
    <2>1. /\ f \in Component /\ f.parents = <<>> /\ f.summary = c.summary
          /\ f.isdir = c.isdir /\ f.ext = c.ext
      <3>1. CASE c.parents = <<>>
        BY <1>1, <3>1 DEF WantedParent
      <3>2. CASE c.parents # <<>>
        <4>1. old \in Uids /\ c.parents = <<old>> /\ old # Root
          BY <1>1, <3>2, NodeAssumption DEF WantedParent
        <4>2. f = WithParents(c, <<>>)
          BY <4>1, WithoutOnlyParent DEF remove_parent_child_relationship,
               WithParents
        <4>3. <<>> \in Seq(Uids)
          OBVIOUS
        <4> HIDE DEF f
        <4> QED
          BY <1>1, <4>2, <4>3, OtherParents
      <3> QED
        BY <3>1, <3>2
    <2>2. moved_component(c, old, dir) = set_parent_child_relationship(dir, f)
      BY <1>3 DEF moved_component
    <2> HIDE DEF f
    <2> DEFINE m == set_parent_child_relationship(dir, f)
    <2>3. dir \in Uids
      BY <1>3 DEF Nodes
    <2>4. m = WithParents(f, <<dir>>) /\ <<dir>> \in Seq(Uids)
      BY <2>1, <2>3 DEF set_parent_child_relationship, WithParents
    <2> HIDE DEF m
    <2>5. /\ m \in Component /\ m.parents = <<dir>> /\ m.summary = c.summary
          /\ m.isdir = c.isdir /\ m.ext = c.ext
      BY <2>1, <2>4, OtherParents
    <2>6. Shows(m, name, isdir) /\ Under(m, dir)
      BY <1>3, <2>5 DEF Shows, Under, entry_filename
    <2> QED
      BY <2>2, <2>6 DEF m
  <1> QED
    BY <1>2, <1>3

-----------------------------------------------------------------------------
(* What users do to the files *)

Disks == [Uids -> Component \cup {NoFile}]

IsDir(D, dir) == dir = Root \/ (dir \in Files(D) /\ D[dir].isdir)

\* No note of dir but perhaps n is shown as `name`.
FreeIn(D, dir, name, n) ==
  \A v \in Files(D) \ {n} :
    WantedParent(D[v]) = dir => entry_filename(D[v]) # name

\* A note is written that was not there.
FileMade(D, E, u, dir, name, isdir, c) ==
  /\ u \in Uids \ Files(D)
  /\ Shows(c, name, isdir) /\ Under(c, dir)
  /\ IsDir(D, dir) /\ FreeIn(D, dir, name, u)
  /\ E = [D EXCEPT ![u] = c]

\* A note without notes below it goes.
FileDeleted(D, E, n) ==
  /\ n \in Files(D)
  /\ \A v \in Files(D) : WantedParent(D[v]) # n
  /\ E = [D EXCEPT ![n] = NoFile]

\* A note is given a name and a directory that is not below it.
FileMoved(D, E, n, dir, name, c) ==
  /\ n \in Files(D)
  /\ Shows(c, name, D[n].isdir) /\ Under(c, dir)
  /\ IsDir(D, dir) /\ FreeIn(D, dir, name, n)
  /\ \E B \in SUBSET Nodes : n \in B /\ dir \notin B /\ ClosedDownward(D, B)
  /\ E = [D EXCEPT ![n] = c]

\* A component below dir names dir as its parent, once.
LEMMA UnderParent ==
  ASSUME NEW c, NEW dir \in Nodes, Under(c, dir)
  PROVE  /\ WantedParent(c) = dir
         /\ Len(c.parents) <= 1
         /\ c.parents # <<>> => dir # Root
  <1>1. CASE dir = Root
    BY <1>1 DEF Under, WantedParent
  <1>2. CASE dir # Root
    <2>1. c.parents = <<dir>>
      BY <1>2 DEF Under
    <2>2. c.parents # <<>> /\ c.parents[1] = dir /\ Len(c.parents) = 1
      BY <2>1
    <2> QED
      BY <1>2, <2>2 DEF WantedParent
  <1> QED
    BY <1>1, <1>2

\* The parent of a note of an orderly vdir is a directory.
LEMMA OrderlyParent ==
  ASSUME NEW D \in Disks, Orderly(D), NEW u \in Files(D)
  PROVE  IsDir(D, WantedParent(D[u])) /\ WantedParent(D[u]) \in Nodes
  BY DEF Orderly, ProperFiles, IsDir, WantedParent, Files, Nodes

\* Creating a note leaves the vdir orderly.
LEMMA MadeOrderly ==
  ASSUME NEW D \in Disks, Orderly(D), NEW E, NEW u, NEW dir \in Nodes,
         NEW name, NEW isdir, NEW c, FileMade(D, E, u, dir, name, isdir, c)
  PROVE  E \in Disks /\ Orderly(E)
  <1>1. /\ u \in Uids /\ u \notin Files(D) /\ Shows(c, name, isdir)
        /\ Under(c, dir) /\ IsDir(D, dir) /\ FreeIn(D, dir, name, u)
        /\ E = [D EXCEPT ![u] = c]
    BY DEF FileMade
  <1>2. /\ c \in Component /\ c.summary # <<>> /\ entry_filename(c) = name
        /\ c # NoFile
    BY <1>1, NoFileAssumption DEF Shows
  <1>3. /\ E \in Disks /\ E[u] = c
        /\ \A v \in Files(D) : v # u /\ E[v] = D[v]
        /\ Files(E) = Files(D) \cup {u}
    BY <1>1, <1>2 DEF Disks, Files
  <1>4. /\ WantedParent(c) = dir /\ Len(c.parents) <= 1
        /\ c.parents # <<>> => dir # Root
    BY <1>1, UnderParent
  <1>5. \A p : IsDir(D, p) => IsDir(E, p)
    BY <1>3 DEF IsDir
  <1>6. ProperFiles(E)
    <2>1. ASSUME NEW v \in Files(D)
          PROVE  /\ E[v].summary # <<>> /\ Len(E[v].parents) <= 1
                 /\ E[v].parents # <<>> =>
                      /\ WantedParent(E[v]) \in Files(E)
                      /\ E[WantedParent(E[v])].isdir
      BY <1>3 DEF Orderly, ProperFiles
    <2>2. c.parents # <<>> => dir \in Files(E) /\ E[dir].isdir
      BY <1>1, <1>4, <1>5 DEF IsDir
    <2> QED
      BY <1>2, <1>3, <1>4, <2>1, <2>2 DEF ProperFiles
  <1>7. DistinctNames(E)
    <2>1. \A v, w \in Files(D) :
            v # w /\ WantedParent(E[v]) = WantedParent(E[w]) =>
              entry_filename(E[v]) # entry_filename(E[w])
      BY <1>3 DEF Orderly, DistinctNames
    <2>2. \A v \in Files(D) :
            WantedParent(E[v]) = dir => entry_filename(E[v]) # name
      BY <1>1, <1>3 DEF FreeIn
    <2> QED
      BY <1>2, <1>3, <1>4, <2>1, <2>2 DEF DistinctNames
  <1>8. Rooted(E)
    <2> SUFFICES ASSUME NEW S \in SUBSET Nodes, Root \in S, ClosedDownward(E, S)
                 PROVE  Files(E) \subseteq S
      BY DEF Rooted
    <2>1. ClosedDownward(D, S)
      BY <1>3 DEF ClosedDownward
    <2>2. Files(D) \subseteq S
      BY <2>1 DEF Orderly, Rooted
    <2>3. dir \in S
      BY <1>1, <2>2 DEF IsDir
    <2>4. u \in S
      BY <1>3, <1>4, <2>3 DEF ClosedDownward
    <2> QED
      BY <1>3, <2>2, <2>4
  <1> QED
    BY <1>3, <1>6, <1>7, <1>8 DEF Orderly

\* So does deleting one that has nothing below it.
LEMMA DeletedOrderly ==
  ASSUME NEW D \in Disks, Orderly(D), NEW E, NEW n, FileDeleted(D, E, n)
  PROVE  E \in Disks /\ Orderly(E)
  <1>1. /\ n \in Files(D) /\ n \in Uids
        /\ \A v \in Files(D) : WantedParent(D[v]) # n
        /\ E = [D EXCEPT ![n] = NoFile]
    BY DEF FileDeleted, Files
  <1>2. /\ E \in Disks
        /\ Files(E) = Files(D) \ {n}
        /\ \A v \in Files(E) : v # n /\ v \in Files(D) /\ E[v] = D[v]
    BY <1>1 DEF Disks, Files
  <1>3. ProperFiles(E)
    <2> SUFFICES ASSUME NEW v \in Files(E)
                 PROVE  /\ E[v].summary # <<>> /\ Len(E[v].parents) <= 1
                        /\ E[v].parents # <<>> =>
                             /\ WantedParent(E[v]) \in Files(E)
                             /\ E[WantedParent(E[v])].isdir
      BY DEF ProperFiles
    <2>1. v \in Files(D) /\ E[v] = D[v] /\ WantedParent(D[v]) # n
      BY <1>1, <1>2
    <2>2. /\ D[v].summary # <<>> /\ Len(D[v].parents) <= 1
          /\ D[v].parents # <<>> =>
               /\ WantedParent(D[v]) \in Files(D)
               /\ D[WantedParent(D[v])].isdir
      BY <2>1 DEF Orderly, ProperFiles
    <2> QED
      BY <1>2, <2>1, <2>2
  <1>4. DistinctNames(E)
    BY <1>2 DEF Orderly, DistinctNames
  <1>5. Rooted(E)
    <2> SUFFICES ASSUME NEW S \in SUBSET Nodes, Root \in S, ClosedDownward(E, S)
                 PROVE  Files(E) \subseteq S
      BY DEF Rooted
    <2>1. S \cup {n} \in SUBSET Nodes
      BY <1>1 DEF Nodes
    <2>2. ClosedDownward(D, S \cup {n})
      BY <1>1, <1>2 DEF ClosedDownward
    <2>3. Files(D) \subseteq S \cup {n}
      BY <2>1, <2>2 DEF Orderly, Rooted
    <2> QED
      BY <1>2, <2>3
  <1> QED
    BY <1>2, <1>3, <1>4, <1>5 DEF Orderly

\* And so does moving one, unless into what is below it.
LEMMA MovedOrderly ==
  ASSUME NEW D \in Disks, Orderly(D), NEW E, NEW n, NEW dir \in Nodes,
         NEW name, NEW c, FileMoved(D, E, n, dir, name, c)
  PROVE  E \in Disks /\ Orderly(E)
  <1>1. /\ n \in Files(D) /\ n \in Uids /\ Shows(c, name, D[n].isdir)
        /\ Under(c, dir) /\ IsDir(D, dir) /\ FreeIn(D, dir, name, n)
        /\ E = [D EXCEPT ![n] = c]
    BY DEF FileMoved, Files
  <1>2. /\ c \in Component /\ c.summary # <<>> /\ entry_filename(c) = name
        /\ c # NoFile /\ c.isdir = D[n].isdir
    BY <1>1, NoFileAssumption DEF Shows
  <1>3. /\ E \in Disks /\ E[n] = c
        /\ \A v \in Files(D) : v # n => E[v] = D[v]
        /\ Files(E) = Files(D)
    BY <1>1, <1>2 DEF Disks, Files
  <1>4. /\ WantedParent(c) = dir /\ Len(c.parents) <= 1
        /\ c.parents # <<>> => dir # Root
    BY <1>1, UnderParent
  <1>5. \A v \in Files(D) : E[v].isdir = D[v].isdir
    BY <1>2, <1>3
  <1>6. ProperFiles(E)
    <2>1. ASSUME NEW v \in Files(D), v # n
          PROVE  /\ E[v].summary # <<>> /\ Len(E[v].parents) <= 1
                 /\ E[v].parents # <<>> =>
                      /\ WantedParent(E[v]) \in Files(E)
                      /\ E[WantedParent(E[v])].isdir
      BY <1>3, <1>5, <2>1 DEF Orderly, ProperFiles
    <2>2. c.parents # <<>> => dir \in Files(E) /\ E[dir].isdir
      BY <1>1, <1>3, <1>4, <1>5 DEF IsDir
    <2> QED
      BY <1>2, <1>3, <1>4, <2>1, <2>2 DEF ProperFiles
  <1>7. DistinctNames(E)
    <2>1. \A v, w \in Files(D) :
            v # n /\ w # n /\ v # w /\ WantedParent(E[v]) = WantedParent(E[w])
              => entry_filename(E[v]) # entry_filename(E[w])
      BY <1>3 DEF Orderly, DistinctNames
    <2>2. \A v \in Files(D) :
            v # n /\ WantedParent(E[v]) = dir => entry_filename(E[v]) # name
      BY <1>1, <1>3 DEF FreeIn
    <2> QED
      BY <1>2, <1>3, <1>4, <2>1, <2>2 DEF DistinctNames
  <1>8. Rooted(E)
    <2> SUFFICES ASSUME NEW S \in SUBSET Nodes, Root \in S, ClosedDownward(E, S)
                 PROVE  Files(D) \subseteq S
      BY <1>3 DEF Rooted
    <2>1. CASE n \in S
      <3>1. ClosedDownward(D, S)
        BY <1>3, <2>1 DEF ClosedDownward
      <3> QED
        BY <3>1 DEF Orderly, Rooted
    \* If n were outside, dir would be, and so below n.
    <2>2. CASE n \notin S
      <3>1. PICK B \in SUBSET Nodes :
              n \in B /\ dir \notin B /\ ClosedDownward(D, B)
        BY DEF FileMoved
      <3>2. S \cup B \in SUBSET Nodes
        OBVIOUS
      <3>3. ClosedDownward(D, S \cup B)
        <4> SUFFICES ASSUME NEW v \in Files(D), WantedParent(D[v]) \in S \cup B
                     PROVE  v \in S \cup B
          BY DEF ClosedDownward
        <4>1. CASE WantedParent(D[v]) \in B
          BY <3>1, <4>1 DEF ClosedDownward
        <4>2. CASE WantedParent(D[v]) \in S /\ v # n
          <5>1. E[v] = D[v] /\ v \in Files(E)
            BY <1>3, <4>2
          <5> QED
            BY <4>2, <5>1 DEF ClosedDownward
        <4> QED
          BY <3>1, <4>1, <4>2
      <3>4. Files(D) \subseteq S \cup B
        BY <3>2, <3>3 DEF Orderly, Rooted
      <3>5. dir \in S
        BY <1>1, <3>1, <3>4 DEF IsDir
      <3>6. n \in S
        BY <1>1, <1>3, <1>4, <3>5 DEF ClosedDownward
      <3> QED
        BY <2>2, <3>6
    <2> QED
      BY <2>1, <2>2
  <1> QED
    BY <1>3, <1>6, <1>7, <1>8 DEF Orderly

-----------------------------------------------------------------------------
(* What the tree shows of the files *)

\* The notes of T are those of D; each has the name its file says and, if it
\* is not among the unplaced ones in P, the parent its file says.
Matches(T, D, P) ==
  /\ T.live = Files(D)
  /\ \A u \in Files(D) : T.name[u] = entry_filename(D[u])
  /\ \A u \in Files(D) \ P : T.parent[u] = WantedParent(D[u])

\* The children of a node are the notes that point to it.
LEMMA ChildrenPoint ==
  ASSUME NEW T, Good(T), NEW n \in Nodes
  PROVE  /\ ChildSet(T, n) = {u \in T.live : T.parent[u] = n}
         /\ node_has_children(T, n) <=> ChildSet(T, n) # {}
  <1>1. ChildSet(T, n) \subseteq T.live /\ T.live \subseteq Uids
    BY TreeFields DEF Good, NoDangling
  <1>2. \A u \in ChildSet(T, n) : T.parent[u] = n
    BY DEF Good, Linked, ChildSet
  <1>3. \A u \in Uids : T.parent[u] = n => u \in ChildSet(T, n)
    BY NodeAssumption DEF Good, Linked, Nodes
  <1>4. ChildSet(T, n) = {u \in T.live : T.parent[u] = n}
    BY <1>1, <1>2, <1>3
  <1>5. Len(T.children[n]) \in Nat
    BY TreeFields DEF Good
  <1>6. node_has_children(T, n) <=> ChildSet(T, n) # {}
    <2>1. Len(T.children[n]) = 0 => ChildSet(T, n) = {}
      BY DEF ChildSet
    <2>2. Len(T.children[n]) > 0 => T.children[n][1] \in ChildSet(T, n)
      BY <1>5 DEF ChildSet
    <2> QED
      BY <1>5, <2>1, <2>2 DEF node_has_children
  <1> QED
    BY <1>4, <1>6

\* Every note can be reached, nothing else can, and the nodes that count as
\* directories are those whose files say so.
LEMMA MatchesShown ==
  ASSUME NEW T, Good(T), NEW D \in Disks, Orderly(D), Matches(T, D, {})
  PROVE  /\ Attached(T) = Files(D) \cup {Root}
         /\ \A n \in Nodes :
              ChildSet(T, n) = {u \in Files(D) : WantedParent(D[u]) = n}
         /\ \A n \in Attached(T) : node_is_directory(T, D, n) <=> IsDir(D, n)
         /\ \A n \in Attached(T) : node_has_children(T, n) => IsDir(D, n)
  <1>1. ASSUME NEW n \in Nodes
        PROVE  ChildSet(T, n) = {u \in Files(D) : WantedParent(D[u]) = n}
    BY ChildrenPoint DEF Matches
  <1>2. Attached(T) \subseteq Files(D) \cup {Root}
    BY AttachedLive DEF Matches
  <1>3. Files(D) \cup {Root} \subseteq Attached(T)
    <2> SUFFICES ASSUME NEW S \in SUBSET Nodes, Root \in S,
                        \A n \in S : ChildSet(T, n) \subseteq S
                 PROVE  Files(D) \subseteq S
      BY DEF Attached, Files, Nodes
    <2>1. ClosedDownward(D, S)
      <3> SUFFICES ASSUME NEW u \in Files(D), WantedParent(D[u]) \in S
                   PROVE  u \in S
        BY DEF ClosedDownward
      <3>1. u \in ChildSet(T, WantedParent(D[u]))
        BY <1>1
      <3> QED
        BY <3>1
    <2> QED
      BY <2>1 DEF Orderly, Rooted
  <1>4. ASSUME NEW n \in Nodes, node_has_children(T, n)
        PROVE  IsDir(D, n)
    <2>1. ChildSet(T, n) # {}
      BY <1>4, ChildrenPoint
    <2>2. PICK u \in Files(D) : WantedParent(D[u]) = n
      BY <1>1, <2>1
    <2> QED
      BY <2>2, OrderlyParent
  <1>5. Attached(T) \subseteq Nodes
    BY DEF Attached
  <1>6. ASSUME NEW n \in Attached(T)
        PROVE  node_is_directory(T, D, n) <=> IsDir(D, n)
    <2>1. n \in Nodes /\ n \in Files(D) \cup {Root}
      BY <1>2, <1>5
    <2>2. n # Root => D[n] # NoFile
      BY <2>1 DEF Files
    <2> QED
      BY <1>4, <2>1, <2>2 DEF node_is_directory, IsDir
  <1> QED
    BY <1>1, <1>2, <1>3, <1>4, <1>5, <1>6

\* The tree goes on matching when a note is written and its node is placed.
LEMMA MadeMatches ==
  ASSUME NEW T \in Tree, NEW D \in Disks, Matches(T, D, {}), NEW E, NEW T2,
         NEW u, NEW dir \in Nodes, NEW name, NEW isdir, NEW c,
         FileMade(D, E, u, dir, name, isdir, c), Placed(T, T2, u, dir, name)
  PROVE  Matches(T2, E, {})
  <1>1. /\ u \in Uids /\ c \in Component /\ c # NoFile
        /\ entry_filename(c) = name /\ WantedParent(c) = dir
        /\ E = [D EXCEPT ![u] = c]
    BY NoFileAssumption, UnderParent DEF FileMade, Shows
  <1>2. /\ E[u] = c /\ Files(E) = Files(D) \cup {u}
        /\ \A v \in Files(D) : v # u => E[v] = D[v]
    BY <1>1 DEF Files, Disks
  <1>3. /\ T2.live = T.live \cup {u} /\ T2.name[u] = name /\ T2.parent[u] = dir
        /\ \A v \in Uids : v # u => T2.name[v] = T.name[v]
                                   /\ T2.parent[v] = T.parent[v]
    BY <1>1, TreeFields DEF Placed
  <1>4. Files(D) \subseteq Uids
    BY DEF Files
  <1> QED
    BY <1>1, <1>2, <1>3, <1>4 DEF Matches

\* When a note is moved and its node is.
LEMMA MovedMatches ==
  ASSUME NEW T \in Tree, NEW D \in Disks, Matches(T, D, {}), NEW E, NEW T2,
         NEW n, NEW dir \in Nodes, NEW name, NEW c,
         FileMoved(D, E, n, dir, name, c), Placed(T, T2, n, dir, name)
  PROVE  Matches(T2, E, {})
  <1>1. /\ n \in Uids /\ n \in Files(D) /\ c \in Component /\ c # NoFile
        /\ entry_filename(c) = name /\ WantedParent(c) = dir
        /\ E = [D EXCEPT ![n] = c]
    BY NoFileAssumption, UnderParent DEF FileMoved, Shows, Files
  <1>2. /\ E[n] = c /\ Files(E) = Files(D)
        /\ \A v \in Files(D) : v # n => E[v] = D[v]
    BY <1>1 DEF Files, Disks
  <1>3. /\ T2.live = T.live \cup {n} /\ T2.name[n] = name /\ T2.parent[n] = dir
        /\ \A v \in Uids : v # n => T2.name[v] = T.name[v]
                                   /\ T2.parent[v] = T.parent[v]
    BY <1>1, TreeFields DEF Placed
  <1>4. Files(D) \subseteq Uids
    BY DEF Files
  <1> QED
    BY <1>1, <1>2, <1>3, <1>4 DEF Matches

\* When a note is deleted and its node is freed.
LEMMA DeletedMatches ==
  ASSUME NEW T \in Tree, NEW D \in Disks, Matches(T, D, {}), NEW E, NEW T2,
         NEW n, FileDeleted(D, E, n), Freed(T, T2, n)
  PROVE  Matches(T2, E, {})
  <1>1. n \in Uids /\ n \in Files(D) /\ E = [D EXCEPT ![n] = NoFile]
    BY DEF FileDeleted, Files
  <1>2. /\ Files(E) = Files(D) \ {n}
        /\ \A v \in Files(E) : v \in Uids /\ v # n /\ E[v] = D[v]
    BY <1>1 DEF Files, Disks
  <1>3. /\ T2.live = T.live \ {n}
        /\ \A v \in Uids : v # n => T2.name[v] = T.name[v]
                                   /\ T2.parent[v] = T.parent[v]
    BY <1>1, TreeFields DEF Freed
  <1> QED
    BY <1>2, <1>3 DEF Matches

-----------------------------------------------------------------------------
(* The steps *)

\* What users who are alone can rely on, with what it takes to preserve it.
UserInv ==
  /\ Inv
  /\ Orderly(disk)
  /\ proc # "aborted"
  /\ proc = "down" => tree.live = {}
  /\ proc # "down" => Matches(tree, disk, pending)

\* One request, seen from the vdir.  A move may take the place of another note
\* that has nothing below it and is of the same kind.
FileReplaced(D, E, n, dir, name, t, c) ==
  /\ t \in Files(D) /\ t # n
  /\ WantedParent(D[t]) = dir /\ entry_filename(D[t]) = name
  /\ D[t].isdir = D[n].isdir
  /\ \E F \in Disks :
       FileDeleted(D, F, t) /\ FileMoved(F, E, n, dir, name, c)

FileStep(D, E) ==
  \/ E = D
  \/ \E u \in Uids : FileDeleted(D, E, u)
  \/ \E u \in Uids, dir \in Nodes, name \in NewNames :
       \E c \in Component :
         \/ \E isdir \in BOOLEAN : FileMade(D, E, u, dir, name, isdir, c)
         \/ FileMoved(D, E, u, dir, name, c)
         \/ \E t \in Uids : FileReplaced(D, E, u, dir, name, t, c)

\* The requests that users who are alone do not make.
LEMMA NotRequested ==
  ASSUME UsersAlone
  PROVE  /\ ~Stale
         /\ "top" \notin Requests
         /\ Requests \cap {"sync", "cut", "syncrename", "syncdelete"} = {}
         /\ \A name \in NewNames : name \in Names /\ Ordinary(name)
         /\ \A D \in InitDisks : D \in Disks /\ Orderly(D)
  BY AgendaFSAssumption DEF UsersAlone, Stale, Disks

\* What the invariant says while the tree is in use.
LEMMA InUse ==
  ASSUME UserInv, Started
  PROVE  /\ Good(tree) /\ disk \in Disks /\ Orderly(disk) /\ pending = {}
         /\ Matches(tree, disk, {})
         /\ Attached(tree) = Files(disk) \cup {Root}
         /\ \A n \in Attached(tree) :
              node_is_directory(tree, disk, n) <=> IsDir(disk, n)
         /\ \A n \in Files(disk) \cup {Root} : Readable({n}) /\ n \notin torn
  <1>1. /\ Good(tree) /\ disk \in Disks /\ pending = {} /\ Orderly(disk)
    BY InvGood DEF UserInv, Started, Disks
  <1>2. Matches(tree, disk, {})
    BY <1>1 DEF UserInv, Started
  <1>3. /\ Attached(tree) = Files(disk) \cup {Root}
        /\ \A n \in Attached(tree) :
             node_is_directory(tree, disk, n) <=> IsDir(disk, n)
    BY <1>1, <1>2, MatchesShown
  <1>4. \A n \in Files(disk) \cup {Root} : Readable({n}) /\ n \notin torn
    <2>1. torn \subseteq {u \in Uids : disk[u] = NoFile}
      BY InvGood DEF UserInv
    <2> QED
      BY <2>1, NodeAssumption DEF Readable, Exists, Parses, Files
  <1> QED
    BY <1>1, <1>2, <1>3, <1>4

\* A handler that leaves the tree matching the files.
LEMMA StillMatches ==
  ASSUME UserInv, Started, Inv', proc' = proc, pending' = pending,
         Orderly(disk'), Matches(tree', disk', {})
  PROVE  UserInv'
  <1>1. pending = {}
    BY InUse
  <1>2. Matches(tree, disk, pending)' /\ proc' \notin {"down", "aborted"}
    BY <1>1 DEF Started
  <1>3. Orderly(disk)'
    OBVIOUS
  <1> QED
    BY <1>2, <1>3 DEF UserInv

\* A new component, in the directory it is created in.
CreatedIn(dir, c) ==
  IF dir = Root THEN c ELSE set_parent_child_relationship(dir, c)

\* It is shown there under its name.
LEMMA CreatedShows ==
  ASSUME NEW dir \in Nodes, NEW name, NEW isdir, NEW c, Shows(c, name, isdir),
         c.parents = <<>>
  PROVE  Shows(CreatedIn(dir, c), name, isdir) /\ Under(CreatedIn(dir, c), dir)
  <1> DEFINE d == CreatedIn(dir, c)
  <1>1. CASE dir = Root
    BY <1>1 DEF Under, CreatedIn
  <1>2. CASE dir # Root
    <2>1. dir \in Uids
      BY <1>2 DEF Nodes
    <2>2. d = WithParents(c, <<dir>>) /\ <<dir>> \in Seq(Uids)
      BY <1>2, <2>1 DEF set_parent_child_relationship, WithParents, CreatedIn
    <2> HIDE DEF d
    <2>3. /\ d \in Component /\ d.parents = <<dir>> /\ d.summary = c.summary
          /\ d.isdir = c.isdir /\ d.ext = c.ext
      BY <2>2, OtherParents DEF Shows
    <2>4. Shows(d, name, isdir) /\ Under(d, dir)
      BY <1>2, <2>3 DEF Shows, Under, entry_filename
    <2> QED
      BY <2>4 DEF d
  <1> QED
    BY <1>1, <1>2

\* Creating a note is one step of the vdir.
LEMMA CreateAlone ==
  ASSUME UsersAlone, UserInv, NEW dir \in Nodes \cup {None},
         NEW name \in NewNames, NEW isdir \in BOOLEAN, NEW c,
         Shows(c, name, isdir), c.parents = <<>>, NEW kinds, Request(kinds),
         CreateEntry(dir, name, c)
  PROVE  UserInv' /\ FileStep(disk, disk')
  <1>1. /\ Good(tree) /\ disk \in Disks /\ Orderly(disk) /\ pending = {}
        /\ Matches(tree, disk, {}) /\ tree \in Tree
        /\ Attached(tree) = Files(disk) \cup {Root}
        /\ proc = "mounted" /\ Started
    BY InUse DEF CreateEntry, Started, Good
  <1>2. /\ dir \in Nodes /\ dir \in Attached(tree) /\ dir # None
        /\ IsDir(disk, dir) /\ dir \in Directories
        /\ Readable({dir})
        /\ name \in Names /\ c \in Component
    <2>1. dir \in Directories
      BY NotRequested DEF CreateEntry
    <2>2. dir \in Attached(tree) /\ node_is_directory(tree, disk, dir)
      BY <2>1 DEF Directories
    <2>3. dir \in Nodes
      BY <2>2 DEF Attached
    <2>4. IsDir(disk, dir) /\ Readable({dir})
      BY <1>1, <2>2, <2>3, InUse
    <2> QED
      BY <2>1, <2>2, <2>3, <2>4, NodeAssumption, NotRequested DEF Nodes, Shows
  <1>3. PICK u \in Fresh :
          /\ disk' = [disk EXCEPT ![u] =
                        IF dir = Root
                          THEN c
                          ELSE set_parent_child_relationship(dir, c)]
          /\ tree' = add_child(create_fuse_node(tree, u, name), dir, u)
          /\ UNCHANGED <<proc, watcher, pending>>
    BY <1>2 DEF CreateEntry
  <1>4. u \in Uids /\ u \notin tree.live /\ u \notin Files(disk)
    BY DEF Fresh, Files, Exists, Parses
  <1> DEFINE d == CreatedIn(dir, c)
  <1>5. Shows(d, name, isdir) /\ Under(d, dir)
    BY <1>2, CreatedShows
  <1>6. disk' = [disk EXCEPT ![u] = d]
    BY <1>3 DEF CreatedIn
  <1> HIDE DEF d
  <1>7. FreeIn(disk, dir, name, u)
    <2>1. name \notin ChildNames(tree, dir)
      <3>1. lookup(tree, dir, name) = None
        BY <1>2 DEF CreateEntry
      <3> QED
        BY <1>1, <1>2, <3>1, Lookup, AttachedLive, TreeFields, NodeAssumption
             DEF Good, NoDangling
    <2>2. ChildSet(tree, dir) = {v \in Files(disk) : WantedParent(disk[v]) = dir}
      BY <1>1, <1>2, MatchesShown
    <2> QED
      BY <1>1, <2>1, <2>2 DEF FreeIn, ChildNames, Matches
  <1>8. FileMade(disk, disk', u, dir, name, isdir, d)
    BY <1>2, <1>4, <1>5, <1>6, <1>7 DEF FileMade
  <1>9. Placed(tree, tree', u, dir, name)
    BY <1>1, <1>2, <1>3, <1>4, PlaceCreated, AttachedLive DEF CreateEntry
  <1>10. Orderly(disk') /\ Matches(tree', disk', {})
    BY <1>1, <1>2, <1>8, <1>9, MadeOrderly, MadeMatches
  <1>11. Inv'
    BY <1>2, CreateEntryStep DEF UserInv
  <1>12. UserInv'
    BY <1>1, <1>3, <1>10, <1>11, StillMatches
  <1>13. FileStep(disk, disk')
    <2>1. d \in Component
      BY <1>5 DEF Shows
    <2> QED
      BY <1>2, <1>4, <1>8, <2>1 DEF FileStep
  <1> QED
    BY <1>12, <1>13

\* So is deleting one without notes below it.
LEMMA DeleteAlone ==
  ASSUME UserInv, Inv', NEW n \in Uids, proc = "mounted",
         n \in Shown, ~node_has_children(tree, n), DeleteEntry(n)
  PROVE  UserInv' /\ FileStep(disk, disk')
  <1>1. /\ Good(tree) /\ disk \in Disks /\ Orderly(disk) /\ pending = {}
        /\ Matches(tree, disk, {}) /\ tree \in Tree
        /\ Attached(tree) = Files(disk) \cup {Root} /\ Started
    BY InUse DEF Started, Good
  <1>2. n \in Files(disk) /\ n \in tree.live /\ n \in Nodes
    BY <1>1 DEF Shown, Matches, Nodes
  <1>3. FileDeleted(disk, disk', n)
    <2>1. ChildSet(tree, n) = {}
      BY <1>1, <1>2, ChildrenPoint
    <2>2. ChildSet(tree, n) = {u \in Files(disk) : WantedParent(disk[u]) = n}
      BY <1>1, <1>2, MatchesShown
    <2> QED
      BY <1>2, <2>1, <2>2 DEF FileDeleted, DeleteEntry
  <1>4. Freed(tree, tree', n)
    BY <1>1, <1>2, FreeLeaf DEF DeleteEntry
  <1>5. Orderly(disk') /\ Matches(tree', disk', {})
    BY <1>1, <1>3, <1>4, DeletedOrderly, DeletedMatches
  <1>6. UserInv'
    BY <1>1, <1>5, StillMatches DEF DeleteEntry
  <1> QED
    BY <1>3, <1>6 DEF FileStep

\* And so is a rename, together with the note whose place it takes.
LEMMA RenameAlone ==
  ASSUME UsersAlone, UserInv, Inv', NEW n \in Uids, NEW dir \in Nodes,
         NEW name \in NewNames, FuseRename(n, dir, name)
  PROVE  UserInv' /\ FileStep(disk, disk')
  <1> DEFINE
        old    == tree.parent[n]
        target == lookup(tree, dir, name)
        t      == IF target = None THEN tree ELSE delete_fuse_node(tree, target)
        d      == IF target = None THEN disk
                                   ELSE [disk EXCEPT ![target] = NoFile]
        named  == update_node_file_extension(update_summary(d[n], name), name)
        c      == moved_component(named, old, dir)
  <1>1. /\ Good(tree) /\ disk \in Disks /\ Orderly(disk) /\ pending = {}
        /\ Matches(tree, disk, {}) /\ tree \in Tree
        /\ Attached(tree) = Files(disk) \cup {Root} /\ Started
        /\ \A m \in Attached(tree) :
             node_is_directory(tree, disk, m) <=> IsDir(disk, m)
        /\ name \in Names /\ Ordinary(name)
    BY InUse, NotRequested DEF FuseRename, Started, Good
  <1>2. /\ n \in Files(disk) /\ n \in tree.live /\ n # Root
        /\ dir \in tree.live \cup {Root}
        /\ IsDir(disk, dir) /\ dir \in Nodes
        /\ dir \notin Subtree(tree, n)
        /\ target # n
        /\ target # None => (n \in Directories <=> target \in Directories)
        /\ target # None => ~node_has_children(tree, target)
        /\ dir = Root => old = Root
    <2>1. {n, dir} \subseteq Attached(tree) /\ n # Root
      BY NodeAssumption DEF FuseRename
    <2>2. /\ dir \in Directories /\ dir \notin Subtree(tree, n) /\ target # n
          /\ target # None => (n \in Directories <=> target \in Directories)
          /\ target # None => ~node_has_children(tree, target)
          /\ dir = Root => old = Root
      BY NotRequested DEF FuseRename, VfsRename, Replaceable
    <2> HIDE DEF target, old
    <2> QED
      BY <1>1, <2>1, <2>2 DEF Directories, Matches
  <1>3. old = WantedParent(disk[n]) /\ old \in Files(disk) \cup {Root}
    <2>1. old = WantedParent(disk[n])
      BY <1>1, <1>2 DEF Matches
    <2> QED
      BY <1>1, <1>2, <2>1, OrderlyParent DEF IsDir
  <1>4. /\ tree' = move_node(set_node_filename(t, n, name), dir, n)
        /\ disk' = [d EXCEPT ![n] = c]
        /\ UNCHANGED <<proc, watcher, pending>>
    <2>1. Readable({n, dir, old})
      <3>1. {n, dir, old} \subseteq Files(disk) \cup {Root}
        BY <1>2, <1>3 DEF IsDir
      <3> HIDE DEF old
      <3> QED
        BY <3>1, NodeAssumption DEF Readable, Exists, Parses, Files
    <2>2. n \notin torn
      BY <1>1, <1>2, InUse
    <2> QED
      BY <2>1, <2>2 DEF FuseRename
  <1>5. target = lookup(tree, dir, name) /\ t = Replaced(tree, target)
    BY DEF Replaced
  <1> HIDE DEF old, target, t, c, named, d
  <1>6. target # None =>
          /\ target \in Files(disk) /\ target \in Nodes /\ dir # target
          /\ WantedParent(disk[target]) = dir
          /\ entry_filename(disk[target]) = name
          /\ disk[target].isdir = disk[n].isdir
          /\ Freed(tree, t, target) /\ Good(t)
          /\ FileDeleted(disk, d, target)
    <2> SUFFICES ASSUME target # None
                 PROVE  /\ target \in Files(disk) /\ target \in Nodes
                        /\ dir # target
                        /\ WantedParent(disk[target]) = dir
                        /\ entry_filename(disk[target]) = name
                        /\ disk[target].isdir = disk[n].isdir
                        /\ Freed(tree, t, target) /\ Good(t)
                        /\ FileDeleted(disk, d, target)
      OBVIOUS
    <2>1. /\ Good(t)
          /\ target \in tree.live /\ dir # target
          /\ target \in ChildSet(tree, dir) /\ tree.name[target] = name
          /\ Freed(tree, t, target)
      BY <1>1, <1>2, <1>5, FreeTarget
    <2>2. /\ target \in Files(disk) /\ target \in Nodes
          /\ entry_filename(disk[target]) = name
      BY <1>1, <2>1 DEF Matches, Files, Nodes
    <2>3. \A m \in Nodes :
            ChildSet(tree, m) = {u \in Files(disk) : WantedParent(disk[u]) = m}
      BY <1>1, MatchesShown
    <2>4. WantedParent(disk[target]) = dir
      BY <1>2, <2>1, <2>3
    <2>5. \A v \in Files(disk) : WantedParent(disk[v]) # target
      <3>1. ChildSet(tree, target) = {}
        BY <1>1, <1>2, <2>2, ChildrenPoint
      <3> QED
        BY <2>2, <2>3, <3>1
    <2>6. FileDeleted(disk, d, target)
      BY <2>2, <2>5 DEF FileDeleted, d
    <2>7. disk[target].isdir = disk[n].isdir
      <3>1. /\ n \in Attached(tree) /\ target \in Attached(tree)
            /\ n # Root /\ target # Root
        BY <1>1, <1>2, <2>2, NodeAssumption DEF Files
      <3>2. IsDir(disk, n) <=> IsDir(disk, target)
        BY <1>1, <1>2, <3>1 DEF Directories
      <3>3. disk[n].isdir \in BOOLEAN /\ disk[target].isdir \in BOOLEAN
        BY <1>1, <1>2, <2>2 DEF Disks, Files, Component
      <3> QED
        BY <1>2, <2>2, <3>1, <3>2, <3>3 DEF IsDir
    <2> QED
      BY <2>1, <2>2, <2>4, <2>6, <2>7
  <1>7. target = None => t = tree /\ d = disk
    BY DEF t, d
  <1>8. /\ d \in Disks /\ Orderly(d) /\ Good(t) /\ Matches(t, d, {})
    <2>1. CASE target = None
      BY <1>1, <1>7, <2>1
    <2>2. CASE target # None
      BY <1>1, <1>6, <2>2, DeletedOrderly, DeletedMatches
    <2> QED
      BY <2>1, <2>2
  <1>9. /\ Files(d) \subseteq Files(disk) /\ n \in Files(d)
        /\ \A v \in Files(d) : d[v] = disk[v]
        /\ IsDir(d, dir)
    <2>1. CASE target = None
      BY <1>2, <1>7, <2>1
    <2>2. CASE target # None
      BY <1>1, <1>2, <1>6, <2>2 DEF d, Files, Disks, IsDir
    <2> QED
      BY <2>1, <2>2
  <1>10. /\ n \in t.live /\ dir \in t.live \cup {Root}
         /\ \A m \in ChildSet(t, dir) : t.name[m] # name
    BY <1>1, <1>2, <1>5, ReplaceTarget
  <1>11. FreeIn(d, dir, name, n)
    <2>1. ChildSet(t, dir) = {v \in Files(d) : WantedParent(d[v]) = dir}
      BY <1>2, <1>8, MatchesShown
    <2> QED
      BY <1>8, <1>10, <2>1 DEF FreeIn, Matches
  <1>12. Shows(c, name, d[n].isdir) /\ Under(c, dir)
    <2>1. d[n] \in Component /\ Len(d[n].parents) <= 1
      BY <1>8, <1>9 DEF Disks, Files, Orderly, ProperFiles
    <2>2. Shows(named, name, d[n].isdir) /\ named.parents = d[n].parents
      BY <1>1, <2>1, RenamedShows DEF named
    <2>3. old = WantedParent(named) /\ Len(named.parents) <= 1
      BY <1>3, <1>9, <2>1, <2>2 DEF WantedParent
    <2> QED
      BY <1>2, <2>2, <2>3, MovedShows DEF c
  <1>13. \E B \in SUBSET Nodes : n \in B /\ dir \notin B /\ ClosedDownward(d, B)
    <2>1. PICK B \in SUBSET Nodes :
            /\ n \in B /\ dir \notin B
            /\ \A m \in B : ChildSet(tree, m) \subseteq B
      BY <1>2 DEF Subtree
    <2>2. ASSUME NEW v \in Files(d), WantedParent(d[v]) \in B
          PROVE  v \in B
      <3>1. v \in Files(disk) /\ d[v] = disk[v]
        BY <1>9
      <3>2. v \in ChildSet(tree, WantedParent(disk[v]))
        BY <1>1, <2>2, <3>1, MatchesShown
      <3> QED
        BY <2>1, <2>2, <3>1, <3>2
    <2> QED
      BY <2>1, <2>2 DEF ClosedDownward
  <1>14. FileMoved(d, disk', n, dir, name, c)
    BY <1>4, <1>9, <1>11, <1>12, <1>13 DEF FileMoved
  <1>15. Placed(t, tree', n, dir, name)
    BY <1>1, <1>4, <1>8, <1>10, PlaceRenamed
  <1>16. Orderly(disk') /\ Matches(tree', disk', {})
    BY <1>2, <1>8, <1>14, <1>15, MovedOrderly, MovedMatches DEF Good
  <1>17. UserInv'
    BY <1>1, <1>4, <1>16, StillMatches
  <1>18. FileStep(disk, disk')
    <2>1. c \in Component
      BY <1>12 DEF Shows
    <2>2. CASE target = None
      BY <1>7, <1>14, <2>1, <2>2 DEF FileStep
    <2>3. CASE target # None
      <3>1. target \in Uids
        BY <1>6, <2>3 DEF Files
      <3>2. FileReplaced(disk, disk', n, dir, name, target, c)
        BY <1>2, <1>6, <1>8, <1>14, <2>3 DEF FileReplaced
      <3> QED
        BY <2>1, <3>1, <3>2 DEF FileStep
    <2> QED
      BY <2>2, <2>3
  <1> QED
    BY <1>17, <1>18

\* Nobody finds a note without its file.
LEMMA ReadAlone ==
  ASSUME UserInv, NEW n \in Nodes, FuseRead(n)
  PROVE  FALSE
  <1>1. /\ Good(tree) /\ Started /\ n \in Attached(tree)
        /\ Attached(tree) = Files(disk) \cup {Root}
        /\ Matches(tree, disk, {})
    BY InUse DEF FuseRead, Started
  <1>2. \A child \in ChildSet(tree, n) : Parses(child)
    BY <1>1 DEF Good, NoDangling, Matches, Parses, Files
  <1>3. Readable({n})
    BY <1>1, InUse
  <1> QED
    BY <1>2, <1>3 DEF FuseRead

\* The scan makes a node for every file.
LEMMA ScanAlone ==
  ASSUME UserInv, Inv', LoadScan
  PROVE  UserInv' /\ disk' = disk
  <1> DEFINE S == {u \in Uids : Loadable(disk[u])}
  <1>1. /\ disk' = disk /\ proc' = "loading" /\ pending' = S
        /\ tree' = [EmptyTree EXCEPT
                      !.live = S, !.entries = S,
                      !.name = [u \in Uids |-> IF u \in S
                                                 THEN entry_filename(disk[u])
                                                 ELSE <<>>]]
    BY DEF LoadScan
  <1>2. S = Files(disk)
    BY DEF UserInv, Orderly, ProperFiles, Loadable, Files
  <1> HIDE DEF S
  <1>3. /\ tree'.live = S
        /\ tree'.name = [u \in Uids |-> IF u \in S THEN entry_filename(disk[u])
                                                   ELSE <<>>]
    BY <1>1 DEF EmptyTree
  <1>4. Matches(tree', disk', pending')
    BY <1>1, <1>2, <1>3 DEF Matches, Files
  <1>5. Orderly(disk') /\ proc' # "aborted"
    BY <1>1 DEF UserInv
  <1>6. Orderly(disk)' /\ Matches(tree, disk, pending)'
    BY <1>4, <1>5
  <1> QED
    BY <1>1, <1>5, <1>6 DEF UserInv

\* A node whose name and place are what its file says: no note of its
\* directory has its name, and its parent is there and marked.
LEMMA RightPlace ==
  ASSUME UserInv, proc \notin {"down", "aborted"}, NEW u \in Files(disk)
  PROVE  /\ Good(tree) /\ disk \in Disks /\ u \in tree.live
         /\ tree.name[u] = entry_filename(disk[u])
         /\ WantedParent(disk[u]) \in tree.live \cup {Root}
         /\ get_parent_uid(disk[u]) =
              IF WantedParent(disk[u]) = Root THEN {} ELSE {WantedParent(disk[u])}
         /\ \A p \in get_parent_uid(disk[u]) :
              /\ Parses(p) /\ p \in tree.entries
              /\ disk[p].isdir
              /\ [disk EXCEPT ![p] = icalcomponent_mark_as_directory(@)] = disk
         /\ \A v \in ChildSet(tree, WantedParent(disk[u])) \ {u} :
              tree.name[v] # tree.name[u]
  <1>1. /\ Good(tree) /\ disk \in Disks /\ Orderly(disk)
        /\ Matches(tree, disk, pending)
        /\ \A v \in pending : v \in tree.live /\ tree.parent[v] = None
        /\ disk[u] \in Component
    BY InvGood DEF UserInv, Inv, LoadUndisturbed, Disks, Files
  <1>2. /\ u \in tree.live /\ tree.name[u] = entry_filename(disk[u])
    BY <1>1 DEF Matches
  <1> DEFINE p == WantedParent(disk[u])
  <1>3. p \in Files(disk) \cup {Root} /\ p \in Nodes
        /\ (p # Root => disk[p].isdir)
    BY <1>1, OrderlyParent DEF IsDir
  <1>4. get_parent_uid(disk[u]) = IF p = Root THEN {} ELSE {p}
    <2>1. disk[u].parents # <<>> => p # Root
      <3>1. disk[u].parents # <<>> => disk[u].parents[1] \in Uids
        BY <1>1 DEF Component
      <3> QED
        BY <3>1, NodeAssumption DEF WantedParent
    <2>2. disk[u].parents = <<>> => p = Root
      BY DEF WantedParent
    <2>3. disk[u].parents # <<>> => get_parent_uid(disk[u]) = {p}
      BY DEF WantedParent, get_parent_uid
    <2>4. disk[u].parents = <<>> => get_parent_uid(disk[u]) = {}
      BY DEF get_parent_uid
    <2> QED
      BY <2>1, <2>2, <2>3, <2>4
  <1>5. ASSUME NEW q \in get_parent_uid(disk[u])
        PROVE  /\ Parses(q) /\ q \in tree.entries /\ disk[q].isdir
               /\ [disk EXCEPT ![q] = icalcomponent_mark_as_directory(@)] = disk
    <2>1. q = p /\ p # Root
      BY <1>4
    <2>2. q \in Files(disk) /\ q \in Uids /\ disk[q].isdir
      BY <1>3, <2>1 DEF Files
    <2>3. disk[q] \in Component /\ disk[q].isdir = TRUE
      BY <1>1, <2>2 DEF Disks, Files, Component
    <2>4. icalcomponent_mark_as_directory(disk[q]) = disk[q]
      BY <2>3 DEF icalcomponent_mark_as_directory, Component
    <2>5. [disk EXCEPT ![q] = icalcomponent_mark_as_directory(@)] = disk
      BY <1>1, <2>2, <2>4 DEF Disks
    <2>6. Parses(q) /\ q \in tree.entries
      BY <1>1, <2>2 DEF Parses, Files, Matches, Good, NoDangling
    <2> QED
      BY <2>2, <2>5, <2>6
  <1>6. ASSUME NEW v \in ChildSet(tree, p) \ {u}
        PROVE  tree.name[v] # tree.name[u]
    <2>1. v \in tree.live /\ tree.parent[v] = p
      BY <1>1, <1>3, ChildrenPoint
    <2>2. v \notin pending
      BY <1>1, <1>3, <2>1, NodeAssumption DEF Nodes
    <2>3. v \in Files(disk) /\ WantedParent(disk[v]) = p
      BY <1>1, <2>1, <2>2 DEF Matches
    <2>4. entry_filename(disk[v]) # entry_filename(disk[u])
      BY <1>1, <2>3 DEF Orderly, DistinctNames
    <2> QED
      BY <1>1, <2>3, <2>4 DEF Matches
  <1>7. p \in tree.live \cup {Root}
    BY <1>1, <1>3 DEF Matches
  <1> QED
    BY <1>1, <1>2, <1>4, <1>5, <1>6, <1>7

\* load_root_node_tree numbers no name and marks no file.
LEMMA AttachAlone ==
  ASSUME UserInv, Inv', NEW u \in Uids, LoadAttach(u)
  PROVE  UserInv' /\ disk' = disk
  <1>1. /\ proc = "loading" /\ u \in pending /\ pending \subseteq Uids
        /\ u \in tree.live /\ tree.parent[u] = None
        /\ Matches(tree, disk, pending) /\ Orderly(disk)
    BY DEF LoadAttach, UserInv, Inv, TypeOK, LoadUndisturbed
  <1>2. u \in Files(disk) /\ Parses(u) /\ Exists(u)
    BY <1>1 DEF Matches, Parses, Exists, Files
  <1> DEFINE p == WantedParent(disk[u])
             ps == get_parent_uid(disk[u])
  <1>3. /\ Good(tree) /\ tree \in Tree
        /\ p \in tree.live \cup {Root}
        /\ ps = IF p = Root THEN {} ELSE {p}
        /\ \A q \in ps :
             /\ Parses(q) /\ q \in tree.entries
             /\ [disk EXCEPT ![q] = icalcomponent_mark_as_directory(@)] = disk
        /\ \A v \in ChildSet(tree, p) \ {u} : tree.name[v] # tree.name[u]
    <2>1. proc \notin {"down", "aborted"}
      BY <1>1
    <2> QED
      BY <1>2, <2>1, RightPlace DEF Good
  <1>4. /\ pending' = pending \ {u} /\ UNCHANGED <<proc, watcher, disk, queue>>
        /\ \/ tree' = add_fuse_child(tree, Root, u) /\ p = Root
           \/ tree' = move_fuse_node(tree, p, u)
    <2>1. \/ /\ ps = {}
             /\ tree' = add_fuse_child(tree, Root, u)
             /\ pending' = pending \ {u}
             /\ UNCHANGED <<proc, watcher, disk, queue>>
          \/ \E q \in ps : q \notin tree.entries
          \/ \E q \in ps :
               IF ~Parses(q)
                 THEN Abort /\ UNCHANGED disk
                 ELSE /\ disk' = [disk EXCEPT ![q] =
                                    icalcomponent_mark_as_directory(@)]
                      /\ tree' = move_fuse_node(tree, q, u)
                      /\ pending' = pending \ {u}
                      /\ UNCHANGED <<proc, watcher, queue>>
      BY <1>2 DEF LoadAttach
    <2> HIDE DEF ps, p
    <2> QED
      BY <1>3, <2>1
  <1> HIDE DEF ps, p
  <1>5. /\ tree'.live = tree.live /\ tree'.name = tree.name
        /\ tree'.parent = [tree.parent EXCEPT ![u] = p]
    <2>1. CASE tree' = add_fuse_child(tree, Root, u) /\ p = Root
      <3>1. u \notin ChildSet(tree, Root)
        BY <1>1, <1>3, ChildrenPoint, NodeAssumption DEF Nodes
      <3>2. tree.name[u] \notin ChildNames(tree, Root)
        BY <1>3, <2>1, <3>1 DEF ChildNames
      <3> QED
        BY <1>1, <1>3, <2>1, <3>2, AddFuseChild
    <2>2. CASE tree' = move_fuse_node(tree, p, u)
      BY <1>1, <1>3, <2>2, MoveFuseNode, GoodIsGoodBut
    <2> QED
      BY <1>4, <2>1, <2>2
  <1>6. Matches(tree', disk', pending')
    <2>1. \A v \in Uids : v # u => tree'.parent[v] = tree.parent[v]
      BY <1>3, <1>5, TreeFields
    <2>2. tree'.parent[u] = p
      BY <1>3, <1>5, TreeFields
    <2> QED
      BY <1>1, <1>4, <1>5, <2>1, <2>2 DEF Matches, Files, p
  <1>7. Matches(tree, disk, pending)' /\ Orderly(disk)'
    BY <1>1, <1>4, <1>6
  <1> QED
    BY <1>1, <1>4, <1>7 DEF UserInv

\* The event of a file that was written finds everything as it is.
LEMMA ChangedAlone ==
  ASSUME UserInv, NEW u \in Uids, HandleChanged(u)
  PROVE  /\ tree'.live = tree.live /\ tree'.name = tree.name
         /\ tree'.parent = tree.parent
         /\ UNCHANGED <<disk, proc, pending>>
  <1>1. /\ Started /\ pending = {} /\ Matches(tree, disk, {}) /\ tree \in Tree
        /\ proc \notin {"down", "aborted"}
    <2>1. proc \in {"loaded", "mounted"}
      BY DEF HandleChanged, UserInv, Inv, LoadUndisturbed
    <2> QED
      BY <2>1, InUse DEF Started, Good
  <1>2. CASE ~Loadable(disk[u])
    BY <1>2 DEF HandleChanged
  <1>3. CASE Loadable(disk[u])
    <2> DEFINE t  == upsert_fuse_node(tree, u, entry_filename(disk[u]))
               p  == WantedParent(disk[u])
               ps == get_parent_uid(disk[u])
    <2>1. u \in Files(disk)
      BY <1>3 DEF Loadable, Files
    <2>2. /\ Good(tree) /\ u \in tree.live
          /\ tree.name[u] = entry_filename(disk[u])
          /\ p \in tree.live \cup {Root}
          /\ ps = IF p = Root THEN {} ELSE {p}
          /\ \A q \in ps :
               /\ Parses(q) /\ q \in tree.entries
               /\ [disk EXCEPT ![q] = icalcomponent_mark_as_directory(@)] = disk
          /\ \A v \in ChildSet(tree, p) \ {u} : tree.name[v] # tree.name[u]
      BY <1>1, <2>1, RightPlace
    <2>3. t = tree
      <3>1. u \in tree.entries
        BY <2>2 DEF Good, NoDangling
      <3>2. [tree.name EXCEPT ![u] = tree.name[u]] = tree.name
        BY <1>1, TreeFields
      <3>3. set_node_filename(tree, u, tree.name[u]) = tree
        BY <1>1, <3>2 DEF set_node_filename, Tree
      <3> QED
        BY <2>2, <3>1, <3>3 DEF upsert_fuse_node
    <2>4. \/ /\ ps = {}
             /\ tree' = move_fuse_node(t, Root, u)
             /\ UNCHANGED <<proc, watcher, disk, pending>>
          \/ \E q \in ps :
               IF q \notin t.entries \/ ~Parses(q)
                 THEN Abort /\ UNCHANGED disk
                 ELSE /\ tree' = move_fuse_node(t, q, u)
                      /\ disk' = [disk EXCEPT ![q] =
                                    icalcomponent_mark_as_directory(@)]
                      /\ UNCHANGED <<proc, watcher, pending>>
      BY <1>3 DEF HandleChanged
    <2> HIDE DEF t, p, ps
    <2>5. /\ tree' = move_fuse_node(tree, p, u)
          /\ UNCHANGED <<disk, proc, pending>>
      BY <2>2, <2>3, <2>4
    <2>6. /\ tree'.live = tree.live /\ tree'.name = tree.name
          /\ tree'.parent = [tree.parent EXCEPT ![u] = p]
      BY <2>2, <2>5, MoveFuseNode, GoodIsGoodBut
    <2>7. tree.parent[u] = p
      BY <1>1, <2>1 DEF Matches, p
    <2>8. [tree.parent EXCEPT ![u] = p] = tree.parent
      BY <1>1, <2>7, TreeFields
    <2> QED
      BY <2>5, <2>6, <2>8
  <1> QED
    BY <1>2, <1>3

\* A file that was deleted has no node any more.
LEMMA DeletedAlone ==
  ASSUME UserInv, NEW u \in Uids, HandleDeleted(u)
  PROVE  UNCHANGED <<tree, disk, proc, pending>>
  <1>1. FullPath(u) \notin tree.entries
    BY InvGood, FullPathAssumption, TreeFields DEF UserInv, Good
  <1> QED
    BY <1>1 DEF HandleDeleted, delete_from_vdir_path

\* A step that changes neither the files nor what the tree shows of them.
LEMMA NothingShown ==
  ASSUME UserInv, Inv', proc' # "aborted", (proc' = "down") = (proc = "down"),
         UNCHANGED <<disk, pending>>, tree'.live = tree.live,
         tree'.name = tree.name, tree'.parent = tree.parent
  PROVE  UserInv' /\ FileStep(disk, disk')
  <1>1. proc # "down" => Matches(tree', disk', pending')
    BY DEF UserInv, Matches
  <1>2. (proc # "down" => Matches(tree, disk, pending))'
    BY <1>1
  <1>3. Orderly(disk)' /\ (proc = "down" => tree.live = {})'
    BY DEF UserInv
  <1> QED
    BY <1>2, <1>3 DEF UserInv, FileStep

\* The end of the process is not seen in the vdir.
LEMMA TerminateAlone ==
  ASSUME UserInv, Inv', Terminate
  PROVE  UserInv' /\ FileStep(disk, disk')
  <1>1. /\ proc' = "down" /\ disk' = disk /\ tree' = EmptyTree
    BY DEF Terminate
  <1>2. tree'.live = {}
    BY <1>1 DEF EmptyTree
  <1>3. Orderly(disk)' /\ (proc = "down" => tree.live = {})'
    BY <1>1, <1>2 DEF UserInv
  <1> QED
    BY <1>1, <1>3 DEF UserInv, FileStep

\* To begin with there is no tree.
LEMMA InitUser ==
  ASSUME UsersAlone, Init
  PROVE  UserInv
  <1>1. EmptyTree.live = {}
    BY DEF EmptyTree
  <1> QED
    BY <1>1, InitInv DEF Init, UserInv, UsersAlone

\* Every step of users who are alone is one step of the files, or none.
LEMMA NextUser ==
  ASSUME UsersAlone, UserInv, [Next]_vars
  PROVE  UserInv' /\ FileStep(disk, disk')
  <1>1. Inv'
    BY NextInv DEF UserInv
  <1>2. proc # "aborted"
    BY DEF UserInv
  <1>3. CASE UNCHANGED vars
    BY <1>1, <1>2, <1>3, NothingShown DEF vars
  <1>4. CASE Start
    <2>1. ASSUME NEW u \in Uids, LoadAttach(u)
          PROVE  UserInv' /\ FileStep(disk, disk')
      BY <1>1, <2>1, AttachAlone DEF FileStep
    <2>2. CASE LoadDone \/ ServeFuse
      BY <1>1, <2>2, NothingShown DEF LoadDone, ServeFuse
    <2> QED
      BY <1>4, <2>1, <2>2 DEF Start
  <1>5. CASE Watch
    <2>1. CASE StartWatch
      BY <1>1, <1>2, <2>1, NothingShown DEF StartWatch
    <2>2. ASSUME NEW u \in Uids, HandleDeleted(u)
          PROVE  UserInv' /\ FileStep(disk, disk')
      BY <1>1, <1>2, <2>2, DeletedAlone, NothingShown
    <2>3. ASSUME NEW u \in Uids, HandleChanged(u)
          PROVE  UserInv' /\ FileStep(disk, disk')
      BY <1>1, <1>2, <2>3, ChangedAlone, NothingShown
    <2> QED
      BY <1>5, <2>1, <2>2, <2>3 DEF Watch
  <1>6. CASE User
    <2>1. ASSUME NEW n \in Nodes, FuseRead(n)
          PROVE  FALSE
      BY <2>1, ReadAlone
    <2>2. ASSUME NEW dir \in Nodes \cup {None}, NEW name \in NewNames,
                 FuseCreate(dir, name) \/ FuseMkdir(dir, name)
          PROVE  UserInv' /\ FileStep(disk, disk')
      <3>1. name \in Names /\ Ordinary(name)
        BY NotRequested
      <3>2. /\ Shows(create_vjournal_entry(name), name, FALSE)
            /\ create_vjournal_entry(name).parents = <<>>
            /\ Shows(create_vjournal_directory(name), name, TRUE)
            /\ create_vjournal_directory(name).parents = <<>>
        BY <3>1, NewShows
      <3>3. CASE FuseCreate(dir, name)
        BY <3>2, <3>3, CreateAlone DEF FuseCreate
      <3>4. CASE FuseMkdir(dir, name)
        BY <3>2, <3>4, CreateAlone DEF FuseMkdir
      <3> QED
        BY <2>2, <3>3, <3>4
    <2>3. ASSUME NEW n \in Uids, FuseWrite(n)
          PROVE  UserInv' /\ FileStep(disk, disk')
      <3>1. n \notin torn
        BY <2>3, InUse DEF FuseWrite, Started, Shown
      <3> QED
        BY <1>1, <1>2, <2>3, <3>1, NothingShown DEF FuseWrite
    <2>4. ASSUME NEW n \in Uids, FuseUnlink(n) \/ FuseRmdir(n)
          PROVE  UserInv' /\ FileStep(disk, disk')
      <3>1. /\ proc = "mounted" /\ n \in Shown /\ DeleteEntry(n)
            /\ ~node_has_children(tree, n)
        BY <2>4 DEF FuseUnlink, FuseRmdir, node_is_directory
      <3> QED
        BY <1>1, <3>1, DeleteAlone
    <2>5. ASSUME NEW n \in Uids, NEW dir \in Nodes, NEW name \in NewNames,
                 FuseRename(n, dir, name)
          PROVE  UserInv' /\ FileStep(disk, disk')
      BY <1>1, <2>5, RenameAlone
    <2>6. CASE LoadScan
      BY <1>1, <2>6, ScanAlone DEF FileStep
    <2>7. CASE Terminate
      BY <1>1, <2>7, TerminateAlone
    <2>8. ASSUME NEW dir \in Nodes, NEW name \in NewNames,
                 FuseRename_unresolved(dir, name)
          PROVE  FALSE
      BY <2>8, NotRequested DEF FuseRename_unresolved
    <2> QED
      BY <1>6, <2>1, <2>2, <2>3, <2>4, <2>5, <2>6, <2>7, <2>8 DEF User
  <1>7. CASE Others
    BY <1>7, NotRequested DEF Others, SyncWrite, SyncRename, SyncCreate, SyncCut,
         SyncDelete, Request
  <1> QED
    BY <1>3, <1>4, <1>5, <1>6, <1>7 DEF Next

\* The invariant holds in every reachable state.
LEMMA UserInvariance ==
  ASSUME UsersAlone
  PROVE  Spec => []UserInv
  <1>1. Init => UserInv
    BY InitUser
  <1>2. UserInv /\ [Next]_vars => UserInv'
    BY NextUser
  <1> QED
    BY <1>1, <1>2, PTL DEF Spec

\* As long as users are alone, no assertion of the daemon fails and no NULL is
\* followed, for any number of notes, requests and restarts.
THEOREM NoAssertionFails ==
  ASSUME UsersAlone
  PROVE  Spec => []NeverAborts
  <1>1. UserInv => NeverAborts
    BY DEF UserInv, NeverAborts
  <1> QED
    BY <1>1, UserInvariance, PTL

\* The tree that the handlers have built is the one that loading the vdir
\* afresh would give: killing the daemon between two handlers, or while it is
\* loading, loses nothing.
THEOREM ReloadFindsTheSame ==
  ASSUME UsersAlone
  PROVE  Spec => []TreeIsReload
  <1>1. ASSUME UserInv, Started
        PROVE  /\ tree.live = {u \in Uids : Loadable(disk[u])}
               /\ \A u \in tree.live :
                    /\ tree.name[u] = entry_filename(disk[u])
                    /\ tree.parent[u] = WantedParent(disk[u])
                    /\ node_has_children(tree, u) => disk[u].isdir
    <2>1. /\ Good(tree) /\ disk \in Disks /\ Orderly(disk)
          /\ Matches(tree, disk, {})
          /\ Attached(tree) = Files(disk) \cup {Root}
      BY <1>1, InUse
    <2>2. Files(disk) = {u \in Uids : Loadable(disk[u])}
      BY <2>1 DEF Orderly, ProperFiles, Loadable, Files
    <2>3. ASSUME NEW u \in Files(disk), node_has_children(tree, u)
          PROVE  disk[u].isdir
      <3>1. IsDir(disk, u)
        BY <2>1, <2>3, MatchesShown
      <3> QED
        BY <3>1, NodeAssumption DEF IsDir, Files
    <2> QED
      BY <2>1, <2>2, <2>3 DEF Matches
  <1>2. UserInv => TreeIsReload
    BY <1>1 DEF TreeIsReload
  <1> QED
    BY <1>2, UserInvariance, PTL

\* No note that can be reached has lost its file.
THEOREM ShownNotesHaveFiles ==
  ASSUME UsersAlone
  PROVE  Spec => []ShownHaveFiles
  <1>1. ASSUME UserInv
        PROVE  ShownHaveFiles
    <2>1. CASE proc = "down"
      <3>1. Shown = {}
        BY <1>1, <2>1, InvGood, AttachedLive DEF UserInv, Shown
      <3> QED
        BY <3>1 DEF ShownHaveFiles
    <2>2. CASE proc # "down"
      <3>1. Good(tree) /\ tree.live = Files(disk)
        BY <1>1, <2>2, InvGood DEF UserInv, Matches
      <3>2. Shown \subseteq Files(disk)
        BY <3>1, AttachedLive DEF Shown
      <3> QED
        BY <3>2 DEF ShownHaveFiles, Exists, Parses, Files
    <2> QED
      BY <2>1, <2>2
  <1>2. UserInv => ShownHaveFiles
    BY <1>1
  <1> QED
    BY <1>2, UserInvariance, PTL

\* Every note of the vdir can be reached from the mount point.
THEOREM NoNoteIsLost ==
  ASSUME UsersAlone
  PROVE  Spec => []EntriesShown
  <1>1. ASSUME UserInv, proc = "mounted", NEW u \in Uids, Loadable(disk[u])
        PROVE  u \in Shown
    <2>1. Attached(tree) = Files(disk) \cup {Root}
      BY <1>1, InUse DEF Started
    <2> QED
      BY <1>1, <2>1, NodeAssumption DEF Loadable, Files, Shown
  <1>2. UserInv => EntriesShown
    BY <1>1 DEF EntriesShown
  <1> QED
    BY <1>2, UserInvariance, PTL

\* Handling the events of the daemon's own writes leaves every name, every
\* place and every file of the vdir as it is.
THEOREM OwnEventsChangeNothing ==
  ASSUME UsersAlone
  PROVE  Spec => OwnEventsInvisible
  <1>1. ASSUME UserInv, NEW u \in Uids, HandleChanged(u) \/ HandleDeleted(u)
        PROVE  /\ tree'.name = tree.name /\ tree'.parent = tree.parent
               /\ disk' = disk
    BY <1>1, ChangedAlone, DeletedAlone
  <1>2. UserInv /\ [Next]_vars =>
          [(\E u \in Uids : HandleChanged(u) \/ HandleDeleted(u)) =>
             /\ tree'.name = tree.name
             /\ tree'.parent = tree.parent
             /\ disk' = disk]_vars
    BY <1>1
  <1> QED
    BY <1>2, UserInvariance, PTL DEF OwnEventsInvisible, Spec

-----------------------------------------------------------------------------
(* An ordinary tree of directories and files *)

EntryOf(c) ==
  [dir |-> WantedParent(c), name |-> entry_filename(c), isdir |-> c.isdir]

\* The entries that the files of a vdir describe.
FileEntries(D) ==
  [u \in Uids |-> IF D[u] # NoFile THEN EntryOf(D[u]) ELSE None]

\* What there is to know of them.
LEMMA EntriesOfFiles ==
  ASSUME NEW D \in Disks, Orderly(D)
  PROVE  /\ Directory!Entries(FileEntries(D)) = Files(D)
         /\ \A u \in Files(D) : FileEntries(D)[u] = EntryOf(D[u])
         /\ \A u \in Files(D) :
              /\ FileEntries(D)[u].dir = WantedParent(D[u])
              /\ FileEntries(D)[u].name = entry_filename(D[u])
              /\ FileEntries(D)[u].isdir = D[u].isdir
         /\ \A u \in Uids \ Files(D) : FileEntries(D)[u] = None
         /\ \A dir : Directory!Below(FileEntries(D), dir)
                       = {u \in Files(D) : WantedParent(D[u]) = dir}
         /\ \A dir, name :
              Directory!At(FileEntries(D), dir, name)
                = {u \in Files(D) : /\ WantedParent(D[u]) = dir
                                    /\ entry_filename(D[u]) = name}
         /\ \A dir : Directory!IsDirectory(FileEntries(D), dir) <=> IsDir(D, dir)
  <1> DEFINE e == FileEntries(D)
  <1>1. ASSUME NEW u \in Files(D)
        PROVE  /\ u \in Uids /\ e[u] = EntryOf(D[u]) /\ e[u] # None
               /\ e[u].dir = WantedParent(D[u])
               /\ e[u].name = entry_filename(D[u])
               /\ e[u].isdir = D[u].isdir
    <2>1. u \in Uids /\ D[u] \in Component /\ e[u] = EntryOf(D[u])
      BY DEF Files, Disks, FileEntries
    <2>2. WantedParent(D[u]) \in Nodes /\ entry_filename(D[u]) \in Names
          /\ D[u].isdir \in BOOLEAN
      BY <2>1, OrderlyParent, ComponentEntry DEF Component
    <2>3. EntryOf(D[u]) \in [dir : Nodes, name : Names, isdir : BOOLEAN]
      BY <2>2 DEF EntryOf
    <2>4. e[u] # None
      BY <2>1, <2>3, NoEntryAssumption
    <2> HIDE DEF e
    <2> QED
      BY <2>1, <2>4 DEF EntryOf
  <1>2. \A u \in Uids \ Files(D) : e[u] = None
    BY DEF FileEntries, Files
  <1>3. Files(D) \subseteq Uids
    BY DEF Files
  <1> HIDE DEF e
  <1>4. Directory!Entries(e) = Files(D)
    BY <1>1, <1>2, <1>3 DEF Directory!Entries
  <1>5. ASSUME NEW dir
        PROVE  Directory!Below(e, dir)
                 = {u \in Files(D) : WantedParent(D[u]) = dir}
    BY <1>1, <1>4 DEF Directory!Below
  <1>6. ASSUME NEW dir, NEW name
        PROVE  Directory!At(e, dir, name)
                 = {u \in Files(D) : /\ WantedParent(D[u]) = dir
                                     /\ entry_filename(D[u]) = name}
    BY <1>1, <1>5 DEF Directory!At
  <1>7. ASSUME NEW dir
        PROVE  Directory!IsDirectory(e, dir) <=> IsDir(D, dir)
    BY <1>1, <1>4 DEF Directory!IsDirectory, IsDir
  <1> QED
    BY <1>1, <1>2, <1>4, <1>5, <1>6, <1>7 DEF e

\* While nobody else writes, a user finds what the files describe.
LEMMA ShownEntries ==
  ASSUME UserInv
  PROVE  VisibleEntries = FileEntries(disk)
  <1>1. disk \in Disks /\ Orderly(disk)
    BY InvGood DEF UserInv, Disks
  <1>2. \A u \in Uids : Loadable(disk[u]) <=> disk[u] # NoFile
    BY <1>1 DEF Orderly, ProperFiles, Loadable, Files
  <1>3. CASE ~Started
    BY <1>2, <1>3 DEF VisibleEntries, FileEntries, EntryOf
  <1>4. CASE Started
    <2>1. /\ Attached(tree) = Files(disk) \cup {Root}
          /\ Matches(tree, disk, {})
          /\ \A n \in Attached(tree) :
               node_is_directory(tree, disk, n) <=> IsDir(disk, n)
      BY <1>4, InUse
    <2>2. Shown = Files(disk)
      BY <2>1, NodeAssumption DEF Shown, Files
    <2>3. ASSUME NEW u \in Files(disk)
          PROVE  [dir |-> tree.parent[u], name |-> tree.name[u],
                  isdir |-> node_is_directory(tree, disk, u)] = EntryOf(disk[u])
      <3>1. /\ tree.parent[u] = WantedParent(disk[u])
            /\ tree.name[u] = entry_filename(disk[u])
        BY <2>1 DEF Matches
      <3>2. u # Root /\ disk[u].isdir \in BOOLEAN
        BY <1>1, NodeAssumption DEF Files, Disks, Component
      <3>3. node_is_directory(tree, disk, u) <=> disk[u].isdir
        BY <2>1, <3>2 DEF IsDir
      <3>4. node_is_directory(tree, disk, u) = disk[u].isdir
        BY <3>2, <3>3 DEF node_is_directory
      <3> QED
        BY <3>1, <3>4 DEF EntryOf
    <2>4. \A u \in Uids : u \in Files(disk) <=> disk[u] # NoFile
      BY DEF Files
    <2> QED
      BY <1>4, <2>2, <2>3, <2>4 DEF VisibleEntries, FileEntries
  <1> QED
    BY <1>3, <1>4

\* The entries of an orderly vdir are a tree.
LEMMA OrderlyIsTree ==
  ASSUME NEW D \in Disks, Orderly(D)
  PROVE  Directory!IsTree(FileEntries(D))
  <1> DEFINE e == FileEntries(D)
  <1>1. /\ Directory!Entries(e) = Files(D)
        /\ \A u \in Files(D) :
             /\ e[u].dir = WantedParent(D[u])
             /\ e[u].name = entry_filename(D[u])
        /\ \A dir, name :
             Directory!At(e, dir, name)
               = {u \in Files(D) : /\ WantedParent(D[u]) = dir
                                   /\ entry_filename(D[u]) = name}
        /\ \A dir : Directory!IsDirectory(e, dir) <=> IsDir(D, dir)
    BY EntriesOfFiles
  <1> HIDE DEF e
  <1>2. ASSUME NEW u \in Files(D)
        PROVE  /\ Directory!IsDirectory(e, e[u].dir)
               /\ Directory!At(e, e[u].dir, e[u].name) = {u}
    <2>1. Directory!IsDirectory(e, e[u].dir)
      BY <1>1, OrderlyParent
    <2>2. \A v \in Files(D) :
            WantedParent(D[v]) = e[u].dir /\ entry_filename(D[v]) = e[u].name
              => v = u
      BY <1>1 DEF Orderly, DistinctNames
    <2> QED
      BY <1>1, <2>1, <2>2
  <1>3. ASSUME NEW S \in SUBSET (Uids \cup {Root}), Root \in S,
               \A u \in Files(D) : e[u].dir \in S => u \in S
        PROVE  Files(D) \subseteq S
    <2>1. ClosedDownward(D, S)
      BY <1>1, <1>3 DEF ClosedDownward
    <2> QED
      BY <1>3, <2>1 DEF Orderly, Rooted, Nodes
  <1> QED
    BY <1>1, <1>2, <1>3 DEF Directory!IsTree, e

\* The entry of a component that shows `name` below dir.
LEMMA ShownEntry ==
  ASSUME NEW c, NEW name, NEW isdir, NEW dir \in Nodes,
         Shows(c, name, isdir), Under(c, dir)
  PROVE  /\ EntryOf(c) = [dir |-> dir, name |-> name, isdir |-> isdir]
         /\ c # NoFile
  BY UnderParent, NoFileAssumption DEF Shows, EntryOf

\* An entry moved keeps what it is.
LEMMA EntryMoved ==
  ASSUME NEW c, NEW dir, NEW name
  PROVE  [EntryOf(c) EXCEPT !.dir = dir, !.name = name]
           = [dir |-> dir, name |-> name, isdir |-> c.isdir]
  <1> DEFINE e == EntryOf(c)
             m == [e EXCEPT !.dir = dir, !.name = name]
  <1>1. /\ e = [x \in {"dir", "name", "isdir"} |-> e[x]]
        /\ DOMAIN e = {"dir", "name", "isdir"}
        /\ e.isdir = c.isdir
    BY DEF EntryOf
  <1> HIDE DEF e
  <1>2. /\ DOMAIN m = {"dir", "name", "isdir"}
        /\ m = [x \in {"dir", "name", "isdir"} |-> m[x]]
        /\ m.dir = dir /\ m.name = name /\ m.isdir = c.isdir
    BY <1>1
  <1> HIDE DEF m
  <1>3. m = [dir |-> dir, name |-> name, isdir |-> c.isdir]
    BY <1>2
  <1> QED
    BY <1>3 DEF m, e

\* A new file is a new entry.
LEMMA MadeIsMake ==
  ASSUME NEW D \in Disks, Orderly(D), NEW E, NEW u, NEW dir \in Nodes,
         NEW name, NEW isdir, NEW c, FileMade(D, E, u, dir, name, isdir, c)
  PROVE  Directory!Make(FileEntries(D), FileEntries(E), u, dir, name, isdir)
  <1> DEFINE e == FileEntries(D)
             f == FileEntries(E)
  <1>1. /\ u \in Uids /\ u \notin Files(D) /\ E = [D EXCEPT ![u] = c]
        /\ IsDir(D, dir) /\ FreeIn(D, dir, name, u)
        /\ EntryOf(c) = [dir |-> dir, name |-> name, isdir |-> isdir]
        /\ c # NoFile
    BY ShownEntry DEF FileMade
  <1>2. /\ Directory!Entries(e) = Files(D)
        /\ Directory!IsDirectory(e, dir)
        /\ Directory!At(e, dir, name)
             = {v \in Files(D) : /\ WantedParent(D[v]) = dir
                                 /\ entry_filename(D[v]) = name}
    BY <1>1, EntriesOfFiles
  <1>3. Directory!At(e, dir, name) = {}
    BY <1>1, <1>2 DEF FreeIn
  <1>4. f = [e EXCEPT ![u] = EntryOf(c)]
    BY <1>1 DEF FileEntries, Disks
  <1> HIDE DEF e, f
  <1>5. f = [e EXCEPT ![u] = [dir |-> dir, name |-> name, isdir |-> isdir]]
    BY <1>1, <1>4
  <1>6. Directory!Make(e, f, u, dir, name, isdir)
    BY <1>1, <1>2, <1>3, <1>5 DEF Directory!Make
  <1> QED
    BY <1>6 DEF e, f

\* A file that goes is an entry that goes.
LEMMA DeletedIsDelete ==
  ASSUME NEW D \in Disks, Orderly(D), NEW E, NEW n, FileDeleted(D, E, n)
  PROVE  Directory!Delete(FileEntries(D), FileEntries(E), n)
  <1> DEFINE e == FileEntries(D)
             f == FileEntries(E)
  <1>1. /\ n \in Files(D) /\ n \in Uids /\ E = [D EXCEPT ![n] = NoFile]
        /\ \A v \in Files(D) : WantedParent(D[v]) # n
    BY DEF FileDeleted, Files
  <1>2. /\ Directory!Entries(e) = Files(D)
        /\ Directory!Below(e, n) = {v \in Files(D) : WantedParent(D[v]) = n}
    BY EntriesOfFiles
  <1>3. Directory!Below(e, n) = {}
    BY <1>1, <1>2
  <1>4. f = [e EXCEPT ![n] = None]
    BY <1>1 DEF FileEntries, Disks
  <1> HIDE DEF e, f
  <1>5. Directory!Delete(e, f, n)
    BY <1>1, <1>2, <1>3, <1>4 DEF Directory!Delete
  <1> QED
    BY <1>5 DEF e, f

\* What is not below n is not in a directory that is.
LEMMA NotAbove ==
  ASSUME NEW D \in Disks, Orderly(D), NEW n \in Files(D), NEW dir \in Nodes,
         IsDir(D, dir), dir # Root,
         \E B \in SUBSET Nodes : n \in B /\ dir \notin B /\ ClosedDownward(D, B)
  PROVE  n \notin Directory!Above(FileEntries(D), dir)
  <1> DEFINE e == FileEntries(D)
  <1>1. PICK B \in SUBSET Nodes :
          n \in B /\ dir \notin B /\ ClosedDownward(D, B)
    OBVIOUS
  <1>2. /\ Directory!Entries(e) = Files(D)
        /\ \A v \in Files(D) : e[v].dir = WantedParent(D[v])
    BY EntriesOfFiles
  <1> HIDE DEF e
  <1> DEFINE S == Files(D) \ B
  <1>3. S \in SUBSET Files(D) /\ dir \in S /\ n \notin S
    BY <1>1 DEF IsDir
  <1>4. ASSUME NEW v \in S
        PROVE  e[v].dir \in S \cup {Root}
    <2>1. WantedParent(D[v]) \in Files(D) \cup {Root}
      BY OrderlyParent DEF IsDir
    <2>2. WantedParent(D[v]) \notin B
      BY <1>1 DEF ClosedDownward
    <2> QED
      BY <1>2, <2>1, <2>2
  <1> HIDE DEF S
  <1>5. n \notin Directory!Above(e, dir)
    BY <1>2, <1>3, <1>4 DEF Directory!Above
  <1> QED
    BY <1>5 DEF e

\* A file that is moved is an entry that is moved, if it is moved at all.
LEMMA MovedIsMove ==
  ASSUME NEW D \in Disks, Orderly(D), NEW E, NEW n, NEW dir \in Nodes,
         NEW name, NEW c, FileMoved(D, E, n, dir, name, c)
  PROVE  \/ FileEntries(E) = FileEntries(D)
         \/ Directory!Move(FileEntries(D), FileEntries(E), n, dir, name)
  <1> DEFINE e == FileEntries(D)
             f == FileEntries(E)
  <1>1. /\ n \in Files(D) /\ n \in Uids /\ E = [D EXCEPT ![n] = c]
        /\ IsDir(D, dir) /\ FreeIn(D, dir, name, n)
        /\ EntryOf(c) = [dir |-> dir, name |-> name, isdir |-> D[n].isdir]
        /\ c # NoFile
    BY ShownEntry DEF FileMoved, Files
  <1>2. /\ Directory!Entries(e) = Files(D)
        /\ Directory!IsDirectory(e, dir)
        /\ Directory!At(e, dir, name)
             = {v \in Files(D) : /\ WantedParent(D[v]) = dir
                                 /\ entry_filename(D[v]) = name}
        /\ e[n] = EntryOf(D[n])
    BY <1>1, EntriesOfFiles
  <1>3. /\ f = [e EXCEPT ![n] = EntryOf(c)]
        /\ e = [v \in Uids |-> e[v]]
    BY <1>1 DEF FileEntries, Disks
  <1>4. dir # Root => n \notin Directory!Above(e, dir)
    BY <1>1, NotAbove DEF FileMoved
  <1> HIDE DEF e, f
  <1>5. CASE n \in Directory!At(e, dir, name)
    <2>1. WantedParent(D[n]) = dir /\ entry_filename(D[n]) = name
      BY <1>2, <1>5
    <2>2. e[n] = EntryOf(c)
      BY <1>1, <1>2, <2>1 DEF EntryOf
    <2>3. f = e
      BY <1>1, <1>3, <2>2
    <2> QED
      BY <2>3 DEF e, f
  <1>6. CASE n \notin Directory!At(e, dir, name)
    <2>1. Directory!At(e, dir, name) = {}
      BY <1>1, <1>2, <1>6 DEF FreeIn
    <2>2. [e[n] EXCEPT !.dir = dir, !.name = name] = EntryOf(c)
      <3>1. [EntryOf(D[n]) EXCEPT !.dir = dir, !.name = name]
              = [dir |-> dir, name |-> name, isdir |-> D[n].isdir]
        BY EntryMoved
      <3> QED
        BY <3>1, <1>1, <1>2
    <2>3. f = [v \in Uids |->
                 IF v \in Directory!At(e, dir, name) THEN None
                 ELSE IF v = n THEN [e[n] EXCEPT !.dir = dir, !.name = name]
                 ELSE e[v]]
      BY <1>1, <1>3, <2>1, <2>2
    <2>4. Directory!Move(e, f, n, dir, name)
      BY <1>1, <1>2, <1>4, <2>1, <2>3 DEF Directory!Move
    <2> QED
      BY <2>4 DEF e, f
  <1> QED
    BY <1>5, <1>6

\* One that takes the place of another is moved there as well.
LEMMA ReplacedIsMove ==
  ASSUME NEW D \in Disks, Orderly(D), NEW E, NEW n, NEW dir \in Nodes,
         NEW name, NEW t, NEW c, FileReplaced(D, E, n, dir, name, t, c)
  PROVE  Directory!Move(FileEntries(D), FileEntries(E), n, dir, name)
  <1> DEFINE e == FileEntries(D)
             f == FileEntries(E)
  <1>1. PICK F \in Disks :
          FileDeleted(D, F, t) /\ FileMoved(F, E, n, dir, name, c)
    BY DEF FileReplaced
  <1>2. /\ t \in Files(D) /\ t \in Uids /\ t # n
        /\ WantedParent(D[t]) = dir /\ entry_filename(D[t]) = name
        /\ D[t].isdir = D[n].isdir
        /\ F = [D EXCEPT ![t] = NoFile]
        /\ \A v \in Files(D) : WantedParent(D[v]) # t
    BY <1>1 DEF FileReplaced, FileDeleted, Files
  <1>3. /\ Files(F) = Files(D) \ {t}
        /\ \A v \in Files(F) : F[v] = D[v]
    BY <1>2 DEF Files, Disks
  <1>4. /\ n \in Files(D) /\ n \in Uids /\ E = [F EXCEPT ![n] = c]
        /\ IsDir(F, dir)
        /\ EntryOf(c) = [dir |-> dir, name |-> name, isdir |-> D[n].isdir]
        /\ c # NoFile
    BY <1>1, <1>3, ShownEntry DEF FileMoved, Files
  <1>5. IsDir(D, dir)
    BY <1>3, <1>4 DEF IsDir
  <1>6. dir # Root => n \notin Directory!Above(e, dir)
    <2>1. PICK B \in SUBSET Nodes :
            n \in B /\ dir \notin B /\ ClosedDownward(F, B)
      BY <1>1 DEF FileMoved
    <2>2. ClosedDownward(D, B)
      BY <1>2, <1>3, <2>1 DEF ClosedDownward
    <2> QED
      BY <1>4, <1>5, <2>1, <2>2, NotAbove
  <1>7. /\ Directory!Entries(e) = Files(D)
        /\ Directory!IsDirectory(e, dir)
        /\ Directory!At(e, dir, name)
             = {v \in Files(D) : /\ WantedParent(D[v]) = dir
                                 /\ entry_filename(D[v]) = name}
        /\ Directory!Below(e, t) = {v \in Files(D) : WantedParent(D[v]) = t}
        /\ e[n] = EntryOf(D[n])
        /\ e[n].isdir = D[n].isdir /\ e[t].isdir = D[t].isdir
    BY <1>2, <1>4, <1>5, EntriesOfFiles
  <1>8. /\ Directory!At(e, dir, name) = {t} /\ Directory!Below(e, t) = {}
    BY <1>2, <1>7 DEF Orderly, DistinctNames
  <1>9. f = [v \in Uids |-> IF v = t THEN None
                            ELSE IF v = n THEN EntryOf(c) ELSE e[v]]
    BY <1>2, <1>4 DEF FileEntries, Disks
  <1> HIDE DEF e, f
  <1>10. [e[n] EXCEPT !.dir = dir, !.name = name] = EntryOf(c)
    <2>1. [EntryOf(D[n]) EXCEPT !.dir = dir, !.name = name]
            = [dir |-> dir, name |-> name, isdir |-> D[n].isdir]
      BY EntryMoved
    <2> QED
      BY <2>1, <1>4, <1>7
  <1>11. f = [v \in Uids |->
                IF v \in Directory!At(e, dir, name) THEN None
                ELSE IF v = n THEN [e[n] EXCEPT !.dir = dir, !.name = name]
                ELSE e[v]]
    BY <1>8, <1>9, <1>10
  <1>12. Directory!Move(e, f, n, dir, name)
    BY <1>2, <1>4, <1>6, <1>7, <1>8, <1>11 DEF Directory!Move
  <1> QED
    BY <1>12 DEF e, f

\* "Edit these files like you would on a regular filesystem": whatever the
\* handlers, the events and the restarts do to files, components and nodes, a
\* user who is alone sees one step of an ordinary tree for each request.
THEOREM UsersSeeAFileSystem ==
  ASSUME UsersAlone
  PROVE  Spec => LikeAFileSystem
  <1>1. ASSUME UserInv
        PROVE  disk \in Disks /\ Orderly(disk)
    BY <1>1, InvGood DEF UserInv, Disks
  <1>2. UserInv => Directory!Init
    BY <1>1, OrderlyIsTree, ShownEntries DEF Directory!Init
  <1>3. UserInv => VisibleEntries = FileEntries(disk)
    BY ShownEntries
  <1>4. UserInv' => (VisibleEntries = FileEntries(disk))'
    BY <1>3, PTL
  <1>5. ASSUME UserInv, [Next]_vars
        PROVE  [Directory!Next]_VisibleEntries
    <2>1. UserInv' /\ FileStep(disk, disk')
      BY <1>5, NextUser
    <2> DEFINE e == FileEntries(disk)
               f == FileEntries(disk')
    <2>2. VisibleEntries = e
      BY <1>3, <1>5
    <2>3. VisibleEntries' = f
      BY <1>4, <2>1
    <2>4. disk \in Disks /\ Orderly(disk)
      BY <1>1, <1>5
    <2>5. e = f \/ Directory!Step(e, f)
      <3>1. CASE disk' = disk
        BY <3>1
      <3>2. ASSUME NEW u \in Uids, FileDeleted(disk, disk', u)
            PROVE  Directory!Step(e, f)
        BY <2>4, <3>2, DeletedIsDelete DEF Directory!Step
      <3>3. ASSUME NEW u \in Uids, NEW dir \in Nodes, NEW name \in NewNames,
                   NEW c \in Component, NEW isdir \in BOOLEAN,
                   FileMade(disk, disk', u, dir, name, isdir, c)
            PROVE  Directory!Step(e, f)
        <4>1. Directory!Make(e, f, u, dir, name, isdir)
          BY <2>4, <3>3, MadeIsMake
        <4> HIDE DEF e, f
        <4> QED
          BY <4>1 DEF Directory!Step, Nodes
      <3>4. ASSUME NEW u \in Uids, NEW dir \in Nodes, NEW name \in NewNames,
                   Directory!Move(e, f, u, dir, name)
            PROVE  Directory!Step(e, f)
        <4> HIDE DEF e, f
        <4> QED
          BY <3>4 DEF Directory!Step, Nodes
      <3>5. ASSUME NEW u \in Uids, NEW dir \in Nodes, NEW name \in NewNames,
                   NEW c \in Component, FileMoved(disk, disk', u, dir, name, c)
            PROVE  e = f \/ Directory!Step(e, f)
        BY <2>4, <3>4, <3>5, MovedIsMove
      <3>6. ASSUME NEW u \in Uids, NEW dir \in Nodes, NEW name \in NewNames,
                   NEW c \in Component, NEW t \in Uids,
                   FileReplaced(disk, disk', u, dir, name, t, c)
            PROVE  Directory!Step(e, f)
        BY <2>4, <3>4, <3>6, ReplacedIsMove
      <3> HIDE DEF e, f
      <3> QED
        BY <2>1, <3>1, <3>2, <3>3, <3>5, <3>6 DEF FileStep
    <2> HIDE DEF e, f
    <2> QED
      BY <2>2, <2>3, <2>5 DEF Directory!Next
  <1> QED
    BY <1>2, <1>5, UserInvariance, PTL
       DEF Spec, LikeAFileSystem, Directory!Spec

-----------------------------------------------------------------------------
(* The files when a sync tool writes beside the users *)

\* Every note is somewhere below the mount point and has a summary.
Tidy(D) == Rooted(D) /\ \A u \in Files(D) : D[u].summary # <<>>

\* p is there and not below u.
NotBelow(D, u, p) ==
  \/ p = Root
  \/ /\ p \in Files(D)
     /\ \E B \in SUBSET Nodes : u \in B /\ p \notin B /\ ClosedDownward(D, B)

\* The file of u is written.
Written(D, E, u, c) ==
  /\ u \in Uids /\ c \in Component /\ c.summary # <<>>
  /\ NotBelow(D, u, WantedParent(c))
  /\ E = [D EXCEPT ![u] = c]

\* A file is marked as a directory, or none is.
Marked(D, E) ==
  \/ E = D
  \/ \E p \in Files(D) : E = [D EXCEPT ![p] = icalcomponent_mark_as_directory(@)]

\* The parent of a note is there.
LEMMA TidyParent ==
  ASSUME NEW D \in Disks, Tidy(D), NEW u \in Files(D)
  PROVE  WantedParent(D[u]) \in Files(D) \cup {Root}
  <1> DEFINE S == {Root} \cup {v \in Files(D) :
                                 WantedParent(D[v]) \in Files(D) \cup {Root}}
  <1>1. S \in SUBSET Nodes /\ Root \in S
    BY DEF Files, Nodes
  <1>2. ClosedDownward(D, S)
    BY DEF ClosedDownward
  <1>3. Files(D) \subseteq S
    BY <1>1, <1>2 DEF Tidy, Rooted
  <1>4. u # Root
    BY NodeAssumption DEF Files
  <1> QED
    BY <1>3, <1>4

\* Writing a file leaves the vdir tidy when its parent is not below it.
LEMMA WrittenTidy ==
  ASSUME NEW D \in Disks, Tidy(D), NEW E, NEW u, NEW c, Written(D, E, u, c)
  PROVE  /\ E \in Disks /\ Tidy(E)
         /\ Files(E) = Files(D) \cup {u} /\ E[u] = c
         /\ \A v \in Files(D) : v # u => E[v] = D[v]
  <1>1. /\ u \in Uids /\ c \in Component /\ c # NoFile /\ c.summary # <<>>
        /\ NotBelow(D, u, WantedParent(c))
        /\ E = [D EXCEPT ![u] = c]
    BY NoFileAssumption DEF Written
  <1>2. /\ E \in Disks /\ E[u] = c
        /\ Files(E) = Files(D) \cup {u}
        /\ \A v \in Files(D) : v # u => E[v] = D[v]
    BY <1>1 DEF Disks, Files
  <1>3. Rooted(E)
    <2> SUFFICES ASSUME NEW S \in SUBSET Nodes, Root \in S, ClosedDownward(E, S)
                 PROVE  Files(E) \subseteq S
      BY DEF Rooted
    <2>1. ASSUME u \in S
          PROVE  Files(E) \subseteq S
      <3>1. ClosedDownward(D, S)
        BY <1>2, <2>1 DEF ClosedDownward
      <3> QED
        BY <1>2, <2>1, <3>1 DEF Tidy, Rooted
    <2>2. CASE WantedParent(c) = Root
      <3>1. u \in S
        BY <1>2, <2>2 DEF ClosedDownward
      <3> QED
        BY <2>1, <3>1
    \* If u were outside, its parent would be, and so below u.
    <2>3. CASE WantedParent(c) # Root /\ u \notin S
      <3>1. WantedParent(c) \in Files(D)
        BY <1>1, <2>3 DEF NotBelow
      <3>2. PICK B \in SUBSET Nodes :
              u \in B /\ WantedParent(c) \notin B /\ ClosedDownward(D, B)
        BY <1>1, <2>3 DEF NotBelow
      <3>3. S \cup B \in SUBSET Nodes
        OBVIOUS
      <3>4. ClosedDownward(D, S \cup B)
        <4> SUFFICES ASSUME NEW v \in Files(D), WantedParent(D[v]) \in S \cup B
                     PROVE  v \in S \cup B
          BY DEF ClosedDownward
        <4>1. CASE WantedParent(D[v]) \in B
          BY <3>2, <4>1 DEF ClosedDownward
        <4>2. CASE WantedParent(D[v]) \in S /\ v # u
          <5>1. E[v] = D[v] /\ v \in Files(E)
            BY <1>2, <4>2
          <5> QED
            BY <4>2, <5>1 DEF ClosedDownward
        <4> QED
          BY <3>2, <4>1, <4>2
      <3>5. Files(D) \subseteq S \cup B
        BY <3>3, <3>4 DEF Tidy, Rooted
      <3>6. WantedParent(c) \in S
        BY <3>1, <3>2, <3>5
      <3>7. u \in S
        BY <1>2, <3>6 DEF ClosedDownward
      <3> QED
        BY <2>3, <3>7
    <2> QED
      BY <2>1, <2>2, <2>3
  <1> QED
    BY <1>1, <1>2, <1>3 DEF Tidy

\* A directory keeps its parent and, with it, the name it had as a file.
LEMMA MarkedComponent ==
  ASSUME NEW c \in Component
  PROVE  LET d == icalcomponent_mark_as_directory(c)
         IN  /\ d \in Component
             /\ WantedParent(d) = WantedParent(c)
             /\ d.summary = c.summary
             /\ PlainNames(c) \subseteq PlainNames(d)
  <1> DEFINE d == icalcomponent_mark_as_directory(c)
             file == [c EXCEPT !.isdir = FALSE]
  <1>1. /\ d \in Component /\ d.summary = c.summary /\ d.parents = c.parents
        /\ d.isdir = TRUE /\ d.ext = c.ext
        /\ [d EXCEPT !.isdir = FALSE] = file
    BY DEF icalcomponent_mark_as_directory, Component
  <1>2. WantedParent(d) = WantedParent(c)
    BY <1>1 DEF WantedParent
  <1>3. entry_filename(c) \in {entry_filename(d), entry_filename(file)}
    <2>1. CASE c.isdir
      <3>1. entry_filename(c) = entry_filename(d)
        BY <1>1, <2>1 DEF entry_filename
      <3> QED
        BY <3>1
    <2>2. CASE ~c.isdir
      <3>1. file = c
        BY <2>2 DEF Component
      <3> QED
        BY <3>1
    <2> QED
      BY <2>1, <2>2
  <1> QED
    BY <1>1, <1>2, <1>3 DEF PlainNames

\* Marking a directory leaves the vdir tidy and every note its names.
LEMMA MarkedTidy ==
  ASSUME NEW D \in Disks, Tidy(D), NEW E, Marked(D, E)
  PROVE  /\ E \in Disks /\ Tidy(E) /\ Files(E) = Files(D)
         /\ \A v \in Files(D) : /\ WantedParent(E[v]) = WantedParent(D[v])
                                /\ PlainNames(D[v]) \subseteq PlainNames(E[v])
  <1>1. CASE E = D
    BY <1>1
  <1>2. ASSUME NEW p \in Files(D),
               E = [D EXCEPT ![p] = icalcomponent_mark_as_directory(@)]
        PROVE  /\ E \in Disks /\ Tidy(E) /\ Files(E) = Files(D)
               /\ \A v \in Files(D) :
                    /\ WantedParent(E[v]) = WantedParent(D[v])
                    /\ PlainNames(D[v]) \subseteq PlainNames(E[v])
    <2> DEFINE d == icalcomponent_mark_as_directory(D[p])
    <2>1. p \in Uids /\ D[p] \in Component
      BY DEF Files, Disks
    <2>2. /\ d \in Component /\ d.summary = D[p].summary
          /\ WantedParent(d) = WantedParent(D[p])
          /\ PlainNames(D[p]) \subseteq PlainNames(d)
      BY <2>1, MarkedComponent
    <2>3. E = [D EXCEPT ![p] = d]
      BY <1>2
    <2> HIDE DEF d
    <2>4. /\ E \in Disks /\ Files(E) = Files(D) /\ E[p] = d
          /\ \A v \in Files(D) : v # p => E[v] = D[v]
      BY <2>1, <2>2, <2>3, NoFileAssumption DEF Files, Disks
    <2>5. \A v \in Files(D) : /\ WantedParent(E[v]) = WantedParent(D[v])
                              /\ PlainNames(D[v]) \subseteq PlainNames(E[v])
                              /\ E[v].summary = D[v].summary
      BY <2>2, <2>4
    <2>6. Rooted(E)
      <3> SUFFICES ASSUME NEW S \in SUBSET Nodes, Root \in S,
                          ClosedDownward(E, S)
                   PROVE  Files(E) \subseteq S
        BY DEF Rooted
      <3>1. ClosedDownward(D, S)
        BY <2>4, <2>5 DEF ClosedDownward
      <3> QED
        BY <2>4, <3>1 DEF Tidy, Rooted
    <2>7. Tidy(E)
      BY <2>4, <2>5, <2>6 DEF Tidy
    <2> QED
      BY <2>4, <2>5, <2>7
  <1> QED
    BY <1>1, <1>2 DEF Marked


-----------------------------------------------------------------------------
(* The events of the notes *)

\* The kernel has told the daemon of u, which has not looked yet.
Waiting(q, u) == \E i \in 1 .. Len(q) : q[i] = Modified(u)

\* The events of two notes differ, and a deletion is none of the others.
LEMMA EventsDiffer ==
  ASSUME NEW u, NEW v
  PROVE  /\ Modified(u) = Modified(v) => u = v
         /\ Created(u) # Modified(v)
         /\ Deleted(u) # Modified(v)
  <1>1. /\ Modified(u).file = u /\ Modified(v).file = v
        /\ Modified(v).kind = "modified"
    BY DEF Modified
  <1>2. Created(u).kind = "created" /\ Deleted(u).kind = "deleted"
    BY DEF Created, Deleted
  <1> HIDE DEF Created, Modified, Deleted
  <1>3. "created" # "modified" /\ "deleted" # "modified"
    OBVIOUS
  <1> QED
    BY <1>1, <1>2, <1>3

\* One more event loses none.
LEMMA AppendKeeps ==
  ASSUME NEW q \in Seq(Event), NEW e \in Event, NEW u, Waiting(q, u)
  PROVE  Waiting(Append(q, e), u)
  <1>1. PICK i \in 1 .. Len(q) : q[i] = Modified(u)
    BY DEF Waiting
  <1>2. /\ Len(Append(q, e)) = Len(q) + 1 /\ Len(q) \in Nat
        /\ \A j \in 1 .. Len(q) : Append(q, e)[j] = q[j]
    BY AppendProperties, LenProperties
  <1>3. i \in 1 .. Len(Append(q, e)) /\ Append(q, e)[i] = Modified(u)
    BY <1>1, <1>2
  <1> QED
    BY <1>3 DEF Waiting

LEMMA NotifyKeeps ==
  ASSUME NEW Q \in SUBSET Seq(Event), NEW e \in Event, NEW u,
         \A q \in Q : Waiting(q, u)
  PROVE  \A q \in notify(Q, e) : Waiting(q, u)
  <1>1. \A q \in Q : Waiting(q, u) /\ Waiting(Append(q, e), u)
    BY AppendKeeps
  <1>2. \A r \in notify(Q, e) : \E q \in Q : r \in {q, Append(q, e)}
    BY Zenon DEF notify
  <1> QED
    BY <1>1, <1>2

\* Nor do the events of a file that is written.
LEMMA WriteKeeps ==
  ASSUME NEW q \in Seq(Event), NEW u \in Uids, NEW v, Waiting(q, v)
  PROVE  /\ \A r \in created({q}, u) : Waiting(r, v)
         /\ \A r \in modified({q}, u) : Waiting(r, v)
         /\ \A r \in notify({q}, Created(u)) : Waiting(r, v)
         /\ \A r \in notify({q}, Modified(u)) : Waiting(r, v)
  <1>1. /\ {q} \in SUBSET Seq(Event) /\ \A r \in {q} : Waiting(r, v)
        /\ Created(u) \in Event /\ Modified(u) \in Event
    BY Events
  <1>2. /\ notify({q}, Created(u)) \in SUBSET Seq(Event)
        /\ notify({q}, Modified(u)) \in SUBSET Seq(Event)
    BY <1>1, NotifyFile
  <1>3. /\ \A r \in notify({q}, Created(u)) : Waiting(r, v)
        /\ \A r \in notify({q}, Modified(u)) : Waiting(r, v)
    BY <1>1, NotifyKeeps
  <1>4. \A r \in created({q}, u) : Waiting(r, v)
    BY <1>1, <1>2, <1>3, NotifyKeeps DEF created
  <1>5. \A r \in modified({q}, u) : Waiting(r, v)
    BY <1>1, <1>2, <1>3, NotifyKeeps DEF modified
  <1> QED
    BY <1>3, <1>4, <1>5

\* An event is queued when there is room for it, or is there already.
LEMMA NotifyAdds ==
  ASSUME NEW q \in Seq(Event), NEW u \in Uids, watcher = "watching",
         Len(q) < QueueLimit
  PROVE  \A r \in notify({q}, Modified(u)) : Waiting(r, u)
  <1> DEFINE e == Modified(u)
  <1>1. e \in Event /\ Len(q) \in Nat /\ QueueLimit \in Nat
    BY Events, LenProperties, AgendaFSAssumption
  <1>2. ~(Len(q) >= QueueLimit)
    BY <1>1
  <1> HIDE DEF e
  <1>3. Waiting(Append(q, e), u)
    <2>1. /\ Len(Append(q, e)) = Len(q) + 1
          /\ Append(q, e)[Len(q) + 1] = e
      BY <1>1, AppendProperties
    <2>2. Len(q) + 1 \in 1 .. Len(Append(q, e))
      BY <1>1, <2>1
    <2> QED
      BY <2>1, <2>2 DEF Waiting, e
  <1>4. q # <<>> /\ q[Len(q)] = e => Waiting(q, u)
    <2>1. q # <<>> => Len(q) \in 1 .. Len(q)
      BY <1>1
    <2> QED
      BY <2>1 DEF Waiting, e
  <1>5. \A r \in notify({q}, e) :
          r = Append(q, e) \/ (r = q /\ q # <<>> /\ q[Len(q)] = e)
    BY <1>2 DEF notify
  <1> QED
    BY <1>3, <1>4, <1>5 DEF e

\* Handling one event loses no other.
LEMMA TailKeeps ==
  ASSUME NEW q \in Seq(Event), q # <<>>, NEW u, Head(q) # Modified(u),
         Waiting(q, u)
  PROVE  Waiting(Tail(q), u)
  <1>1. PICK i \in 1 .. Len(q) : q[i] = Modified(u)
    BY DEF Waiting
  <1>2. /\ Len(q) \in Nat /\ Head(q) = q[1]
        /\ Len(Tail(q)) = Len(q) - 1
        /\ \A j \in 1 .. Len(q) - 1 : Tail(q)[j] = q[j + 1]
    BY HeadTailProperties, LenProperties
  <1>3. i # 1
    BY <1>1, <1>2
  <1>4. i - 1 \in 1 .. Len(q) - 1 /\ (i - 1) + 1 = i
    BY <1>1, <1>2, <1>3
  <1>5. i - 1 \in 1 .. Len(Tail(q)) /\ Tail(q)[i - 1] = Modified(u)
    BY <1>1, <1>2, <1>4
  <1> QED
    BY <1>5 DEF Waiting

-----------------------------------------------------------------------------
(* What the tree shows of the files while events wait *)

\* The daemon has placed u, or is about to: its name is the one its file asks
\* for, or a numbered one.
Settled(T, D, P, u) ==
  /\ u \in T.live
  /\ \/ u \in P /\ T.name[u] \in PlainNames(D[u])
     \/ T.parent[u] = WantedParent(D[u]) /\ T.name[u] \in NamesFor(D[u])

\* A note stays settled when its node and its parent stay as they are.
LEMMA StaysSettled ==
  ASSUME NEW T, NEW D, NEW P, NEW u, Settled(T, D, P, u), NEW T2, NEW E, NEW P2,
         u \in T2.live, T2.name[u] = T.name[u], T2.parent[u] = T.parent[u],
         u \in P => u \in P2,
         WantedParent(E[u]) = WantedParent(D[u]),
         PlainNames(D[u]) \subseteq PlainNames(E[u])
  PROVE  Settled(T2, E, P2, u)
  <1>1. NamesFor(D[u]) \subseteq NamesFor(E[u])
    BY DEF NamesFor
  <1> QED
    BY <1>1 DEF Settled

\* A note that gets the place its file asks for is settled, under the name its
\* file asks for or with a number in it.
LEMMA PlacedSettled ==
  ASSUME NEW T, NEW D, NEW P, NEW u, u \in T.live,
         T.parent[u] = WantedParent(D[u]), NEW name \in PlainNames(D[u]),
         \/ T.name[u] = name
         \/ \E k \in 1 .. Cardinality(Uids) : T.name[u] = filename_numbered(name, k)
  PROVE  Settled(T, D, P, u)
  <1>1. T.name[u] \in NamesFor(D[u])
    BY DEF NamesFor
  <1> QED
    BY <1>1 DEF Settled

\* What a node that is placed is told of the others.
LEMMA NodePlaced ==
  ASSUME NEW T, NEW u \in T.live, GoodBut(T, u), NEW p \in T.live \cup {Root},
         NEW T2,
         \/ T2 = move_fuse_node(T, p, u)
         \/ T2 = add_fuse_child(T, p, u) /\ Good(T) /\ T.parent[u] = None
  PROVE  /\ T2.live = T.live /\ T2.parent[u] = p
         /\ \A v \in Uids : v # u => T2.parent[v] = T.parent[v]
         /\ Renumbered(T, T2, u)
  <1>1. /\ p \in Nodes /\ u \in Uids
        /\ T.parent \in [Uids -> Nodes \cup {None}]
    BY TreeFields DEF GoodBut, Nodes
  <1>2. T2.live = T.live /\ T2.parent = [T.parent EXCEPT ![u] = p]
    <2>1. CASE T2 = move_fuse_node(T, p, u)
      BY <2>1, MoveFuseNode
    <2>2. CASE T2 = add_fuse_child(T, p, u) /\ Good(T) /\ T.parent[u] = None
      BY <2>2, AddFuseChild
    <2> QED
      BY <2>1, <2>2
  <1>3. Renumbered(T, T2, u)
    <2>1. CASE T2 = move_fuse_node(T, p, u)
      BY <1>1, <2>1, PathsAssumption, MoveFuseNodeNumber
    <2>2. CASE T2 = add_fuse_child(T, p, u) /\ Good(T) /\ T.parent[u] = None
      BY <1>1, <2>2, PathsAssumption, AddFuseChildNumber
    <2> QED
      BY <2>1, <2>2
  <1>4. T2.parent[u] = p /\ \A v \in Uids : v # u => T2.parent[v] = T.parent[v]
    BY <1>1, <1>2
  <1> QED
    BY <1>2, <1>3, <1>4

-----------------------------------------------------------------------------
(* The steps of users and a sync tool *)

\* The parent of every note has a node.
ParentsLive(T, D) ==
  \A u \in Files(D) : WantedParent(D[u]) \in T.live \cup {Root}

\* What users and a sync tool can rely on, with what it takes to preserve it.
SyncInv ==
  /\ Inv
  /\ proc # "aborted"
  /\ Tidy(disk)
  /\ tree.live \subseteq Files(disk)
  /\ proc # "down" => ParentsLive(tree, disk)

\* What the daemon knows or will be told of: while it loads the vdir and from
\* then on, unless it lost its watcher thread.
Follows(u) ==
  \/ Settled(tree, disk, pending, u)
  \/ watcher = "watching" /\ Waiting(queue, u)

FollowInv ==
  proc = "loading" \/ watcher # "none" => \A u \in Files(disk) : Follows(u)

\* A step that preserves both, the second one while no event is lost.
Preserves ==
  /\ SyncInv'
  /\ FollowInv /\ RoomForEvents => FollowInv'

\* The requests that are not made.
LEMMA NotRequestedBeside ==
  ASSUME SyncBeside
  PROVE  /\ ~Stale
         /\ Requests \cap {"unlink", "rmdir", "rename", "cut",
                           "syncrename", "syncdelete"} = {}
         /\ Requests \cap {"orphan", "eager", "early"} = {}
         /\ \A name \in NewNames : name \in Names /\ Ordinary(name)
         /\ \A u \in Uids : \A c \in SyncComponents[u] :
              c \in Component /\ c.summary # <<>>
         /\ \A D \in InitDisks : D \in Disks /\ Tidy(D)
  BY AgendaFSAssumption DEF SyncBeside, Stale, Disks, Tidy

\* What the invariant says of the state.
LEMMA SyncFacts ==
  ASSUME SyncInv
  PROVE  /\ Good(tree) /\ tree \in Tree /\ disk \in Disks /\ Tidy(disk)
         /\ tree.live \subseteq Files(disk)
         /\ tree.entries = tree.live
         /\ queue \in Seq(Event)
         /\ proc \in {"loaded", "mounted"} \/ watcher # "none" => pending = {}
         /\ watcher # "none" => proc \in {"loaded", "mounted"}
         /\ \A u \in pending : u \in tree.live /\ tree.parent[u] = None
         /\ \A u \in Files(disk) : Loadable(disk[u]) /\ disk[u] \in Component
         /\ \A S : S \subseteq tree.live \cup {Root} => Readable(S)
         /\ \A u \in Files(disk) : Parses(u) /\ Exists(u) /\ u \notin torn
  <1>1. /\ Good(tree) /\ disk \in Disks /\ queue \in Seq(Event)
        /\ proc \in {"loaded", "mounted"} \/ watcher # "none" => pending = {}
    BY InvGood DEF SyncInv, Disks
  <1>2. tree \in Tree /\ tree.entries = tree.live
    BY <1>1 DEF Good, NoDangling
  <1>3. /\ watcher # "none" => proc \in {"loaded", "mounted"}
        /\ \A u \in pending : u \in tree.live /\ tree.parent[u] = None
    BY DEF SyncInv, Inv, LoadUndisturbed
  <1>4. \A u \in Files(disk) : Loadable(disk[u]) /\ disk[u] \in Component
    BY <1>1 DEF SyncInv, Tidy, Loadable, Files, Disks
  <1>5. \A S : S \subseteq tree.live \cup {Root} => Readable(S)
    BY NodeAssumption DEF SyncInv, Readable, Exists, Parses, Files
  <1>6. \A u \in Files(disk) : Parses(u) /\ Exists(u) /\ u \notin torn
    <2>1. torn \subseteq {u \in Uids : disk[u] = NoFile}
      BY InvGood DEF SyncInv
    <2> QED
      BY <2>1 DEF Exists, Parses, Files
  <1> QED
    BY <1>1, <1>2, <1>3, <1>4, <1>5, <1>6 DEF SyncInv

\* The parent that the daemon reads from the file of a note.
LEMMA ParentRead ==
  ASSUME NEW c \in Component
  PROVE  /\ get_parent_uid(c) =
              IF WantedParent(c) = Root THEN {} ELSE {WantedParent(c)}
         /\ WantedParent(c) \in Nodes
  <1>1. c.parents \in Seq(Uids)
    BY DEF Component
  <1>2. c.parents # <<>> => c.parents[1] \in Uids /\ c.parents[1] # Root
    BY <1>1, NodeAssumption
  <1> QED
    BY <1>2 DEF WantedParent, get_parent_uid, Nodes

\* A step that changes neither tree nor files, and loses no event.
LEMMA NothingMoves ==
  ASSUME SyncInv, Inv', UNCHANGED <<tree, disk, pending>>,
         proc' = proc \/ (proc' # "aborted" /\ proc # "down"),
         \/ proc' # "loading" /\ watcher' = "none"
         \/ /\ proc = "loading" \/ watcher # "none"
            /\ watcher = "watching" => watcher' = "watching"
            /\ \A u \in Uids : Waiting(queue, u) => Waiting(queue', u)
  PROVE  Preserves
  <1>1. SyncInv'
    <2>1. proc' # "aborted" /\ (proc' # "down" => proc # "down")
      BY DEF SyncInv
    <2>2. Tidy(disk)' /\ (tree.live \subseteq Files(disk))'
      BY DEF SyncInv
    <2>3. (proc # "down" => ParentsLive(tree, disk))'
      BY <2>1 DEF SyncInv
    <2> QED
      BY <2>1, <2>2, <2>3 DEF SyncInv
  <1>2. ASSUME FollowInv
        PROVE  FollowInv'
    <2>1. CASE proc' # "loading" /\ watcher' = "none"
      BY <2>1 DEF FollowInv
    <2>2. CASE /\ proc = "loading" \/ watcher # "none"
               /\ watcher = "watching" => watcher' = "watching"
               /\ \A u \in Uids : Waiting(queue, u) => Waiting(queue', u)
      <3>1. ASSUME NEW u \in Files(disk)
            PROVE  Follows(u)'
        <4>1. Follows(u) /\ u \in Uids
          BY <1>2, <2>2 DEF FollowInv, Files
        <4>2. CASE Settled(tree, disk, pending, u)
          BY <4>2 DEF Follows
        <4>3. CASE watcher = "watching" /\ Waiting(queue, u)
          <5>1. watcher' = "watching" /\ Waiting(queue', u)
            BY <2>2, <4>1, <4>3
          <5> QED
            BY <5>1 DEF Follows
        <4> QED
          BY <4>1, <4>2, <4>3 DEF Follows
      <3> QED
        BY <3>1 DEF FollowInv
    <2> QED
      BY <2>1, <2>2
  <1> QED
    BY <1>1, <1>2 DEF Preserves

\* The scan makes a node for every file.
LEMMA ScanBeside ==
  ASSUME SyncInv, Inv', LoadScan
  PROVE  Preserves
  <1> DEFINE S == {u \in Uids : Loadable(disk[u])}
  <1>1. /\ disk' = disk /\ proc' = "loading" /\ pending' = S
        /\ tree' = [EmptyTree EXCEPT
                      !.live = S, !.entries = S,
                      !.name = [u \in Uids |-> IF u \in S
                                                 THEN entry_filename(disk[u])
                                                 ELSE <<>>]]
    BY DEF LoadScan
  <1>2. S = Files(disk) /\ disk \in Disks /\ Tidy(disk)
    BY SyncFacts DEF Loadable, Files
  <1> HIDE DEF S
  <1>3. /\ tree'.live = S
        /\ tree'.name = [u \in Uids |-> IF u \in S THEN entry_filename(disk[u])
                                                   ELSE <<>>]
    BY <1>1 DEF EmptyTree
  <1>4. SyncInv'
    <2>1. ParentsLive(tree', disk')
      BY <1>1, <1>2, <1>3, TidyParent DEF ParentsLive
    <2>2. /\ ParentsLive(tree, disk)' /\ Tidy(disk)'
          /\ (tree.live \subseteq Files(disk))' /\ proc' # "aborted"
      BY <1>1, <1>2, <1>3, <2>1
    <2> QED
      BY <2>2 DEF SyncInv
  <1>5. FollowInv'
    <2>1. ASSUME NEW u \in Files(disk')
          PROVE  Settled(tree', disk', pending', u)
      <3>1. u \in S /\ u \in Uids
        BY <1>1, <1>2, <2>1 DEF Files
      <3>2. tree'.name[u] = entry_filename(disk'[u])
        BY <1>1, <1>3, <3>1
      <3> QED
        BY <1>1, <1>3, <3>1, <3>2 DEF Settled, PlainNames
    <2>2. \A u \in Files(disk') : Follows(u)'
      BY <2>1 DEF Follows
    <2> QED
      BY <2>2 DEF FollowInv
  <1> QED
    BY <1>4, <1>5 DEF Preserves

\* Placing the note u, which was not settled perhaps, while the vdir is loaded
\* or its event is handled.  T is the tree in which u has its name.
LEMMA PlacesOne ==
  ASSUME SyncInv, Inv', NEW u \in Files(disk), NEW T, T.live = tree.live \cup {u},
         \A v \in Uids : v # u => /\ T.name[v] = tree.name[v]
                                  /\ T.parent[v] = tree.parent[v],
         tree'.live = T.live, tree'.parent[u] = WantedParent(disk[u]),
         \A v \in Uids : v # u => tree'.parent[v] = T.parent[v],
         Renumbered(T, tree', u), Marked(disk, disk'),
         FollowInv => T.name[u] \in PlainNames(disk[u]),
         \A v \in Uids \ {u} : Waiting(queue, v) => Waiting(queue', v),
         \A v \in Uids \ {u} : v \in pending => v \in pending',
         UNCHANGED <<proc, watcher>>, proc = "loading" \/ watcher # "none"
  PROVE  Preserves
  <1>1. /\ disk \in Disks /\ Tidy(disk) /\ u \in Uids
        /\ tree.live \subseteq Files(disk) /\ proc # "aborted" /\ proc # "down"
        /\ ParentsLive(tree, disk)
    BY SyncFacts DEF Files, SyncInv
  <1>2. /\ disk' \in Disks /\ Tidy(disk') /\ Files(disk') = Files(disk)
        /\ \A v \in Files(disk) :
             /\ WantedParent(disk'[v]) = WantedParent(disk[v])
             /\ PlainNames(disk[v]) \subseteq PlainNames(disk'[v])
    BY <1>1, MarkedTidy
  <1>3. SyncInv'
    <2>1. ParentsLive(tree', disk')
      BY <1>1, <1>2 DEF ParentsLive
    <2>2. tree'.live \subseteq Files(disk')
      BY <1>1, <1>2
    <2>3. /\ ParentsLive(tree, disk)' /\ Tidy(disk)'
          /\ (tree.live \subseteq Files(disk))' /\ proc' # "aborted"
      BY <1>1, <1>2, <2>1, <2>2
    <2> QED
      BY <2>3 DEF SyncInv
  <1>4. ASSUME FollowInv
        PROVE  FollowInv'
    <2>1. Settled(tree', disk', pending', u)
      <3>1. T.name[u] \in PlainNames(disk'[u])
        BY <1>2, <1>4
      <3>2. \/ tree'.name[u] = T.name[u]
            \/ \E k \in 1 .. Cardinality(Uids) :
                 tree'.name[u] = filename_numbered(T.name[u], k)
        BY DEF Renumbered
      <3>3. tree'.parent[u] = WantedParent(disk'[u]) /\ u \in tree'.live
        BY <1>2
      <3> QED
        BY <3>1, <3>2, <3>3, PlacedSettled
    <2>2. ASSUME NEW v \in Files(disk), v # u
          PROVE  Follows(v)'
      <3>1. v \in Uids /\ Follows(v)
        BY <1>4 DEF FollowInv, Files
      <3>2. CASE Settled(tree, disk, pending, v)
        <4>1. v \in tree'.live
          BY <3>2 DEF Settled
        <4>2. tree'.name[v] = tree.name[v] /\ tree'.parent[v] = tree.parent[v]
          BY <2>2, <3>1 DEF Renumbered
        <4>3. v \in pending => v \in pending'
          BY <2>2, <3>1
        <4>4. Settled(tree', disk', pending', v)
          BY <1>2, <3>2, <4>1, <4>2, <4>3, StaysSettled
        <4> QED
          BY <4>4 DEF Follows
      <3>3. CASE watcher = "watching" /\ Waiting(queue, v)
        <4>1. watcher' = "watching" /\ Waiting(queue', v)
          BY <2>2, <3>1, <3>3
        <4> QED
          BY <4>1 DEF Follows
      <3> QED
        BY <3>1, <3>2, <3>3 DEF Follows
    <2>3. \A v \in Files(disk') : Follows(v)'
      BY <1>2, <2>1, <2>2 DEF Follows
    <2> QED
      BY <2>3 DEF FollowInv
  <1> QED
    BY <1>3, <1>4 DEF Preserves

\* load_root_node_tree places a note under the name its file asks for.
LEMMA AttachBeside ==
  ASSUME SyncInv, Inv', NEW u \in Uids, LoadAttach(u)
  PROVE  Preserves
  <1> DEFINE p  == WantedParent(disk[u])
             ps == get_parent_uid(disk[u])
  <1>1. /\ proc = "loading" /\ u \in pending /\ watcher = "none"
        /\ Good(tree) /\ tree \in Tree /\ disk \in Disks
        /\ tree.live \subseteq Files(disk) /\ tree.entries = tree.live
        /\ u \in tree.live /\ tree.parent[u] = None /\ u \in Files(disk)
        /\ disk[u] \in Component
    BY SyncFacts DEF LoadAttach
  <1>2. /\ p \in tree.live \cup {Root} /\ Exists(u) /\ Parses(u)
        /\ ps = IF p = Root THEN {} ELSE {p}
        /\ \A q \in ps : q \in tree.entries /\ q \in Files(disk) /\ Parses(q)
    <2>1. p \in tree.live \cup {Root}
      BY <1>1 DEF SyncInv, ParentsLive
    <2>2. ps = IF p = Root THEN {} ELSE {p}
      BY <1>1, ParentRead
    <2> HIDE DEF p, ps
    <2> QED
      BY <1>1, <2>1, <2>2 DEF Exists, Parses, Files
  <1>3. /\ pending' = pending \ {u} /\ UNCHANGED <<proc, watcher, queue>>
        /\ \/ tree' = add_fuse_child(tree, p, u)
           \/ tree' = move_fuse_node(tree, p, u)
        /\ Marked(disk, disk')
    <2>1. \/ /\ ps = {}
             /\ tree' = add_fuse_child(tree, Root, u)
             /\ pending' = pending \ {u}
             /\ UNCHANGED <<proc, watcher, disk, queue>>
          \/ \E q \in ps : q \notin tree.entries
          \/ \E q \in ps :
               IF ~Parses(q)
                 THEN Abort /\ UNCHANGED disk
                 ELSE /\ disk' = [disk EXCEPT ![q] =
                                    icalcomponent_mark_as_directory(@)]
                      /\ tree' = move_fuse_node(tree, q, u)
                      /\ pending' = pending \ {u}
                      /\ UNCHANGED <<proc, watcher, queue>>
      BY <1>2 DEF LoadAttach
    <2> HIDE DEF ps, p
    <2> QED
      BY <1>2, <2>1 DEF Marked
  <1> HIDE DEF ps
  <1>4. /\ tree'.live = tree.live /\ tree'.parent[u] = p
        /\ \A v \in Uids : v # u => tree'.parent[v] = tree.parent[v]
        /\ Renumbered(tree, tree', u)
    <2> HIDE DEF p
    <2>1. GoodBut(tree, u)
      BY <1>1, GoodIsGoodBut
    <2> QED
      BY <1>1, <1>2, <1>3, <2>1, NodePlaced
  <1>5. ASSUME FollowInv
        PROVE  tree.name[u] \in PlainNames(disk[u])
    <2>1. Settled(tree, disk, pending, u)
      BY <1>1, <1>5 DEF FollowInv, Follows
    <2>2. p # None
      BY <1>1, ParentRead, NodeAssumption DEF Nodes
    <2> QED
      BY <1>1, <2>1, <2>2 DEF Settled
  <1>6. tree.live = tree.live \cup {u}
    BY <1>1
  <1>7. /\ \A v \in Uids \ {u} : Waiting(queue, v) => Waiting(queue', v)
        /\ \A v \in Uids \ {u} : v \in pending => v \in pending'
        /\ tree'.parent[u] = WantedParent(disk[u])
        /\ UNCHANGED <<proc, watcher>>
    BY <1>3, <1>4
  <1> QED
    BY <1>1, <1>3, <1>4, <1>5, <1>6, <1>7, PlacesOne

\* The event of a file puts its note where the file says: the parent is there,
\* and has its file.
LEMMA ChangedBeside ==
  ASSUME SyncInv, Inv', NEW u \in Uids, HandleChanged(u)
  PROVE  Preserves
  <1>1. /\ Good(tree) /\ tree \in Tree /\ disk \in Disks /\ pending = {}
        /\ tree.live \subseteq Files(disk) /\ tree.entries = tree.live
        /\ queue \in Seq(Event) /\ queue # <<>>
        /\ Head(queue) \in {Created(u), Modified(u)}
        /\ watcher = "watching" /\ proc # "down" /\ Tail(queue) \in Seq(Event)
    BY SyncFacts, TailOfEvents DEF HandleChanged
  <1>2. ASSUME NEW v \in Uids \ {u}, Waiting(queue, v)
        PROVE  Waiting(Tail(queue), v)
    <2>1. Head(queue) # Modified(v)
      BY <1>1, EventsDiffer
    <2> QED
      BY <1>1, <1>2, <2>1, TailKeeps
  <1>3. CASE ~Loadable(disk[u])
    <2>1. /\ queue' = Tail(queue)
          /\ UNCHANGED <<proc, watcher, tree, disk, pending>>
      BY <1>3 DEF HandleChanged
    <2>2. u \notin Files(disk)
      BY <1>3, SyncFacts
    <2>3. SyncInv'
      <3>1. /\ ParentsLive(tree, disk)' /\ Tidy(disk)'
            /\ (tree.live \subseteq Files(disk))' /\ proc' # "aborted"
        BY <1>1, <2>1 DEF SyncInv
      <3> QED
        BY <3>1 DEF SyncInv
    <2>4. ASSUME FollowInv
          PROVE  FollowInv'
      <3>1. ASSUME NEW v \in Files(disk)
            PROVE  Follows(v)'
        <4>1. Follows(v) /\ v \in Uids \ {u}
          BY <1>1, <2>2, <2>4 DEF FollowInv, Files
        <4>2. CASE Settled(tree, disk, pending, v)
          BY <2>1, <4>2 DEF Follows
        <4>3. CASE watcher = "watching" /\ Waiting(queue, v)
          <5>1. watcher' = "watching" /\ Waiting(queue', v)
            BY <1>2, <2>1, <4>1, <4>3
          <5> QED
            BY <5>1 DEF Follows
        <4> QED
          BY <4>1, <4>2, <4>3 DEF Follows
      <3> QED
        BY <2>1, <3>1 DEF FollowInv
    <2> QED
      BY <2>3, <2>4 DEF Preserves
  <1>4. CASE Loadable(disk[u])
    <2> DEFINE t  == upsert_fuse_node(tree, u, entry_filename(disk[u]))
               p  == WantedParent(disk[u])
               ps == get_parent_uid(disk[u])
    <2>1. u \in Files(disk) /\ disk[u] \in Component
      BY <1>1, <1>4 DEF Loadable, Files, Disks
    <2>2. /\ p \in tree.live \cup {Root}
          /\ ps = IF p = Root THEN {} ELSE {p}
          /\ entry_filename(disk[u]) \in Names
      BY <1>1, <2>1, ParentRead, ComponentEntry DEF SyncInv, ParentsLive
    <2>3. /\ GoodBut(t, u) /\ t.live = tree.live \cup {u} /\ t.entries = t.live
          /\ t.parent = tree.parent
          /\ t.name = [tree.name EXCEPT ![u] = entry_filename(disk[u])]
      BY <1>1, <2>2, Upsert
    <2>4. \/ /\ ps = {}
             /\ tree' = move_fuse_node(t, Root, u)
             /\ queue' = Tail(queue)
             /\ UNCHANGED <<proc, watcher, disk, pending>>
          \/ \E q \in ps :
               IF q \notin t.entries \/ ~Parses(q)
                 THEN Abort /\ UNCHANGED disk
                 ELSE /\ tree' = move_fuse_node(t, q, u)
                      /\ disk' = [disk EXCEPT ![q] =
                                    icalcomponent_mark_as_directory(@)]
                      /\ queue' \in IF disk[q].isdir
                                      THEN {Tail(queue)}
                                      ELSE modified({Tail(queue)}, q)
                      /\ UNCHANGED <<proc, watcher, pending>>
      BY <1>4 DEF HandleChanged
    <2> HIDE DEF t, p, ps
    <2>5. \A q \in ps : q \in t.entries /\ q \in Files(disk) /\ Parses(q)
      BY <1>1, <2>2, <2>3 DEF Parses, Files
    <2>6. /\ tree' = move_fuse_node(t, p, u) /\ Marked(disk, disk')
          /\ \/ queue' = Tail(queue)
             \/ \E q \in Uids : queue' \in modified({Tail(queue)}, q)
          /\ UNCHANGED <<proc, watcher, pending>>
      <3>1. CASE ps = {}
        BY <2>2, <2>4, <3>1 DEF Marked
      <3>2. CASE ps # {}
        <4>1. ps = {p} /\ p \in Uids
          BY <2>2, <2>5, <3>2 DEF Files
        <4>2. /\ tree' = move_fuse_node(t, p, u)
              /\ disk' = [disk EXCEPT ![p] = icalcomponent_mark_as_directory(@)]
              /\ queue' \in IF disk[p].isdir
                              THEN {Tail(queue)}
                              ELSE modified({Tail(queue)}, p)
              /\ UNCHANGED <<proc, watcher, pending>>
          BY <2>4, <2>5, <4>1
        <4> QED
          BY <2>5, <4>1, <4>2 DEF Marked
      <3> QED
        BY <3>1, <3>2
    <2>7. ASSUME NEW v \in Uids \ {u}, Waiting(queue, v)
          PROVE  Waiting(queue', v)
      <3>1. Waiting(Tail(queue), v)
        BY <1>2, <2>7
      <3>2. ASSUME NEW q \in Uids
            PROVE  \A r \in modified({Tail(queue)}, q) : Waiting(r, v)
        BY <1>1, <3>1, WriteKeeps
      <3> QED
        BY <2>6, <3>1, <3>2
    <2>8. /\ tree'.live = t.live /\ tree'.parent[u] = p
          /\ \A v \in Uids : v # u => tree'.parent[v] = t.parent[v]
          /\ Renumbered(t, tree', u)
      <3>1. u \in t.live /\ p \in t.live \cup {Root}
        BY <2>2, <2>3
      <3> QED
        BY <2>3, <2>6, <3>1, NodePlaced
    <2>9. /\ t.name[u] \in PlainNames(disk[u])
          /\ \A v \in Uids : v # u => /\ t.name[v] = tree.name[v]
                                      /\ t.parent[v] = tree.parent[v]
      BY <1>1, <2>3, TreeFields DEF PlainNames
    <2>10. /\ \A v \in Uids \ {u} : v \in pending => v \in pending'
           /\ tree'.parent[u] = WantedParent(disk[u])
           /\ UNCHANGED <<proc, watcher>>
           /\ proc = "loading" \/ watcher # "none"
      BY <1>1, <2>6, <2>8 DEF p
    <2>11. /\ t.live = tree.live \cup {u}
           /\ tree'.live = t.live
           /\ Marked(disk, disk')
           /\ FollowInv => t.name[u] \in PlainNames(disk[u])
           /\ \A v \in Uids \ {u} : Waiting(queue, v) => Waiting(queue', v)
      BY <2>3, <2>6, <2>7, <2>8, <2>9
    <2> QED
      BY <2>1, <2>8, <2>9, <2>10, <2>11, PlacesOne
  <1> QED
    BY <1>3, <1>4

\* No note names a fresh uid as its parent.
LEMMA FreshAlone ==
  ASSUME disk \in Disks, NEW u \in Fresh, NEW p \in Files(disk) \cup {Root}
  PROVE  u \in Uids /\ u \notin Files(disk) /\ NotBelow(disk, u, p)
  <1>1. u \in Uids /\ u \notin Files(disk)
    BY DEF Fresh, Files, Exists, Parses
  <1>2. ASSUME NEW v \in Files(disk), WantedParent(disk[v]) = u
        PROVE  FALSE
    <2>1. /\ v \in Uids /\ Parses(v)
          /\ disk[v].parents \in Seq(Uids)
      BY DEF Files, Disks, Component, Parses
    <2>2. disk[v].parents # <<>> /\ disk[v].parents[1] = u
      BY <1>1, <1>2, NodeAssumption DEF WantedParent
    <2>3. 1 \in 1 .. Len(disk[v].parents)
      BY <2>1, <2>2
    <2> QED
      BY <2>1, <2>2, <2>3 DEF Fresh
  <1>3. ClosedDownward(disk, {u})
    BY <1>2 DEF ClosedDownward
  <1>4. {u} \in SUBSET Nodes
    BY <1>1 DEF Nodes
  <1>5. p # Root => p \notin {u}
    BY <1>1
  <1> QED
    BY <1>1, <1>3, <1>4, <1>5 DEF NotBelow

\* A file that is written, in a vdir that is watched: its note is settled by
\* the handler that wrote it, or waits for the event.
LEMMA WritesOne ==
  ASSUME SyncInv, Inv', NEW u, NEW c, Written(disk, disk', u, c),
         tree'.live \subseteq tree.live \cup {u}, tree.live \subseteq tree'.live,
         \A v \in Uids : v # u => /\ tree'.name[v] = tree.name[v]
                                  /\ tree'.parent[v] = tree.parent[v],
         proc # "down" => WantedParent(c) \in tree.live \cup {Root},
         UNCHANGED <<proc, watcher, pending>>,
         \A v \in Uids : Waiting(queue, v) => Waiting(queue', v),
         RoomForEvents /\ (proc = "loading" \/ watcher # "none") => Follows(u)'
  PROVE  Preserves
  <1>1. /\ disk \in Disks /\ Tidy(disk) /\ u \in Uids /\ queue \in Seq(Event)
        /\ tree.live \subseteq Files(disk) /\ proc # "aborted"
        /\ proc # "down" => ParentsLive(tree, disk)
    BY SyncFacts DEF Written, SyncInv
  <1>2. /\ disk' \in Disks /\ Tidy(disk')
        /\ Files(disk') = Files(disk) \cup {u} /\ disk'[u] = c
        /\ \A v \in Files(disk) : v # u => disk'[v] = disk[v]
    BY <1>1, WrittenTidy
  <1>3. SyncInv'
    <2>1. proc # "down" => ParentsLive(tree', disk')
      BY <1>1, <1>2 DEF ParentsLive
    <2>2. tree'.live \subseteq Files(disk')
      BY <1>1, <1>2
    <2>3. /\ (proc # "down" => ParentsLive(tree, disk))' /\ Tidy(disk)'
          /\ (tree.live \subseteq Files(disk))' /\ proc' # "aborted"
      BY <1>1, <1>2, <2>1, <2>2
    <2> QED
      BY <2>3 DEF SyncInv
  <1>4. ASSUME FollowInv, RoomForEvents, proc = "loading" \/ watcher # "none"
        PROVE  \A v \in Files(disk') : Follows(v)'
    <2>1. ASSUME NEW v \in Files(disk), v # u
          PROVE  Follows(v)'
      <3>1. v \in Uids /\ Follows(v)
        BY <1>4 DEF FollowInv, Files
      <3>2. CASE Settled(tree, disk, pending, v)
        <4>1. v \in tree'.live
          BY <3>2 DEF Settled
        <4>2. /\ tree'.name[v] = tree.name[v] /\ tree'.parent[v] = tree.parent[v]
              /\ disk'[v] = disk[v]
          BY <1>2, <2>1, <3>1
        <4>3. Settled(tree', disk', pending', v)
          BY <3>2, <4>1, <4>2, StaysSettled
        <4> QED
          BY <4>3 DEF Follows
      <3>3. CASE watcher = "watching" /\ Waiting(queue, v)
        <4>1. watcher' = "watching" /\ Waiting(queue', v)
          BY <3>1, <3>3
        <4> QED
          BY <4>1 DEF Follows
      <3> QED
        BY <3>1, <3>2, <3>3 DEF Follows
    <2> QED
      BY <1>2, <1>4, <2>1
  <1>5. FollowInv /\ RoomForEvents => FollowInv'
    BY <1>4 DEF FollowInv
  <1> QED
    BY <1>3, <1>5 DEF Preserves

\* The handler that creates a note has settled it.
LEMMA CreateBeside ==
  ASSUME SyncBeside, SyncInv, Inv', NEW dir \in Nodes \cup {None},
         NEW name \in NewNames, NEW isdir \in BOOLEAN, NEW c,
         Shows(c, name, isdir), c.parents = <<>>, CreateEntry(dir, name, c)
  PROVE  Preserves
  <1>1. /\ Good(tree) /\ disk \in Disks /\ tree \in Tree
        /\ tree.live \subseteq Files(disk) /\ proc = "mounted"
    BY SyncFacts DEF CreateEntry
  <1>2. /\ dir \in Nodes /\ dir \in tree.live \cup {Root} /\ dir # None
        /\ dir \in Directories /\ Readable({dir})
        /\ name \in Names
    <2>1. dir \in Directories
      BY NotRequestedBeside DEF CreateEntry
    <2>2. dir \in Nodes /\ dir \in tree.live \cup {Root}
      BY <1>1, <2>1, AttachedLive DEF Directories
    <2>3. Readable({dir})
      BY <2>2, SyncFacts
    <2> QED
      BY <2>1, <2>2, <2>3, NodeAssumption, NotRequestedBeside DEF Nodes
  <1>3. PICK u \in Fresh :
          /\ disk' = [disk EXCEPT ![u] =
                        IF dir = Root
                          THEN c
                          ELSE set_parent_child_relationship(dir, c)]
          /\ tree' = add_child(create_fuse_node(tree, u, name), dir, u)
          /\ queue' \in created({queue}, u)
          /\ UNCHANGED <<proc, watcher, pending>>
    BY <1>2 DEF CreateEntry
  <1> DEFINE d == CreatedIn(dir, c)
  <1>4. Shows(d, name, isdir) /\ WantedParent(d) = dir
    BY <1>2, CreatedShows, UnderParent
  <1>5. disk' = [disk EXCEPT ![u] = d]
    BY <1>3 DEF CreatedIn
  <1> HIDE DEF d
  <1>6. u \in Uids /\ u \notin Files(disk) /\ NotBelow(disk, u, dir)
    BY <1>1, <1>2, FreshAlone
  <1>7. Written(disk, disk', u, d)
    BY <1>4, <1>5, <1>6 DEF Written, Shows
  <1>8. Placed(tree, tree', u, dir, name)
    <2>1. lookup(tree, dir, name) = None
      BY <1>2 DEF CreateEntry
    <2>2. u \notin tree.live
      BY <1>1, <1>6
    <2> QED
      BY <1>1, <1>2, <1>3, <1>6, <2>1, <2>2, PlaceCreated
  <1>9. /\ tree'.live = tree.live \cup {u}
        /\ tree'.parent[u] = dir /\ tree'.name[u] = name
        /\ \A v \in Uids : v # u => /\ tree'.name[v] = tree.name[v]
                                    /\ tree'.parent[v] = tree.parent[v]
    BY <1>1, <1>6, <1>8, TreeFields DEF Placed
  <1>10. Follows(u)'
    <2>1. disk'[u] = d
      BY <1>1, <1>5, <1>6 DEF Disks
    <2>2. tree'.name[u] \in PlainNames(disk'[u])
      BY <1>4, <1>9, <2>1 DEF Shows, PlainNames
    <2>3. tree'.parent[u] = WantedParent(disk'[u]) /\ u \in tree'.live
      BY <1>4, <1>9, <2>1
    <2>4. Settled(tree', disk', pending', u)
      BY <2>2, <2>3, PlacedSettled
    <2> QED
      BY <2>4 DEF Follows
  <1>11. \A v \in Uids : Waiting(queue, v) => Waiting(queue', v)
    BY <1>3, <1>6, SyncFacts, WriteKeeps
  <1>12. /\ tree'.live \subseteq tree.live \cup {u} /\ tree.live \subseteq tree'.live
         /\ proc # "down" => WantedParent(d) \in tree.live \cup {Root}
         /\ RoomForEvents /\ (proc = "loading" \/ watcher # "none") => Follows(u)'
         /\ UNCHANGED <<proc, watcher, pending>>
    BY <1>2, <1>3, <1>4, <1>9, <1>10
  <1> QED
    BY <1>7, <1>9, <1>11, <1>12, WritesOne

\* The event of a file that a sync tool writes is queued; while the vdir is not
\* watched, none is written before the daemon is gone.
LEMMA SyncWriteBeside ==
  ASSUME SyncBeside, SyncInv, Inv', NEW u \in Uids, NEW c \in SyncComponents[u],
         SyncWrite(u, c)
  PROVE  Preserves
  <1> DEFINE p == WantedParent(c)
  <1>1. /\ c \in Component /\ c.summary # <<>> /\ disk \in Disks
        /\ queue \in Seq(Event)
        /\ watcher # "none" => proc \in {"loaded", "mounted"}
    BY SyncFacts, NotRequestedBeside
  <1>2. watcher = "watching" \/ proc = "down"
    BY NotRequestedBeside DEF SyncWrite, SyncAllowed, SyncInv
  <1>3. c.parents # <<>> =>
          /\ p \in Uids /\ Loadable(disk[p]) /\ p \notin DiskSubtree(u)
          /\ watcher = "watching" => p \in tree.live
    <2> SUFFICES ASSUME c.parents # <<>>
                 PROVE  /\ p \in Uids /\ Loadable(disk[p])
                        /\ p \notin DiskSubtree(u)
                        /\ watcher = "watching" => p \in tree.live
      OBVIOUS
    <2>1. /\ c.parents \in Seq(Uids) /\ 1 \in 1 .. Len(c.parents)
          /\ p = c.parents[1]
      BY <1>1 DEF Component, WantedParent
    <2>2. p \in Uids
      BY <2>1, ElementOfSeq
    <2> HIDE DEF p
    <2> QED
      BY <2>1, <2>2, NotRequestedBeside DEF SyncWrite, ParentsFirst
  <1>4. c.parents = <<>> => p = Root
    BY DEF WantedParent
  <1>5. NotBelow(disk, u, p)
    <2>1. CASE c.parents = <<>>
      BY <1>4, <2>1 DEF NotBelow
    <2>2. CASE c.parents # <<>>
      <3>1. p \in Files(disk) /\ p \in Uids /\ p \notin DiskSubtree(u)
        BY <1>3, <2>2 DEF Loadable, Files
      <3> HIDE DEF p
      <3>2. PICK B \in SUBSET Uids :
              /\ u \in B /\ p \notin B
              /\ \A v \in Uids : Parses(v) =>
                   (get_parent_uid(disk[v]) \cap B # {} => v \in B)
        BY <3>1 DEF DiskSubtree
      <3>3. ClosedDownward(disk, B)
        <4> SUFFICES ASSUME NEW v \in Files(disk), WantedParent(disk[v]) \in B
                     PROVE  v \in B
          BY DEF ClosedDownward
        <4>1. v \in Uids /\ Parses(v) /\ disk[v] \in Component
          BY <1>1 DEF Files, Disks, Parses
        <4>2. WantedParent(disk[v]) # Root
          BY NodeAssumption
        <4>3. WantedParent(disk[v]) \in get_parent_uid(disk[v]) \cap B
          BY <4>1, <4>2, ParentRead
        <4> QED
          BY <3>2, <4>1, <4>3
      <3>4. B \in SUBSET Nodes
        BY DEF Nodes
      <3> QED
        BY <3>1, <3>2, <3>3, <3>4 DEF NotBelow
    <2> QED
      BY <2>1, <2>2
  <1>6. Written(disk, disk', u, c)
    BY <1>1, <1>5 DEF Written, SyncWrite
  <1>7. proc # "down" => WantedParent(c) \in tree.live \cup {Root}
    BY <1>2, <1>3, <1>4
  <1>8. /\ queue' \in notify({queue}, Modified(u))
        /\ UNCHANGED <<proc, watcher, tree, pending>>
    BY DEF SyncWrite
  <1>9. ASSUME RoomForEvents, proc = "loading" \/ watcher # "none"
        PROVE  Follows(u)'
    <2>1. watcher = "watching"
      BY <1>1, <1>2, <1>9 DEF SyncInv, Inv, LoadUndisturbed
    <2>2. \A r \in notify({queue}, Modified(u)) : Waiting(r, u)
      BY <1>1, <1>9, <2>1, NotifyAdds DEF RoomForEvents
    <2>3. watcher' = "watching" /\ Waiting(queue', u)
      BY <1>8, <2>1, <2>2
    <2> QED
      BY <2>3 DEF Follows
  <1>10. /\ tree'.live \subseteq tree.live \cup {u} /\ tree.live \subseteq tree'.live
         /\ \A v \in Uids : v # u => /\ tree'.name[v] = tree.name[v]
                                     /\ tree'.parent[v] = tree.parent[v]
         /\ RoomForEvents /\ (proc = "loading" \/ watcher # "none") => Follows(u)'
         /\ \A v \in Uids : Waiting(queue, v) => Waiting(queue', v)
         /\ UNCHANGED <<proc, watcher, pending>>
    BY <1>1, <1>8, <1>9, WriteKeeps
  <1> HIDE DEF p
  <1> QED
    BY <1>6, <1>7, <1>8, <1>10, WritesOne

\* A file that a sync tool creates is empty, and is written later.
LEMMA SyncCreateBeside ==
  ASSUME SyncBeside, SyncInv, Inv', NEW u \in Uids, SyncCreate(u)
  PROVE  Preserves
  <1>1. watcher = "watching" \/ (proc = "down" /\ watcher = "none")
    BY NotRequestedBeside
       DEF SyncCreate, SyncAllowed, SyncInv, Inv, LoadUndisturbed
  <1>2. /\ queue' \in notify({queue}, Created(u))
        /\ UNCHANGED <<proc, watcher, tree, disk, pending>>
    BY DEF SyncCreate
  <1>3. \A v \in Uids : Waiting(queue, v) => Waiting(queue', v)
    BY <1>2, SyncFacts, WriteKeeps
  <1> QED
    BY <1>1, <1>2, <1>3, NothingMoves

\* Nobody finds a note without its file.
LEMMA ReadBeside ==
  ASSUME SyncInv, NEW n \in Nodes, FuseRead(n)
  PROVE  FALSE
  <1>1. Good(tree) /\ n \in Attached(tree)
    BY SyncFacts DEF FuseRead
  <1>2. n \in tree.live \cup {Root} /\ ChildSet(tree, n) \subseteq tree.live
    BY <1>1, AttachedLive DEF Good, NoDangling
  <1>3. Readable({n}) /\ \A child \in ChildSet(tree, n) : Parses(child)
    BY <1>2, SyncFacts
  <1> QED
    BY <1>3 DEF FuseRead

\* The end of the process leaves nothing to follow.
LEMMA TerminateBeside ==
  ASSUME SyncInv, Inv', Terminate
  PROVE  Preserves
  <1>1. /\ proc' = "down" /\ disk' = disk /\ tree' = EmptyTree /\ watcher' = "none"
    BY DEF Terminate
  <1>2. tree'.live = {}
    BY <1>1 DEF EmptyTree
  <1>3. /\ Tidy(disk)' /\ (tree.live \subseteq Files(disk))'
    BY <1>1, <1>2 DEF SyncInv
  <1>4. SyncInv'
    BY <1>1, <1>3 DEF SyncInv
  <1>5. FollowInv'
    BY <1>1 DEF FollowInv
  <1> QED
    BY <1>4, <1>5 DEF Preserves

\* To begin with nothing is loaded.
LEMMA InitBeside ==
  ASSUME SyncBeside, Init
  PROVE  SyncInv /\ FollowInv
  <1>1. EmptyTree.live = {}
    BY DEF EmptyTree
  <1>2. disk \in InitDisks /\ tree = EmptyTree /\ proc = "down" /\ watcher = "none"
    BY DEF Init
  <1>3. Tidy(disk) /\ tree.live \subseteq Files(disk)
    BY <1>1, <1>2, NotRequestedBeside
  <1> QED
    BY <1>2, <1>3, InitInv DEF SyncInv, FollowInv

\* Every step preserves the invariant, and the notes stay settled or waiting
\* while the kernel loses no event.
LEMMA NextBeside ==
  ASSUME SyncBeside, SyncInv, [Next]_vars
  PROVE  Preserves
  <1>1. Inv'
    BY NextInv DEF SyncInv
  <1>2. CASE UNCHANGED vars
    <2>1. UNCHANGED <<proc, watcher, tree, disk, queue, pending>>
      BY <1>2 DEF vars
    <2>2. SyncInv'
      BY <1>1, <2>1 DEF SyncInv, ParentsLive
    <2>3. ASSUME FollowInv
          PROVE  FollowInv'
      BY <2>1, <2>3 DEF FollowInv, Follows
    <2> QED
      BY <2>2, <2>3 DEF Preserves
  <1>3. CASE Start
    <2>1. ASSUME NEW u \in Uids, LoadAttach(u)
          PROVE  Preserves
      BY <1>1, <2>1, AttachBeside
    <2>2. CASE LoadDone
      <3>1. watcher = "none" /\ pending = {}
        BY <2>2, SyncFacts DEF LoadDone
      <3> QED
        BY <1>1, <2>2, <3>1, NothingMoves DEF LoadDone
    <2>3. CASE ServeFuse
      BY <1>1, <2>3, NothingMoves DEF ServeFuse
    <2> QED
      BY <1>3, <2>1, <2>2, <2>3 DEF Start
  <1>4. CASE Watch
    <2>1. CASE StartWatch
      BY <1>1, <2>1, NothingMoves DEF StartWatch
    <2>2. ASSUME NEW u \in Uids, HandleDeleted(u)
          PROVE  Preserves
      <3>1. /\ watcher = "watching" /\ queue' = Tail(queue)
            /\ UNCHANGED <<proc, watcher, disk, pending>>
            /\ queue # <<>> /\ Head(queue) = Deleted(u)
        BY <2>2 DEF HandleDeleted
      <3>2. tree' = tree
        <4>1. FullPath(u) \notin tree.entries
          BY SyncFacts, FullPathAssumption, TreeFields
        <4> QED
          BY <2>2, <4>1 DEF HandleDeleted, delete_from_vdir_path
      <3>3. ASSUME NEW v \in Uids, Waiting(queue, v)
            PROVE  Waiting(queue', v)
        BY <3>1, <3>3, EventsDiffer, TailKeeps, SyncFacts
      <3> QED
        BY <1>1, <3>1, <3>2, <3>3, NothingMoves
    <2>3. ASSUME NEW u \in Uids, HandleChanged(u)
          PROVE  Preserves
      BY <1>1, <2>3, ChangedBeside
    <2> QED
      BY <1>4, <2>1, <2>2, <2>3 DEF Watch
  <1>5. CASE User
    <2>1. ASSUME NEW n \in Nodes, FuseRead(n)
          PROVE  FALSE
      BY <2>1, ReadBeside
    <2>2. ASSUME NEW dir \in Nodes \cup {None}, NEW name \in NewNames,
                 FuseCreate(dir, name) \/ FuseMkdir(dir, name)
          PROVE  Preserves
      <3>1. name \in Names /\ Ordinary(name)
        BY NotRequestedBeside
      <3>2. /\ Shows(create_vjournal_entry(name), name, FALSE)
            /\ create_vjournal_entry(name).parents = <<>>
            /\ Shows(create_vjournal_directory(name), name, TRUE)
            /\ create_vjournal_directory(name).parents = <<>>
        BY <3>1, NewShows
      <3>3. CASE FuseCreate(dir, name)
        BY <1>1, <3>2, <3>3, CreateBeside DEF FuseCreate
      <3>4. CASE FuseMkdir(dir, name)
        BY <1>1, <3>2, <3>4, CreateBeside DEF FuseMkdir
      <3> QED
        BY <2>2, <3>3, <3>4
    <2>3. ASSUME NEW n \in Uids, FuseWrite(n)
          PROVE  Preserves
      <3>a. n \notin torn
        BY <2>3, SyncFacts, AttachedLive DEF FuseWrite, Shown
      <3>1. /\ proc = "mounted" /\ queue' \in modified({queue}, n)
            /\ UNCHANGED <<proc, watcher, tree, disk, pending>>
        BY <2>3, <3>a DEF FuseWrite
      <3>2. ASSUME NEW v \in Uids, Waiting(queue, v)
            PROVE  Waiting(queue', v)
        BY <3>1, <3>2, WriteKeeps, SyncFacts
      <3> QED
        BY <1>1, <3>1, <3>2, NothingMoves
    <2>4. CASE LoadScan
      BY <1>1, <2>4, ScanBeside
    <2>5. CASE Terminate
      BY <1>1, <2>5, TerminateBeside
    <2>6. ASSUME NEW n \in Uids, FuseUnlink(n) \/ FuseRmdir(n)
          PROVE  FALSE
      BY <2>6, NotRequestedBeside DEF FuseUnlink, FuseRmdir, Request
    <2>7. ASSUME NEW n \in Uids, NEW dir \in Nodes, NEW name \in NewNames,
                 FuseRename(n, dir, name)
          PROVE  FALSE
      BY <2>7, NotRequestedBeside DEF FuseRename, Request
    <2>8. ASSUME NEW dir \in Nodes, NEW name \in NewNames,
                 FuseRename_unresolved(dir, name)
          PROVE  FALSE
      BY <2>8, NotRequestedBeside DEF FuseRename_unresolved
    <2> QED
      BY <1>5, <2>1, <2>2, <2>3, <2>4, <2>5, <2>6, <2>7, <2>8 DEF User
  <1>6. CASE Others
    <2>1. PICK u \in Uids :
            \/ \E c \in SyncComponents[u] : SyncWrite(u, c)
            \/ \E c \in SyncComponents[u] : SyncRename(u, c)
            \/ SyncCreate(u) \/ SyncCut(u) \/ SyncDelete(u)
      BY <1>6 DEF Others
    <2>2. ASSUME NEW c \in SyncComponents[u], SyncRename(u, c)
          PROVE  FALSE
      BY <2>2, NotRequestedBeside DEF SyncRename, Request
    <2>3. ~SyncCut(u) /\ ~SyncDelete(u)
      BY NotRequestedBeside DEF SyncCut, SyncDelete, Request
    <2> QED
      BY <1>1, <2>1, <2>2, <2>3, SyncWriteBeside, SyncCreateBeside
  <1> QED
    BY <1>2, <1>3, <1>4, <1>5, <1>6 DEF Next

\* When nothing waits, every note is settled, and the tree leads to it.
LEMMA QuietShows ==
  ASSUME SyncInv, FollowInv
  PROVE  QuietTreeReflectsVdir
  <1> SUFFICES ASSUME proc = "mounted", watcher = "watching", queue = <<>>
               PROVE  \A u \in Uids : Loadable(disk[u]) => Reflected(u)
    BY DEF QuietTreeReflectsVdir, VdirReflected
  <1>1. Good(tree) /\ pending = {} /\ Tidy(disk)
    BY SyncFacts
  <1>2. ASSUME NEW u \in Files(disk)
        PROVE  /\ tree.parent[u] = WantedParent(disk[u])
               /\ tree.name[u] \in NamesFor(disk[u])
               /\ u \in tree.live
    <2>1. ~Waiting(queue, u)
      <3>1. Len(queue) = 0
        OBVIOUS
      <3> QED
        BY <3>1 DEF Waiting
    <2>2. Settled(tree, disk, pending, u)
      BY <2>1 DEF FollowInv, Follows
    <2> QED
      BY <1>1, <2>2 DEF Settled
  <1>3. Files(disk) \subseteq Attached(tree)
    <2> SUFFICES ASSUME NEW S \in SUBSET Nodes, Root \in S,
                        \A n \in S : ChildSet(tree, n) \subseteq S
                 PROVE  Files(disk) \subseteq S
      BY DEF Attached, Files, Nodes
    <2>1. ASSUME NEW u \in Files(disk), WantedParent(disk[u]) \in S
          PROVE  u \in S
      <3>1. u \in ChildSet(tree, WantedParent(disk[u]))
        BY <1>1, <1>2, <2>1, ChildrenPoint
      <3> QED
        BY <2>1, <3>1
    <2> QED
      BY <1>1, <2>1 DEF Tidy, Rooted, ClosedDownward
  <1>4. \A u \in Uids : Loadable(disk[u]) => u \in Files(disk)
    BY DEF Loadable, Files
  <1>5. Files(disk) \subseteq Shown
    BY <1>3, NodeAssumption DEF Shown, Files
  <1> QED
    BY <1>2, <1>4, <1>5 DEF Reflected

\* The invariant holds in every reachable state.
LEMMA BesideInvariance ==
  ASSUME SyncBeside
  PROVE  Spec => []SyncInv
  <1>1. Init => SyncInv
    BY InitBeside
  <1>2. SyncInv /\ [Next]_vars => SyncInv'
    BY NextBeside DEF Preserves
  <1> QED
    BY <1>1, <1>2, PTL DEF Spec

\* Users and a sync tool beside them, for any number of notes, files and
\* restarts: no parent is missing when the watcher thread asserts that it is
\* there (update_or_create_fuse_entry_from_vdir), and no component when its file
\* is read.  The tool must not cut a file before it writes it again: SyncBeside
\* excludes that, and without it the assertions of fuse_readdir and
\* icalcomponent_mark_as_directory do fail.
THEOREM NoAssertionFailsBesideSync ==
  ASSUME SyncBeside
  PROVE  Spec => []NeverAborts
  <1>1. SyncInv => NeverAborts
    BY DEF SyncInv, NeverAborts
  <1> QED
    BY <1>1, BesideInvariance, PTL

\* Whatever users and the sync tool write in whatever order, and however late
\* the watcher thread handles the events: once none is waiting, every note of
\* the vdir can be reached, where its file says and under a name its file asks
\* for.  That takes a kernel that loses none of the events.
THEOREM QuietTreeShowsVdir ==
  ASSUME SyncBeside
  PROVE  Spec /\ []RoomForEvents => []QuietTreeReflectsVdir
  <1>1. Init => FollowInv
    BY InitBeside
  <1>2. SyncInv /\ FollowInv /\ RoomForEvents /\ [Next]_vars => FollowInv'
    BY NextBeside DEF Preserves
  <1>3. SyncInv /\ FollowInv => QuietTreeReflectsVdir
    BY QuietShows
  <1> QED
    BY <1>1, <1>2, <1>3, BesideInvariance, PTL DEF Spec

=============================================================================
