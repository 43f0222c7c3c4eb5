-------------------------- MODULE AgendaFS_proofs --------------------------
(***************************************************************************)
(* The tree stays consistent under every handler, event and sync, for any  *)
(* set of notes and names and any length of the event queue.               *)
(***************************************************************************)
EXTENDS AgendaFSProperties, NodeTree_proofs

-----------------------------------------------------------------------------
(* The components *)

\* Removing a parent leaves a sequence of uids.
LEMMA WithoutParent ==
  ASSUME NEW p, NEW s \in Seq(Uids)
  PROVE  without_parent(p, s) \in Seq(Uids)
  <1> DEFINE Step(f) ==
               [i \in 0 .. Len(s) |->
                  IF i = 0 THEN <<>>
                  ELSE IF s[i] = p THEN f[i - 1]
                  ELSE Append(f[i - 1], s[i])]
             Upto(n, g) ==
               /\ g \in [0 .. n -> Seq(Uids)]
               /\ \A i \in 0 .. n :
                    g[i] = IF i = 0 THEN <<>>
                           ELSE IF s[i] = p THEN g[i - 1]
                           ELSE Append(g[i - 1], s[i])
             Stuck == {n \in 0 .. Len(s) : ~\E g : Upto(n, g)}
  <1>1. /\ Len(s) \in Nat
        /\ <<>> \in Seq(Uids)
        /\ \A i \in 1 .. Len(s) : s[i] \in Uids
        /\ \A t \in Seq(Uids), u \in Uids : Append(t, u) \in Seq(Uids)
    OBVIOUS
  <1>2. Upto(0, [i \in 0 .. 0 |-> <<>>])
    BY <1>1
  <1>3. ASSUME NEW n \in 1 .. Len(s), NEW g, Upto(n - 1, g)
        PROVE  \E h : Upto(n, h)
    <2> DEFINE h == [i \in 0 .. n |->
                       IF i < n THEN g[i]
                       ELSE IF s[n] = p THEN g[n - 1]
                       ELSE Append(g[n - 1], s[n])]
    <2>1. g[n - 1] \in Seq(Uids) /\ \A i \in 0 .. n - 1 : g[i] \in Seq(Uids)
      BY <1>1, <1>3
    <2>2. h \in [0 .. n -> Seq(Uids)]
      BY <1>1, <2>1
    <2>3. ASSUME NEW i \in 0 .. n
          PROVE  h[i] = IF i = 0 THEN <<>>
                        ELSE IF s[i] = p THEN h[i - 1]
                        ELSE Append(h[i - 1], s[i])
      <3>1. CASE i = n
        BY <3>1, <1>1
      <3>2. CASE i # n
        <4>1. i \in 0 .. n - 1 /\ h[i] = g[i] /\ (i # 0 => h[i - 1] = g[i - 1])
          BY <3>2, <1>1
        <4> HIDE DEF h
        <4> QED
          BY <4>1, <1>3
      <3> QED
        BY <3>1, <3>2
    <2> QED
      BY <2>2, <2>3
  <1>4. Stuck = {}
    <2>1. SUFFICES ASSUME Stuck # {} PROVE FALSE
      OBVIOUS
    <2>2. Stuck \in SUBSET Nat
      BY <1>1
    <2> DEFINE n == Least(Stuck)
    <2>3. n \in Stuck /\ \A m \in Stuck : n <= m
      BY <2>1, <2>2, LeastExists
    <2> HIDE DEF n
    <2>4. n \in 1 .. Len(s)
      <3>1. 0 \notin Stuck
        BY <1>2
      <3>2. n # 0 /\ n \in 0 .. Len(s)
        BY <2>3, <3>1
      <3> QED
        BY <3>2, <1>1
    <2>5. n - 1 \notin Stuck /\ n - 1 \in 0 .. Len(s)
      <3>1. n - 1 \in 0 .. Len(s) /\ ~(n <= n - 1)
        BY <2>4, <1>1
      <3> HIDE DEF Stuck
      <3> QED
        BY <2>3, <3>1
    <2> QED
      BY <2>3, <2>4, <2>5, <1>3
  <1>5. PICK g : Upto(Len(s), g)
    <2>1. Len(s) \in 0 .. Len(s)
      BY <1>1
    <2> HIDE DEF Upto
    <2> QED
      BY <2>1, <1>4
  <1>6. g = Step(g)
    BY <1>5
  <1> DEFINE kept == CHOOSE f : f = Step(f)
  <1>7. kept = Step(kept)
    BY <1>6
  <1>8. without_parent(p, s) = kept[Len(s)]
    BY DEF without_parent
  <1> HIDE DEF kept
  <1> DEFINE Bad == {i \in 0 .. Len(s) : kept[i] \notin Seq(Uids)}
  <1>9. Bad = {}
    <2>1. SUFFICES ASSUME Bad # {} PROVE FALSE
      OBVIOUS
    <2>2. Bad \in SUBSET Nat
      BY <1>1
    <2> DEFINE n == Least(Bad)
    <2>3. n \in Bad /\ \A m \in Bad : n <= m
      BY <2>1, <2>2, LeastExists
    <2> HIDE DEF n
    <2>4. n \in 0 .. Len(s) /\ kept[n] \notin Seq(Uids)
      BY <2>3
    <2>5. kept[n] = IF n = 0 THEN <<>>
                    ELSE IF s[n] = p THEN kept[n - 1]
                    ELSE Append(kept[n - 1], s[n])
      BY <2>4, <1>7
    <2>6. n # 0
      BY <2>4, <2>5, <1>1
    <2>7. n - 1 \in 0 .. Len(s) /\ n - 1 \notin Bad /\ n \in 1 .. Len(s)
      BY <2>3, <2>4, <2>6, <1>1
    <2>8. kept[n - 1] \in Seq(Uids)
      BY <2>7
    <2> QED
      BY <2>4, <2>5, <2>6, <2>7, <2>8, <1>1
  <1> QED
    BY <1>8, <1>9, <1>1

\* What the constructors of ical_extra.c build are components.
LEMMA StoredNames ==
  ASSUME NEW name \in Names
  PROVE  /\ stored_summary(name) \in Names \ {<<Blank>>}
         /\ without_file_extension(name) \in Names
         /\ get_file_extension(name) \in Label \cup {NoExt}
  <1>1. name \in Seq(Label)
    BY DEF Names
  <1>2. Len(name) > 1 => Len(name) \in 1 .. Len(name)
    BY <1>1
  <1>3. get_file_extension(name) \in Label \cup {NoExt}
    BY <1>1, <1>2, ElementOfSeq DEF get_file_extension
  <1>4. <<>> \in Names \ {<<Blank>>}
    BY DEF Names
  <1> QED
    BY <1>1, <1>3, <1>4 DEF stored_summary, without_file_extension, Names

\* What the daemon writes is a component.
LEMMA NewComponent ==
  ASSUME NEW name \in Names
  PROVE  /\ create_vjournal_directory(name) \in Component
         /\ create_vjournal_entry(name) \in Component
  <1>1. Blank \in Label /\ <<>> \in Seq(Uids)
    BY LabelsAssumption DEF Label
  <1>2. create_vjournal_directory(name) \in Component
    BY <1>1, StoredNames DEF create_vjournal_directory, Component
  <1>3. create_vjournal_entry(name) \in Component
    <2>1. stored_summary(without_file_extension(name)) \in Names \ {<<Blank>>}
      BY StoredNames
    <2>2. (IF get_file_extension(name) = NoExt
             THEN Blank ELSE get_file_extension(name)) \in Label \cup {NoExt}
      BY <1>1, StoredNames
    <2> QED
      BY <1>1, <2>1, <2>2 DEF create_vjournal_entry, Component
  <1> QED
    BY <1>2, <1>3

\* Writing a new name into a component leaves a component.
LEMMA RenamedComponent ==
  ASSUME NEW c \in Component, NEW name \in Names
  PROVE  update_node_file_extension(update_summary(c, name), name) \in Component
  <1> DEFINE s == update_summary(c, name)
  <1>1. s \in Component
    <2>1. stored_summary(IF c.isdir THEN name ELSE without_file_extension(name))
            \in Names \ {<<Blank>>}
      BY StoredNames
    <2> QED
      BY <2>1 DEF update_summary, Component
  <1> HIDE DEF s
  <1>2. update_node_file_extension(s, name) \in Component
    BY <1>1, StoredNames DEF update_node_file_extension, Component
  <1> QED
    BY <1>2 DEF s

\* So does writing a new parent relation.
LEMMA RelatedComponent ==
  ASSUME NEW c \in Component, NEW p \in Uids
  PROVE  /\ remove_parent_child_relationship(p, c) \in Component
         /\ set_parent_child_relationship(p, c) \in Component
  <1>1. c.parents \in Seq(Uids)
    BY DEF Component
  <1>2. without_parent(p, c.parents) \in Seq(Uids)
    BY <1>1, WithoutParent
  <1>3. Append(c.parents, p) \in Seq(Uids)
    BY <1>1
  <1> QED
    BY <1>2, <1>3 DEF remove_parent_child_relationship,
         set_parent_child_relationship, Component

\* What the daemon reads from a component is a name and uids.
LEMMA ComponentEntry ==
  ASSUME NEW c \in Component
  PROVE  entry_filename(c) \in Names /\ get_parent_uid(c) \subseteq Uids
  <1>1. /\ c.summary \in Names /\ c.isdir \in BOOLEAN
        /\ c.ext \in Label \cup {NoExt} /\ c.parents \in Seq(Uids)
    BY DEF Component
  <1>2. DefaultExt \in Label
    BY DefaultExtAssumption DEF Label
  <1>3. entry_filename(c) \in Names
    <2>1. c.summary \in Seq(Label)
      BY <1>1 DEF Names
    <2>2. \A e \in Label : Append(c.summary, e) \in Seq(Label)
      BY <2>1
    <2>3. (IF c.ext = NoExt THEN DefaultExt ELSE c.ext) \in Label
      BY <1>1, <1>2
    <2> QED
      BY <2>1, <2>2, <2>3 DEF entry_filename, Names
  <1>4. get_parent_uid(c) \subseteq Uids
    <2>1. CASE c.parents # <<>>
      <3>1. 1 \in 1 .. Len(c.parents)
        BY <1>1, <2>1
      <3> QED
        BY <1>1, <3>1, ElementOfSeq DEF get_parent_uid
    <2> QED
      BY <2>1 DEF get_parent_uid
  <1> QED
    BY <1>3, <1>4

-----------------------------------------------------------------------------
(* The parts of a step *)

\* The tree of a daemon that has loaded nothing is good.
LEMMA EmptyTreeGood == Good(EmptyTree)
  <1> DEFINE E == EmptyTree
  <1>1. /\ E.live = {} /\ E.entries = {}
        /\ E.name = [u \in Uids |-> <<>>] /\ E.parent = [u \in Uids |-> None]
        /\ E.children = [n \in Nodes |-> <<>>]
    BY DEF EmptyTree
  <1>2. <<>> \in Names /\ <<>> \in Seq(Uids) /\ Len(<<>>) = 0
    BY DEF Names
  <1>3. E \in Tree
    BY <1>2 DEF EmptyTree, Tree
  <1> HIDE DEF E
  <1>4. Linked(E) /\ UniqueNames(E)
    BY <1>1, <1>2 DEF Linked, UniqueNames
  <1>5. NoDangling(E)
    BY <1>1, <1>2 DEF NoDangling, ChildSet
  <1> QED
    BY <1>3, <1>4, <1>5 DEF Good, E

\* The nodes that can be reached are allocated.
LEMMA AttachedLive ==
  ASSUME NEW T, Good(T)
  PROVE  /\ Attached(T) \subseteq T.live \cup {Root}
         /\ Attached(T) \ {Root} \subseteq T.live
         /\ T.live \cup {Root} \subseteq Nodes
  <1>1. T.live \cup {Root} \in SUBSET Nodes
    BY TreeFields DEF Good, Nodes
  <1>2. \A n \in T.live \cup {Root} : ChildSet(T, n) \subseteq T.live \cup {Root}
    BY <1>1 DEF Good, NoDangling
  <1> QED
    BY <1>1, <1>2 DEF Attached

\* A node other than the root that can be reached is some node's child.
LEMMA AttachedPlaced ==
  ASSUME NEW T, Good(T), NEW n \in Attached(T), n # Root
  PROVE  \E m \in Nodes : n \in ChildSet(T, m)
  <1> DEFINE S == {Root} \cup UNION {ChildSet(T, m) : m \in Nodes}
  <1>1. \A m \in Nodes : ChildSet(T, m) \subseteq Uids
    BY TreeFields DEF Good, NoDangling
  <1>2. S \in SUBSET Nodes /\ Root \in S
    BY <1>1 DEF Nodes
  <1>3. \A m \in S : ChildSet(T, m) \subseteq S
    BY <1>2
  <1>4. n \in S
    <2> HIDE DEF S
    <2> QED
      BY <1>2, <1>3 DEF Attached
  <1> QED
    BY <1>4

\* What the kernel reports of a file is an event.
LEMMA Events ==
  ASSUME NEW u \in Uids
  PROVE  Created(u) \in Event /\ Modified(u) \in Event /\ Deleted(u) \in Event
  BY DEF Created, Modified, Deleted, Event

\* The event queue keeps its type whatever is added to it.
LEMMA Notify ==
  ASSUME NEW Q \in SUBSET Seq(Event), NEW e \in Event
  PROVE  notify(Q, e) \in SUBSET Seq(Event)
  <1>1. \A q \in Q : q \in Seq(Event) /\ Append(q, e) \in Seq(Event)
    OBVIOUS
  <1> QED
    BY <1>1, Zenon DEF notify

\* So does a queue to which the events of one file are added.
LEMMA NotifyFile ==
  ASSUME NEW Q \in SUBSET Seq(Event), NEW u \in Uids
  PROVE  /\ created(Q, u) \in SUBSET Seq(Event)
         /\ modified(Q, u) \in SUBSET Seq(Event)
         /\ notify(Q, Created(u)) \in SUBSET Seq(Event)
         /\ notify(Q, Modified(u)) \in SUBSET Seq(Event)
         /\ notify(Q, Deleted(u)) \in SUBSET Seq(Event)
  <1>1. /\ notify(Q, Created(u)) \in SUBSET Seq(Event)
        /\ notify(Q, Modified(u)) \in SUBSET Seq(Event)
        /\ notify(Q, Deleted(u)) \in SUBSET Seq(Event)
    BY Events, Notify
  <1>2. Modified(u) \in Event
    BY Events
  <1>3. created(Q, u) \in SUBSET Seq(Event)
    BY <1>1, <1>2, Notify DEF created
  <1>4. modified(Q, u) \in SUBSET Seq(Event)
    BY <1>1, <1>2, Notify DEF modified
  <1> QED
    BY <1>1, <1>3, <1>4

\* A request is counted, up to the bound.
LEMMA Requested ==
  ASSUME Inv, NEW kinds, Request(kinds)
  PROVE  requests' \in 0 .. MaxRequests
  BY AgendaFSAssumption DEF Inv, TypeOK, Request

\* A crash leaves no tree behind.
LEMMA AbortStep ==
  ASSUME Inv, Abort, disk' \in [Uids -> Component \cup {NoFile}],
         torn' \subseteq {u \in Uids : disk'[u] = NoFile},
         requests' \in 0 .. MaxRequests
  PROVE  Inv'
  <1>1. Good(tree)'
    BY EmptyTreeGood DEF Abort
  <1>2. TypeOK'
    BY <1>1 DEF Abort, TypeOK, Good, Parses
  <1> QED
    BY <1>1, <1>2 DEF Abort, Inv, Good, TreeConsistent, NoDanglingNode,
         SiblingNamesUnique, LoadUndisturbed

\* A handler of a mounted file system, or of an event, that does not crash.
LEMMA TreeStep ==
  ASSUME Inv, Good(tree)', pending = {},
         disk' \in [Uids -> Component \cup {NoFile}],
         torn' \subseteq {u \in Uids : disk'[u] = NoFile},
         queue' \in Seq(Event), requests' \in 0 .. MaxRequests,
         UNCHANGED <<proc, watcher, pending>>
  PROVE  Inv'
  <1>1. TypeOK'
    BY DEF Inv, TypeOK, Good, Parses
  <1>2. LoadUndisturbed'
    BY DEF Inv, LoadUndisturbed
  <1> QED
    BY <1>1, <1>2 DEF Inv, Good, TreeConsistent, NoDanglingNode,
         SiblingNamesUnique

\* The invariant says that the tree is good.
LEMMA InvGood ==
  ASSUME Inv
  PROVE  /\ Good(tree)
         /\ proc \in {"loaded", "mounted"} \/ watcher # "none" => pending = {}
         /\ disk \in [Uids -> Component \cup {NoFile}]
         /\ torn \subseteq {u \in Uids : disk[u] = NoFile}
         /\ queue \in Seq(Event) /\ requests \in 0 .. MaxRequests
  BY DEF Inv, TypeOK, TreeConsistent, NoDanglingNode, SiblingNamesUnique, Good,
         LoadUndisturbed, Parses

-----------------------------------------------------------------------------
(* Starting and stopping *)

\* The scan of the vdir: a tree of unplaced notes is good.
LEMMA LoadScanStep ==
  ASSUME Inv, LoadScan
  PROVE  Inv'
  <1> DEFINE S == {u \in Uids : Loadable(disk[u])}
  <1>1. /\ watcher = "none"
        /\ disk \in [Uids -> Component \cup {NoFile}]
        /\ torn \subseteq {u \in Uids : disk[u] = NoFile}
        /\ queue \in Seq(Event) /\ requests \in 0 .. MaxRequests
    BY DEF Inv, TypeOK, LoadUndisturbed, LoadScan, Parses
  <1>2. /\ proc' = "loading" /\ pending' = S /\ watcher' = "none"
        /\ disk' = disk /\ torn' = torn /\ queue' = queue
        /\ requests' = requests
        /\ tree' = [EmptyTree EXCEPT
                       !.live = S, !.entries = S,
                       !.name = [u \in Uids |-> IF u \in S
                                                  THEN entry_filename(disk[u])
                                                  ELSE <<>>]]
    BY <1>1 DEF LoadScan
  <1>3. \A u \in S : entry_filename(disk[u]) \in Names
    BY <1>1, ComponentEntry DEF Loadable
  <1>4. S \in SUBSET Uids /\ <<>> \in Names
    BY DEF Names
  <1> HIDE DEF S
  <1>5. /\ tree' \in Tree /\ tree'.live = S /\ tree'.entries = S
        /\ tree'.parent = EmptyTree.parent
        /\ tree'.children = EmptyTree.children
    <2>1. EmptyTree \in Tree
      BY EmptyTreeGood DEF Good
    <2>2. [u \in Uids |-> IF u \in S THEN entry_filename(disk[u]) ELSE <<>>]
            \in [Uids -> Names]
      BY <1>3, <1>4
    <2> QED
      BY <1>2, <1>4, <2>1, <2>2 DEF Tree
  <1>6. /\ EmptyTree.parent = [u \in Uids |-> None]
        /\ EmptyTree.children = [n \in Nodes |-> <<>>]
        /\ Len(<<>>) = 0
    BY DEF EmptyTree
  <1>7. Linked(tree') /\ UniqueNames(tree')
    BY <1>5, <1>6 DEF Linked, UniqueNames
  <1>8. NoDangling(tree')
    BY <1>4, <1>5, <1>6 DEF NoDangling, ChildSet
  <1>9. TypeOK'
    BY <1>1, <1>2, <1>4, <1>5 DEF TypeOK, Parses
  <1>10. LoadUndisturbed'
    BY <1>2, <1>4, <1>5, <1>6 DEF LoadUndisturbed
  <1> QED
    BY <1>7, <1>8, <1>9, <1>10 DEF Inv, TreeConsistent, NoDanglingNode,
         SiblingNamesUnique

\* Placing u, or leaving it where it is, keeps the others unplaced.
LEMMA LoadPlace ==
  ASSUME Inv, proc = "loading", NEW u \in pending, Good(tree'),
         tree'.live = tree.live,
         \A v \in Uids : v # u => tree'.parent[v] = tree.parent[v],
         pending' = pending \ {u},
         disk' \in [Uids -> Component \cup {NoFile}],
         torn' \subseteq {v \in Uids : disk'[v] = NoFile},
         UNCHANGED <<proc, watcher, queue, requests>>
  PROVE  Inv'
  <1>1. TypeOK'
    BY DEF Inv, TypeOK, Good, Parses
  <1>2. pending \subseteq Uids
    BY DEF Inv, TypeOK
  <1>3. LoadUndisturbed'
    BY <1>2 DEF Inv, LoadUndisturbed
  <1> QED
    BY <1>1, <1>3 DEF Inv, Good, TreeConsistent, NoDanglingNode,
         SiblingNamesUnique

\* Marking the file of a parent as a directory leaves the disk well typed.
LEMMA MarkDirectory ==
  ASSUME NEW D \in [Uids -> Component \cup {NoFile}], NEW p \in Uids,
         D[p] # NoFile
  PROVE  [D EXCEPT ![p] = icalcomponent_mark_as_directory(@)]
           \in [Uids -> Component \cup {NoFile}]
  <1>1. D[p] \in Component
    OBVIOUS
  <1>2. icalcomponent_mark_as_directory(D[p]) \in Component
    BY <1>1 DEF icalcomponent_mark_as_directory, Component
  <1> QED
    BY <1>2

\* load_root_node_tree gives one note its place, at the top or below its parent.
LEMMA LoadAttachStep ==
  ASSUME Inv, NEW u \in Uids, LoadAttach(u)
  PROVE  Inv'
  <1>1. /\ proc = "loading" /\ u \in pending /\ requests' = requests
        /\ Good(tree) /\ u \in tree.live /\ tree.parent[u] = None
        /\ disk \in [Uids -> Component \cup {NoFile}]
        /\ requests \in 0 .. MaxRequests
        /\ tree \in Tree /\ tree.entries = tree.live
    BY InvGood DEF LoadAttach, Inv, LoadUndisturbed, Good, NoDangling
  <1>a. torn \subseteq {v \in Uids : disk[v] = NoFile} /\ torn' = torn
    BY InvGood DEF LoadAttach
  <1>2. CASE ~Exists(u)
    <2>1. Abort /\ UNCHANGED disk
      BY <1>2 DEF LoadAttach
    <2> QED
      BY <1>1, <1>a, <2>1, AbortStep
  <1>3. CASE Exists(u)
    <2> DEFINE ps == IF Parses(u) THEN get_parent_uid(disk[u]) ELSE {}
    <2>1. Parses(u) => disk[u] \in Component
      BY <1>1, <1>3 DEF Parses
    <2>2. ps \subseteq Uids
      BY <2>1, ComponentEntry
    <2>3. \/ /\ tree' = add_fuse_child(tree, Root, u)
             /\ pending' = pending \ {u}
             /\ UNCHANGED <<proc, watcher, disk, queue>>
          \/ /\ pending' = pending \ {u}
             /\ UNCHANGED <<proc, watcher, tree, disk, queue>>
          \/ \E p \in ps :
               /\ p \in tree.entries
               /\ IF ~Parses(p)
                    THEN Abort /\ UNCHANGED disk
                    ELSE /\ disk' = [disk EXCEPT ![p] =
                                       icalcomponent_mark_as_directory(@)]
                         /\ tree' = move_fuse_node(tree, p, u)
                         /\ pending' = pending \ {u}
                         /\ UNCHANGED <<proc, watcher, queue>>
      BY <1>3 DEF LoadAttach
    <2> HIDE DEF ps
    <2>4. \A p \in Nodes \cup {None}, v \in Uids :
            v # u => [tree.parent EXCEPT ![u] = p][v] = tree.parent[v]
      BY <1>1, TreeFields
    <2>5. CASE /\ tree' = add_fuse_child(tree, Root, u)
               /\ pending' = pending \ {u}
               /\ UNCHANGED <<proc, watcher, disk, queue>>
      <3>1. /\ Good(tree') /\ tree'.live = tree.live
            /\ tree'.parent = [tree.parent EXCEPT ![u] = Root]
        BY <1>1, <2>5, AddFuseChild
      <3> QED
        BY <1>1, <1>a, <2>4, <2>5, <3>1, LoadPlace DEF Nodes
    <2>6. CASE /\ pending' = pending \ {u}
               /\ UNCHANGED <<proc, watcher, tree, disk, queue>>
      BY <1>1, <1>a, <2>6, LoadPlace
    <2>7. ASSUME NEW p \in ps, p \in tree.entries,
                 IF ~Parses(p)
                   THEN Abort /\ UNCHANGED disk
                   ELSE /\ disk' = [disk EXCEPT ![p] =
                                      icalcomponent_mark_as_directory(@)]
                        /\ tree' = move_fuse_node(tree, p, u)
                        /\ pending' = pending \ {u}
                        /\ UNCHANGED <<proc, watcher, queue>>
          PROVE  Inv'
      <3>1. CASE ~Parses(p)
        BY <1>1, <1>a, <2>7, <3>1, AbortStep
      <3>2. CASE Parses(p)
        <4>1. /\ disk' = [disk EXCEPT ![p] = icalcomponent_mark_as_directory(@)]
              /\ tree' = move_fuse_node(tree, p, u)
              /\ pending' = pending \ {u}
              /\ UNCHANGED <<proc, watcher, queue>>
          BY <2>7, <3>2
        <4>2. disk' \in [Uids -> Component \cup {NoFile}]
          BY <1>1, <2>2, <2>7, <3>2, <4>1, MarkDirectory DEF Parses
        <4>3. GoodBut(tree, u) /\ p \in tree.live \cup {Root}
          BY <1>1, <2>7, GoodIsGoodBut
        <4>4. /\ Good(tree') /\ tree'.live = tree.live
              /\ tree'.parent = [tree.parent EXCEPT ![u] = p]
          BY <1>1, <4>1, <4>3, MoveFuseNode
        <4>5. p \in Nodes \cup {None}
          BY <2>2, <2>7 DEF Nodes
        <4>6. torn' \subseteq {v \in Uids : disk'[v] = NoFile}
          BY <1>1, <1>a, <3>2, <4>1 DEF Parses
        <4> QED
          BY <1>1, <2>4, <4>1, <4>2, <4>4, <4>5, <4>6, LoadPlace
      <3> QED
        BY <3>1, <3>2
    <2> QED
      BY <2>3, <2>5, <2>6, <2>7
  <1> QED
    BY <1>2, <1>3

\* Starting, forking and stopping leave the tree or empty it.
LEMMA ProcessStep ==
  ASSUME Inv, LoadDone \/ ServeFuse \/ Terminate \/ StartWatch
  PROVE  Inv'
  <1>1. Good(tree) /\ <<>> \in Seq(Event) /\ Good(EmptyTree)
    BY InvGood, EmptyTreeGood
  <1>2. CASE LoadDone \/ ServeFuse \/ StartWatch
    <2>1. TypeOK'
      BY <1>1, <1>2 DEF LoadDone, ServeFuse, StartWatch, Inv, TypeOK, Parses
    <2>2. tree' = tree /\ pending' = pending
      BY <1>2 DEF LoadDone, ServeFuse, StartWatch
    <2>3. LoadUndisturbed'
      BY <1>2, <2>2 DEF LoadDone, ServeFuse, StartWatch, Inv, TypeOK,
           LoadUndisturbed
    <2> QED
      BY <1>1, <2>1, <2>2, <2>3 DEF Inv, Good, TreeConsistent, NoDanglingNode,
           SiblingNamesUnique
  <1>3. CASE Terminate
    <2>1. requests' \in 0 .. MaxRequests
      BY <1>3, Requested DEF Terminate
    <2>2. TypeOK'
      BY <1>1, <1>3, <2>1 DEF Terminate, Inv, TypeOK, Good, Parses
    <2> QED
      BY <1>1, <1>3, <2>2 DEF Terminate, Inv, Good, TreeConsistent,
           NoDanglingNode, SiblingNamesUnique, LoadUndisturbed
  <1> QED
    BY <1>2, <1>3

-----------------------------------------------------------------------------
(* Events *)

\* The queue without its first event.
LEMMA TailOfEvents ==
  ASSUME NEW q \in Seq(Event), q # <<>>
  PROVE  Tail(q) \in Seq(Event)
  OBVIOUS

\* The key the lookup is given names no note.
LEMMA HandleDeletedStep ==
  ASSUME Inv, NEW u \in Uids, HandleDeleted(u)
  PROVE  Inv'
  <1>1. Good(tree) /\ pending = {} /\ queue \in Seq(Event)
    BY InvGood DEF HandleDeleted
  <1>2. FullPath(u) \notin tree.entries
    BY <1>1, FullPathAssumption, TreeFields DEF Good
  <1>3. tree' = tree
    BY <1>2 DEF HandleDeleted, delete_from_vdir_path
  <1>4. queue' \in Seq(Event)
    BY <1>1, TailOfEvents DEF HandleDeleted
  <1>5. Good(tree)'
    BY <1>1, <1>3
  <1>6. /\ disk' = disk /\ torn' = torn /\ requests' = requests
        /\ UNCHANGED <<proc, watcher, pending>>
    BY DEF HandleDeleted
  <1>7. /\ disk' \in [Uids -> Component \cup {NoFile}]
        /\ torn' \subseteq {v \in Uids : disk'[v] = NoFile}
        /\ requests' \in 0 .. MaxRequests
    BY <1>6, InvGood
  <1> QED
    BY <1>1, <1>4, <1>5, <1>6, <1>7, TreeStep

\* The watcher follows a file that was created or changed.
LEMMA HandleChangedStep ==
  ASSUME Inv, NEW u \in Uids, HandleChanged(u)
  PROVE  Inv'
  <1>1. /\ Good(tree) /\ pending = {} /\ queue \in Seq(Event)
        /\ disk \in [Uids -> Component \cup {NoFile}]
        /\ requests' \in 0 .. MaxRequests /\ requests' = requests
    BY InvGood DEF HandleChanged
  <1>a. torn \subseteq {v \in Uids : disk[v] = NoFile} /\ torn' = torn
    BY InvGood DEF HandleChanged
  <1>2. Tail(queue) \in Seq(Event)
    BY <1>1, TailOfEvents DEF HandleChanged
  <1>3. CASE ~Loadable(disk[u])
    <2>1. /\ queue' = Tail(queue)
          /\ UNCHANGED <<proc, watcher, tree, disk, pending>>
      BY <1>3 DEF HandleChanged
    <2>2. Good(tree)'
      BY <1>1, <2>1
    <2> QED
      BY <1>1, <1>2, <1>a, <2>1, <2>2, TreeStep
  <1>4. CASE Loadable(disk[u])
    <2> DEFINE t == upsert_fuse_node(tree, u, entry_filename(disk[u]))
               ps == get_parent_uid(disk[u])
    <2>1. disk[u] \in Component
      BY <1>1, <1>4 DEF Loadable
    <2>2. entry_filename(disk[u]) \in Names /\ ps \subseteq Uids
      BY <2>1, ComponentEntry
    <2>3. \/ /\ tree' = move_fuse_node(t, Root, u)
             /\ queue' = Tail(queue)
             /\ UNCHANGED <<proc, watcher, disk, pending>>
          \/ \E p \in ps :
               IF p \notin t.entries \/ ~Parses(p)
                 THEN Abort /\ UNCHANGED disk
                 ELSE /\ tree' = move_fuse_node(t, p, u)
                      /\ disk' = [disk EXCEPT ![p] =
                                    icalcomponent_mark_as_directory(@)]
                      /\ queue' \in IF disk[p].isdir
                                      THEN {Tail(queue)}
                                      ELSE modified({Tail(queue)}, p)
                      /\ UNCHANGED <<proc, watcher, pending>>
      BY <1>4 DEF HandleChanged
    <2>4. /\ GoodBut(t, u) /\ t.live = tree.live \cup {u} /\ t.entries = t.live
          /\ t.parent = tree.parent
          /\ t.name = [tree.name EXCEPT ![u] = entry_filename(disk[u])]
      BY <1>1, <2>2, Upsert
    <2>5. u \in t.live
      BY <2>4
    <2> HIDE DEF t, ps
    <2>6. ASSUME NEW p \in t.live \cup {Root}, tree' = move_fuse_node(t, p, u)
          PROVE  Good(tree)'
      <3>1. Good(tree')
        BY <2>4, <2>5, <2>6, MoveFuseNode
      <3> QED
        BY <3>1
    <2>7. CASE /\ tree' = move_fuse_node(t, Root, u)
               /\ queue' = Tail(queue)
               /\ UNCHANGED <<proc, watcher, disk, pending>>
      <3>1. Good(tree)'
        BY <2>6, <2>7
      <3> QED
        BY <1>1, <1>2, <1>a, <2>7, <3>1, TreeStep
    <2>8. ASSUME NEW p \in ps,
                 IF p \notin t.entries \/ ~Parses(p)
                   THEN Abort /\ UNCHANGED disk
                   ELSE /\ tree' = move_fuse_node(t, p, u)
                        /\ disk' = [disk EXCEPT ![p] =
                                      icalcomponent_mark_as_directory(@)]
                        /\ queue' \in IF disk[p].isdir
                                        THEN {Tail(queue)}
                                        ELSE modified({Tail(queue)}, p)
                        /\ UNCHANGED <<proc, watcher, pending>>
          PROVE  Inv'
      <3>1. CASE p \notin t.entries \/ ~Parses(p)
        BY <1>1, <1>a, <2>8, <3>1, AbortStep
      <3>2. CASE p \in t.entries /\ Parses(p)
        <4>1. /\ tree' = move_fuse_node(t, p, u)
              /\ disk' = [disk EXCEPT ![p] = icalcomponent_mark_as_directory(@)]
              /\ queue' \in IF disk[p].isdir
                              THEN {Tail(queue)}
                              ELSE modified({Tail(queue)}, p)
              /\ UNCHANGED <<proc, watcher, pending>>
          BY <2>8, <3>2
        <4>2. p \in Uids
          BY <2>2, <2>8
        <4>3. disk' \in [Uids -> Component \cup {NoFile}]
          BY <1>1, <3>2, <4>1, <4>2, MarkDirectory DEF Parses
        <4>4. queue' \in Seq(Event)
          BY <1>2, <4>1, <4>2, NotifyFile
        <4>5. Good(tree)'
          BY <2>4, <2>6, <3>2, <4>1
        <4>6. torn' \subseteq {v \in Uids : disk'[v] = NoFile}
          BY <1>1, <1>a, <3>2, <4>1 DEF Parses
        <4> QED
          BY <1>1, <4>1, <4>3, <4>4, <4>5, <4>6, TreeStep
      <3> QED
        BY <3>1, <3>2
    <2> QED
      BY <2>3, <2>7, <2>8
  <1> QED
    BY <1>3, <1>4

-----------------------------------------------------------------------------
(* FUSE handlers *)

\* Reading a note whose file is gone, or a directory in which one is cut, ends
\* the process.
LEMMA FuseReadStep ==
  ASSUME Inv, NEW n \in Nodes, FuseRead(n)
  PROVE  Inv'
  BY InvGood, AbortStep DEF FuseRead

\* T2 is T with u below dir and called `name`.
Placed(T, T2, u, dir, name) ==
  /\ T2.live = T.live \cup {u}
  /\ T2.parent = [T.parent EXCEPT ![u] = dir]
  /\ T2.name = [T.name EXCEPT ![u] = name]

\* A new node goes below dir, where its name is free.
LEMMA PlaceCreated ==
  ASSUME NEW T, Good(T), NEW u \in Uids, u \notin T.live,
         NEW dir \in T.live \cup {Root}, NEW name \in Names,
         lookup(T, dir, name) = None
  PROVE  LET D == add_child(create_fuse_node(T, u, name), dir, u)
         IN  Good(D) /\ Placed(T, D, u, dir, name)
  <1> DEFINE t == create_fuse_node(T, u, name)
  <1>1. /\ Good(t)
        /\ t.live = T.live \cup {u} /\ t.parent = T.parent
        /\ t.children = T.children
        /\ t.name = [T.name EXCEPT ![u] = name]
        /\ t.parent[u] = None
    BY CreateNode
  <1> HIDE DEF t
  <1>2. /\ dir \in Nodes /\ T \in Tree /\ T.live \subseteq Uids
        /\ ChildSet(T, dir) \subseteq T.live
    BY TreeFields DEF Good, NoDangling, Nodes
  <1>3. name \notin ChildNames(T, dir)
    BY <1>2, Lookup, NodeAssumption
  <1>4. t.name[u] \notin ChildNames(t, dir)
    <2>1. ChildSet(t, dir) = ChildSet(T, dir)
      BY <1>1 DEF ChildSet
    <2>2. \A m \in ChildSet(T, dir) : t.name[m] = T.name[m]
      BY <1>1, <1>2, TreeFields
    <2>3. t.name[u] = name
      BY <1>1, <1>2, TreeFields
    <2> QED
      BY <1>3, <2>1, <2>2, <2>3 DEF ChildNames
  <1>5. u \in t.live /\ dir \in t.live \cup {Root}
    BY <1>1
  <1>6. LET A == add_child(t, dir, u)
        IN  /\ Good(A) /\ A.live = t.live /\ A.name = t.name
            /\ A.parent = [t.parent EXCEPT ![u] = dir]
    <2>1. Good(t) /\ t.parent[u] = None
      BY <1>1
    <2> QED
      BY <1>4, <1>5, <2>1, AddChild
  <1> QED
    BY <1>1, <1>6 DEF Placed, t

\* The name of a new note is not in its directory.
LEMMA CreateEntryStep ==
  ASSUME Inv, NEW dir \in Nodes \cup {None}, NEW name \in Names,
         NEW c \in Component, NEW kinds, Request(kinds),
         CreateEntry(dir, name, c)
  PROVE  Inv'
  <1>1. /\ Good(tree) /\ pending = {} /\ queue \in Seq(Event)
        /\ disk \in [Uids -> Component \cup {NoFile}]
        /\ requests' \in 0 .. MaxRequests
    BY InvGood, Requested DEF CreateEntry
  <1>a. torn \subseteq {v \in Uids : disk[v] = NoFile} /\ torn' = torn
    BY InvGood DEF CreateEntry
  <1>2. PICK u \in Fresh :
          LET t == create_fuse_node(tree, u, name)
          IN  IF ~Readable({dir})
                THEN Abort /\ UNCHANGED disk
                ELSE IF dir = None \/ dir \notin Directories
                THEN tree' = t /\ UNCHANGED <<proc, watcher, disk, queue, pending>>
                ELSE /\ disk' = [disk EXCEPT ![u] =
                          IF dir = Root
                            THEN c
                            ELSE set_parent_child_relationship(dir, c)]
                     /\ tree' = add_child(t, dir, u)
                     /\ queue' \in created({queue}, u)
                     /\ UNCHANGED <<proc, watcher, pending>>
    BY DEF CreateEntry
  <1>3. u \in Uids /\ u \notin tree.live /\ u \notin torn
    BY DEF Fresh, Exists
  <1> DEFINE t == create_fuse_node(tree, u, name)
  <1>4. Good(t)
    BY <1>1, <1>3, CreateNode
  <1> HIDE DEF t
  <1>5. CASE ~Readable({dir})
    BY <1>1, <1>2, <1>5, <1>a, AbortStep
  <1>6. CASE Readable({dir}) /\ (dir = None \/ dir \notin Directories)
    <2>1. tree' = t /\ UNCHANGED <<proc, watcher, disk, queue, pending>>
      BY <1>2, <1>6 DEF t
    <2>2. Good(tree)'
      BY <1>4, <2>1
    <2> QED
      BY <1>1, <1>a, <2>1, <2>2, TreeStep
  <1>7. CASE Readable({dir}) /\ dir # None /\ dir \in Directories
    <2>1. /\ disk' = [disk EXCEPT ![u] =
                IF dir = Root
                  THEN c
                  ELSE set_parent_child_relationship(dir, c)]
          /\ tree' = add_child(t, dir, u)
          /\ queue' \in created({queue}, u)
          /\ UNCHANGED <<proc, watcher, pending>>
      BY <1>2, <1>7 DEF t
    <2>2. dir \in Attached(tree) /\ lookup(tree, dir, name) = None
      BY <1>7 DEF Directories, CreateEntry
    <2>3. dir \in tree.live \cup {Root} /\ dir \in Nodes
      BY <1>1, <2>2, AttachedLive
    <2>4. Good(add_child(t, dir, u))
      BY <1>1, <1>3, <2>2, <2>3, PlaceCreated DEF t
    <2>5. Good(tree')
      BY <2>1, <2>4
    <2>6. disk' \in [Uids -> Component \cup {NoFile}]
      <3>1. (IF dir = Root THEN c ELSE set_parent_child_relationship(dir, c))
              \in Component
        BY <2>3, RelatedComponent DEF Nodes
      <3> QED
        BY <1>1, <2>1, <3>1
    <2>7. queue' \in Seq(Event)
      BY <1>1, <1>3, <2>1, NotifyFile
    <2>8. Good(tree)'
      BY <2>5
    <2>9. torn' \subseteq {v \in Uids : disk'[v] = NoFile}
      BY <1>1, <1>3, <1>a, <2>1
    <2> QED
      BY <1>1, <2>1, <2>6, <2>7, <2>8, <2>9, TreeStep
  <1> QED
    BY <1>5, <1>6, <1>7

\* Writing a note leaves the tree alone, or ends the process.
LEMMA FuseWriteStep ==
  ASSUME Inv, NEW n \in Uids, FuseWrite(n)
  PROVE  Inv'
  <1>1. /\ Good(tree) /\ pending = {} /\ queue \in Seq(Event)
        /\ disk \in [Uids -> Component \cup {NoFile}] /\ disk' = disk
        /\ torn \subseteq {v \in Uids : disk[v] = NoFile} /\ torn' = torn
        /\ requests' \in 0 .. MaxRequests
    BY InvGood, Requested DEF FuseWrite
  <1>2. CASE n \in torn
    BY <1>1, <1>2, AbortStep DEF FuseWrite
  <1>3. CASE n \notin torn
    <2>1. /\ queue' \in modified({queue}, n)
          /\ UNCHANGED <<proc, watcher, tree, pending>>
      BY <1>3 DEF FuseWrite
    <2>2. queue' \in Seq(Event)
      BY <1>1, <2>1, NotifyFile
    <2>3. Good(tree)'
      BY <1>1, <2>1
    <2> QED
      BY <1>1, <2>1, <2>2, <2>3, TreeStep
  <1> QED
    BY <1>2, <1>3

\* D is T without the node n, and nothing else is different.
Freed(T, D, n) ==
  /\ D.live = T.live \ {n}
  /\ D.parent = [T.parent EXCEPT ![n] = None]
  /\ D.name = [T.name EXCEPT ![n] = <<>>]
  /\ \A m \in Nodes : ChildSet(D, m) = ChildSet(T, m) \ {n}

\* Freeing a node without children.
LEMMA FreeLeaf ==
  ASSUME NEW T, Good(T), NEW n \in T.live, ~node_has_children(T, n)
  PROVE  /\ Good(delete_fuse_node(T, n))
         /\ Freed(T, delete_fuse_node(T, n), n)
  <1>1. n \in Nodes /\ T \in Tree
    BY TreeFields DEF Good, Nodes
  <1>2. Len(T.children[n]) = 0
    <2>1. Len(T.children[n]) \in Nat
      BY <1>1, TreeFields
    <2> QED
      BY <2>1 DEF node_has_children
  <1> DEFINE E == delete_fuse_node(T, n)
  <1>3. /\ Good(E)
        /\ E.live = T.live \ {n}
        /\ E.parent = [T.parent EXCEPT ![n] = None]
        /\ E.name = [T.name EXCEPT ![n] = <<>>]
        /\ \A m \in Nodes : ChildSet(E, m) = ChildSet(T, m) \ {n}
    BY <1>2, DeleteFuseNode
  <1> HIDE DEF E
  <1>4. Good(E) /\ Freed(T, E, n)
    BY <1>3 DEF Freed
  <1> QED
    BY <1>4 DEF E

\* Only a note without children is deleted.
LEMMA DeleteEntryStep ==
  ASSUME Inv, NEW n \in Uids, NEW kinds, proc = "mounted", Request(kinds),
         n \in Shown, ~node_has_children(tree, n), DeleteEntry(n)
  PROVE  Inv'
  <1>1. /\ Good(tree) /\ pending = {} /\ queue \in Seq(Event)
        /\ disk \in [Uids -> Component \cup {NoFile}]
        /\ requests' \in 0 .. MaxRequests
    BY InvGood, Requested
  <1>2. n \in tree.live
    BY <1>1, AttachedLive DEF Shown
  <1>3. Good(tree')
    BY <1>1, <1>2, FreeLeaf DEF DeleteEntry
  <1>4. Good(tree)'
    BY <1>3
  <1>5. disk' \in [Uids -> Component \cup {NoFile}] /\ queue' \in Seq(Event)
    BY <1>1, NotifyFile DEF DeleteEntry
  <1>6. torn' \subseteq {v \in Uids : disk'[v] = NoFile}
    <2>1. torn \subseteq {v \in Uids : disk[v] = NoFile}
      BY InvGood
    <2> QED
      BY <1>1, <2>1 DEF DeleteEntry
  <1> QED
    BY <1>1, <1>4, <1>5, <1>6, TreeStep DEF DeleteEntry

\* A note that is not a directory has nothing below it, so it can be freed.
LEMMA FuseUnlinkStep ==
  ASSUME Inv, NEW n \in Uids, FuseUnlink(n)
  PROVE  Inv'
  <1>1. ~node_has_children(tree, n)
    BY DEF FuseUnlink, node_is_directory
  <1> QED
    BY <1>1, DeleteEntryStep DEF FuseUnlink

\* A directory is freed only when it is empty.
LEMMA FuseRmdirStep ==
  ASSUME Inv, NEW n \in Uids, FuseRmdir(n)
  PROVE  Inv'
  BY DeleteEntryStep DEF FuseRmdir

\* The tree after the entry a rename replaces is freed.
Replaced(T, target) ==
  IF target = None THEN T ELSE delete_fuse_node(T, target)

\* The entry a rename replaces is a child of dir with the new name, and
\* freeing it leaves the other nodes where they are.
LEMMA FreeTarget ==
  ASSUME NEW T, Good(T), NEW dir \in T.live \cup {Root}, NEW name,
         NEW target, target = lookup(T, dir, name), target # None,
         ~node_has_children(T, target), NEW D, D = Replaced(T, target)
  PROVE  /\ Good(D)
         /\ target \in T.live /\ dir # target
         /\ target \in ChildSet(T, dir) /\ T.name[target] = name
         /\ Freed(T, D, target)
  <1>1. /\ T \in Tree /\ dir \in Nodes /\ T.live \subseteq Uids
        /\ ChildSet(T, dir) \subseteq T.live
    BY TreeFields DEF Good, NoDangling, Nodes
  <1>2. target \in ChildSet(T, dir) /\ T.name[target] = name
    BY <1>1, Lookup
  <1>3. target \in T.live /\ dir # target
    <2>1. Len(T.children[target]) \in Nat
      BY <1>1, <1>2, TreeFields DEF Nodes
    <2>2. ChildSet(T, target) = {}
      BY <2>1 DEF node_has_children, ChildSet
    <2> QED
      BY <1>1, <1>2, <2>2
  <1>4. Good(D) /\ Freed(T, D, target)
    BY <1>3, FreeLeaf DEF Replaced
  <1> QED
    BY <1>2, <1>3, <1>4

\* Freeing the entry a rename replaces leaves the new name free.
LEMMA ReplaceTarget ==
  ASSUME NEW T, Good(T), NEW n \in T.live, NEW dir \in T.live \cup {Root},
         NEW name, NEW target, target = lookup(T, dir, name), target # n,
         target # None => ~node_has_children(T, target),
         NEW D, D = Replaced(T, target)
  PROVE  /\ Good(D)
         /\ n \in D.live /\ dir \in D.live \cup {Root}
         /\ \A m \in ChildSet(D, dir) : D.name[m] # name
  <1>1. /\ T \in Tree /\ dir \in Nodes /\ T.live \subseteq Uids
        /\ ChildSet(T, dir) \subseteq T.live
    BY TreeFields DEF Good, NoDangling, Nodes
  <1>2. CASE target = None
    <2>1. name \notin ChildNames(T, dir)
      BY <1>1, <1>2, Lookup, NodeAssumption
    <2> QED
      BY <1>2, <2>1 DEF ChildNames, Replaced
  <1>3. CASE target # None
    <2>1. /\ Good(D)
          /\ target \in T.live /\ dir # target
          /\ target \in ChildSet(T, dir) /\ T.name[target] = name
          /\ Freed(T, D, target)
      BY <1>3, FreeTarget
    <2>2. ASSUME NEW m \in ChildSet(D, dir)
          PROVE  D.name[m] # name
      <3>1. m \in ChildSet(T, dir) /\ m # target
        BY <1>1, <2>1 DEF Freed
      <3>2. D.name[m] = T.name[m]
        BY <1>1, <2>1, <3>1, TreeFields DEF Freed
      <3>3. T.name[m] # T.name[target]
        BY <1>1, <2>1, <3>1 DEF Good, UniqueNames, ChildSet
      <3> QED
        BY <2>1, <3>2, <3>3
    <2>3. n \in D.live /\ dir \in D.live \cup {Root}
      BY <2>1 DEF Freed
    <2> QED
      BY <2>1, <2>2, <2>3
  <1> QED
    BY <1>2, <1>3

\* Naming a node and moving it below dir, where that name is free.
LEMMA PlaceRenamed ==
  ASSUME NEW T, Good(T), NEW n \in T.live, NEW dir \in T.live \cup {Root},
         NEW name \in Names, \A m \in ChildSet(T, dir) : T.name[m] # name
  PROVE  LET D == move_node(set_node_filename(T, n, name), dir, n)
         IN  /\ Good(D)
             /\ Placed(T, D, n, dir, name)
  <1> DEFINE S == set_node_filename(T, n, name)
             D == detach_tree_node(S, n)
  <1>1. /\ T \in Tree /\ dir \in Nodes /\ n \in Uids
        /\ \A m \in ChildSet(T, dir) : m \in Uids
    BY TreeFields DEF Good, NoDangling, Nodes
  <1>2. /\ GoodBut(S, n)
        /\ S.live = T.live /\ S.parent = T.parent
        /\ S.children = T.children
        /\ S.name = [T.name EXCEPT ![n] = name]
    BY <1>1, SetName
  <1> HIDE DEF S
  <1>3. /\ Good(D)
        /\ D.parent = [S.parent EXCEPT ![n] = None]
        /\ D.live = S.live /\ D.entries = S.entries /\ D.name = S.name
        /\ \A m \in Nodes : ChildSet(D, m) = ChildSet(S, m) \ {n}
    BY <1>1, <1>2, Detach
  <1> HIDE DEF D
  <1>4. ChildSet(D, dir) = ChildSet(T, dir) \ {n}
    <2>1. ChildSet(S, dir) = ChildSet(T, dir)
      BY <1>2 DEF ChildSet
    <2> QED
      BY <1>1, <1>3, <2>1
  <1>5. D.name[n] \notin ChildNames(D, dir)
    <2>1. D.name[n] = name
      BY <1>1, <1>2, <1>3, TreeFields
    <2>2. \A m \in ChildSet(D, dir) : D.name[m] = T.name[m]
      BY <1>1, <1>2, <1>3, <1>4, TreeFields
    <2> QED
      BY <1>4, <2>1, <2>2 DEF ChildNames
  <1>6. D.parent[n] = None
    BY <1>1, <1>2, <1>3, TreeFields
  <1>7. n \in D.live /\ dir \in D.live \cup {Root}
    BY <1>2, <1>3
  <1>8. LET A == add_child(D, dir, n)
        IN  /\ Good(A) /\ A.live = D.live /\ A.name = D.name
            /\ A.parent = [D.parent EXCEPT ![n] = dir]
    <2>1. Good(D)
      BY <1>3
    <2> QED
      BY <1>5, <1>6, <1>7, <2>1, AddChild
  <1>9. [D.parent EXCEPT ![n] = dir] = [T.parent EXCEPT ![n] = dir]
    BY <1>1, <1>2, <1>3, TreeFields
  <1>10. move_node(set_node_filename(T, n, name), dir, n) = add_child(D, dir, n)
    BY DEF move_node, D, S
  <1> QED
    BY <1>2, <1>3, <1>8, <1>9, <1>10 DEF Placed

\* The component of a note that was moved is a component.
LEMMA MovedComponent ==
  ASSUME NEW c \in Component, NEW old \in Nodes, NEW dir \in Nodes
  PROVE  moved_component(c, old, dir) \in Component
  <1> DEFINE freed == IF old = Root THEN c
                      ELSE remove_parent_child_relationship(old, c)
  <1>1. freed \in Component
    BY RelatedComponent DEF Nodes
  <1> HIDE DEF freed
  <1>2. dir # Root => set_parent_child_relationship(dir, freed) \in Component
    BY <1>1, RelatedComponent DEF Nodes
  <1> QED
    BY <1>2 DEF moved_component, freed

\* A rename: the target is deleted, so that the new name is free where the note goes.
LEMMA FuseRenameStep ==
  ASSUME Inv, NEW n \in Uids, NEW dir \in Nodes, NEW name \in Names,
         FuseRename(n, dir, name)
  PROVE  Inv'
  <1> DEFINE
        old    == tree.parent[n]
        target == lookup(tree, dir, name)
        t      == IF target = None THEN tree ELSE delete_fuse_node(tree, target)
        d      == IF target = None THEN disk
                                   ELSE [disk EXCEPT ![target] = NoFile]
        Q      == IF target = None THEN {queue}
                                   ELSE notify({queue}, Deleted(target))
        named  == update_node_file_extension(update_summary(d[n], name), name)
        c      == moved_component(named, old, dir)
  <1>1. /\ Good(tree) /\ pending = {} /\ queue \in Seq(Event)
        /\ disk \in [Uids -> Component \cup {NoFile}]
        /\ requests' \in 0 .. MaxRequests
    BY InvGood, Requested DEF FuseRename
  <1>2. /\ {n, dir} \subseteq Attached(tree)
        /\ target # n
        /\ target # None => ~node_has_children(tree, target)
        /\ torn' = torn \ {target}
        /\ IF ~Readable({n, dir, old}) \/ n \in torn
             THEN Abort /\ disk' = d
             ELSE /\ tree' = move_node(set_node_filename(t, n, name), dir, n)
                  /\ disk' = [d EXCEPT ![n] = c]
                  /\ queue' \in modified(Q, n)
                  /\ UNCHANGED <<proc, watcher, pending>>
    BY DEF FuseRename, VfsRename, Replaceable
  <1> HIDE DEF c
  <1>a. target = lookup(tree, dir, name)
    OBVIOUS
  <1> HIDE DEF target
  <1>3. n \in tree.live /\ dir \in tree.live \cup {Root}
    BY <1>1, <1>2, AttachedLive, NodeAssumption
  <1>4. /\ tree \in Tree /\ tree.live \subseteq Uids
        /\ ChildSet(tree, dir) \subseteq Uids
    BY <1>1, TreeFields DEF Good, NoDangling
  <1>5. target # None => target \in Uids
    <2>1. dir \in Nodes /\ tree \in Tree
      BY <1>4
    <2> QED
      BY <1>4, <1>a, <2>1, Lookup
  <1>6. /\ Good(t) /\ n \in t.live /\ dir \in t.live \cup {Root}
        /\ \A m \in ChildSet(t, dir) : t.name[m] # name
    <2>1. /\ Good(tree) /\ n \in tree.live /\ dir \in tree.live \cup {Root}
          /\ target = lookup(tree, dir, name) /\ target # n
          /\ target # None => ~node_has_children(tree, target)
      BY <1>1, <1>2, <1>3, <1>a
    <2>2. t = Replaced(tree, target)
      BY DEF Replaced
    <2> HIDE DEF t
    <2> QED
      BY <2>1, <2>2, ReplaceTarget
  <1> HIDE DEF t
  <1>7. d \in [Uids -> Component \cup {NoFile}]
    BY <1>1, <1>5
  <1>8. Q \in SUBSET Seq(Event)
    BY <1>1, <1>5, NotifyFile
  <1>b. torn \subseteq {v \in Uids : disk[v] = NoFile}
    BY InvGood
  <1>c. torn' \subseteq {v \in Uids : d[v] = NoFile}
    BY <1>1, <1>2, <1>5, <1>b
  <1>9. CASE ~Readable({n, dir, old}) \/ n \in torn
    <2>1. Abort /\ disk' = d
      BY <1>2, <1>9
    <2> QED
      BY <1>1, <1>7, <1>c, <2>1, AbortStep
  <1>10. CASE Readable({n, dir, old}) /\ n \notin torn
    <2>1. /\ tree' = move_node(set_node_filename(t, n, name), dir, n)
          /\ disk' = [d EXCEPT ![n] = c]
          /\ queue' \in modified(Q, n)
          /\ UNCHANGED <<proc, watcher, pending>>
      BY <1>2, <1>10
    <2>2. Good(tree')
      BY <1>6, <2>1, PlaceRenamed
    <2>3. Good(tree)'
      BY <2>2
    <2>4. c \in Component
      <3>1. disk[n] # NoFile /\ disk[n] \in Component
        BY <1>1, <1>10 DEF Readable, Exists, Parses
      <3>2. d[n] = disk[n]
        BY <1>1, <1>2, <1>5
      <3>3. old \in Nodes
        <4>1. tree.parent[n] # None
          <5>1. PICK m \in Nodes : n \in ChildSet(tree, m)
            BY <1>1, <1>2, <1>3, AttachedPlaced, NodeAssumption
          <5>2. tree.parent[n] = m
            BY <1>1, <5>1 DEF Good, Linked, ChildSet
          <5> QED
            BY <5>2, NodeAssumption DEF Nodes
        <4> QED
          BY <1>4, <4>1, TreeFields
      <3>4. named \in Component
        BY <3>1, <3>2, RenamedComponent
      <3> HIDE DEF d, old, named
      <3> QED
        BY <3>3, <3>4, MovedComponent DEF c
    <2>5. disk' \in [Uids -> Component \cup {NoFile}]
      BY <1>7, <2>1, <2>4
    <2>6. queue' \in Seq(Event)
      BY <1>8, <2>1, NotifyFile
    <2>7. torn' \subseteq {v \in Uids : disk'[v] = NoFile}
      BY <1>2, <1>7, <1>10, <1>c, <2>1
    <2> QED
      BY <1>1, <2>1, <2>3, <2>5, <2>6, <2>7, TreeStep
  <1> QED
    BY <1>9, <1>10

\* A rename of a note that is gone ends the process, after the deletion of the
\* entry it was to replace.
LEMMA FuseRename_unresolvedStep ==
  ASSUME Inv, NEW dir \in Nodes, NEW name \in Names,
         FuseRename_unresolved(dir, name)
  PROVE  Inv'
  <1> DEFINE target == lookup(tree, dir, name)
  <1>1. /\ Good(tree) /\ tree \in Tree
        /\ ChildSet(tree, dir) \subseteq Uids
        /\ disk \in [Uids -> Component \cup {NoFile}]
        /\ torn \subseteq {v \in Uids : disk[v] = NoFile}
        /\ requests' \in 0 .. MaxRequests
    BY InvGood, Requested, TreeFields DEF FuseRename_unresolved, Good, NoDangling
  <1>2. /\ Abort /\ torn' = torn \ {target}
        /\ disk' = IF target = None THEN disk
                                    ELSE [disk EXCEPT ![target] = NoFile]
    BY DEF FuseRename_unresolved
  <1>3. target # None => target \in Uids
    BY <1>1, Lookup
  <1> HIDE DEF target
  <1>4. /\ disk' \in [Uids -> Component \cup {NoFile}]
        /\ torn' \subseteq {v \in Uids : disk'[v] = NoFile}
    BY <1>1, <1>2, <1>3
  <1> QED
    BY <1>1, <1>2, <1>4, AbortStep

-----------------------------------------------------------------------------
(* Other programs *)

\* What other programs do to the vdir leaves the tree alone.
LEMMA OthersStep ==
  ASSUME Inv, Others
  PROVE  Inv'
  <1>1. /\ tree' = tree /\ pending' = pending /\ proc' = proc
        /\ watcher' = watcher /\ requests' \in 0 .. MaxRequests
    BY InvGood, Requested DEF Others, SyncWrite, SyncRename, SyncCreate, SyncCut,
         SyncDelete
  <1>2. /\ disk \in [Uids -> Component \cup {NoFile}] /\ queue \in Seq(Event)
        /\ torn \subseteq {u \in Uids : disk[u] = NoFile}
        /\ \A u \in Uids : SyncComponents[u] \subseteq Component
    BY InvGood, AgendaFSAssumption
  <1>3. PICK u \in Uids :
          \/ \E c \in SyncComponents[u] : SyncWrite(u, c) \/ SyncRename(u, c)
          \/ SyncCreate(u) \/ SyncCut(u) \/ SyncDelete(u)
    BY DEF Others
  <1>4. /\ disk' \in [Uids -> Component \cup {NoFile}]
        /\ torn' \subseteq {v \in Uids : disk'[v] = NoFile}
        /\ queue' \in Seq(Event)
    <2>1. /\ notify({queue}, Created(u)) \in SUBSET Seq(Event)
          /\ notify({queue}, Modified(u)) \in SUBSET Seq(Event)
          /\ notify({queue}, Deleted(u)) \in SUBSET Seq(Event)
      BY <1>2, NotifyFile
    <2>2. CASE \E c \in SyncComponents[u] : SyncWrite(u, c) \/ SyncRename(u, c)
      BY <1>2, <2>1, <2>2 DEF SyncWrite, SyncRename
    <2>3. CASE SyncCreate(u) \/ SyncCut(u) \/ SyncDelete(u)
      BY <1>2, <2>1, <2>3 DEF SyncCreate, SyncCut, SyncDelete, Exists, Parses
    <2> QED
      BY <1>3, <2>2, <2>3
  <1>5. TypeOK'
    BY <1>1, <1>4 DEF Inv, TypeOK, Parses
  <1> QED
    BY <1>1, <1>5 DEF Inv, TreeConsistent, NoDanglingNode, SiblingNamesUnique,
         LoadUndisturbed

-----------------------------------------------------------------------------

\* The invariant holds when the daemon has not been started.
LEMMA InitInv == Init => Inv
  <1> SUFFICES ASSUME Init PROVE Inv
    OBVIOUS
  <1>1. Good(tree) /\ <<>> \in Seq(Event)
    BY EmptyTreeGood DEF Init
  <1>2. TypeOK
    BY <1>1, AgendaFSAssumption DEF Init, TypeOK, Good
  <1> QED
    BY <1>1, <1>2 DEF Init, Inv, Good, TreeConsistent, NoDanglingNode,
         SiblingNamesUnique, LoadUndisturbed

\* Every step of the daemon, its users and other programs preserves it.
LEMMA NextInv == Inv /\ [Next]_vars => Inv'
  <1> SUFFICES ASSUME Inv, [Next]_vars PROVE Inv'
    OBVIOUS
  <1>1. CASE UNCHANGED vars
    BY <1>1 DEF vars, Inv, TypeOK, TreeConsistent, NoDanglingNode,
         SiblingNamesUnique, LoadUndisturbed, Parses
  <1>2. CASE Start
    BY <1>2, LoadAttachStep, ProcessStep DEF Start
  <1>3. CASE Watch
    BY <1>3, HandleDeletedStep, HandleChangedStep, ProcessStep DEF Watch
  <1>4. CASE User
    <2>1. ASSUME NEW dir \in Nodes \cup {None}, NEW name \in NewNames,
                 FuseCreate(dir, name) \/ FuseMkdir(dir, name)
          PROVE  Inv'
      <3>1. name \in Names
        BY AgendaFSAssumption
      <3>2. /\ create_vjournal_entry(name) \in Component
            /\ create_vjournal_directory(name) \in Component
        BY <3>1, NewComponent
      <3> QED
        BY <2>1, <3>1, <3>2, CreateEntryStep DEF FuseCreate, FuseMkdir
    <2>2. ASSUME NEW n \in Uids, FuseWrite(n) \/ FuseUnlink(n) \/ FuseRmdir(n)
          PROVE  Inv'
      BY <2>2, FuseWriteStep, FuseUnlinkStep, FuseRmdirStep
    <2>3. ASSUME NEW n \in Uids, NEW dir \in Nodes, NEW name \in NewNames,
                 FuseRename(n, dir, name)
          PROVE  Inv'
      <3>1. name \in Names
        BY AgendaFSAssumption
      <3> QED
        BY <2>3, <3>1, FuseRenameStep
    <2>6. ASSUME NEW dir \in Nodes, NEW name \in NewNames,
                 FuseRename_unresolved(dir, name)
          PROVE  Inv'
      <3>1. name \in Names
        BY AgendaFSAssumption
      <3> QED
        BY <2>6, <3>1, FuseRename_unresolvedStep
    <2>4. CASE LoadScan \/ Terminate
      BY <2>4, LoadScanStep, ProcessStep
    <2>5. ASSUME NEW n \in Nodes, FuseRead(n)
          PROVE  Inv'
      BY <2>5, FuseReadStep
    <2> QED
      BY <1>4, <2>1, <2>2, <2>3, <2>4, <2>5, <2>6 DEF User
  <1>5. CASE Others
    BY <1>5, OthersStep
  <1> QED
    BY <1>1, <1>2, <1>3, <1>4, <1>5 DEF Next

\* The invariant holds in every reachable state.
LEMMA Invariance == Spec => []Inv
  BY InitInv, NextInv, PTL DEF Spec

\* Whatever users, the vdir and other programs do, every variable keeps its
\* type; in particular the tree only holds allocated uids and names.
THEOREM TypeCorrect == Spec => []TypeOK
  <1>1. Inv => TypeOK
    BY DEF Inv
  <1> QED
    BY <1>1, Invariance, PTL

\* move_node, add_fuse_child and free_tree keep parent pointers and child
\* arrays in agreement, in every reachable state.
THEOREM TreeStaysConsistent == Spec => []TreeConsistent
  <1>1. Inv => TreeConsistent
    BY DEF Inv
  <1> QED
    BY <1>1, Invariance, PTL

\* No handler leaves a freed node in the tree or in entries_vdir.
THEOREM NoUseAfterFree == Spec => []NoDanglingNode
  <1>1. Inv => NoDanglingNode
    BY DEF Inv
  <1> QED
    BY <1>1, Invariance, PTL

\* No directory ever lists a name twice, however the events of other programs
\* mix with the requests of users.
THEOREM PathsAreUnambiguous == Spec => []SiblingNamesUnique
  <1>1. Inv => SiblingNamesUnique
    BY DEF Inv
  <1> QED
    BY <1>1, Invariance, PTL

\* The watcher thread never meets a tree that is still being built.
THEOREM LoadIsUndisturbed == Spec => []LoadUndisturbed
  <1>1. Inv => LoadUndisturbed
    BY DEF Inv
  <1> QED
    BY <1>1, Invariance, PTL

-----------------------------------------------------------------------------
(* No note is without a name: a segment of a path is never nothing *)

\* The name a file is shown under has text when the file can be loaded.
LEMMA EntryText ==
  ASSUME NEW c \in Component, Loadable(c)
  PROVE  HasText(entry_filename(c))
  <1>1. c.summary \in Seq(Label) /\ HasText(c.summary)
    BY DEF Component, Loadable, Names, HasText
  <1>2. ASSUME NEW e
        PROVE  HasText(Append(c.summary, e))
    <2>1. Len(Append(c.summary, e)) = Len(c.summary) + 1
      BY <1>1
    <2>2. Len(c.summary) \in Nat \ {0}
      BY <1>1, EmptySeq, LenProperties DEF HasText
    <2>3. Len(Append(c.summary, e)) > 1
      BY <2>1, <2>2
    <2> QED
      BY <2>3, LongText
  <1> QED
    BY <1>1, <1>2 DEF entry_filename

\* After the scan every node has the name its file gives it.
LEMMA LoadScanNamed ==
  ASSUME Inv, LoadScan
  PROVE  Named(tree')
  <1> DEFINE S == {u \in Uids : Loadable(disk[u])}
  <1>1. disk \in [Uids -> Component \cup {NoFile}]
    BY InvGood
  <1>2. tree' = [EmptyTree EXCEPT
                   !.live = S, !.entries = S,
                   !.name = [u \in Uids |-> IF u \in S
                                              THEN entry_filename(disk[u])
                                              ELSE <<>>]]
    BY DEF LoadScan
  <1>3. S \subseteq Uids /\ \A u \in S : HasText(entry_filename(disk[u]))
    BY <1>1, EntryText DEF Loadable
  <1> HIDE DEF S
  <1>4. /\ tree'.live = S
        /\ tree'.name = [u \in Uids |-> IF u \in S
                                          THEN entry_filename(disk[u])
                                          ELSE <<>>]
    BY <1>2 DEF EmptyTree
  <1> QED
    BY <1>3, <1>4 DEF Named

\* A tree that is gone has no nodes.
LEMMA EmptyNamed == Named(EmptyTree)
  BY DEF Named, EmptyTree

\* Placing a note of the vdir keeps its name or numbers it.
LEMMA LoadAttachNamed ==
  ASSUME Inv, Named(tree), NEW u \in Uids, LoadAttach(u)
  PROVE  Named(tree')
  <1>1. /\ Good(tree) /\ u \in tree.live /\ tree \in Tree
        /\ disk \in [Uids -> Component \cup {NoFile}]
        /\ Root \in Nodes /\ GoodBut(tree, u)
    BY InvGood, GoodIsGoodBut DEF LoadAttach, Inv, LoadUndisturbed, Good, Nodes
  <1>2. CASE tree' = add_fuse_child(tree, Root, u)
    BY <1>1, <1>2, AddFuseChildNamed
  <1>3. CASE tree' = tree
    BY <1>3
  <1>4. CASE tree' = EmptyTree
    BY <1>4, EmptyNamed
  <1>5. CASE \E p \in get_parent_uid(disk[u]) :
               Parses(u) /\ tree' = move_fuse_node(tree, p, u)
    <2>1. PICK p \in get_parent_uid(disk[u]) :
            Parses(u) /\ tree' = move_fuse_node(tree, p, u)
      BY <1>5
    <2>2. p \in Nodes
      BY <1>1, <2>1, ComponentEntry DEF Parses, Nodes
    <2> QED
      BY <1>1, <2>1, <2>2, MoveFuseNodeNamed
  <1> QED
    BY <1>2, <1>3, <1>4, <1>5 DEF LoadAttach, Abort

\* The watcher names a node after its file.
LEMMA HandleChangedNamed ==
  ASSUME Inv, Named(tree), NEW u \in Uids, HandleChanged(u)
  PROVE  Named(tree')
  <1>1. /\ Good(tree) /\ tree \in Tree
        /\ disk \in [Uids -> Component \cup {NoFile}]
    BY InvGood DEF Good
  <1>2. CASE ~Loadable(disk[u])
    BY <1>2 DEF HandleChanged
  <1>3. CASE Loadable(disk[u])
    <2> DEFINE t == upsert_fuse_node(tree, u, entry_filename(disk[u]))
    <2>1. disk[u] \in Component
      BY <1>1, <1>3 DEF Loadable
    <2>2. /\ entry_filename(disk[u]) \in Names
          /\ HasText(entry_filename(disk[u]))
          /\ get_parent_uid(disk[u]) \subseteq Uids
      BY <1>3, <2>1, ComponentEntry, EntryText
    <2>3. \/ tree' = move_fuse_node(t, Root, u)
          \/ tree' = EmptyTree
          \/ \E p \in get_parent_uid(disk[u]) : tree' = move_fuse_node(t, p, u)
      BY <1>3 DEF HandleChanged, Abort
    <2>4. /\ GoodBut(t, u) /\ t.live = tree.live \cup {u}
          /\ t.name = [tree.name EXCEPT ![u] = entry_filename(disk[u])]
      BY <1>1, <2>2, Upsert
    <2> HIDE DEF t
    <2>5. Named(t)
      BY <1>1, <2>2, <2>4, NamedAfter
    <2>6. \A p \in Nodes : Named(move_fuse_node(t, p, u))
      BY <2>4, <2>5, MoveFuseNodeNamed
    <2> QED
      BY <2>2, <2>3, <2>6, EmptyNamed DEF Nodes
  <1> QED
    BY <1>2, <1>3

\* A new note has the name the user gave.
LEMMA CreateEntryNamed ==
  ASSUME Inv, Named(tree), NEW dir \in Nodes \cup {None}, NEW name \in Names,
         HasText(name), NEW c, CreateEntry(dir, name, c)
  PROVE  Named(tree')
  <1>1. Good(tree) /\ tree \in Tree
    BY InvGood DEF Good
  <1>2. PICK u \in Fresh :
          \/ tree' = EmptyTree
          \/ tree' = create_fuse_node(tree, u, name)
          \/ /\ dir \in Directories
             /\ tree' = add_child(create_fuse_node(tree, u, name), dir, u)
    BY DEF CreateEntry, Abort
  <1>3. u \in Uids /\ u \notin tree.live
    BY DEF Fresh
  <1> DEFINE t == create_fuse_node(tree, u, name)
  <1>4. /\ t.live = tree.live \cup {u}
        /\ t.name = [tree.name EXCEPT ![u] = name]
    BY <1>1, <1>3, CreateNode
  <1>5. add_child(t, dir, u).live = t.live /\ add_child(t, dir, u).name = t.name
    BY <1>1 DEF add_child, create_fuse_node, Tree
  <1> HIDE DEF t
  <1>6. Named(t) /\ Named(add_child(t, dir, u))
    <2>1. Named(t)
      BY <1>1, <1>3, <1>4, NamedAfter
    <2> QED
      BY <1>5, <2>1 DEF Named
  <1> QED
    BY <1>2, <1>6, EmptyNamed DEF t

\* Freeing a node leaves the other names.
LEMMA FreedNamed ==
  ASSUME NEW T \in Tree, Named(T), NEW n \in Uids, NEW D, Freed(T, D, n)
  PROVE  Named(D)
  <1>1. T.name \in [Uids -> Names] /\ T.live \subseteq Uids
    BY TreeFields
  <1> QED
    BY <1>1 DEF Named, Freed

\* A deleted note had no notes below it.
LEMMA DeleteEntryNamed ==
  ASSUME Inv, Named(tree), NEW n \in Uids, FuseUnlink(n) \/ FuseRmdir(n)
  PROVE  Named(tree')
  <1>1. Good(tree) /\ tree \in Tree
    BY InvGood DEF Good
  <1>2. /\ n \in Shown /\ ~node_has_children(tree, n)
        /\ tree' = delete_fuse_node(tree, n)
    BY DEF FuseUnlink, FuseRmdir, DeleteEntry, node_is_directory
  <1>3. n \in tree.live
    BY <1>1, <1>2, AttachedLive DEF Shown
  <1>4. Freed(tree, tree', n)
    BY <1>1, <1>2, <1>3, FreeLeaf
  <1> QED
    BY <1>1, <1>4, FreedNamed

\* A renamed note has the name the user gave.
LEMMA FuseRenameNamed ==
  ASSUME Inv, Named(tree), NEW n \in Uids, NEW dir \in Nodes,
         NEW name \in Names, HasText(name), FuseRename(n, dir, name)
  PROVE  Named(tree')
  <1> DEFINE target == lookup(tree, dir, name)
             t      == Replaced(tree, target)
  <1>1. Good(tree) /\ tree \in Tree
    BY InvGood DEF Good
  <1>2. /\ {n, dir} \subseteq Attached(tree)
        /\ target # n
        /\ target # None => ~node_has_children(tree, target)
        /\ \/ tree' = EmptyTree
           \/ tree' = move_node(set_node_filename(t, n, name), dir, n)
    BY DEF FuseRename, VfsRename, Replaceable, Abort, Replaced
  <1>a. target = lookup(tree, dir, name)
    OBVIOUS
  <1>b. t = Replaced(tree, target)
    OBVIOUS
  <1> HIDE DEF target, t
  <1>3. n \in tree.live /\ dir \in tree.live \cup {Root}
    BY <1>1, <1>2, AttachedLive, NodeAssumption
  <1>4. /\ Good(t) /\ n \in t.live /\ dir \in t.live \cup {Root}
        /\ \A m \in ChildSet(t, dir) : t.name[m] # name
    BY <1>1, <1>2, <1>3, <1>a, <1>b, ReplaceTarget
  <1>5. Named(t)
    <2>1. CASE target = None
      BY <1>b, <2>1 DEF Replaced
    <2>2. CASE target # None
      <3>1. target \in tree.live /\ Freed(tree, t, target)
        BY <1>1, <1>2, <1>3, <1>a, <1>b, <2>2, FreeTarget
      <3>2. target \in Uids
        BY <1>1, <3>1, TreeFields
      <3> QED
        BY <1>1, <3>1, <3>2, FreedNamed
    <2> QED
      BY <2>1, <2>2
  <1> DEFINE m == move_node(set_node_filename(t, n, name), dir, n)
  <1>6. Placed(t, m, n, dir, name)
    BY <1>4, PlaceRenamed
  <1>7. tree' = EmptyTree \/ tree' = m
    BY <1>2
  <1> HIDE DEF m
  <1>8. Named(m)
    BY <1>4, <1>5, <1>6, NamedAfter DEF Placed, Good
  <1> QED
    BY <1>7, <1>8, EmptyNamed

\* Every step leaves every allocated node with a name.
LEMMA NextNamed == Inv /\ Named(tree) /\ [Next]_vars => Named(tree)'
  <1> SUFFICES ASSUME Inv, Named(tree), [Next]_vars PROVE Named(tree')
    OBVIOUS
  <1>0. \A name \in NewNames : name \in Names /\ HasText(name)
    BY AgendaFSAssumption DEF HasText
  <1>1. CASE tree' = tree \/ tree' = EmptyTree
    BY <1>1, EmptyNamed
  <1>2. CASE Start
    BY <1>1, <1>2, LoadAttachNamed DEF Start, LoadDone, ServeFuse
  <1>3. CASE Watch
    <2>1. ASSUME NEW u \in Uids, HandleDeleted(u)
          PROVE  Named(tree')
      <3>1. FullPath(u) \notin tree.entries
        BY FullPathAssumption, InvGood, TreeFields DEF Good
      <3> QED
        BY <1>1, <2>1, <3>1 DEF HandleDeleted, delete_from_vdir_path
    <2> QED
      BY <1>1, <1>3, <2>1, HandleChangedNamed DEF Watch, StartWatch
  <1>4. CASE User
    <2>1. ASSUME NEW dir \in Nodes \cup {None}, NEW name \in NewNames,
                 FuseCreate(dir, name) \/ FuseMkdir(dir, name)
          PROVE  Named(tree')
      BY <1>0, <2>1, CreateEntryNamed DEF FuseCreate, FuseMkdir
    <2>2. ASSUME NEW n \in Uids, NEW dir \in Nodes, NEW name \in NewNames,
                 FuseRename(n, dir, name)
          PROVE  Named(tree')
      BY <1>0, <2>2, FuseRenameNamed
    <2>3. ASSUME NEW n \in Uids, FuseWrite(n) \/ FuseUnlink(n) \/ FuseRmdir(n)
          PROVE  Named(tree')
      BY <1>1, <2>3, DeleteEntryNamed DEF FuseWrite, Abort
    <2>4. CASE LoadScan
      BY <2>4, LoadScanNamed
    <2>5. CASE \/ Terminate \/ \E n \in Nodes : FuseRead(n)
               \/ \E dir \in Nodes, name \in NewNames :
                    FuseRename_unresolved(dir, name)
      BY <1>1, <2>5 DEF Terminate, FuseRead, FuseRename_unresolved, Abort
    <2> QED
      BY <1>4, <2>1, <2>2, <2>3, <2>4, <2>5 DEF User
  <1>5. CASE Others
    BY <1>1, <1>5 DEF Others, SyncWrite, SyncRename, SyncCreate, SyncCut,
         SyncDelete
  <1>6. CASE UNCHANGED vars
    BY <1>1, <1>6 DEF vars
  <1> QED
    BY <1>2, <1>3, <1>4, <1>5, <1>6 DEF Next

-----------------------------------------------------------------------------
(* Paths *)

\* What holds of 0, and of a number if it holds of the one before, holds of all
\* numbers up to n.
LEMMA UpTo ==
  ASSUME NEW n \in Nat, NEW S, 0 \in S, \A i \in 1 .. n : i - 1 \in S => i \in S
  PROVE  \A i \in 0 .. n : i \in S
  <1> DEFINE Bad == {i \in 0 .. n : i \notin S}
  <1>1. SUFFICES ASSUME Bad # {} PROVE FALSE
    OBVIOUS
  <1>2. Bad \in SUBSET Nat
    OBVIOUS
  <1> DEFINE m == Least(Bad)
  <1>3. m \in Bad /\ \A i \in Bad : m <= i
    BY <1>1, <1>2, LeastExists
  <1> HIDE DEF m
  <1>4. m \in 1 .. n /\ m \notin S
    BY <1>3
  <1>5. m - 1 \in 0 .. n /\ ~(m <= m - 1)
    BY <1>4
  <1>6. m - 1 \in S
    BY <1>3, <1>5
  <1> QED
    BY <1>4, <1>6

\* Which segment the character i of a path belongs to.
LEMMA Halves ==
  ASSUME NEW i \in Nat \ {0}
  PROVE  /\ i % 2 = 1 => (i - 1) \div 2 = i \div 2
         /\ i % 2 # 1 => (i - 1) \div 2 = i \div 2 - 1 /\ i \div 2 >= 1
         /\ i \div 2 \in Nat /\ 2 * (i \div 2) <= i
  OBVIOUS

\* The numbers of the slashes and of the names.
LEMMA Doubles ==
  ASSUME NEW k \in Nat
  PROVE  /\ (2 * k) \div 2 = k /\ (2 * k) % 2 = 0
         /\ (2 * k + 1) % 2 = 1 /\ (2 * k + 1) \div 2 = k
  OBVIOUS

\* The first m names.
Prefix(names, m) == [j \in 1 .. m |-> names[j]]

\* Reading one name more.
LEMMA Prefixes ==
  ASSUME NEW names \in Seq(Names)
  PROVE  /\ Prefix(names, 0) = <<>>
         /\ Prefix(names, Len(names)) = names
         /\ \A m \in 0 .. Len(names) :
              Prefix(names, m) \in Seq(Names) /\ Len(Prefix(names, m)) = m
         /\ \A m \in 1 .. Len(names) :
              Prefix(names, m) = Append(Prefix(names, m - 1), names[m])
  <1>1. Len(names) \in Nat /\ \A j \in 1 .. Len(names) : names[j] \in Names
    BY ElementOfSeq, LenProperties
  <1>2. \A m \in 0 .. Len(names) :
          Prefix(names, m) \in Seq(Names) /\ Len(Prefix(names, m)) = m
    BY <1>1 DEF Prefix
  <1>3. Prefix(names, 0) = <<>>
    BY <1>1, <1>2, EmptySeq DEF Prefix
  <1>4. Prefix(names, Len(names)) = names
    BY <1>1, LenProperties DEF Prefix
  <1>5. ASSUME NEW m \in 1 .. Len(names)
        PROVE  Prefix(names, m) = Append(Prefix(names, m - 1), names[m])
    <2> DEFINE p == Prefix(names, m)
               q == Prefix(names, m - 1)
    <2>1. /\ p \in Seq(Names) /\ Len(p) = m
          /\ q \in Seq(Names) /\ Len(q) = m - 1
          /\ names[m] \in Names
      BY <1>1, <1>2
    <2>2. /\ \A j \in 1 .. m : p[j] = names[j]
          /\ \A j \in 1 .. m - 1 : q[j] = names[j]
      BY <1>1 DEF Prefix
    <2> HIDE DEF p, q
    <2> DEFINE a == Append(q, names[m])
    <2>3. /\ a \in Seq(Names) /\ Len(a) = m
          /\ \A j \in 1 .. m - 1 : a[j] = q[j]
          /\ a[m] = names[m]
      BY <1>1, <2>1, AppendProperties
    <2> HIDE DEF a
    <2>4. \A j \in 1 .. Len(p) : p[j] = a[j]
      BY <1>1, <2>1, <2>2, <2>3
    <2>5. p = a
      BY <2>1, <2>3, <2>4, SeqEqual
    <2> QED
      BY <2>5 DEF p, q, a
  <1> QED
    BY <1>2, <1>3, <1>4, <1>5

\* A path has a slash before each name and nothing else.
LEMMA PathParts ==
  ASSUME NEW names \in Seq(Names)
  PROVE  LET path == path_of(names)
             k    == Len(names)
         IN  /\ k \in Nat
             /\ Len(path) = IF k = 0 THEN 1 ELSE 2 * k
             /\ \A i \in 1 .. Len(path) :
                  path[i] = IF i % 2 = 1 THEN Slash ELSE names[i \div 2]
  <1>1. Len(names) \in Nat
    BY LenProperties
  <1>2. CASE Len(names) = 0
    BY <1>2 DEF path_of
  <1>3. CASE Len(names) # 0
    <2> DEFINE n == 2 * Len(names)
    <2>1. n \in Nat
      BY <1>1
    <2>2. path_of(names) = [i \in 1 .. n |->
                              IF i % 2 = 1 THEN Slash ELSE names[i \div 2]]
      BY <1>3 DEF path_of
    <2> HIDE DEF n
    <2>3. Len(path_of(names)) = n
      BY <2>1, <2>2
    <2> QED
      BY <1>1, <1>3, <2>2, <2>3 DEF n
  <1> QED
    BY <1>1, <1>2, <1>3

\* strtok_r finds the names a path was made of.
LEMMA SplitsIntoNames ==
  ASSUME NEW names \in Seq(Names), \A j \in 1 .. Len(names) : HasText(names[j])
  PROVE  split_path(path_of(names)) = names
  <1> DEFINE path == path_of(names)
             L == Len(path)
             k == Len(names)
             Step(f) == [i \in 0 .. L |->
                           IF i = 0 THEN <<>>
                           ELSE IF path[i] \in {Slash, <<Blank>>} THEN f[i - 1]
                           ELSE Append(f[i - 1], path[i])]
             g == [i \in 0 .. L |-> Prefix(names, i \div 2)]
             f == CHOOSE h : h = Step(h)
  <1>1. /\ k \in Nat /\ L \in Nat /\ L \div 2 = k
        /\ \A i \in 1 .. L : path[i] = IF i % 2 = 1 THEN Slash
                                                    ELSE names[i \div 2]
    <2>1. /\ k \in Nat /\ L = IF k = 0 THEN 1 ELSE 2 * k
          /\ \A i \in 1 .. L : path[i] = IF i % 2 = 1 THEN Slash
                                                      ELSE names[i \div 2]
      BY PathParts
    <2> HIDE DEF L, k, path
    <2> QED
      BY <2>1, Doubles
  <1>2. split_path(path) = f[L]
    BY DEF split_path
  <1> HIDE DEF path, L, k
  <1>3. ASSUME NEW i \in 0 .. L
        PROVE  g[i] = IF i = 0 THEN <<>>
                      ELSE IF path[i] \in {Slash, <<Blank>>} THEN g[i - 1]
                      ELSE Append(g[i - 1], path[i])
    <2>1. CASE i = 0
      BY <2>1, <1>1, Prefixes, Doubles
    <2>2. CASE i # 0 /\ i % 2 = 1
      <3>1. i \in 1 .. L /\ i - 1 \in 0 .. L /\ i \in Nat \ {0}
        BY <1>1, <2>2
      <3>2. path[i] = Slash /\ (i - 1) \div 2 = i \div 2
        BY <1>1, <2>2, <3>1, Halves
      <3> QED
        BY <2>2, <3>1, <3>2
    <2>3. CASE i # 0 /\ i % 2 # 1
      <3>1. i \in 1 .. L /\ i - 1 \in 0 .. L /\ i \in Nat \ {0}
        BY <1>1, <2>3
      <3> DEFINE m == i \div 2
      <3>2. path[i] = names[m] /\ (i - 1) \div 2 = m - 1
        BY <1>1, <2>3, <3>1, Halves
      <3>3. m \in 1 .. k
        BY <1>1, <2>3, <3>1, Halves
      <3> HIDE DEF m
      <3>4. /\ names[m] \notin {Slash, <<Blank>>}
            /\ Prefix(names, m) = Append(Prefix(names, m - 1), names[m])
        BY <3>3, Prefixes DEF HasText, Slash, k
      <3>5. g[i] = Prefix(names, m) /\ g[i - 1] = Prefix(names, m - 1)
        BY <3>1, <3>2 DEF m
      <3> HIDE DEF g
      <3> QED
        BY <2>3, <3>2, <3>4, <3>5
    <2> QED
      BY <2>1, <2>2, <2>3
  <1>4. g = Step(g)
    BY <1>3
  <1>5. f = Step(f)
    BY <1>4
  <1> HIDE DEF f
  <1> DEFINE S == {i \in 0 .. L : f[i] = g[i]}
  <1>6. 0 \in S
    <2>1. 0 \in 0 .. L
      BY <1>1
    <2>2. f[0] = <<>>
      BY <1>5, <2>1
    <2>3. g[0] = <<>>
      BY <1>3, <2>1
    <2> HIDE DEF g
    <2> QED
      BY <2>1, <2>2, <2>3
  <1>7. ASSUME NEW i \in 1 .. L, i - 1 \in S
        PROVE  i \in S
    <2>1. i \in 0 .. L /\ i # 0 /\ f[i - 1] = g[i - 1]
      BY <1>1, <1>7
    <2>2. /\ f[i] = IF path[i] \in {Slash, <<Blank>>} THEN f[i - 1]
                    ELSE Append(f[i - 1], path[i])
          /\ g[i] = IF path[i] \in {Slash, <<Blank>>} THEN g[i - 1]
                    ELSE Append(g[i - 1], path[i])
      BY <1>3, <1>5, <2>1
    <2> HIDE DEF g
    <2> QED
      BY <2>1, <2>2
  <1>8. L \in S
    <2> HIDE DEF S
    <2>1. \A i \in 0 .. L : i \in S
      BY <1>1, <1>6, <1>7, UpTo
    <2> QED
      BY <1>1, <2>1
  <1>9. g[L] = names
    BY <1>1, Prefixes DEF k
  <1> QED
    BY <1>2, <1>8, <1>9 DEF path

\* The walk down ends where each segment leads on to the next.
LEMMA WalksDown ==
  ASSUME NEW T, NEW path, NEW s, s = split_path(path), Len(s) \in Nat, NEW walk,
         \A i \in 1 .. Len(s) :
           /\ walk[i] = lookup(T, reached(walk, i - 1), s[i])
           /\ reached(walk, i - 1) # None
  PROVE  get_node_by_path(T, path) = reached(walk, Len(s))
  <1> DEFINE k == Len(s)
             Step(f) == [i \in 0 .. k |->
                           IF i = 0 THEN Root
                           ELSE IF f[i - 1] = None THEN None
                           ELSE lookup(T, f[i - 1], s[i])]
             g == [i \in 0 .. k |-> reached(walk, i)]
             f == CHOOSE h : h = Step(h)
  <1>1. get_node_by_path(T, path) = f[k]
    BY DEF get_node_by_path
  <1> HIDE DEF k
  <1>2. k \in Nat
    BY DEF k
  <1>3. ASSUME NEW i \in 0 .. k
        PROVE  g[i] = IF i = 0 THEN Root
                      ELSE IF g[i - 1] = None THEN None
                      ELSE lookup(T, g[i - 1], s[i])
    <2>1. CASE i = 0
      BY <2>1 DEF reached
    <2>2. CASE i # 0
      <3>1. i \in 1 .. k /\ i - 1 \in 0 .. k
        BY <1>2, <2>2
      <3>2. g[i] = walk[i] /\ g[i - 1] = reached(walk, i - 1)
        BY <2>2, <3>1 DEF reached
      <3>3. /\ walk[i] = lookup(T, reached(walk, i - 1), s[i])
            /\ reached(walk, i - 1) # None
        BY <3>1 DEF k
      <3> HIDE DEF g
      <3> QED
        BY <2>2, <3>2, <3>3
    <2> QED
      BY <2>1, <2>2
  <1>4. g = Step(g)
    BY <1>3
  <1>5. f = Step(f)
    BY <1>4
  <1> HIDE DEF f
  <1> DEFINE S == {i \in 0 .. k : f[i] = g[i]}
  <1>6. 0 \in S
    <2>1. 0 \in 0 .. k
      BY <1>2
    <2>2. f[0] = Root
      BY <1>5, <2>1
    <2>3. g[0] = Root
      BY <1>3, <2>1
    <2> HIDE DEF g
    <2> QED
      BY <2>1, <2>2, <2>3
  <1>7. ASSUME NEW i \in 1 .. k, i - 1 \in S
        PROVE  i \in S
    <2>1. i \in 0 .. k /\ i # 0 /\ f[i - 1] = g[i - 1]
      BY <1>2, <1>7
    <2>2. /\ f[i] = IF f[i - 1] = None THEN None ELSE lookup(T, f[i - 1], s[i])
          /\ g[i] = IF g[i - 1] = None THEN None ELSE lookup(T, g[i - 1], s[i])
      BY <1>3, <1>5, <2>1
    <2> HIDE DEF g
    <2> QED
      BY <2>1, <2>2
  <1>8. k \in S
    <2> HIDE DEF S
    <2>1. \A i \in 0 .. k : i \in S
      BY <1>2, <1>6, <1>7, UpTo
    <2> QED
      BY <1>2, <2>1
  <1> QED
    BY <1>1, <1>8 DEF k

\* A name that a child of p has leads to that child.
LEMMA LookupChild ==
  ASSUME NEW T, Good(T), NEW p \in Nodes, NEW c \in ChildSet(T, p)
  PROVE  lookup(T, p, T.name[c]) = c
  <1>1. T \in Tree /\ None \notin ChildSet(T, p)
    BY NodeAssumption, TreeFields DEF Good, NoDangling
  <1>2. T.name[c] \in ChildNames(T, p)
    BY DEF ChildNames
  <1> DEFINE d == lookup(T, p, T.name[c])
  <1>3. d \in ChildSet(T, p) /\ T.name[d] = T.name[c]
    BY <1>1, <1>2, Lookup
  <1> HIDE DEF d
  <1>4. d = c
    BY <1>3 DEF Good, UniqueNames, ChildSet
  <1> QED
    BY <1>4 DEF d

\* What a walk from fuse_root is.
LEMMA WalkParts ==
  ASSUME NEW T, NEW walk \in Walks(T)
  PROVE  /\ walk \in Seq(Uids) /\ Len(walk) \in Nat
         /\ \A i \in 1 .. Len(walk) :
              walk[i] \in Uids /\ walk[i] \in ChildSet(T, reached(walk, i - 1))
         /\ \A i \in 0 .. Len(walk) : reached(walk, i) \in Nodes
         /\ \A i \in 1 .. Len(walk) : i - 1 \in 0 .. Len(walk)
  <1>1. walk \in Seq(Uids)
    <2>1. Cardinality(Uids) \in Nat
      BY PathsAssumption, FS_CardinalityType
    <2>2. PICK k \in 0 .. Cardinality(Uids) : walk \in [1 .. k -> Uids]
      BY DEF Walks
    <2>3. k \in Nat
      BY <2>1
    <2> QED
      BY <2>2, <2>3, SeqDef
  <1>2. Len(walk) \in Nat /\ \A i \in 1 .. Len(walk) : walk[i] \in Uids
    BY <1>1, LenProperties, ElementOfSeq
  <1>3. \A i \in 0 .. Len(walk) : reached(walk, i) \in Nodes
    BY <1>2 DEF reached, Nodes
  <1> QED
    BY <1>1, <1>2, <1>3 DEF Walks

\* A walk down a forest meets no node twice, so it is no longer than there are
\* notes.
LEMMA WalkIsShort ==
  ASSUME NEW T, Good(T), NEW walk \in Seq(Uids),
         \A i \in 1 .. Len(walk) : walk[i] \in ChildSet(T, reached(walk, i - 1))
  PROVE  Len(walk) <= Cardinality(Uids)
  <1> DEFINE k == Len(walk)
             Bad == {i \in 1 .. k : \E j \in 1 .. k : i < j /\ walk[i] = walk[j]}
  <1>1. k \in Nat /\ \A i \in 1 .. k : walk[i] \in Uids
    BY LenProperties, ElementOfSeq
  <1>2. ASSUME NEW i \in 1 .. k
        PROVE  T.parent[walk[i]] = reached(walk, i - 1)
    <2>1. reached(walk, i - 1) \in Nodes
      BY <1>1 DEF reached, Nodes
    <2>2. walk[i] \in ChildSet(T, reached(walk, i - 1))
      OBVIOUS
    <2> QED
      BY <2>1, <2>2 DEF Good, Linked, ChildSet
  <1> HIDE DEF k
  <1>3. Bad = {}
    <2> SUFFICES ASSUME Bad # {} PROVE FALSE
      OBVIOUS
    <2>1. Bad \in SUBSET Nat
      BY <1>1
    <2> DEFINE m == Least(Bad)
    <2>2. m \in Bad /\ \A n \in Bad : m <= n
      BY <2>1, LeastExists
    <2> HIDE DEF m
    <2>3. PICK j \in 1 .. k : m < j /\ walk[m] = walk[j]
      BY <2>2
    <2>4. m \in 1 .. k
      BY <2>2
    <2>5. reached(walk, m - 1) = reached(walk, j - 1)
      BY <1>2, <2>3, <2>4
    <2>6. j - 1 \in 1 .. k /\ j - 1 # 0 /\ m - 1 < j - 1
      BY <1>1, <2>3, <2>4
    <2>7. reached(walk, j - 1) = walk[j - 1] /\ walk[j - 1] \in Uids
      BY <1>1, <2>6 DEF reached
    <2>8. m - 1 # 0
      BY <2>5, <2>7, NodeAssumption DEF reached
    <2>9. m - 1 \in 1 .. k /\ ~(m <= m - 1)
      BY <1>1, <2>4, <2>8
    <2>10. walk[m - 1] = walk[j - 1]
      BY <2>5, <2>7, <2>8 DEF reached
    <2>11. m - 1 \in Bad
      BY <2>6, <2>9, <2>10
    <2> QED
      BY <2>2, <2>9, <2>11
  <1>4. \A i, j \in 1 .. k : walk[i] = walk[j] => i = j
    <2> SUFFICES ASSUME NEW i \in 1 .. k, NEW j \in 1 .. k, walk[i] = walk[j],
                        i # j
                 PROVE  FALSE
      OBVIOUS
    <2>1. i < j \/ j < i
      BY <1>1
    <2>2. i \in Bad \/ j \in Bad
      BY <2>1
    <2> QED
      BY <1>3, <2>2
  <1> DEFINE f == [i \in 1 .. k |-> walk[i]]
  <1>5. f \in Injection(1 .. k, Uids)
    <2>1. f \in [1 .. k -> Uids]
      BY <1>1
    <2>2. \A i, j \in 1 .. k : f[i] = f[j] => i = j
      BY <1>4
    <2> HIDE DEF f
    <2> QED
      BY <2>1, <2>2 DEF Injection, IsInjective
  <1> HIDE DEF f
  <1>6. Cardinality(1 .. k) <= Cardinality(Uids)
    BY <1>5, PathsAssumption, FS_Injection
  <1>7. Cardinality(1 .. k) = k
    <2>1. 1 \in Int /\ k \in Int
      BY <1>1
    <2>2. Cardinality(1 .. k) = IF 1 > k THEN 0 ELSE k - 1 + 1
      BY <2>1, FS_Interval
    <2> QED
      BY <1>1, <2>2
  <1> QED
    BY <1>6, <1>7 DEF k

\* A walk goes on to every child of the node it has reached.
LEMMA WalkGoesOn ==
  ASSUME NEW T, Good(T), NEW walk \in Walks(T),
         NEW c \in ChildSet(T, reached(walk, Len(walk)))
  PROVE  /\ Append(walk, c) \in Walks(T)
         /\ reached(Append(walk, c), Len(Append(walk, c))) = c
  <1> DEFINE k == Len(walk)
             more == Append(walk, c)
  <1>1. /\ walk \in Seq(Uids) /\ k \in Nat
        /\ \A i \in 1 .. k :
             walk[i] \in Uids /\ walk[i] \in ChildSet(T, reached(walk, i - 1))
        /\ \A i \in 0 .. k : reached(walk, i) \in Nodes
    BY WalkParts
  <1>2. c \in ChildSet(T, reached(walk, k))
    OBVIOUS
  <1> HIDE DEF k
  <1>3. c \in Uids
    <2>1. reached(walk, k) \in Nodes
      BY <1>1
    <2> QED
      BY <1>2, <2>1, TreeFields DEF Good, NoDangling
  <1>4. /\ more \in Seq(Uids) /\ Len(more) = k + 1
        /\ \A i \in 1 .. k : more[i] = walk[i]
        /\ more[k + 1] = c
    BY <1>1, <1>3, AppendProperties DEF k
  <1> HIDE DEF more
  <1>5. \A i \in 0 .. k : reached(more, i) = reached(walk, i)
    BY <1>1, <1>4 DEF reached
  <1>6. ASSUME NEW i \in 1 .. Len(more)
        PROVE  more[i] \in ChildSet(T, reached(more, i - 1))
    <2>1. i - 1 \in 0 .. k /\ reached(more, i - 1) = reached(walk, i - 1)
      BY <1>1, <1>4, <1>5
    <2>2. CASE i = k + 1
      BY <1>1, <1>2, <1>4, <2>1, <2>2
    <2>3. CASE i # k + 1
      <3>1. i \in 1 .. k
        BY <1>1, <1>4, <2>3
      <3> QED
        BY <1>1, <1>4, <2>1, <3>1
    <2> QED
      BY <2>2, <2>3
  <1>7. Len(more) <= Cardinality(Uids)
    BY <1>4, <1>6, WalkIsShort
  <1>8. more \in Walks(T)
    <2>1. Cardinality(Uids) \in Nat
      BY PathsAssumption, FS_CardinalityType
    <2>2. k + 1 \in 0 .. Cardinality(Uids)
      BY <1>1, <1>4, <1>7, <2>1
    <2>3. more \in [1 .. k + 1 -> Uids]
      BY <1>4, LenProperties
    <2> QED
      BY <1>6, <2>2, <2>3 DEF Walks
  <1>9. reached(more, Len(more)) = c
    BY <1>1, <1>4 DEF reached
  <1> QED
    BY <1>8, <1>9 DEF more

\* The nodes that can be reached are those that walks lead to.
LEMMA WalksReach ==
  ASSUME NEW T, Good(T)
  PROVE  Attached(T) = {reached(walk, Len(walk)) : walk \in Walks(T)}
  <1> DEFINE R == {reached(walk, Len(walk)) : walk \in Walks(T)}
  <1>1. ASSUME NEW walk \in Walks(T)
        PROVE  /\ reached(walk, Len(walk)) \in Nodes
               /\ \A S \in SUBSET Nodes :
                    Root \in S /\ (\A n \in S : ChildSet(T, n) \subseteq S)
                      => reached(walk, Len(walk)) \in S
    <2> DEFINE k == Len(walk)
    <2>1. /\ k \in Nat
          /\ \A i \in 1 .. k : walk[i] \in ChildSet(T, reached(walk, i - 1))
          /\ \A i \in 0 .. k : reached(walk, i) \in Nodes
      BY WalkParts
    <2> HIDE DEF k
    <2>2. ASSUME NEW S \in SUBSET Nodes, Root \in S,
                 \A n \in S : ChildSet(T, n) \subseteq S
          PROVE  reached(walk, k) \in S
      <3> DEFINE I == {i \in 0 .. k : reached(walk, i) \in S}
      <3>1. 0 \in I
        BY <2>1, <2>2 DEF reached
      <3>2. ASSUME NEW i \in 1 .. k, i - 1 \in I
            PROVE  i \in I
        <4>1. i \in 0 .. k /\ i # 0
          BY <2>1
        <4>2. walk[i] \in S
          BY <2>1, <2>2, <3>2
        <4> QED
          BY <4>1, <4>2 DEF reached
      <3> HIDE DEF I
      <3>3. \A i \in 0 .. k : i \in I
        BY <2>1, <3>1, <3>2, UpTo
      <3> QED
        BY <2>1, <3>3 DEF I
    <2>3. k \in 0 .. k
      BY <2>1
    <2> QED
      BY <2>1, <2>2, <2>3 DEF k
  <1>2. R \subseteq Attached(T)
    BY <1>1 DEF Attached
  <1>3. Root \in R
    <2>1. Cardinality(Uids) \in Nat
      BY PathsAssumption, FS_CardinalityType
    <2>2. <<>> \in [1 .. 0 -> Uids] /\ Len(<<>>) = 0
      OBVIOUS
    <2>3. 0 \in 0 .. Cardinality(Uids)
      BY <2>1
    <2>4. <<>> \in Walks(T)
      BY <2>2, <2>3 DEF Walks
    <2> QED
      BY <2>2, <2>4 DEF reached
  <1>4. ASSUME NEW n \in R, NEW c \in ChildSet(T, n)
        PROVE  c \in R
    <2>1. PICK walk \in Walks(T) : n = reached(walk, Len(walk))
      OBVIOUS
    <2>2. c \in ChildSet(T, reached(walk, Len(walk)))
      BY <2>1
    <2>3. /\ Append(walk, c) \in Walks(T)
          /\ reached(Append(walk, c), Len(Append(walk, c))) = c
      BY <2>2, WalkGoesOn
    <2> QED
      BY <2>3
  <1>5. R \in SUBSET Nodes
    BY <1>1
  <1>6. Attached(T) \subseteq R
    <2> HIDE DEF R
    <2> QED
      BY <1>3, <1>4, <1>5 DEF Attached
  <1> QED
    BY <1>2, <1>6

\* The last slash of a path is the one before its last name: what is behind it
\* is that name, and what is before it is the path of the names before.
LEMMA DirectoryAndName ==
  ASSUME NEW names \in Seq(Names), Len(names) # 0,
         \A j \in 1 .. Len(names) : HasText(names[j])
  PROVE  /\ get_filename(path_of(names)) = names[Len(names)]
         /\ get_parent_path(path_of(names))
              = path_of(Prefix(names, Len(names) - 1))
  <1> DEFINE k == Len(names)
             path == path_of(names)
             q == Prefix(names, k - 1)
  <1>1. /\ k \in Nat \ {0} /\ Len(path) = 2 * k
        /\ \A i \in 1 .. 2 * k : path[i] = IF i % 2 = 1 THEN Slash
                                                        ELSE names[i \div 2]
    <2>1. /\ k \in Nat
          /\ Len(path) = IF k = 0 THEN 1 ELSE 2 * k
          /\ \A i \in 1 .. Len(path) : path[i] = IF i % 2 = 1 THEN Slash
                                                              ELSE names[i \div 2]
      BY PathParts
    <2>2. k # 0
      OBVIOUS
    <2> HIDE DEF k, path
    <2> QED
      BY <2>1, <2>2
  <1>2. \A j \in 1 .. k : names[j] \in Names /\ names[j] # Slash
    BY ElementOfSeq DEF HasText, Slash
  <1>3. q \in Seq(Names) /\ Len(q) = k - 1 /\ \A j \in 1 .. k - 1 : q[j] = names[j]
    <2>1. k - 1 \in 0 .. Len(names)
      BY <1>1
    <2>2. q \in Seq(Names) /\ Len(q) = k - 1
      BY <2>1, Prefixes
    <2> QED
      BY <2>2 DEF Prefix
  <1> HIDE DEF path, k, q
  <1>4. path[2 * k] = names[k] /\ path[2 * k - 1] = Slash
    <2>1. k \in Nat /\ k - 1 \in Nat
      BY <1>1
    <2>2. (2 * k) % 2 = 0 /\ (2 * k) \div 2 = k
      BY <2>1, Doubles
    <2>3. (2 * (k - 1) + 1) % 2 = 1
      BY <2>1, Doubles
    <2>4. 2 * (k - 1) + 1 = 2 * k - 1
      BY <2>1
    <2>5. 2 * k \in 1 .. 2 * k /\ 2 * k - 1 \in 1 .. 2 * k
      BY <1>1
    <2> QED
      BY <1>1, <2>2, <2>3, <2>4, <2>5
  <1>5. last_slash(path) = 2 * k - 1
    <2> DEFINE IsLast(i) ==
                 path[i] = Slash /\ \A j \in i + 1 .. Len(path) : path[j] # Slash
    <2>1. 2 * k - 1 \in 1 .. Len(path) /\ IsLast(2 * k - 1)
      <3>1. \A j \in (2 * k - 1) + 1 .. Len(path) : j = 2 * k
        BY <1>1
      <3>2. names[k] # Slash
        BY <1>1, <1>2
      <3> QED
        BY <1>1, <1>4, <3>1, <3>2
    <2>2. ASSUME NEW i \in 1 .. Len(path), IsLast(i)
          PROVE  i = 2 * k - 1
      <3>1. i # 2 * k
        BY <1>1, <1>2, <1>4, <2>2
      <3>2. ~(i < 2 * k - 1)
        <4> SUFFICES ASSUME i < 2 * k - 1 PROVE FALSE
          OBVIOUS
        <4>1. 2 * k - 1 \in i + 1 .. Len(path)
          BY <1>1
        <4> QED
          BY <1>4, <2>2, <4>1
      <3> QED
        BY <1>1, <3>1, <3>2
    <2>3. last_slash(path) = CHOOSE i \in 1 .. Len(path) : IsLast(i)
      BY DEF last_slash
    <2> HIDE DEF IsLast
    <2> QED
      BY <2>1, <2>2, <2>3
  <1>6. get_filename(path) = names[k]
    <2>1. 2 * k - 1 + 1 = 2 * k
      BY <1>1
    <2> QED
      BY <1>4, <1>5, <2>1 DEF get_filename
  <1>7. get_parent_path(path) = path_of(q)
    <2>1. CASE k = 1
      <3>1. last_slash(path) = 1 /\ Len(q) = 0
        BY <1>3, <1>5, <2>1
      <3> QED
        BY <3>1 DEF get_parent_path, path_of
    <2>2. CASE k # 1
      <3> DEFINE n == 2 * k - 2
                 r == SubSeq(path, 1, n)
                 t == path_of(q)
      <3>1. n \in Nat \ {0} /\ last_slash(path) # 1 /\ last_slash(path) - 1 = n
        BY <1>1, <1>5, <2>2
      <3>2. get_parent_path(path) = r
        BY <3>1 DEF get_parent_path
      <3>3. Len(t) = n /\ \A i \in 1 .. n : t[i] = IF i % 2 = 1 THEN Slash
                                                               ELSE q[i \div 2]
        <4>1. /\ Len(t) = IF Len(q) = 0 THEN 1 ELSE 2 * Len(q)
              /\ \A i \in 1 .. Len(t) : t[i] = IF i % 2 = 1 THEN Slash
                                                            ELSE q[i \div 2]
          BY <1>3, PathParts
        <4> HIDE DEF t
        <4>2. Len(t) = n
          BY <1>1, <1>3, <2>2, <4>1
        <4> QED
          BY <4>1, <4>2
      <3>4. \A i \in 1 .. n : i \in 1 .. 2 * k
        BY <1>1
      <3> HIDE DEF t
      <3>5. \A i \in 1 .. n : i % 2 # 1 => i \div 2 \in 1 .. k - 1
        <4> SUFFICES ASSUME NEW i \in 1 .. n, i % 2 # 1
                     PROVE  i \div 2 \in 1 .. k - 1
          OBVIOUS
        <4>1. i \in Nat \ {0}
          BY <3>1
        <4>2. i \div 2 >= 1 /\ i \div 2 \in Nat /\ 2 * (i \div 2) <= i
          BY <4>1, Halves
        <4> HIDE DEF n
        <4>3. i <= 2 * k - 2
          BY <3>1 DEF n
        <4> QED
          BY <1>1, <4>1, <4>2, <4>3
      <3>6. \A i \in 1 .. n : t[i] = path[i]
        BY <1>1, <1>3, <3>3, <3>4, <3>5
      <3>7. \A i \in 1 .. n : path[i] \in Names
        <4>1. <<>> \in Names
          BY DEF Names
        <4>2. \A i \in 1 .. n : i % 2 # 1 => i \div 2 \in 1 .. k
          BY <1>1, <3>5
        <4> HIDE DEF n
        <4> QED
          BY <1>1, <1>2, <3>4, <4>1, <4>2 DEF Slash
      <3> HIDE DEF n
      <3>8. /\ r \in Seq(Names) /\ Len(r) = n
            /\ \A i \in 1 .. n : r[i] = path[i]
        <4>1. 1 \in Int /\ n \in Int /\ n - 1 + 1 = n /\ 1 <= n
          BY <3>1
        <4>2. /\ r \in Seq(Names)
              /\ Len(r) = IF 1 <= n THEN n - 1 + 1 ELSE 0
              /\ \A i \in 1 .. n - 1 + 1 : r[i] = path[1 + i - 1]
          BY <3>7, <4>1, SubSeqProperties
        <4> HIDE DEF r
        <4>3. \A i \in 1 .. n : 1 + i - 1 = i
          BY <3>1
        <4> QED
          BY <4>1, <4>2, <4>3
      <3> HIDE DEF r
      <3>9. t \in Seq(Names)
        <4>1. t = [i \in 1 .. n |-> IF i % 2 = 1 THEN Slash ELSE q[i \div 2]]
          <5>1. Len(q) # 0 /\ 2 * Len(q) = n
            BY <1>1, <1>3, <2>2 DEF n
          <5> QED
            BY <5>1 DEF t, path_of
        <4>2. \A i \in 1 .. n :
                (IF i % 2 = 1 THEN Slash ELSE q[i \div 2]) \in Names
          BY <3>3, <3>6, <3>7
        <4>3. t \in [1 .. n -> Names]
          BY <4>1, <4>2
        <4> QED
          BY <3>1, <4>3, SeqDef
      <3>10. r = t
        BY <3>3, <3>6, <3>8, <3>9, SeqEqual
      <3> QED
        BY <3>2, <3>10 DEF t
    <2> QED
      BY <2>1, <2>2
  <1> QED
    BY <1>6, <1>7 DEF path, k, q

\* The path of names leads where looking up each of them in turn leads.
LEMMA NamesLead ==
  ASSUME NEW T, NEW names \in Seq(Names),
         \A j \in 1 .. Len(names) : HasText(names[j]), NEW walk,
         \A i \in 1 .. Len(names) :
           /\ walk[i] = lookup(T, reached(walk, i - 1), names[i])
           /\ reached(walk, i - 1) # None
  PROVE  get_node_by_path(T, path_of(names)) = reached(walk, Len(names))
  <1>1. names = split_path(path_of(names))
    BY SplitsIntoNames
  <1>2. Len(names) \in Nat
    BY LenProperties
  <1> DEFINE path == path_of(names)
  <1>3. names = split_path(path)
    BY <1>1
  <1> HIDE DEF path
  <1>4. get_node_by_path(T, path) = reached(walk, Len(names))
    BY <1>2, <1>3, WalksDown
  <1> QED
    BY <1>4 DEF path

\* In a good tree whose nodes have names every path leads where it should.
LEMMA GoodTreeResolves ==
  ASSUME NEW T, Good(T), Named(T)
  PROVE  Resolves(T)
  <1>1. /\ T \in Tree /\ T.live \subseteq Uids
        /\ \A u \in T.live : T.name[u] \in Names /\ HasText(T.name[u])
        /\ \A m \in Nodes : ChildSet(T, m) \subseteq T.live
        /\ None \notin Nodes
    BY TreeFields, NodeAssumption DEF Good, Named, NoDangling, Nodes
  <1>2. ASSUME NEW walk \in Walks(T)
        PROVE  LET n     == reached(walk, Len(walk))
                   names == NamesOn(T, walk)
                   path  == path_of(names)
               IN  /\ get_node_by_path(T, path) = n
                   /\ \A name \in {T.name[u] : u \in T.live} :
                        LET child == get_node_by_path(T, path_of(Append(names, name)))
                        IN  IF child = None
                              THEN name \notin ChildNames(T, n)
                              ELSE child \in ChildSet(T, n) /\ T.name[child] = name
                   /\ n # Root =>
                        /\ get_node_by_path(T, get_parent_path(path)) = T.parent[n]
                        /\ get_filename(path) = T.name[n]
    <2> DEFINE k == Len(walk)
               n == reached(walk, k)
               names == NamesOn(T, walk)
               path == path_of(names)
    <2>1. /\ k \in Nat
          /\ \A i \in 1 .. k :
               walk[i] \in Uids /\ walk[i] \in ChildSet(T, reached(walk, i - 1))
          /\ \A i \in 0 .. k : reached(walk, i) \in Nodes
          /\ \A i \in 1 .. k : i - 1 \in 0 .. k
      BY WalkParts
    <2>2. /\ n \in Nodes /\ n = reached(walk, k)
          /\ names = [i \in 1 .. k |-> T.name[walk[i]]]
      <3>1. k \in 0 .. k
        BY <2>1
      <3> QED
        BY <2>1, <3>1 DEF NamesOn
    <2> HIDE DEF k, n, names
    <2>3. \A i \in 1 .. k : walk[i] \in T.live
      BY <1>1, <2>1
    <2>4. /\ names \in Seq(Names) /\ Len(names) = k
          /\ \A i \in 1 .. k : names[i] = T.name[walk[i]] /\ HasText(names[i])
      BY <1>1, <2>1, <2>2, <2>3
    <2>5. \A i \in 1 .. k : /\ walk[i] = lookup(T, reached(walk, i - 1), names[i])
                            /\ reached(walk, i - 1) # None
      BY <1>1, <2>1, <2>4, LookupChild
    <2>6. get_node_by_path(T, path) = n
      <3>1. \A i \in 1 .. Len(names) :
              /\ HasText(names[i])
              /\ walk[i] = lookup(T, reached(walk, i - 1), names[i])
              /\ reached(walk, i - 1) # None
        BY <2>4, <2>5
      <3>2. get_node_by_path(T, path_of(names)) = reached(walk, Len(names))
        BY <2>4, <3>1, NamesLead
      <3> QED
        BY <2>2, <2>4, <3>2
    <2>7. ASSUME NEW u \in T.live
          PROVE  LET name == T.name[u]
                     child == get_node_by_path(T, path_of(Append(names, name)))
                 IN  IF child = None
                       THEN name \notin ChildNames(T, n)
                       ELSE child \in ChildSet(T, n) /\ T.name[child] = name
      <3> DEFINE name == T.name[u]
                 c    == lookup(T, n, name)
                 more == Append(names, name)
                 on   == [i \in 1 .. k + 1 |-> IF i <= k THEN walk[i] ELSE c]
      <3>1. name \in Names /\ HasText(name)
        BY <1>1
      <3>2. \/ c = None /\ name \notin ChildNames(T, n)
            \/ c \in ChildSet(T, n) /\ T.name[c] = name
        BY <1>1, <2>2, Lookup
      <3>3. c # None \/ name \notin ChildNames(T, n)
        BY <1>1, <2>2, <3>2 DEF Nodes
      <3>a. c = lookup(T, n, name)
        OBVIOUS
      <3> HIDE DEF name, c
      <3>4. /\ more \in Seq(Names) /\ Len(more) = k + 1
            /\ \A i \in 1 .. k : more[i] = names[i]
            /\ more[k + 1] = name
        BY <2>1, <2>4, <3>1, AppendProperties
      <3>5. /\ \A i \in 0 .. k : reached(on, i) = reached(walk, i)
            /\ \A i \in 1 .. k : on[i] = walk[i]
            /\ on[k + 1] = c /\ reached(on, k + 1) = c
        BY <2>1 DEF reached
      <3> HIDE DEF more, on
      <3>6. ASSUME NEW i \in 1 .. Len(more)
            PROVE  /\ on[i] = lookup(T, reached(on, i - 1), more[i])
                   /\ reached(on, i - 1) # None
                   /\ HasText(more[i])
        <4>1. CASE i \in 1 .. k
          <5>1. i - 1 \in 0 .. k
            BY <2>1, <4>1
          <5> QED
            BY <2>4, <2>5, <3>4, <3>5, <4>1, <5>1
        <4>2. CASE i = k + 1
          <5>1. i - 1 = k /\ k \in 0 .. k
            BY <2>1, <4>2
          <5>2. reached(on, i - 1) = n
            BY <2>2, <3>5, <5>1
          <5> QED
            BY <1>1, <2>2, <3>1, <3>4, <3>5, <3>a, <4>2, <5>2
        <4> QED
          BY <2>1, <3>4, <4>1, <4>2
      <3>7. get_node_by_path(T, path_of(more)) = c
        <4>1. get_node_by_path(T, path_of(more)) = reached(on, Len(more))
          BY <3>4, <3>6, NamesLead
        <4> QED
          BY <3>4, <3>5, <4>1
      <3>8. get_node_by_path(T, path_of(Append(names, name))) = c
        BY <3>7 DEF more
      <3> QED
        BY <3>2, <3>3, <3>8 DEF name
    <2>8. ASSUME n # Root
          PROVE  /\ get_node_by_path(T, get_parent_path(path)) = T.parent[n]
                 /\ get_filename(path) = T.name[n]
      <3>1. k # 0 /\ k \in 1 .. k
        BY <2>1, <2>2, <2>8 DEF reached
      <3>2. n = walk[k]
        BY <2>2, <3>1 DEF reached
      <3>3. /\ get_filename(path) = names[k]
            /\ get_parent_path(path) = path_of(Prefix(names, k - 1))
        BY <2>4, <3>1, DirectoryAndName
      <3> DEFINE p == Prefix(names, k - 1)
      <3>4. /\ p \in Seq(Names) /\ Len(p) = k - 1
            /\ \A i \in 1 .. k - 1 : p[i] = names[i] /\ i \in 1 .. k
        <4>1. k - 1 \in 0 .. Len(names)
          BY <2>1, <2>4, <3>1
        <4>2. p \in Seq(Names) /\ Len(p) = k - 1
          BY <2>4, <4>1, Prefixes
        <4>3. \A i \in 1 .. k - 1 : p[i] = names[i]
          BY DEF Prefix
        <4>4. \A i \in 1 .. k - 1 : i \in 1 .. k
          BY <2>1
        <4> QED
          BY <4>2, <4>3, <4>4
      <3> HIDE DEF p
      <3>5. get_node_by_path(T, path_of(p)) = reached(walk, k - 1)
        <4>1. \A i \in 1 .. Len(p) :
                /\ HasText(p[i])
                /\ walk[i] = lookup(T, reached(walk, i - 1), p[i])
                /\ reached(walk, i - 1) # None
          BY <2>4, <2>5, <3>4
        <4>2. get_node_by_path(T, path_of(p)) = reached(walk, Len(p))
          BY <3>4, <4>1, NamesLead
        <4> QED
          BY <3>4, <4>2
      <3>6. T.parent[n] = reached(walk, k - 1)
        <4>1. /\ n \in ChildSet(T, reached(walk, k - 1))
              /\ reached(walk, k - 1) \in Nodes
          BY <2>1, <3>1, <3>2
        <4> QED
          BY <4>1 DEF Good, Linked, ChildSet
      <3>7. names[k] = T.name[n]
        BY <2>4, <3>1, <3>2
      <3> QED
        BY <3>3, <3>5, <3>6, <3>7 DEF p
    <2> QED
      BY <2>6, <2>7, <2>8 DEF k, n, names
  <1>3. Attached(T) = {reached(walk, Len(walk)) : walk \in Walks(T)}
    BY WalksReach
  <1> QED
    BY <1>2, <1>3 DEF Resolves

\* The path a user gets by going down from the mount point leads each handler
\* to the note he saw, and to its directory and name, and no other path leads
\* anywhere: in every reachable state, and however deep the tree.
THEOREM PathsLeadToNotes == Spec => []PathsResolve
  <1>1. Init => Named(tree)
    BY EmptyNamed DEF Init
  <1>2. Spec => []Named(tree)
    BY <1>1, Invariance, NextNamed, PTL DEF Spec
  <1>3. Inv /\ Named(tree) => PathsResolve
    BY InvGood, GoodTreeResolves DEF PathsResolve
  <1> QED
    BY <1>2, <1>3, Invariance, PTL

=============================================================================
