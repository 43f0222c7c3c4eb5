------------------------------ MODULE NodeTree ------------------------------
(***************************************************************************)
(* The in-memory tree (tree.c) and the hash map beside it                  *)
(* (fuse_node_store.c), as operators on one record:                        *)
(*   live      the notes that have an allocated tree node                  *)
(*   entries   the keys of entries_vdir, each mapped to its tree node      *)
(*   name      agenda_entry.filename of each node                          *)
(*   parent    node->parent, None for NULL                                 *)
(*   children  node->children[0 .. child_count - 1]                        *)
(* A note has at most one tree node, so a node is named by its uid.        *)
(***************************************************************************)
EXTENDS Names

CONSTANTS
  Root,  \* fuse_root
  None   \* NULL

ASSUME NodeAssumption == Root \notin Uids /\ None \notin Uids /\ Root # None

Nodes == Uids \cup {Root}

Tree ==
  [live : SUBSET Uids, entries : SUBSET Uids, name : [Uids -> Names],
   parent : [Uids -> Nodes \cup {None}], children : [Nodes -> Seq(Uids)]]

EmptyTree ==
  [live |-> {}, entries |-> {}, name |-> [u \in Uids |-> <<>>],
   parent |-> [u \in Uids |-> None], children |-> [n \in Nodes |-> <<>>]]

ChildSet(T, n) == {T.children[n][i] : i \in 1 .. Len(T.children[n])}

ChildNames(T, n) == {T.name[c] : c \in ChildSet(T, n)}

node_has_children(T, n) == Len(T.children[n]) > 0

\* The nodes that walking down from fuse_root visits.
Attached(T) ==
  LET closed == {S \in SUBSET Nodes :
                   Root \in S /\ \A n \in S : ChildSet(T, n) \subseteq S}
  IN  {n \in Nodes : \A S \in closed : n \in S}

\* n and everything below it.
Subtree(T, n) ==
  LET closed == {S \in SUBSET Nodes :
                   n \in S /\ \A m \in S : ChildSet(T, m) \subseteq S}
  IN  {m \in Nodes : \A S \in closed : m \in S}

-----------------------------------------------------------------------------
(* tree.c *)

add_child(T, p, c) ==
  [T EXCEPT !.children[p] = Append(@, c), !.parent[c] = p]

\* Where c is in the list of children s; 0 stands for the index (size_t)-1
\* of a node that is not in it.
child_index(s, c) ==
  IF \E i \in 1 .. Len(s) : s[i] = c
    THEN CHOOSE i \in 1 .. Len(s) : s[i] = c /\ \A j \in 1 .. i - 1 : s[j] # c
    ELSE 0

\* A slip of one: the element at the index stays and the last one is lost.
shift_down_late(s, index) ==
  [i \in 1 .. Len(s) - 1 |-> IF i <= index THEN s[i] ELSE s[i + 1]]

\* Every element after the index moves one place down and the count drops.
shift_down(s, index) ==
  [i \in 1 .. Len(s) - 1 |-> IF i < index THEN s[i] ELSE s[i + 1]]

detach_tree_node(T, c) ==
  IF T.parent[c] = None
    THEN T
    ELSE [T EXCEPT !.children[T.parent[c]] = shift_down(@, child_index(@, c)),
                   !.parent[c] = None]

move_node(T, p, c) == add_child(detach_tree_node(T, c), p, c)

\* Frees the node and all nodes below it; the hash map is not told.
free_tree(T, n) ==
  LET gone == Subtree(T, n)
  IN  [T EXCEPT
         !.live = @ \ gone,
         !.name = [u \in Uids |-> IF u \in gone THEN <<>> ELSE @[u]],
         !.parent = [u \in Uids |-> IF u \in gone THEN None ELSE @[u]],
         !.children = [m \in Nodes |-> IF m \in gone THEN <<>> ELSE @[m]]]

-----------------------------------------------------------------------------
(* fuse_node_store.c *)

set_node_filename(T, n, name) == [T EXCEPT !.name[n] = name]

\* A node that is not put into entries_vdir.
create_fuse_node_unregistered(T, u, name) ==
  [T EXCEPT !.live = @ \cup {u}, !.name[u] = name]

create_fuse_node(T, u, name) ==
  [T EXCEPT !.live = @ \cup {u}, !.entries = @ \cup {u}, !.name[u] = name]

upsert_fuse_node(T, u, name) ==
  IF u \in T.entries
    THEN set_node_filename(T, u, name)
    ELSE create_fuse_node(T, u, name)

delete_fuse_node(T, n) ==
  free_tree(detach_tree_node([T EXCEPT !.entries = @ \ {n}], n), n)


\* The name a node called `name` gets among the children of p.
unique_filename(T, p, name) ==
  IF name \in ChildNames(T, p)
    THEN filename_numbered(name, first_free_number(name, ChildNames(T, p),
                                                   Len(T.children[p])))
    ELSE name

add_fuse_child(T, p, c) ==
  add_child(set_node_filename(T, c, unique_filename(T, p, T.name[c])), p, c)

\* A node that has a place keeps it.
move_fuse_node_once(T, p, c) ==
  IF T.parent[c] # None THEN T ELSE add_fuse_child(T, p, c)

move_fuse_node(T, p, c) == add_fuse_child(detach_tree_node(T, c), p, c)

\* The lookup of one path component: the first child with that name.
lookup(T, p, name) ==
  LET s    == T.children[p]
      hits == {i \in 1 .. Len(s) : T.name[s[i]] = name}
  IN  IF hits = {}
        THEN None
        ELSE s[CHOOSE i \in hits : \A j \in hits : i <= j]

-----------------------------------------------------------------------------
(* What is expected of a tree *)

\* Parent pointers and child arrays describe one forest: each element of
\* children[n] points back to n, and a node with a parent is in its array.
Linked(T) ==
  /\ \A n \in Nodes : \A i \in 1 .. Len(T.children[n]) :
       T.parent[T.children[n][i]] = n
  /\ \A u \in Uids : T.parent[u] # None => u \in ChildSet(T, T.parent[u])

\* Neither entries_vdir nor the tree refers to a node that has been freed, and
\* every allocated node can be found through entries_vdir.
NoDangling(T) ==
  /\ T.entries = T.live
  /\ \A n \in Nodes : ChildSet(T, n) \subseteq T.live
  /\ \A u \in Uids : T.parent[u] \in T.live \cup {Root, None}

\* No node lists two children of one name, so that a path names one note.
UniqueNames(T) ==
  \A n \in Nodes : \A i, j \in 1 .. Len(T.children[n]) :
    i # j => T.name[T.children[n][i]] # T.name[T.children[n][j]]

=============================================================================
