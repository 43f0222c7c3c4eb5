------------------------------- MODULE Paths -------------------------------
(***************************************************************************)
(* How the handlers find the node of a path (path.c, get_node_by_path).    *)
(* A path is a sequence of names and slashes; a slash is written as the    *)
(* sequence without labels, which no note has for a name.                  *)
(***************************************************************************)
EXTENDS NodeTree

\* A uid is the name of a file: there are only so many of them.
ASSUME PathsAssumption == IsFiniteSet(Uids)

Slash == <<>>

\* strtok_r: what lies between the slashes; nothing is never a segment.
split_path(path) ==
  LET segments[i \in 0 .. Len(path)] ==
        IF i = 0 THEN <<>>
        ELSE IF path[i] \in {Slash, <<Blank>>} THEN segments[i - 1]
        ELSE Append(segments[i - 1], path[i])
  IN  segments[Len(path)]

last_slash(path) == CHOOSE i \in 1 .. Len(path) :
  path[i] = Slash /\ \A j \in i + 1 .. Len(path) : path[j] # Slash

\* What lies in the mount point has its only slash in front.
get_parent_path(path) ==
  IF last_slash(path) = 1 THEN <<Slash>> ELSE SubSeq(path, 1, last_slash(path) - 1)

get_filename(path) == path[last_slash(path) + 1]


\* Walks down from fuse_root, one segment after the other.
get_node_by_path(T, path) ==
  LET s == split_path(path)
      at[i \in 0 .. Len(s)] ==
        IF i = 0 THEN Root
        ELSE IF at[i - 1] = None THEN None
        ELSE lookup(T, at[i - 1], s[i])
  IN  at[Len(s)]

\* The names from the mount point down, each behind a slash.
path_of(names) ==
  IF Len(names) = 0
    THEN <<Slash>>
    ELSE [i \in 1 .. 2 * Len(names) |->
            IF i % 2 = 1 THEN Slash ELSE names[i \div 2]]

\* The node after i steps of a walk from fuse_root.
reached(walk, i) == IF i = 0 THEN Root ELSE walk[i]

\* Where a user gets who goes from a directory to what readdir lists in it.
Walks(T) ==
  {walk \in UNION {[1 .. k -> Uids] : k \in 0 .. Cardinality(Uids)} :
     \A i \in 1 .. Len(walk) : walk[i] \in ChildSet(T, reached(walk, i - 1))}

NamesOn(T, walk) == [i \in 1 .. Len(walk) |-> T.name[walk[i]]]

\* The walks lead to every node that can be reached.  The path of a walk leads
\* to the node the walk does; below it every name leads to the child that is
\* listed under it, or to nothing; and the path is what the handlers take it
\* for, a directory and a name in it.
Resolves(T) ==
  /\ Attached(T) = {reached(walk, Len(walk)) : walk \in Walks(T)}
  /\ \A walk \in Walks(T) :
       LET n     == reached(walk, Len(walk))
           names == NamesOn(T, walk)
           path  == path_of(names)
       IN  /\ get_node_by_path(T, path) = n
           /\ \A name \in {T.name[u] : u \in T.live} :
                LET child == get_node_by_path(T, path_of(Append(names, name)))
                IN  IF child = None
                      THEN name \notin ChildNames(T, n)
                      ELSE child \in ChildSet(T, n) /\ T.name[child] = name
           /\ n # Root => /\ get_node_by_path(T, get_parent_path(path)) = T.parent[n]
                          /\ get_filename(path) = T.name[n]

=============================================================================
