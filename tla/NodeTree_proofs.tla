-------------------------- MODULE NodeTree_proofs --------------------------
(***************************************************************************)
(* What the operators of NodeTree preserve.  The four parts of a good tree *)
(* hold together: each operation needs all of them to preserve one.        *)
(***************************************************************************)
EXTENDS NodeTree, SequenceTheorems, FiniteSetTheorems, WellFoundedInduction,
        TLAPS

\* No node is twice in an array.
NoRepeats(T) ==
  \A n \in Nodes : \A i, j \in 1 .. Len(T.children[n]) :
    i # j => T.children[n][i] # T.children[n][j]

\* A tree whose names are unique but perhaps for that of c.
GoodBut(T, c) ==
  /\ T \in Tree
  /\ Linked(T)
  /\ NoDangling(T)
  /\ NoRepeats(T)
  /\ \A n \in Nodes : \A i, j \in 1 .. Len(T.children[n]) :
       i # j /\ T.children[n][i] # c /\ T.children[n][j] # c =>
         T.name[T.children[n][i]] # T.name[T.children[n][j]]

Good(T) == T \in Tree /\ Linked(T) /\ NoDangling(T) /\ UniqueNames(T)

-----------------------------------------------------------------------------
(* The arrays of children *)

\* Two arrays with the same indices have the same length.
LEMMA SameInterval ==
  ASSUME NEW m \in Nat, NEW n \in Nat, 1 .. m = 1 .. n
  PROVE  m = n
  <1>1. m <= n
    BY m = 0 \/ m \in 1 .. m
  <1>2. n <= m
    BY n = 0 \/ n \in 1 .. n
  <1> QED
    BY <1>1, <1>2

\* An index is that of the first occurrence.
LEMMA ChildIndex ==
  ASSUME NEW s \in Seq(Uids), NEW c, \E i \in 1 .. Len(s) : s[i] = c,
         \A i, j \in 1 .. Len(s) : i # j => s[i] # s[j]
  PROVE  child_index(s, c) \in 1 .. Len(s) /\ s[child_index(s, c)] = c
  <1>1. PICK i \in 1 .. Len(s) : s[i] = c
    OBVIOUS
  <1>2. \A j \in 1 .. i - 1 : s[j] # c
    <2>1. Len(s) \in Nat
      BY LenProperties
    <2> QED
      BY <1>1, <2>1
  <1> QED
    BY <1>1, <1>2 DEF child_index

\* Moving down what follows an index removes that element and no other.
LEMMA ShiftDown ==
  ASSUME NEW s \in Seq(Uids), NEW k \in 1 .. Len(s)
  PROVE  /\ shift_down(s, k) \in Seq(Uids)
         /\ Len(shift_down(s, k)) = Len(s) - 1
         /\ \A i \in 1 .. Len(s) - 1 :
              shift_down(s, k)[i] = IF i < k THEN s[i] ELSE s[i + 1]
  <1> DEFINE r == shift_down(s, k)
  <1>1. Len(s) \in Nat /\ Len(s) - 1 \in Nat /\ s \in [1 .. Len(s) -> Uids]
    BY LenProperties
  <1>2. r \in [1 .. Len(s) - 1 -> Uids]
    BY <1>1 DEF shift_down
  <1>3. r \in Seq(Uids)
    BY <1>1, <1>2
  <1>4. Len(r) = Len(s) - 1
    <2>1. Len(r) \in Nat /\ DOMAIN r = 1 .. Len(r)
      BY <1>3, LenProperties
    <2>2. DOMAIN r = 1 .. Len(s) - 1
      BY <1>2
    <2> HIDE DEF r
    <2> QED
      BY <2>1, <2>2, <1>1, SameInterval
  <1>5. \A i \in 1 .. Len(s) - 1 : r[i] = IF i < k THEN s[i] ELSE s[i + 1]
    BY DEF shift_down
  <1> QED
    BY <1>3, <1>4, <1>5

-----------------------------------------------------------------------------
(* tree.c *)

\* A record is a tree when its fields have their types.
LEMMA TreeFields ==
  ASSUME NEW T \in Tree
  PROVE  /\ T.live \in SUBSET Uids
         /\ T.entries \in SUBSET Uids
         /\ T.name \in [Uids -> Names]
         /\ T.parent \in [Uids -> Nodes \cup {None}]
         /\ T.children \in [Nodes -> Seq(Uids)]
         /\ \A n \in Nodes : Len(T.children[n]) \in Nat
         /\ \A n \in Nodes : \A i \in 1 .. Len(T.children[n]) :
              T.children[n][i] \in Uids
  <1>1. /\ T.live \in SUBSET Uids
        /\ T.entries \in SUBSET Uids
        /\ T.name \in [Uids -> Names]
        /\ T.parent \in [Uids -> Nodes \cup {None}]
        /\ T.children \in [Nodes -> Seq(Uids)]
    BY DEF Tree
  <1>2. ASSUME NEW n \in Nodes
        PROVE  /\ Len(T.children[n]) \in Nat
               /\ \A i \in 1 .. Len(T.children[n]) : T.children[n][i] \in Uids
    <2>1. T.children[n] \in Seq(Uids)
      BY <1>1
    <2> QED
      BY <2>1, LenProperties, ElementOfSeq
  <1> QED
    BY <1>1, <1>2

\* A node without a parent is in no array.
LEMMA Unplaced ==
  ASSUME NEW T \in Tree, Linked(T), NEW c \in Uids, T.parent[c] = None,
         NEW n \in Nodes, NEW i \in 1 .. Len(T.children[n])
  PROVE  T.children[n][i] # c
  BY NodeAssumption DEF Linked, Nodes

\* Detaching c leaves every other node where it is; then c has no parent, and
\* names are unique if they were but for that of c.
LEMMA Detach ==
  ASSUME NEW T, NEW c \in Uids, GoodBut(T, c)
  PROVE  LET D == detach_tree_node(T, c)
         IN  /\ Good(D)
             /\ D.parent = [T.parent EXCEPT ![c] = None]
             /\ D.live = T.live /\ D.entries = T.entries /\ D.name = T.name
             /\ \A n \in Nodes : ChildSet(D, n) = ChildSet(T, n) \ {c}
  <1> DEFINE D == detach_tree_node(T, c)
             p == T.parent[c]
             k == child_index(T.children[p], c)
             r == shift_down(T.children[p], k)
  <1>1. T \in Tree /\ Linked(T) /\ NoDangling(T) /\ NoRepeats(T)
    BY DEF GoodBut
  <1>2. CASE p = None
    <2>1. D = T
      BY <1>2 DEF detach_tree_node
    <2>2. \A n \in Nodes : \A i \in 1 .. Len(T.children[n]) :
            T.children[n][i] # c
      BY <1>1, <1>2, Unplaced
    <2>3. UniqueNames(T)
      BY <2>2 DEF UniqueNames, GoodBut
    <2>4. T.parent = [T.parent EXCEPT ![c] = None]
      BY <1>1, <1>2, TreeFields
    <2>5. \A n \in Nodes : ChildSet(T, n) = ChildSet(T, n) \ {c}
      BY <2>2 DEF ChildSet
    <2> QED
      BY <1>1, <2>1, <2>3, <2>4, <2>5 DEF Good
  <1>3. CASE p # None
    <2>1. p \in Nodes /\ T.children[p] \in Seq(Uids)
      BY <1>1, <1>3, TreeFields
    <2>2. \E i \in 1 .. Len(T.children[p]) : T.children[p][i] = c
      BY <1>1, <1>3 DEF Linked, ChildSet
    <2>3. k \in 1 .. Len(T.children[p]) /\ T.children[p][k] = c
      BY <1>1, <2>1, <2>2, ChildIndex DEF NoRepeats
    <2>4. /\ r \in Seq(Uids)
          /\ Len(r) = Len(T.children[p]) - 1
          /\ \A i \in 1 .. Len(T.children[p]) - 1 :
               r[i] = IF i < k THEN T.children[p][i] ELSE T.children[p][i + 1]
      BY <2>1, <2>3, ShiftDown
    <2>5. /\ D.live = T.live /\ D.entries = T.entries /\ D.name = T.name
          /\ D.parent = [T.parent EXCEPT ![c] = None]
          /\ D.children = [T.children EXCEPT ![p] = r]
      BY <1>1, <1>3 DEF detach_tree_node, Tree
    <2>6. D \in Tree
      BY <1>1, <1>3, <2>1, <2>4 DEF detach_tree_node, Tree
    <2> HIDE DEF D, r, k
    <2>7. Len(T.children[p]) \in Nat
      BY <1>1, <2>1, TreeFields
    <2>8. \A n \in Nodes \ {p} : D.children[n] = T.children[n]
      BY <2>5, <1>1, TreeFields
    <2>9. D.children[p] = r
      BY <2>5, <1>1, <2>1, TreeFields
    \* The old place of what is at place i now.
    <2> DEFINE was(n, i) == IF n = p /\ i >= k THEN i + 1 ELSE i
    <2>10. ASSUME NEW n \in Nodes, NEW i \in 1 .. Len(D.children[n])
           PROVE  /\ was(n, i) \in 1 .. Len(T.children[n])
                  /\ D.children[n][i] = T.children[n][was(n, i)]
                  /\ D.children[n][i] # c
      <3>1. CASE n = p
        <4>1. i \in 1 .. Len(T.children[p]) - 1
          BY <3>1, <2>4, <2>9
        <4>2. was(n, i) \in 1 .. Len(T.children[p]) /\ was(n, i) # k
          BY <3>1, <4>1, <2>3, <2>7
        <4>3. D.children[n][i] = T.children[n][was(n, i)]
          BY <3>1, <4>1, <2>3, <2>4, <2>7, <2>9
        <4> QED
          BY <3>1, <4>2, <4>3, <1>1, <2>3 DEF NoRepeats
      <3>2. CASE n # p
        <4>1. D.children[n] = T.children[n]
          BY <3>2, <2>8
        <4>2. T.children[n][i] # c
          BY <3>2, <4>1, <1>1 DEF Linked
        <4> QED
          BY <3>2, <4>1, <4>2
      <3> QED
        BY <3>1, <3>2
    <2>11. ASSUME NEW n \in Nodes, NEW j \in 1 .. Len(T.children[n]),
                  T.children[n][j] # c
           PROVE  \E i \in 1 .. Len(D.children[n]) :
                    D.children[n][i] = T.children[n][j]
      <3>1. CASE n # p
        BY <3>1, <2>8
      <3>2. CASE n = p /\ j < k
        <4>1. j \in 1 .. Len(T.children[p]) - 1
          BY <3>2, <2>3, <2>7
        <4> QED
          BY <3>2, <4>1, <2>4, <2>9
      <3>3. CASE n = p /\ j > k
        <4>1. j - 1 \in 1 .. Len(T.children[p]) - 1 /\ ~(j - 1 < k)
              /\ j - 1 + 1 = j
          BY <3>3, <2>3, <2>7
        <4> QED
          BY <3>3, <4>1, <2>4, <2>9
      <3>4. j \in Int /\ k \in Int /\ (n = p => j # k)
        BY <2>3, <2>7, <2>11
      <3>5. n # p \/ (n = p /\ j < k) \/ (n = p /\ j > k)
        BY <3>4
      <3> QED
        BY <3>1, <3>2, <3>3, <3>5
    <2> HIDE DEF p, was
    <2>12. \A n \in Nodes : ChildSet(D, n) = ChildSet(T, n) \ {c}
      <3> SUFFICES ASSUME NEW n \in Nodes
                   PROVE  ChildSet(D, n) = ChildSet(T, n) \ {c}
        OBVIOUS
      <3>1. ASSUME NEW x \in ChildSet(D, n)
            PROVE  x \in ChildSet(T, n) \ {c}
        <4>1. PICK i \in 1 .. Len(D.children[n]) : x = D.children[n][i]
          BY <3>1 DEF ChildSet
        <4> QED
          BY <4>1, <2>10 DEF ChildSet
      <3>2. ASSUME NEW x \in ChildSet(T, n) \ {c}
            PROVE  x \in ChildSet(D, n)
        <4>1. PICK j \in 1 .. Len(T.children[n]) : x = T.children[n][j]
          BY <3>2 DEF ChildSet
        <4> QED
          BY <4>1, <2>11 DEF ChildSet
      <3> QED
        BY <3>1, <3>2
    <2>13. Linked(D)
      <3>1. ASSUME NEW n \in Nodes, NEW i \in 1 .. Len(D.children[n])
            PROVE  D.parent[D.children[n][i]] = n
        <4>1. D.children[n][i] # c /\ T.parent[D.children[n][i]] = n
          <5>1. /\ was(n, i) \in 1 .. Len(T.children[n])
                /\ D.children[n][i] = T.children[n][was(n, i)]
                /\ D.children[n][i] # c
            BY <2>10
          <5> QED
            BY <5>1, <1>1 DEF Linked
        <4>2. D.children[n][i] \in Uids
          BY <2>6, TreeFields
        <4> QED
          BY <4>1, <4>2, <2>5, <1>1, TreeFields
      <3>2. ASSUME NEW u \in Uids, D.parent[u] # None
            PROVE  u \in ChildSet(D, D.parent[u])
        <4>1. u # c /\ D.parent[u] = T.parent[u]
          BY <3>2, <2>5, <1>1, TreeFields
        <4>2. u \in ChildSet(T, T.parent[u]) /\ T.parent[u] \in Nodes
          BY <4>1, <3>2, <1>1, TreeFields DEF Linked
        <4> QED
          BY <4>1, <4>2, <2>12
      <3> QED
        BY <3>1, <3>2 DEF Linked
    <2>14. NoDangling(D)
      BY <1>1, <2>5, <2>12, TreeFields DEF NoDangling
    <2>15. UniqueNames(D)
      <3> SUFFICES ASSUME NEW n \in Nodes, NEW i \in 1 .. Len(D.children[n]),
                          NEW j \in 1 .. Len(D.children[n]), i # j
                   PROVE  D.name[D.children[n][i]] # D.name[D.children[n][j]]
        BY DEF UniqueNames
      <3>1. Len(D.children[n]) \in Nat /\ k \in Nat
        BY <2>6, TreeFields, <2>3, <2>7
      <3>2. was(n, i) # was(n, j)
        BY <3>1 DEF was
      <3>3. /\ was(n, i) \in 1 .. Len(T.children[n])
            /\ D.children[n][i] = T.children[n][was(n, i)]
            /\ D.children[n][i] # c
        BY <2>10
      <3>4. /\ was(n, j) \in 1 .. Len(T.children[n])
            /\ D.children[n][j] = T.children[n][was(n, j)]
            /\ D.children[n][j] # c
        BY <2>10
      <3> QED
        BY <3>2, <3>3, <3>4, <2>5 DEF GoodBut
    <2> QED
      BY <2>5, <2>6, <2>12, <2>13, <2>14, <2>15 DEF Good, D
  <1> QED
    BY <1>2, <1>3

\* A node without a parent can be given any live parent that has no child of
\* its name yet.
LEMMA AddChild ==
  ASSUME NEW T, Good(T), NEW c \in T.live, T.parent[c] = None,
         NEW p \in T.live \cup {Root}, T.name[c] \notin ChildNames(T, p)
  PROVE  LET D == add_child(T, p, c)
         IN  /\ Good(D)
             /\ D.live = T.live /\ D.name = T.name
             /\ D.parent = [T.parent EXCEPT ![c] = p]
  <1> DEFINE D == add_child(T, p, c)
             s == T.children[p]
             r == Append(s, c)
  <1>1. T \in Tree /\ Linked(T) /\ NoDangling(T) /\ UniqueNames(T)
    BY DEF Good
  <1>2. /\ c \in Uids /\ p \in Nodes /\ p # None
        /\ s \in Seq(Uids) /\ Len(s) \in Nat
    BY <1>1, TreeFields, NodeAssumption DEF Nodes
  <1>3. /\ r \in Seq(Uids) /\ Len(r) = Len(s) + 1
        /\ \A i \in 1 .. Len(s) : r[i] = s[i]
        /\ r[Len(s) + 1] = c
    BY <1>2, AppendProperties
  <1>4. /\ D.live = T.live /\ D.entries = T.entries /\ D.name = T.name
        /\ D.parent = [T.parent EXCEPT ![c] = p]
        /\ D.children = [T.children EXCEPT ![p] = r]
    BY <1>1 DEF add_child, Tree
  <1>5. D \in Tree
    BY <1>1, <1>2, <1>3 DEF add_child, Tree
  <1> HIDE DEF D, r
  <1>6. /\ \A n \in Nodes \ {p} : D.children[n] = T.children[n]
        /\ D.children[p] = r
        /\ \A u \in Uids \ {c} : D.parent[u] = T.parent[u]
        /\ D.parent[c] = p
    BY <1>1, <1>2, <1>4, TreeFields
  <1>7. \A n \in Nodes : \A i \in 1 .. Len(T.children[n]) :
          T.children[n][i] # c
    BY <1>1, <1>2, Unplaced
  \* An entry of an array is an old one, or c at the end of that of p.
  <1>8. ASSUME NEW n \in Nodes, NEW i \in 1 .. Len(D.children[n])
        PROVE  \/ /\ i \in 1 .. Len(T.children[n])
                  /\ D.children[n][i] = T.children[n][i]
               \/ n = p /\ i = Len(s) + 1 /\ D.children[n][i] = c
    <2>1. CASE n # p
      BY <2>1, <1>6
    <2>2. CASE n = p /\ i = Len(s) + 1
      BY <2>2, <1>3, <1>6
    <2>3. CASE n = p /\ i # Len(s) + 1
      <3>1. i \in 1 .. Len(s)
        BY <2>3, <1>2, <1>3, <1>6
      <3> QED
        BY <2>3, <3>1, <1>3, <1>6
    <2> QED
      BY <2>1, <2>2, <2>3
  <1>9. \A n \in Nodes : ChildSet(T, n) \subseteq ChildSet(D, n)
    <2> SUFFICES ASSUME NEW n \in Nodes, NEW i \in 1 .. Len(T.children[n])
                 PROVE  \E j \in 1 .. Len(D.children[n]) :
                          D.children[n][j] = T.children[n][i]
      BY DEF ChildSet
    <2>1. CASE n # p
      BY <2>1, <1>6
    <2>2. CASE n = p
      BY <2>2, <1>2, <1>3, <1>6
    <2> QED
      BY <2>1, <2>2
  <1>10. c \in ChildSet(D, p)
    <2>1. Len(s) + 1 \in 1 .. Len(D.children[p])
      BY <1>2, <1>3, <1>6
    <2> QED
      BY <2>1, <1>3, <1>6 DEF ChildSet
  <1>11. Linked(D)
    <2>1. ASSUME NEW n \in Nodes, NEW i \in 1 .. Len(D.children[n])
          PROVE  D.parent[D.children[n][i]] = n
      <3>1. CASE /\ i \in 1 .. Len(T.children[n])
                 /\ D.children[n][i] = T.children[n][i]
        BY <3>1, <1>1, <1>6, <1>7, TreeFields DEF Linked
      <3>2. CASE n = p /\ i = Len(s) + 1 /\ D.children[n][i] = c
        BY <3>2, <1>6
      <3> QED
        BY <3>1, <3>2, <1>8
    <2>2. ASSUME NEW u \in Uids, D.parent[u] # None
          PROVE  u \in ChildSet(D, D.parent[u])
      <3>1. CASE u = c
        BY <3>1, <1>6, <1>10
      <3>2. CASE u # c
        <4>1. D.parent[u] = T.parent[u] /\ T.parent[u] \in Nodes
          BY <3>2, <2>2, <1>1, <1>6, TreeFields
        <4> QED
          BY <4>1, <2>2, <1>1, <1>9 DEF Linked
      <3> QED
        BY <3>1, <3>2
    <2> QED
      BY <2>1, <2>2 DEF Linked
  <1>12. NoDangling(D)
    <2>1. ASSUME NEW n \in Nodes, NEW x \in ChildSet(D, n)
          PROVE  x \in D.live
      <3>1. PICK i \in 1 .. Len(D.children[n]) : x = D.children[n][i]
        BY <2>1 DEF ChildSet
      <3>2. CASE /\ i \in 1 .. Len(T.children[n])
                 /\ D.children[n][i] = T.children[n][i]
        BY <3>1, <3>2, <1>1, <1>4 DEF NoDangling, ChildSet
      <3>3. CASE n = p /\ i = Len(s) + 1 /\ D.children[n][i] = c
        BY <3>1, <3>3, <1>4
      <3> QED
        BY <3>2, <3>3, <1>8
    <2>2. \A u \in Uids : D.parent[u] \in D.live \cup {Root, None}
      BY <1>1, <1>4, <1>6 DEF NoDangling
    <2> QED
      BY <2>1, <2>2, <1>1, <1>4 DEF NoDangling
  <1>13. UniqueNames(D)
    <2> SUFFICES ASSUME NEW n \in Nodes, NEW i \in 1 .. Len(D.children[n]),
                        NEW j \in 1 .. Len(D.children[n]), i # j
                 PROVE  D.name[D.children[n][i]] # D.name[D.children[n][j]]
      BY DEF UniqueNames
    <2> DEFINE old(m) == /\ m \in 1 .. Len(T.children[n])
                         /\ D.children[n][m] = T.children[n][m]
               new(m) == n = p /\ m = Len(s) + 1 /\ D.children[n][m] = c
    <2>1. (old(i) \/ new(i)) /\ (old(j) \/ new(j))
      BY <1>8
    <2>2. CASE old(i) /\ old(j)
      BY <2>2, <1>1, <1>4 DEF UniqueNames
    <2>3. ASSUME NEW m \in 1 .. Len(D.children[n]), old(m), n = p
          PROVE  D.name[D.children[n][m]] # D.name[c]
      BY <2>3, <1>4 DEF ChildNames, ChildSet
    <2>4. ~(new(i) /\ new(j))
      BY <1>2
    <2> QED
      BY <2>1, <2>2, <2>3, <2>4
  <1> QED
    BY <1>4, <1>5, <1>11, <1>12, <1>13 DEF Good, D

-----------------------------------------------------------------------------
(* fuse_node_store.c *)

\* Renaming a node where it is can make its own name clash, and no other.
LEMMA SetName ==
  ASSUME NEW T, Good(T), NEW c \in Uids, NEW name \in Names
  PROVE  LET D == set_node_filename(T, c, name)
         IN  /\ GoodBut(D, c)
             /\ D.live = T.live /\ D.parent = T.parent
             /\ D.children = T.children
             /\ D.name = [T.name EXCEPT ![c] = name]
             /\ T.parent[c] = None => Good(D)
  <1> DEFINE D == set_node_filename(T, c, name)
  <1>1. T \in Tree /\ Linked(T) /\ NoDangling(T) /\ UniqueNames(T)
    BY DEF Good
  <1>2. /\ D.live = T.live /\ D.entries = T.entries /\ D.parent = T.parent
        /\ D.children = T.children
        /\ D.name = [T.name EXCEPT ![c] = name]
    BY <1>1 DEF set_node_filename, Tree
  <1>3. D \in Tree
    BY <1>1 DEF set_node_filename, Tree
  <1> HIDE DEF D
  <1>4. Linked(D) /\ NoDangling(D)
    BY <1>1, <1>2 DEF Linked, NoDangling, ChildSet
  <1>5. NoRepeats(D)
    BY <1>1, <1>2 DEF NoRepeats, UniqueNames
  <1>6. ASSUME NEW n \in Nodes, NEW i \in 1 .. Len(D.children[n]),
               NEW j \in 1 .. Len(D.children[n]), i # j,
               D.children[n][i] # c, D.children[n][j] # c
        PROVE  D.name[D.children[n][i]] # D.name[D.children[n][j]]
    BY <1>6, <1>1, <1>2, TreeFields DEF UniqueNames
  <1>7. ASSUME T.parent[c] = None
        PROVE  UniqueNames(D)
    <2>1. \A n \in Nodes : \A i \in 1 .. Len(D.children[n]) :
            D.children[n][i] # c
      BY <1>1, <1>2, <1>7, Unplaced
    <2> QED
      BY <2>1, <1>6 DEF UniqueNames
  <1> QED
    BY <1>2, <1>3, <1>4, <1>5, <1>6, <1>7 DEF Good, GoodBut, D

\* A new node has no parent yet.
LEMMA CreateNode ==
  ASSUME NEW T, Good(T), NEW u \in Uids, u \notin T.live, NEW name \in Names
  PROVE  LET D == create_fuse_node(T, u, name)
         IN  /\ Good(D)
             /\ D.live = T.live \cup {u} /\ D.parent = T.parent
             /\ D.children = T.children
             /\ D.name = [T.name EXCEPT ![u] = name]
             /\ D.parent[u] = None
  <1> DEFINE D == create_fuse_node(T, u, name)
  <1>1. T \in Tree /\ Linked(T) /\ NoDangling(T) /\ UniqueNames(T)
    BY DEF Good
  <1>2. /\ D.live = T.live \cup {u} /\ D.entries = T.entries \cup {u}
        /\ D.parent = T.parent /\ D.children = T.children
        /\ D.name = [T.name EXCEPT ![u] = name]
    BY <1>1 DEF create_fuse_node, Tree
  <1>3. D \in Tree
    BY <1>1 DEF create_fuse_node, Tree
  <1> HIDE DEF D
  <1>4. T.parent[u] = None
    <2>1. \A n \in Nodes : u \notin ChildSet(T, n)
      BY <1>1 DEF NoDangling
    <2>2. T.parent[u] \in Nodes \cup {None}
      BY <1>1, TreeFields
    <2> QED
      BY <2>1, <2>2, <1>1 DEF Linked
  <1>5. Linked(D) /\ NoDangling(D)
    BY <1>1, <1>2 DEF Linked, NoDangling, ChildSet
  <1>6. \A n \in Nodes : \A i \in 1 .. Len(D.children[n]) :
          D.children[n][i] # u
    BY <1>1, <1>2, <1>4, Unplaced
  <1>7. UniqueNames(D)
    BY <1>1, <1>2, <1>6, TreeFields DEF UniqueNames
  <1> QED
    BY <1>2, <1>3, <1>4, <1>5, <1>7 DEF Good, D

-----------------------------------------------------------------------------
(* Names that are not taken *)

\* A set of numbers that is not empty has a least element.
LEMMA LeastExists ==
  ASSUME NEW S \in SUBSET Nat, S # {}
  PROVE  Least(S) \in S /\ \A n \in S : Least(S) <= n
  <1> DEFINE R == OpToRel(<, Nat)
  <1>1. IsWellFoundedOn(R, Nat)
    BY NatLessThanWellFounded
  <1>2. \A x, y \in Nat : <<y, x>> \notin R => x <= y
    BY Zenon, SMT DEF OpToRel
  <1> HIDE DEF R
  <1>3. PICK x \in S : \A y \in S : <<y, x>> \notin R
    BY <1>1, WFMin
  <1>4. \E m \in S : \A n \in S : m <= n
    BY <1>2, <1>3
  <1> QED
    BY <1>4 DEF Least

\* Different numbers give different names.
LEMMA Numbered ==
  ASSUME NEW name \in Names, NEW m \in Nat, NEW n \in Nat
  PROVE  /\ filename_numbered(name, n) \in Names
         /\ filename_numbered(name, m) = filename_numbered(name, n) => m = n
  <1>1. name \in Seq(Label) /\ Len(name) \in Nat /\ Nat \subseteq Label
    BY LenProperties DEF Names, Label
  <1>2. CASE Len(name) > 1
    <2> DEFINE l == Len(name)
               base == SubSeq(name, 1, l - 1)
               end(k) == <<k, name[l]>>
    <2>1. name[l] \in Label /\ \A i \in 1 .. l - 1 : name[i] \in Label
      BY <1>1, <1>2, ElementOfSeq
    <2>2. base \in Seq(Label) /\ Len(base) = l - 1
      BY <1>1, <1>2, <2>1, SubSeqProperties
    <2>3. \A k \in Nat : end(k) \in Seq(Label) /\ Len(end(k)) = 2
                        /\ end(k)[1] = k
      BY <1>1, <2>1
    <2> HIDE DEF base, end
    <2>4. \A k \in Nat : /\ base \o end(k) \in Seq(Label)
                        /\ (base \o end(k))[l] = k
      <3> TAKE k \in Nat
      <3> DEFINE e == end(k)
      <3>1. e \in Seq(Label) /\ Len(e) = 2 /\ e[1] = k
        BY <2>3
      <3> HIDE DEF e
      <3>2. /\ base \o e \in Seq(Label)
            /\ \A i \in 1 .. Len(base) + Len(e) : (base \o e)[i] =
                 IF i <= Len(base) THEN base[i] ELSE e[i - Len(base)]
        BY <2>2, <3>1, ConcatProperties
      <3>3. l \in 1 .. Len(base) + Len(e) /\ ~(l <= Len(base))
            /\ l - Len(base) = 1
        BY <1>1, <1>2, <2>2, <3>1
      <3>4. (base \o e)[l] = k
        BY <3>1, <3>2, <3>3
      <3> QED
        BY <3>2, <3>4 DEF e
    <2>5. \A k \in Nat : filename_numbered(name, k) = base \o end(k)
      BY <1>2 DEF filename_numbered, base, end
    <2> QED
      BY <2>4, <2>5 DEF Names
  <1>3. CASE ~(Len(name) > 1)
    <2>1. \A k \in Nat : /\ Append(name, k) \in Seq(Label)
                        /\ Append(name, k)[Len(name) + 1] = k
      BY <1>1, AppendProperties
    <2> QED
      BY <1>3, <2>1 DEF filename_numbered, Names
  <1> QED
    BY <1>2, <1>3

\* Of count + 1 numbered names one is not among the names of count children.
LEMMA FreeNumber ==
  ASSUME NEW T \in Tree, NEW p \in Nodes, NEW name \in Names
  PROVE  LET n == first_free_number(name, ChildNames(T, p),
                                    Len(T.children[p]))
         IN  /\ n \in Nat /\ n \in 1 .. Len(T.children[p]) + 1
             /\ filename_numbered(name, n) \notin ChildNames(T, p)
  <1> DEFINE L == Len(T.children[p])
             taken == ChildNames(T, p)
             free == {n \in 1 .. L + 1 : filename_numbered(name, n) \notin taken}
  <1>1. L \in Nat
    BY TreeFields
  <1>2. free # {}
    <2> SUFFICES ASSUME \A n \in 1 .. L + 1 : filename_numbered(name, n) \in taken
                 PROVE  FALSE
      OBVIOUS
    <2>1. \A n \in 1 .. L + 1 : \E i \in 1 .. L :
            T.name[T.children[p][i]] = filename_numbered(name, n)
      BY DEF ChildNames, ChildSet
    <2> DEFINE f == [n \in 1 .. L + 1 |-> CHOOSE i \in 1 .. L :
                       T.name[T.children[p][i]] = filename_numbered(name, n)]
    <2>2. \A n \in 1 .. L + 1 :
            /\ f[n] \in 1 .. L
            /\ T.name[T.children[p][f[n]]] = filename_numbered(name, n)
      BY <2>1
    <2>3. f \in [1 .. L + 1 -> 1 .. L]
      BY <2>2
    <2> HIDE DEF f
    <2>4. /\ IsFiniteSet(1 .. L + 1) /\ IsFiniteSet(1 .. L)
          /\ Cardinality(1 .. L + 1) = L + 1 /\ Cardinality(1 .. L) = L
      <3>1. 1 \in Int /\ L + 1 \in Int /\ L \in Int
        BY <1>1
      <3> HIDE DEF L
      <3> QED
        BY <3>1, <1>1, FS_Interval
    <2>5. Cardinality(1 .. L) < Cardinality(1 .. L + 1)
      BY <1>1, <2>4
    <2>6. PICK x, y \in 1 .. L + 1 : x # y /\ f[x] = f[y]
      BY <2>3, <2>4, <2>5, FS_PigeonHole
    <2>7. filename_numbered(name, x) = filename_numbered(name, y)
      BY <2>2, <2>6
    <2>8. x \in Nat /\ y \in Nat
      BY <1>1
    <2> QED
      BY <2>6, <2>7, <2>8, Numbered
  <1>3. free \in SUBSET Nat
    BY <1>1
  <1>4. Least(free) \in free
    BY <1>2, <1>3, LeastExists
  <1>5. first_free_number(name, taken, L) = Least(free)
    BY DEF first_free_number
  <1> QED
    BY <1>3, <1>4, <1>5

\* add_fuse_child finds a name that no other child has.
LEMMA UniqueFilename ==
  ASSUME NEW T \in Tree, NEW p \in Nodes, NEW name \in Names
  PROVE  /\ unique_filename(T, p, name) \in Names
         /\ unique_filename(T, p, name) \notin ChildNames(T, p)
  <1> DEFINE n == first_free_number(name, ChildNames(T, p), Len(T.children[p]))
  <1>1. n \in Nat /\ filename_numbered(name, n) \notin ChildNames(T, p)
    BY FreeNumber
  <1> HIDE DEF n
  <1>2. filename_numbered(name, n) \in Names
    BY <1>1, Numbered
  <1> QED
    BY <1>1, <1>2 DEF unique_filename, n

-----------------------------------------------------------------------------
(* fuse_node_store.c, continued *)

\* A good tree is good with any one name set aside.
LEMMA GoodIsGoodBut ==
  ASSUME NEW T, NEW c, Good(T)
  PROVE  GoodBut(T, c)
  <1>1. NoRepeats(T)
    BY DEF Good, UniqueNames, NoRepeats
  <1> QED
    BY <1>1 DEF Good, GoodBut, UniqueNames

\* A node without a parent is given one, under a name that is free there: its
\* own, if it is.
LEMMA AddFuseChild ==
  ASSUME NEW T, Good(T), NEW c \in T.live, T.parent[c] = None,
         NEW p \in T.live \cup {Root}
  PROVE  LET D == add_fuse_child(T, p, c)
         IN  /\ Good(D)
             /\ D.live = T.live
             /\ D.parent = [T.parent EXCEPT ![c] = p]
             /\ T.name[c] \notin ChildNames(T, p) => D.name = T.name
  <1> DEFINE name == unique_filename(T, p, T.name[c])
             S == set_node_filename(T, c, name)
  <1>1. T \in Tree /\ c \in Uids /\ p \in Nodes /\ T.name[c] \in Names
    BY TreeFields DEF Good, Nodes
  <1>2. name \in Names /\ name \notin ChildNames(T, p)
    BY <1>1, UniqueFilename
  <1>a. T.name[c] \notin ChildNames(T, p) => name = T.name[c]
    BY DEF unique_filename
  <1> HIDE DEF name
  <1>3. /\ Good(S) /\ S.live = T.live /\ S.parent = T.parent
        /\ S.children = T.children
        /\ S.name = [T.name EXCEPT ![c] = name]
    BY <1>1, <1>2, SetName
  <1> HIDE DEF S
  <1>4. S.name[c] = name
    BY <1>1, <1>3, TreeFields
  <1>5. ChildNames(S, p) = ChildNames(T, p)
    <2>1. \A i \in 1 .. Len(T.children[p]) :
            T.children[p][i] \in Uids /\ T.children[p][i] # c
      BY <1>1, TreeFields, Unplaced DEF Good
    <2>2. \A i \in 1 .. Len(T.children[p]) :
            S.name[T.children[p][i]] = T.name[T.children[p][i]]
      BY <1>1, <1>3, <2>1, TreeFields
    <2> QED
      BY <1>3, <2>2 DEF ChildNames, ChildSet
  <1>6. /\ Good(S) /\ c \in S.live /\ S.parent[c] = None
        /\ p \in S.live \cup {Root} /\ S.name[c] \notin ChildNames(S, p)
    BY <1>2, <1>3, <1>4, <1>5
  <1>7. LET A == add_child(S, p, c)
        IN  /\ Good(A) /\ A.live = S.live /\ A.name = S.name
            /\ A.parent = [S.parent EXCEPT ![c] = p]
    BY <1>6, AddChild
  <1>8. add_fuse_child(T, p, c) = add_child(S, p, c)
    BY DEF add_fuse_child, S, name
  <1>9. T.name[c] \notin ChildNames(T, p) => S.name = T.name
    BY <1>1, <1>3, <1>a, TreeFields
  <1> QED
    BY <1>3, <1>7, <1>8, <1>9

\* A live node moves below a live node, whatever name it had been given, and
\* keeps a name that is free there.
LEMMA MoveFuseNode ==
  ASSUME NEW T, NEW c \in T.live, GoodBut(T, c), NEW p \in T.live \cup {Root}
  PROVE  LET D == move_fuse_node(T, p, c)
         IN  /\ Good(D)
             /\ D.live = T.live
             /\ D.parent = [T.parent EXCEPT ![c] = p]
             /\ (\A v \in ChildSet(T, p) \ {c} : T.name[v] # T.name[c]) =>
                  D.name = T.name
  <1> DEFINE E == detach_tree_node(T, c)
  <1>1. T \in Tree /\ c \in Uids /\ p \in Nodes
    BY TreeFields DEF GoodBut, Nodes
  <1>2. /\ Good(E) /\ E.live = T.live /\ E.name = T.name
        /\ E.parent = [T.parent EXCEPT ![c] = None]
        /\ ChildSet(E, p) = ChildSet(T, p) \ {c}
    BY <1>1, Detach
  <1> HIDE DEF E
  <1>3. E.parent[c] = None /\ c \in E.live /\ p \in E.live \cup {Root}
    BY <1>1, <1>2, TreeFields
  <1>4. LET A == add_fuse_child(E, p, c)
        IN  /\ Good(A) /\ A.live = E.live
            /\ A.parent = [E.parent EXCEPT ![c] = p]
            /\ E.name[c] \notin ChildNames(E, p) => A.name = E.name
    <2>1. Good(E)
      BY <1>2
    <2> QED
      BY <1>3, <2>1, AddFuseChild
  <1>5. move_fuse_node(T, p, c) = add_fuse_child(E, p, c)
    BY DEF move_fuse_node, E
  <1>6. [E.parent EXCEPT ![c] = p] = [T.parent EXCEPT ![c] = p]
    BY <1>1, <1>2, TreeFields
  <1>7. (\A v \in ChildSet(T, p) \ {c} : T.name[v] # T.name[c]) =>
          E.name[c] \notin ChildNames(E, p)
    BY <1>2 DEF ChildNames
  <1> QED
    BY <1>2, <1>4, <1>5, <1>6, <1>7

\* The event handler finds the node of a file or makes one.
LEMMA Upsert ==
  ASSUME NEW T, Good(T), NEW u \in Uids, NEW name \in Names
  PROVE  LET D == upsert_fuse_node(T, u, name)
         IN  /\ GoodBut(D, u)
             /\ D.live = T.live \cup {u} /\ D.entries = D.live
             /\ D.parent = T.parent
             /\ D.name = [T.name EXCEPT ![u] = name]
  <1> DEFINE D == upsert_fuse_node(T, u, name)
  <1>1. T.entries = T.live
    BY DEF Good, NoDangling
  <1>2. CASE u \in T.live
    <2>1. D = set_node_filename(T, u, name)
      BY <1>1, <1>2 DEF upsert_fuse_node
    <2> HIDE DEF D
    <2>2. /\ GoodBut(D, u) /\ D.live = T.live /\ D.parent = T.parent
          /\ D.name = [T.name EXCEPT ![u] = name]
      BY <2>1, SetName
    <2>3. D.entries = D.live
      BY <2>2 DEF GoodBut, NoDangling
    <2> QED
      BY <1>2, <2>2, <2>3 DEF D
  <1>3. CASE u \notin T.live
    <2> DEFINE N == create_fuse_node(T, u, name)
    <2> HIDE DEF D
    <2>0. u \in Uids /\ u \notin T.live
      BY <1>3
    <2>1. /\ Good(N)
          /\ N.live = T.live \cup {u} /\ N.parent = T.parent
          /\ N.children = T.children
          /\ N.name = [T.name EXCEPT ![u] = name]
          /\ N.parent[u] = None
      BY <2>0, CreateNode
    <2>2. D = N
      BY <1>1, <1>3 DEF upsert_fuse_node, D
    <2> HIDE DEF D, N
    <2>3. D.entries = D.live
      BY <2>1, <2>2 DEF Good, NoDangling
    <2> QED
      BY <2>1, <2>2, <2>3, GoodIsGoodBut DEF D
  <1> QED
    BY <1>2, <1>3

\* Below a node without children is only that node.
LEMMA LeafSubtree ==
  ASSUME NEW T \in Tree, NEW n \in Nodes, T.children[n] = <<>>
  PROVE  Subtree(T, n) = {n}
  <1>1. ChildSet(T, n) = {}
    BY DEF ChildSet
  <1>2. {n} \in SUBSET Nodes /\ \A m \in {n} : ChildSet(T, m) \subseteq {n}
    BY <1>1
  <1> QED
    BY <1>2 DEF Subtree

\* A node without children can be freed: nothing refers to it afterwards, and
\* every other node stays where it is.
LEMMA DeleteFuseNode ==
  ASSUME NEW T, Good(T), NEW n \in T.live, Len(T.children[n]) = 0
  PROVE  LET D == delete_fuse_node(T, n)
         IN  /\ Good(D)
             /\ D.live = T.live \ {n}
             /\ D.parent = [T.parent EXCEPT ![n] = None]
             /\ D.name = [T.name EXCEPT ![n] = <<>>]
             /\ \A m \in Nodes : ChildSet(D, m) = ChildSet(T, m) \ {n}
  <1> DEFINE D == delete_fuse_node(T, n)
             E == detach_tree_node(T, n)
             F == detach_tree_node([T EXCEPT !.entries = @ \ {n}], n)
  <1>1. T \in Tree /\ n \in Uids /\ n \in Nodes
    BY TreeFields DEF Good, Nodes
  <1>2. /\ Good(E)
        /\ E.parent = [T.parent EXCEPT ![n] = None]
        /\ E.live = T.live /\ E.entries = T.entries /\ E.name = T.name
        /\ \A m \in Nodes : ChildSet(E, m) = ChildSet(T, m) \ {n}
    BY <1>1, GoodIsGoodBut, Detach
  <1>3. F = [E EXCEPT !.entries = @ \ {n}]
    BY <1>1 DEF detach_tree_node, Tree
  <1>4. E \in Tree /\ Linked(E) /\ NoDangling(E) /\ UniqueNames(E)
    BY <1>2 DEF Good
  <1> HIDE DEF E
  <1>5. /\ F.live = E.live /\ F.entries = E.entries \ {n} /\ F.name = E.name
        /\ F.parent = E.parent /\ F.children = E.children
        /\ F \in Tree
    BY <1>3, <1>4 DEF Tree
  <1> HIDE DEF F
  <1>6. E.parent[n] = None
    BY <1>1, <1>2, TreeFields
  <1>7. E.children[n] = <<>>
    <2>1. T.children[n] = <<>>
      BY <1>1, TreeFields, EmptySeq
    <2>2. ChildSet(E, n) = {}
      <3>1. ChildSet(T, n) = {}
        BY <2>1 DEF ChildSet
      <3> QED
        BY <3>1, <1>1, <1>2
    <2>3. Len(E.children[n]) = 0
      <3>1. Len(E.children[n]) \in Nat
        BY <1>1, <1>4, TreeFields
      <3>2. ~(1 \in 1 .. Len(E.children[n]))
        BY <2>2 DEF ChildSet
      <3> QED
        BY <3>1, <3>2
    <2> QED
      BY <1>1, <1>4, <2>3, TreeFields, EmptySeq
  <1>8. Subtree(F, n) = {n}
    BY <1>1, <1>5, <1>7, LeafSubtree
  <1>9. D = free_tree(F, n)
    BY DEF delete_fuse_node, F
  <1>10. /\ D.live = E.live \ {n} /\ D.entries = E.entries \ {n}
         /\ D.name = [u \in Uids |-> IF u \in {n} THEN <<>> ELSE E.name[u]]
         /\ D.parent = [u \in Uids |-> IF u \in {n} THEN None ELSE E.parent[u]]
         /\ D.children = [m \in Nodes |-> IF m \in {n} THEN <<>> ELSE E.children[m]]
    BY <1>5, <1>8, <1>9 DEF free_tree, Tree
  <1> HIDE DEF D
  <1>11. /\ D.name = [E.name EXCEPT ![n] = <<>>]
         /\ D.parent = E.parent
         /\ D.children = E.children
    BY <1>1, <1>4, <1>6, <1>7, <1>10, TreeFields
  <1>12. D \in Tree
    <2>1. <<>> \in Names
      BY EmptySeq DEF Names
    <2>2. /\ D.live \in SUBSET Uids /\ D.entries \in SUBSET Uids
          /\ D.name \in [Uids -> Names]
          /\ D.parent \in [Uids -> Nodes \cup {None}]
          /\ D.children \in [Nodes -> Seq(Uids)]
      BY <1>1, <1>4, <1>10, <1>11, <2>1, TreeFields
    <2> QED
      BY <1>5, <1>8, <1>9, <2>2 DEF free_tree, Tree
  <1>13. \A m \in Nodes : \A i \in 1 .. Len(E.children[m]) :
           E.children[m][i] # n
    BY <1>1, <1>4, <1>6, Unplaced
  <1>14. Linked(D)
    BY <1>4, <1>11 DEF Linked, ChildSet
  <1>15. NoDangling(D)
    <2>1. D.entries = D.live
      BY <1>4, <1>10 DEF NoDangling
    <2>2. \A m \in Nodes : ChildSet(D, m) \subseteq D.live
      BY <1>4, <1>10, <1>11, <1>13 DEF NoDangling, ChildSet
    <2>3. \A u \in Uids : E.parent[u] # n
      BY <1>1, <1>4, <1>7, NodeAssumption DEF Linked, ChildSet
    <2>4. \A u \in Uids : D.parent[u] \in D.live \cup {Root, None}
      BY <1>4, <1>10, <1>11, <2>3 DEF NoDangling
    <2> QED
      BY <2>1, <2>2, <2>4 DEF NoDangling
  <1>16. UniqueNames(D)
    <2>1. \A m \in Nodes : \A i \in 1 .. Len(E.children[m]) :
            D.name[E.children[m][i]] = E.name[E.children[m][i]]
      BY <1>4, <1>11, <1>13, TreeFields
    <2> QED
      BY <1>4, <1>11, <2>1 DEF UniqueNames
  <1>17. \A m \in Nodes : ChildSet(D, m) = ChildSet(T, m) \ {n}
    BY <1>2, <1>11 DEF ChildSet
  <1> QED
    BY <1>2, <1>10, <1>11, <1>12, <1>14, <1>15, <1>16, <1>17 DEF Good, D

\* A lookup returns a child of that name, or NULL when there is none.
LEMMA Lookup ==
  ASSUME NEW T \in Tree, NEW p \in Nodes, NEW name
  PROVE  \/ /\ lookup(T, p, name) = None
            /\ name \notin ChildNames(T, p)
         \/ /\ lookup(T, p, name) \in ChildSet(T, p)
            /\ T.name[lookup(T, p, name)] = name
  <1> DEFINE s == T.children[p]
             hits == {i \in 1 .. Len(s) : T.name[s[i]] = name}
             k == CHOOSE i \in hits : \A j \in hits : i <= j
  <1>1. CASE hits = {}
    BY <1>1 DEF lookup, ChildNames, ChildSet
  <1>2. CASE hits # {}
    <2>1. hits \in SUBSET Nat
      BY TreeFields
    <2>2. Least(hits) \in hits
      BY <1>2, <2>1, LeastExists
    <2>3. lookup(T, p, name) = s[Least(hits)]
      BY <1>2 DEF lookup, Least
    <2> QED
      BY <2>2, <2>3 DEF ChildSet
  <1> QED
    BY <1>1, <1>2

-----------------------------------------------------------------------------
(* No node is without a name *)

\* There is something to print.
HasText(name) == name \notin {<<>>, <<Blank>>}

Named(T) == \A u \in T.live : HasText(T.name[u])

\* More than one label is text: there is a dot between them.
LEMMA LongText ==
  ASSUME NEW name, Len(name) > 1
  PROVE  HasText(name)
  <1>1. ASSUME NEW s, s \in {<<>>, <<Blank>>}
        PROVE  ~(Len(s) > 1)
    <2>1. CASE s = <<>>
      BY <2>1
    <2>2. CASE s = <<Blank>>
      BY <2>2
    <2> QED
      BY <1>1, <2>1, <2>2
  <1> QED
    BY <1>1 DEF HasText

\* A numbered name has text whatever it was made from.
LEMMA NumberedText ==
  ASSUME NEW name \in Names, HasText(name), NEW n \in Nat
  PROVE  HasText(filename_numbered(name, n))
  <1>1. name \in Seq(Label) /\ Len(name) \in Nat \ {0} /\ n \in Label
    <2>1. name \in Seq(Label) /\ n \in Label
      BY DEF Names, Label
    <2>2. name # <<>>
      BY DEF HasText
    <2> QED
      BY <2>1, <2>2, EmptySeq, LenProperties
  <1>2. Len(filename_numbered(name, n)) > 1
    <2>1. CASE Len(name) > 1
      <3>1. /\ SubSeq(name, 1, Len(name) - 1) \in Seq(Label)
            /\ Len(SubSeq(name, 1, Len(name) - 1)) = Len(name) - 1
            /\ name[Len(name)] \in Label
        BY <1>1, <2>1, ElementOfSeq
      <3>2. /\ <<n, name[Len(name)]>> \in Seq(Label)
            /\ Len(<<n, name[Len(name)]>>) = 2
        BY <1>1, <3>1
      <3> DEFINE s == SubSeq(name, 1, Len(name) - 1)
                 r == <<n, name[Len(name)]>>
      <3>3. Len(s \o r) = Len(s) + Len(r)
        BY <3>1, <3>2, ConcatProperties
      <3> HIDE DEF s, r
      <3>4. filename_numbered(name, n) = s \o r
        BY <2>1 DEF filename_numbered, s, r
      <3> QED
        BY <1>1, <2>1, <3>1, <3>2, <3>3, <3>4 DEF s, r
    <2>2. CASE ~(Len(name) > 1)
      <3>1. filename_numbered(name, n) = Append(name, n)
        BY <2>2 DEF filename_numbered
      <3>2. Len(Append(name, n)) = Len(name) + 1
        BY <1>1
      <3> QED
        BY <1>1, <3>1, <3>2
    <2> QED
      BY <2>1, <2>2
  <1> QED
    BY <1>2, LongText

\* Giving one node a name with text leaves none without.
LEMMA NamedAfter ==
  ASSUME NEW T \in Tree, Named(T), NEW c \in Uids, NEW name, HasText(name),
         NEW D, D.live \subseteq T.live \cup {c},
         D.name = [T.name EXCEPT ![c] = name]
  PROVE  Named(D)
  <1>1. T.name \in [Uids -> Names]
    BY TreeFields
  <1> QED
    BY <1>1, TreeFields DEF Named

\* The name add_fuse_child chooses has text if the one before had.
LEMMA AddFuseChildNamed ==
  ASSUME NEW T \in Tree, Named(T), NEW c \in T.live, NEW p \in Nodes
  PROVE  Named(add_fuse_child(T, p, c))
  <1> DEFINE name == unique_filename(T, p, T.name[c])
             S == set_node_filename(T, c, name)
  <1>1. c \in Uids /\ T.name[c] \in Names /\ HasText(T.name[c])
    BY TreeFields DEF Named
  <1>2. HasText(name)
    <2> DEFINE n == first_free_number(T.name[c], ChildNames(T, p),
                                      Len(T.children[p]))
    <2>1. n \in Nat
      BY <1>1, FreeNumber
    <2> HIDE DEF n
    <2>2. HasText(filename_numbered(T.name[c], n))
      BY <1>1, <2>1, NumberedText
    <2> QED
      BY <1>1, <2>2 DEF unique_filename, n
  <1> HIDE DEF name
  <1>3. S.live = T.live /\ S.name = [T.name EXCEPT ![c] = name]
    BY DEF set_node_filename, Tree
  <1>4. /\ add_child(S, p, c).live = S.live
        /\ add_child(S, p, c).name = S.name
    BY DEF add_child, set_node_filename, Tree
  <1>5. add_fuse_child(T, p, c) = add_child(S, p, c)
    BY DEF add_fuse_child, name
  <1> HIDE DEF S
  <1>6. Named(add_child(S, p, c))
    BY <1>1, <1>2, <1>3, <1>4, NamedAfter
  <1> QED
    BY <1>5, <1>6

\* So does the one move_fuse_node chooses.
LEMMA MoveFuseNodeNamed ==
  ASSUME NEW T, NEW c \in T.live, GoodBut(T, c), Named(T), NEW p \in Nodes
  PROVE  Named(move_fuse_node(T, p, c))
  <1> DEFINE E == detach_tree_node(T, c)
  <1>1. c \in Uids
    BY TreeFields DEF GoodBut
  <1>2. Good(E) /\ E.live = T.live /\ E.name = T.name
    BY <1>1, Detach
  <1>3. move_fuse_node(T, p, c) = add_fuse_child(E, p, c)
    BY DEF move_fuse_node
  <1> HIDE DEF E
  <1>4. E \in Tree /\ Named(E) /\ c \in E.live
    BY <1>2 DEF Good, Named
  <1> QED
    BY <1>3, <1>4, AddFuseChildNamed

-----------------------------------------------------------------------------
(* The numbers in names *)

\* D has the names of T; that of c may have been given a number, of which
\* there are no more than notes.
Renumbered(T, D, c) ==
  /\ \A v \in Uids : v # c => D.name[v] = T.name[v]
  /\ \/ D.name[c] = T.name[c]
     \/ \E k \in 1 .. Cardinality(Uids) :
          D.name[c] = filename_numbered(T.name[c], k)

\* The children of a node and one more note are no more than all notes.
LEMMA FewChildren ==
  ASSUME IsFiniteSet(Uids), NEW T, Good(T), NEW c \in Uids, T.parent[c] = None,
         NEW p \in Nodes
  PROVE  Len(T.children[p]) + 1 <= Cardinality(Uids)
  <1> DEFINE L == Len(T.children[p])
             f == [i \in 1 .. L + 1 |-> IF i = L + 1 THEN c ELSE T.children[p][i]]
  <1>1. /\ T \in Tree /\ L \in Nat /\ NoRepeats(T)
        /\ \A i \in 1 .. L : T.children[p][i] \in Uids
    BY TreeFields, GoodIsGoodBut DEF Good, GoodBut
  <1>2. \A i \in 1 .. L : T.children[p][i] # c
    BY <1>1, Unplaced DEF Good
  <1>3. \A i, j \in 1 .. L : i # j => T.children[p][i] # T.children[p][j]
    BY <1>1 DEF NoRepeats
  <1> HIDE DEF L
  <1>4. f \in Injection(1 .. L + 1, Uids)
    <2>1. \A i \in 1 .. L + 1 : i = L + 1 \/ i \in 1 .. L
      BY <1>1
    <2>2. f \in [1 .. L + 1 -> Uids]
      BY <1>1, <2>1
    <2>3. ASSUME NEW i \in 1 .. L + 1, NEW j \in 1 .. L + 1, f[i] = f[j]
          PROVE  i = j
      <3>1. CASE i = L + 1
        BY <1>2, <2>1, <2>3, <3>1
      <3>2. CASE i # L + 1
        BY <1>2, <1>3, <2>1, <2>3, <3>2
      <3> QED
        BY <3>1, <3>2
    <2> HIDE DEF f
    <2> QED
      BY <2>2, <2>3 DEF Injection, IsInjective
  <1> HIDE DEF f
  <1>5. Cardinality(1 .. L + 1) <= Cardinality(Uids)
    BY <1>4, FS_Injection
  <1>6. Cardinality(1 .. L + 1) = L + 1
    <2>1. 1 \in Int /\ L + 1 \in Int /\ ~(1 > L + 1)
      BY <1>1
    <2>2. Cardinality(1 .. L + 1)
            = IF 1 > L + 1 THEN 0 ELSE (L + 1) - 1 + 1
      BY <2>1, FS_Interval
    <2> QED
      BY <1>1, <2>1, <2>2
  <1> QED
    BY <1>5, <1>6 DEF L

\* add_fuse_child leaves the name or gives it such a number.
LEMMA AddFuseChildNumber ==
  ASSUME IsFiniteSet(Uids), NEW T, Good(T), NEW c \in T.live,
         T.parent[c] = None, NEW p \in Nodes
  PROVE  Renumbered(T, add_fuse_child(T, p, c), c)
  <1> DEFINE old  == T.name[c]
             n    == first_free_number(old, ChildNames(T, p),
                                       Len(T.children[p]))
             name == unique_filename(T, p, old)
             D    == add_fuse_child(T, p, c)
  <1>1. T \in Tree /\ c \in Uids /\ old \in Names /\ T.name \in [Uids -> Names]
        /\ Len(T.children[p]) \in Nat
    BY TreeFields DEF Good
  <1>2. D.name = [T.name EXCEPT ![c] = name]
    BY <1>1 DEF add_fuse_child, add_child, set_node_filename, Tree
  <1>3. name = old \/ name = filename_numbered(old, n)
    BY DEF unique_filename
  <1>4. n \in 1 .. Len(T.children[p]) + 1
    BY <1>1, FreeNumber
  <1>5. Len(T.children[p]) + 1 <= Cardinality(Uids)
    BY <1>1, FewChildren
  <1>6. Cardinality(Uids) \in Nat
    BY FS_CardinalityType
  <1> HIDE DEF n
  <1>7. n \in 1 .. Cardinality(Uids)
    BY <1>1, <1>4, <1>5, <1>6
  <1> HIDE DEF name, D
  <1>8. D.name[c] = name /\ \A v \in Uids : v # c => D.name[v] = T.name[v]
    BY <1>1, <1>2
  <1>9. Renumbered(T, D, c)
    BY <1>3, <1>7, <1>8 DEF Renumbered
  <1> QED
    BY <1>9 DEF D

\* So does move_fuse_node, whatever name the node had been given.
LEMMA MoveFuseNodeNumber ==
  ASSUME IsFiniteSet(Uids), NEW T, NEW c \in T.live, GoodBut(T, c),
         NEW p \in Nodes
  PROVE  Renumbered(T, move_fuse_node(T, p, c), c)
  <1> DEFINE E == detach_tree_node(T, c)
  <1>1. c \in Uids /\ T.parent \in [Uids -> Nodes \cup {None}]
    BY TreeFields DEF GoodBut
  <1>2. /\ Good(E) /\ E.live = T.live /\ E.name = T.name
        /\ E.parent = [T.parent EXCEPT ![c] = None]
    BY <1>1, Detach
  <1>3. move_fuse_node(T, p, c) = add_fuse_child(E, p, c)
    BY DEF move_fuse_node
  <1> HIDE DEF E
  <1>4. c \in E.live /\ E.parent[c] = None
    BY <1>1, <1>2
  <1>5. Renumbered(E, add_fuse_child(E, p, c), c)
    BY <1>2, <1>4, AddFuseChildNumber
  <1> QED
    BY <1>2, <1>3, <1>5 DEF Renumbered

=============================================================================
