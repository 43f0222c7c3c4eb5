---------------------------- MODULE Memory_proofs ----------------------------
(***************************************************************************)
(* Every block of memory has one owner, for any threads, notes, size of    *)
(* memory and way to choose a free block.                                  *)
(*                                                                         *)
(* The allocator is no part of the argument: it only hands out a block     *)
(* that is free.  What every function of the code keeps is that the blocks *)
(* in use are those pointed to, each from one place (Exclusive); and it    *)
(* leaves room for the allocations that follow it.                         *)
(***************************************************************************)
EXTENDS Memory, FiniteSetTheorems, TLAPS

-----------------------------------------------------------------------------
(* Memory *)

Entries == [entry : Blocks, filename : Blocks]

Heaps ==
  [live : SUBSET Blocks, arena : [Threads -> SUBSET Blocks],
   node : [Notes -> Entries \cup {NoNode}], lost : SUBSET Blocks,
   twice : BOOLEAN]

\* At least k blocks are free.
Room(used, k) == Cardinality(Blocks \ used) >= k

\* A block is in use exactly when it is in an arena, of a note or lost, and it
\* is only one of them, and nothing was freed twice.
Exclusive(H) ==
  /\ H.twice = FALSE
  /\ H.lost \subseteq H.live
  /\ \A t \in Threads : H.arena[t] \subseteq H.live \ H.lost
  /\ \A t, u \in Threads : t # u => H.arena[t] \cap H.arena[u] = {}
  /\ \A n \in Notes : H.node[n] # NoNode =>
       /\ owned(H.node[n]) \subseteq H.live \ H.lost
       /\ H.node[n].entry # H.node[n].filename
       /\ \A t \in Threads : H.arena[t] \cap owned(H.node[n]) = {}
       /\ \A m \in Notes \ {n} :
            H.node[m] # NoNode => owned(H.node[m]) \cap owned(H.node[n]) = {}
  /\ \A b \in H.live :
       \/ b \in H.lost
       \/ \E t \in Threads : b \in H.arena[t]
       \/ \E n \in Notes : H.node[n] # NoNode /\ b \in owned(H.node[n])

LEMMA RoomIsFinite ==
  ASSUME NEW used \in SUBSET Blocks
  PROVE  IsFiniteSet(Blocks \ used) /\ Cardinality(Blocks \ used) \in Nat
  <1>1. IsFiniteSet(Blocks)
    BY FS_Interval, MemoryAssumption DEF Blocks
  <1> QED
    BY <1>1, FS_Subset, FS_CardinalityType

\* An allocation gets a block that is free.
LEMMA FreshIsFree ==
  ASSUME NEW used \in SUBSET Blocks, Room(used, 1)
  PROVE  fresh(used) \in Blocks \ used
  <1>1. Blocks \ used # {}
    BY RoomIsFinite, FS_EmptySet DEF Room
  <1> QED
    BY <1>1 DEF fresh

\* It takes up one block.
LEMMA RoomAfterAllocation ==
  ASSUME NEW used \in SUBSET Blocks, NEW k \in Nat, Room(used, k + 1)
  PROVE  /\ fresh(used) \in Blocks \ used
         /\ Room(used \cup {fresh(used)}, k)
  <1> DEFINE b == fresh(used)
  <1>1. b \in Blocks \ used
    <2>1. Room(used, 1)
      BY RoomIsFinite DEF Room
    <2> QED
      BY <2>1, FreshIsFree
  <1> HIDE DEF b
  <1>2. Blocks \ (used \cup {b}) = (Blocks \ used) \ {b}
    OBVIOUS
  <1>3. Cardinality((Blocks \ used) \ {b}) = Cardinality(Blocks \ used) - 1
    BY <1>1, RoomIsFinite, FS_RemoveElement
  <1>4. Cardinality(Blocks \ used) \in Nat /\ Cardinality(Blocks \ used) >= k + 1
    BY RoomIsFinite DEF Room
  <1>5. Room(used \cup {b}, k)
    <2>1. Cardinality(Blocks \ (used \cup {b})) = Cardinality(Blocks \ used) - 1
      BY <1>2, <1>3
    <2> QED
      BY <1>4, <2>1 DEF Room
  <1> QED
    BY <1>1, <1>5 DEF b

\* Freeing a block and taking one leaves as much room, or one block less as far
\* as we care.
LEMMA RoomAfterExchange ==
  ASSUME NEW used \in SUBSET Blocks, NEW k \in Nat, Room(used, k + 1),
         NEW f \in used, NEW g \in Blocks
  PROVE  Room((used \ {f}) \cup {g}, k)
  <1> DEFINE rest == Blocks \ ((used \ {f}) \cup {g})
             less == (Blocks \ used) \ {g}
  <1>1. IsFiniteSet(rest) /\ Cardinality(rest) \in Nat
    <2>1. (used \ {f}) \cup {g} \in SUBSET Blocks
      OBVIOUS
    <2> QED
      BY <2>1, RoomIsFinite
  <1>2. less \subseteq rest
    OBVIOUS
  <1>3. Cardinality(Blocks \ used) \in Nat /\ Cardinality(Blocks \ used) >= k + 1
    BY RoomIsFinite DEF Room
  <1>4. IsFiniteSet(less) /\ Cardinality(less) >= k
    <2>1. CASE g \in Blocks \ used
      <3>1. IsFiniteSet(less) /\ Cardinality(less) = Cardinality(Blocks \ used) - 1
        BY <2>1, RoomIsFinite, FS_RemoveElement
      <3> HIDE DEF less
      <3> QED
        BY <1>3, <3>1
    <2>2. CASE g \notin Blocks \ used
      <3>1. less = Blocks \ used
        BY <2>2
      <3> QED
        BY <1>3, <3>1, RoomIsFinite
    <2> QED
      BY <2>1, <2>2
  <1>5. Cardinality(less) <= Cardinality(rest)
    BY <1>1, <1>2, FS_Subset
  <1>6. Cardinality(less) \in Nat
    BY <1>4, FS_CardinalityType
  <1> HIDE DEF rest, less
  <1>7. Cardinality(rest) >= k
    BY <1>1, <1>4, <1>5, <1>6
  <1> QED
    BY <1>7 DEF Room, rest

-----------------------------------------------------------------------------
(* What the functions do to the owners *)

\* Free blocks come into an arena: rmalloc, create_agenda_entry.
LEMMA Registers ==
  ASSUME NEW H \in Heaps, Exclusive(H), NEW t \in Threads,
         NEW new \in SUBSET (Blocks \ H.live), NEW G,
         G = [H EXCEPT !.live = @ \cup new, !.arena[t] = @ \cup new]
  PROVE  G \in Heaps /\ Exclusive(G)
  <1>1. /\ G.live = H.live \cup new /\ G.node = H.node /\ G.lost = H.lost
        /\ G.twice = H.twice /\ G.arena = [H.arena EXCEPT ![t] = @ \cup new]
    BY DEF Heaps
  <1>2. G \in Heaps
    BY DEF Heaps
  <1>3. /\ G.arena[t] = H.arena[t] \cup new
        /\ \A u \in Threads \ {t} : G.arena[u] = H.arena[u]
    BY <1>1 DEF Heaps
  <1>4. \A n \in Notes : H.node[n] # NoNode => owned(H.node[n]) \cap new = {}
    BY DEF Exclusive
  <1> QED
    BY <1>1, <1>2, <1>3, <1>4 DEF Exclusive

\* A free block is lost.
LEMMA Loses ==
  ASSUME NEW H \in Heaps, Exclusive(H), NEW b \in Blocks \ H.live, NEW G,
         G = [H EXCEPT !.live = @ \cup {b}, !.lost = @ \cup {b}]
  PROVE  G \in Heaps /\ Exclusive(G)
  <1>1. /\ G.live = H.live \cup {b} /\ G.node = H.node /\ G.lost = H.lost \cup {b}
        /\ G.twice = H.twice /\ G.arena = H.arena
    BY DEF Heaps
  <1>2. G \in Heaps
    BY DEF Heaps
  <1> QED
    BY <1>1, <1>2 DEF Exclusive

\* A note gets free blocks: create_fuse_node.
LEMMA AddsNote ==
  ASSUME NEW H \in Heaps, Exclusive(H), NEW n \in Notes, H.node[n] = NoNode,
         NEW e \in Entries, owned(e) \subseteq Blocks \ H.live,
         e.entry # e.filename, NEW G,
         G = [H EXCEPT !.live = @ \cup owned(e), !.node[n] = e]
  PROVE  G \in Heaps /\ Exclusive(G)
  <1>1. /\ G.live = H.live \cup owned(e) /\ G.lost = H.lost
        /\ G.twice = H.twice /\ G.arena = H.arena
        /\ G.node = [H.node EXCEPT ![n] = e]
    BY DEF Heaps
  <1>2. G \in Heaps
    BY DEF Heaps
  <1>3. /\ G.node[n] = e
        /\ \A m \in Notes \ {n} : G.node[m] = H.node[m]
    BY <1>1 DEF Heaps
  <1>4. \A m \in Notes \ {n} : H.node[m] # NoNode =>
          /\ owned(H.node[m]) \subseteq H.live
          /\ owned(H.node[m]) \cap owned(e) = {}
    BY DEF Exclusive
  <1>5. \A m \in Notes : G.node[m] # NoNode =>
          /\ owned(G.node[m]) \subseteq G.live \ G.lost
          /\ G.node[m].entry # G.node[m].filename
          /\ \A t \in Threads : G.arena[t] \cap owned(G.node[m]) = {}
          /\ \A k \in Notes \ {m} :
               G.node[k] # NoNode => owned(G.node[k]) \cap owned(G.node[m]) = {}
    BY <1>1, <1>3, <1>4 DEF Exclusive
  <1>6. e # NoNode
    BY MemoryAssumption DEF Entries, Blocks
  <1>7. \A b \in G.live :
          \/ b \in G.lost
          \/ \E t \in Threads : b \in G.arena[t]
          \/ \E m \in Notes : G.node[m] # NoNode /\ b \in owned(G.node[m])
    BY <1>1, <1>3, <1>6 DEF Exclusive
  <1> QED
    BY <1>1, <1>2, <1>5, <1>7 DEF Exclusive

\* The filename of a note is freed and replaced: set_node_filename.
LEMMA Renames ==
  ASSUME NEW H \in Heaps, Exclusive(H), NEW n \in Notes, H.node[n] # NoNode,
         NEW g \in Blocks \ (H.live \ {H.node[n].filename}), NEW G,
         G = [H EXCEPT !.live = (@ \ {H.node[n].filename}) \cup {g},
                       !.twice = @ \/ ~({H.node[n].filename} \subseteq H.live),
                       !.node[n].filename = g]
  PROVE  G \in Heaps /\ Exclusive(G)
  <1> DEFINE f == H.node[n].filename
  <1>0. H.node[n] \in Entries /\ f \in H.live
    BY DEF Heaps, Exclusive, owned
  <1>1. /\ G.live = (H.live \ {f}) \cup {g} /\ G.lost = H.lost
        /\ G.arena = H.arena
        /\ G.node = [H.node EXCEPT ![n] = [H.node[n] EXCEPT !.filename = g]]
    BY DEF Heaps
  <1>2. G.twice = FALSE
    <2>1. G.twice = (H.twice \/ ~({f} \subseteq H.live))
      BY DEF Heaps
    <2> QED
      BY <1>0, <2>1 DEF Exclusive
  <1>3. /\ G.node[n].entry = H.node[n].entry /\ G.node[n].filename = g
        /\ G.node[n] \in Entries
        /\ \A m \in Notes \ {n} : G.node[m] = H.node[m]
    BY <1>0, <1>1 DEF Heaps, Entries
  <1>4. G \in Heaps
    BY <1>0, <1>2, <1>3 DEF Heaps, Entries
  <1>5. owned(H.node[n]) = {H.node[n].entry, f} /\ owned(G.node[n]) = {H.node[n].entry, g}
    BY <1>3 DEF owned
  <1>6. G.node[n] # NoNode
    BY <1>3, MemoryAssumption DEF Entries, Blocks
  <1>7. /\ \A t \in Threads : f \notin H.arena[t]
        /\ f \notin H.lost
        /\ \A m \in Notes \ {n} : H.node[m] # NoNode => f \notin owned(H.node[m])
        /\ f # H.node[n].entry
    BY <1>5 DEF Exclusive
  <1> HIDE DEF f
  <1> QED
    BY <1>0, <1>1, <1>2, <1>3, <1>4, <1>5, <1>6, <1>7 DEF Exclusive

\* The blocks of a note are freed: delete_fuse_node.
LEMMA Deletes ==
  ASSUME NEW H \in Heaps, Exclusive(H), NEW n \in Notes, H.node[n] # NoNode
  PROVE  /\ delete_fuse_node(H, n) \in Heaps
         /\ Exclusive(delete_fuse_node(H, n))
         /\ delete_fuse_node(H, n).arena = H.arena
         /\ delete_fuse_node(H, n).live \subseteq H.live
         /\ delete_fuse_node(H, n).node = [H.node EXCEPT ![n] = NoNode]
  <1> DEFINE G == delete_fuse_node(H, n)
  <1>0. owned(H.node[n]) \subseteq H.live
    BY DEF Exclusive
  <1>1. /\ G.live = H.live \ owned(H.node[n]) /\ G.lost = H.lost
        /\ G.arena = H.arena /\ G.node = [H.node EXCEPT ![n] = NoNode]
    BY DEF Heaps, delete_fuse_node, free
  <1>2. G.twice = FALSE
    <2>1. G.twice = (H.twice \/ ~(owned(H.node[n]) \subseteq H.live))
      BY DEF Heaps, delete_fuse_node, free
    <2> QED
      BY <1>0, <2>1 DEF Exclusive
  <1>3. G \in Heaps
    <2>1. free(H, owned(H.node[n])) \in Heaps
      BY DEF Heaps, free
    <2> QED
      BY <2>1 DEF Heaps, delete_fuse_node
  <1>4. /\ G.node[n] = NoNode
        /\ \A m \in Notes \ {n} : G.node[m] = H.node[m]
    BY <1>1 DEF Heaps
  <1> HIDE DEF G
  <1>5. Exclusive(G)
    BY <1>1, <1>2, <1>4 DEF Exclusive
  <1> QED
    BY <1>1, <1>3, <1>5 DEF G

\* The blocks of an arena are freed: free_all.
LEMMA Empties ==
  ASSUME NEW H \in Heaps, Exclusive(H), NEW t \in Threads
  PROVE  /\ free_all(H, t) \in Heaps
         /\ Exclusive(free_all(H, t))
         /\ free_all(H, t).arena = [H.arena EXCEPT ![t] = {}]
         /\ free_all(H, t).node = H.node
  <1> DEFINE G == free_all(H, t)
  <1>0. H.arena[t] \subseteq H.live
    BY DEF Exclusive
  <1>1. /\ G.live = H.live \ H.arena[t] /\ G.lost = H.lost
        /\ G.node = H.node /\ G.arena = [H.arena EXCEPT ![t] = {}]
    BY DEF Heaps, free_all, free
  <1>2. G.twice = FALSE
    <2>1. G.twice = (H.twice \/ ~(H.arena[t] \subseteq H.live))
      BY DEF Heaps, free_all, free
    <2> QED
      BY <1>0, <2>1 DEF Exclusive
  <1>3. G \in Heaps
    <2>1. free(H, H.arena[t]) \in Heaps
      BY DEF Heaps, free
    <2> QED
      BY <2>1 DEF Heaps, free_all
  <1>4. /\ G.arena[t] = {}
        /\ \A u \in Threads \ {t} : G.arena[u] = H.arena[u]
    BY <1>1 DEF Heaps
  <1> HIDE DEF G
  <1>5. Exclusive(G)
    BY <1>1, <1>2, <1>4 DEF Exclusive
  <1> QED
    BY <1>1, <1>3, <1>5 DEF G

-----------------------------------------------------------------------------
(* The functions, with the room they need *)

LEMMA RmallocKeeps ==
  ASSUME NEW H \in Heaps, Exclusive(H), NEW t \in Threads, Room(H.live, 1)
  PROVE  /\ rmalloc(H, t) \in Heaps
         /\ Exclusive(rmalloc(H, t))
         /\ \A u \in Threads \ {t} : rmalloc(H, t).arena[u] = H.arena[u]
         /\ rmalloc(H, t).node = H.node
  <1> DEFINE b == fresh(H.live)
             G == rmalloc(H, t)
  <1>1. b \in Blocks \ H.live
    <2>1. H.live \in SUBSET Blocks
      BY DEF Heaps
    <2> QED
      BY <2>1, FreshIsFree
  <1>2. G = [H EXCEPT !.live = @ \cup {b}, !.arena[t] = @ \cup {b}]
    BY DEF rmalloc
  <1> HIDE DEF b, G
  <1>3. G \in Heaps /\ Exclusive(G)
    BY <1>1, <1>2, Registers
  <1>4. G.node = H.node /\ \A u \in Threads \ {t} : G.arena[u] = H.arena[u]
    BY <1>2 DEF Heaps
  <1> QED
    BY <1>3, <1>4 DEF G

\* The entry that new_entry makes: two blocks that are free.
LEMMA NewEntry ==
  ASSUME NEW H \in Heaps, NEW k \in Nat, Room(H.live, k + 2)
  PROVE  /\ new_entry(H) \in Entries
         /\ owned(new_entry(H)) \subseteq Blocks \ H.live
         /\ new_entry(H).entry # new_entry(H).filename
         /\ Room(H.live \cup owned(new_entry(H)), k)
  <1> DEFINE b == fresh(H.live)
             c == fresh(H.live \cup {b})
  <1>1. H.live \in SUBSET Blocks /\ k + 1 \in Nat /\ Room(H.live, (k + 1) + 1)
    BY DEF Heaps, Room
  <1>2. b \in Blocks \ H.live /\ Room(H.live \cup {b}, k + 1)
    BY <1>1, RoomAfterAllocation
  <1> HIDE DEF b
  <1>3. c \in Blocks \ (H.live \cup {b}) /\ Room((H.live \cup {b}) \cup {c}, k)
    <2>1. H.live \cup {b} \in SUBSET Blocks
      BY <1>1, <1>2
    <2> QED
      BY <1>2, <2>1, RoomAfterAllocation
  <1>4. new_entry(H) = [entry |-> b, filename |-> c]
    BY DEF new_entry, b
  <1> HIDE DEF c
  <1>5. owned(new_entry(H)) = {b, c}
    BY <1>4 DEF owned
  <1>6. H.live \cup {b, c} = (H.live \cup {b}) \cup {c}
    OBVIOUS
  <1>7. Room(H.live \cup owned(new_entry(H)), k)
    BY <1>3, <1>5, <1>6
  <1> QED
    BY <1>2, <1>3, <1>4, <1>5, <1>7 DEF Entries

LEMMA AgendaEntryKeeps ==
  ASSUME NEW H \in Heaps, Exclusive(H), NEW t \in Threads,
         NEW k \in Nat, Room(H.live, k + 2)
  PROVE  /\ create_agenda_entry(H, t) \in Heaps
         /\ Exclusive(create_agenda_entry(H, t))
         /\ Room(create_agenda_entry(H, t).live, k)
         /\ \A u \in Threads \ {t} :
              create_agenda_entry(H, t).arena[u] = H.arena[u]
         /\ create_agenda_entry(H, t).node = H.node
  <1> DEFINE new == owned(new_entry(H))
             G == create_agenda_entry(H, t)
  <1>1. new \subseteq Blocks \ H.live /\ Room(H.live \cup new, k)
    BY NewEntry
  <1>2. G = [H EXCEPT !.live = @ \cup new, !.arena[t] = @ \cup new]
    BY DEF create_agenda_entry
  <1> HIDE DEF new, G
  <1>3. G \in Heaps /\ Exclusive(G)
    BY <1>1, <1>2, Registers
  <1>4. /\ G.node = H.node /\ G.live = H.live \cup new
        /\ \A u \in Threads \ {t} : G.arena[u] = H.arena[u]
    BY <1>2 DEF Heaps
  <1> QED
    BY <1>1, <1>3, <1>4 DEF G

LEMMA CreateNodeKeeps ==
  ASSUME NEW H \in Heaps, Exclusive(H), NEW n \in Notes, H.node[n] = NoNode,
         NEW e, NEW k \in Nat, Room(H.live, k + 2)
  PROVE  /\ create_fuse_node(H, n, e) \in Heaps
         /\ Exclusive(create_fuse_node(H, n, e))
         /\ Room(create_fuse_node(H, n, e).live, k)
         /\ create_fuse_node(H, n, e).arena = H.arena
         /\ create_fuse_node(H, n, e).node[n] # NoNode
  <1> DEFINE c == new_entry(H)
             G == create_fuse_node(H, n, e)
  <1>1. /\ c \in Entries /\ owned(c) \subseteq Blocks \ H.live
        /\ c.entry # c.filename /\ Room(H.live \cup owned(c), k)
    BY NewEntry
  <1>2. G = [H EXCEPT !.live = @ \cup owned(c), !.node[n] = c]
    BY DEF create_fuse_node, copy_agenda_entry
  <1> HIDE DEF c, G
  <1>3. G \in Heaps /\ Exclusive(G)
    BY <1>1, <1>2, AddsNote
  <1>4. /\ G.arena = H.arena /\ G.live = H.live \cup owned(c) /\ G.node[n] = c
    BY <1>2 DEF Heaps
  <1>5. c # NoNode
    BY <1>1, MemoryAssumption DEF Entries, Blocks
  <1> QED
    BY <1>1, <1>3, <1>4, <1>5 DEF G

LEMMA SetFilenameKeeps ==
  ASSUME NEW H \in Heaps, Exclusive(H), NEW n \in Notes, H.node[n] # NoNode
  PROVE  /\ set_node_filename(H, n) \in Heaps
         /\ Exclusive(set_node_filename(H, n))
         /\ set_node_filename(H, n).arena = H.arena
         /\ set_node_filename(H, n).node[n] # NoNode
         /\ \A k \in Nat :
              Room(H.live, k + 1) => Room(set_node_filename(H, n).live, k)
  <1> DEFINE f == H.node[n].filename
             rest == H.live \ {f}
             g == fresh(rest)
             G == set_node_filename(H, n)
  <1>1. f \in H.live /\ H.live \in SUBSET Blocks
    BY DEF Heaps, Exclusive, owned
  <1>2. g \in Blocks \ rest
    <2>1. f \in Blocks \ rest
      BY <1>1
    <2> QED
      BY <2>1 DEF fresh
  <1>3. G = [H EXCEPT !.live = (@ \ {f}) \cup {g},
                      !.twice = @ \/ ~({f} \subseteq H.live),
                      !.node[n].filename = g]
    BY DEF set_node_filename, free, Heaps
  <1> HIDE DEF g, G
  <1>4. G \in Heaps /\ Exclusive(G)
    BY <1>2, <1>3, Renames
  <1>5. G.arena = H.arena /\ G.live = rest \cup {g} /\ G.node[n].filename = g
    BY <1>3 DEF Heaps
  <1>6. G.node[n] \in Entries
    <2>1. H.node[n] \in Entries
      BY DEF Heaps
    <2>2. G.node[n] = [H.node[n] EXCEPT !.filename = g]
      BY <1>3 DEF Heaps
    <2> QED
      BY <1>2, <2>1, <2>2 DEF Entries
  <1>7. G.node[n] # NoNode
    BY <1>6, MemoryAssumption DEF Entries, Blocks
  <1>8. ASSUME NEW k \in Nat, Room(H.live, k + 1)
        PROVE  Room(G.live, k)
    <2>1. Room((H.live \ {f}) \cup {g}, k)
      BY <1>1, <1>2, <1>8, RoomAfterExchange
    <2> QED
      BY <1>5, <2>1
  <1> QED
    BY <1>4, <1>5, <1>7, <1>8 DEF G

LEMMA LoseKeeps ==
  ASSUME NEW H \in Heaps, Exclusive(H), Room(H.live, 1)
  PROVE  /\ lose(H) \in Heaps
         /\ Exclusive(lose(H))
         /\ lose(H).arena = H.arena
         /\ lose(H).node = H.node
  <1> DEFINE b == fresh(H.live)
             G == lose(H)
  <1>1. b \in Blocks \ H.live
    <2>1. H.live \in SUBSET Blocks
      BY DEF Heaps
    <2> QED
      BY <2>1, FreshIsFree
  <1>2. G = [H EXCEPT !.live = @ \cup {b}, !.lost = @ \cup {b}]
    BY DEF lose
  <1> HIDE DEF b, G
  <1>3. G \in Heaps /\ Exclusive(G)
    BY <1>1, <1>2, Loses
  <1>4. G.node = H.node /\ G.arena = H.arena
    BY <1>2 DEF Heaps
  <1> QED
    BY <1>3, <1>4 DEF G

-----------------------------------------------------------------------------
(* The inductive invariant *)

\* Besides the owners of the blocks: the lock keeps a writer alone, the watcher
\* never reads, and only a handler that is reading holds a name.
IInv ==
  /\ Heap \in Heaps /\ Exclusive(Heap)
  /\ pc \in [Threads -> {"idle", "reading", "writing", "unlocked", "exited"}]
  /\ held \in [Threads -> Blocks \cup {NULL}]
  /\ \A t \in Threads : pc[t] \in {"idle", "exited"} => arena[t] = {}
  /\ \A t, u \in Threads :
       pc[t] = "writing" /\ pc[u] \in {"reading", "writing"} => t = u
  /\ pc[Watcher] # "reading"
  /\ \A t \in Threads : held[t] # NULL => pc[t] = "reading"
  /\ HeldNamesStay

LEMMA InitIInv == Init => IInv
  <1> SUFFICES ASSUME Init PROVE IInv
    OBVIOUS
  <1>1. Heap \in Heaps
    BY DEF Init, Heap, Heaps
  <1>2. Exclusive(Heap)
    BY DEF Init, Heap, Exclusive
  <1> QED
    BY <1>1, <1>2, MemoryAssumption DEF Init, IInv, HeldNamesStay

LEMMA HeapBecomes ==
  ASSUME NEW H \in Heaps, Becomes(H)
  PROVE  Heap' = H /\ arena' = H.arena /\ node' = H.node
  BY DEF Becomes, Heap, Heaps

\* The end of an operation with the lock, whatever it did to the heap.
LEMMA FinishStep ==
  ASSUME IInv, NEW t \in Threads, NEW H \in Heaps, Exclusive(H),
         \A u \in Threads \ {t} : H.arena[u] = arena[u], Finish(t, H)
  PROVE  IInv'
  <1>1. Heap' \in Heaps /\ Exclusive(Heap)'
    <2>1. Heap' = H
      BY HeapBecomes DEF Finish
    <2> QED
      BY <2>1 DEF Exclusive
  <1>2. /\ pc[t] = "writing" /\ pc' = [pc EXCEPT ![t] = "unlocked"] /\ held' = held
        /\ arena' = H.arena
    BY HeapBecomes DEF Finish, GoTo
  <1>3. /\ pc \in [Threads -> {"idle", "reading", "writing", "unlocked", "exited"}]
        /\ held \in [Threads -> Blocks \cup {NULL}]
        /\ \A u \in Threads : pc[u] \in {"idle", "exited"} => arena[u] = {}
        /\ pc[Watcher] # "reading"
    BY DEF IInv
  <1>4. \A u, v \in Threads :
          pc[u] = "writing" /\ pc[v] \in {"reading", "writing"} => u = v
    BY DEF IInv
  <1>5. \A u \in Threads : held[u] = NULL
    BY <1>2, <1>4 DEF IInv
  <1>6. HeldNamesStay'
    BY <1>2, <1>5 DEF HeldNamesStay
  <1>7. \A u \in Threads : pc'[u] = IF u = t THEN "unlocked" ELSE pc[u]
    BY <1>2, <1>3
  <1>8. pc' \in [Threads -> {"idle", "reading", "writing", "unlocked", "exited"}]
    BY <1>2, <1>3
  <1>9. \A u \in Threads : pc'[u] \in {"idle", "exited"} => arena'[u] = {}
    BY <1>2, <1>3, <1>7
  <1>10. \A u, v \in Threads :
           pc'[u] = "writing" /\ pc'[v] \in {"reading", "writing"} => u = v
    BY <1>4, <1>7
  <1>11. pc'[Watcher] # "reading"
    BY <1>3, <1>7, MemoryAssumption
  <1> QED
    BY <1>1, <1>2, <1>3, <1>5, <1>6, <1>8, <1>9, <1>10, <1>11 DEF IInv

\* It loses a block when there is one.
LEMMA CanLoseKeeps ==
  ASSUME NEW H \in Heaps, Exclusive(H), CanLose(H)
  PROVE  /\ lose(H) \in Heaps
         /\ Exclusive(lose(H))
         /\ lose(H).arena = H.arena
         /\ lose(H).node = H.node
  <1>1. H.live \in SUBSET Blocks /\ Blocks \ H.live # {}
    BY DEF CanLose, Heaps
  <1>2. IsFiniteSet(Blocks \ H.live) /\ Cardinality(Blocks \ H.live) \in Nat
    BY <1>1, RoomIsFinite
  <1>3. Cardinality(Blocks \ H.live) # 0
    BY <1>1, <1>2, FS_EmptySet
  <1>4. Room(H.live, 1)
    BY <1>2, <1>3 DEF Room
  <1> QED
    BY <1>4, LoseKeeps

LEMMA FinishWritingStep ==
  ASSUME IInv, NEW t \in Threads, NEW H \in Heaps, Exclusive(H),
         \A u \in Threads \ {t} : H.arena[u] = arena[u], FinishWriting(t, H)
  PROVE  IInv'
  <1>1. CASE Finish(t, H)
    BY <1>1, FinishStep
  <1>2. CASE CanLose(H) /\ Finish(t, lose(H))
    <2>1. lose(H) \in Heaps /\ Exclusive(lose(H)) /\ lose(H).arena = H.arena
      BY <1>2, CanLoseKeeps
    <2> QED
      BY <1>2, <2>1, FinishStep
  <1> QED
    BY <1>1, <1>2 DEF FinishWriting

\* The start of a handler, with the lock that the others leave to it.
LEMMA BeginStep ==
  ASSUME IInv, NEW t \in Threads, HasRoom, pc[t] = "idle",
         NEW place \in {"reading", "writing"}, place = "reading" => t # Watcher,
         \A u \in Threads : pc[u] # "writing",
         place = "writing" => \A u \in Threads : pc[u] # "reading",
         GoTo(t, place), Becomes(rmalloc(Heap, t)), UNCHANGED held
  PROVE  IInv'
  <1>0. /\ Heap \in Heaps /\ Exclusive(Heap) /\ Heap.live = live
        /\ Heap.arena = arena /\ Heap.node = node
    BY DEF IInv, Heap
  <1>1. Room(Heap.live, 1)
    <2>1. Cardinality(Blocks \ live) \in Nat
      BY <1>0, RoomIsFinite DEF Heaps
    <2> QED
      BY <1>0, <2>1 DEF HasRoom, Room
  <1>2. /\ rmalloc(Heap, t) \in Heaps
        /\ Exclusive(rmalloc(Heap, t))
        /\ \A u \in Threads \ {t} : rmalloc(Heap, t).arena[u] = Heap.arena[u]
        /\ rmalloc(Heap, t).node = Heap.node
    BY <1>0, <1>1, RmallocKeeps
  <1>3. /\ Heap' = rmalloc(Heap, t) /\ node' = node
        /\ \A u \in Threads \ {t} : arena'[u] = arena[u]
    BY <1>0, <1>2, HeapBecomes
  <1>4. Heap' \in Heaps /\ Exclusive(Heap)'
    BY <1>2, <1>3 DEF Exclusive
  <1>5. HeldNamesStay'
    BY <1>3 DEF IInv, HeldNamesStay
  <1>6. /\ pc' \in [Threads -> {"idle", "reading", "writing", "unlocked", "exited"}]
        /\ \A u \in Threads : pc'[u] = IF u = t THEN place ELSE pc[u]
    BY DEF IInv, GoTo
  <1>7. \A u \in Threads : pc'[u] \in {"idle", "exited"} => arena'[u] = {}
    BY <1>3, <1>6 DEF IInv
  <1>8. \A u, v \in Threads :
          pc'[u] = "writing" /\ pc'[v] \in {"reading", "writing"} => u = v
    BY <1>6
  <1>9. pc'[Watcher] # "reading"
    BY <1>6, MemoryAssumption DEF IInv
  <1>10. \A u \in Threads : held'[u] # NULL => pc'[u] = "reading"
    BY <1>6 DEF IInv
  <1> QED
    BY <1>4, <1>5, <1>6, <1>7, <1>8, <1>9, <1>10 DEF IInv

\* What an operation starts from.
LEMMA TheHeap ==
  ASSUME IInv
  PROVE  /\ Heap \in Heaps /\ Exclusive(Heap) /\ Heap.live = live
         /\ Heap.arena = arena /\ Heap.node = node
         /\ HasRoom => \A k \in 0 .. 5 : Room(Heap.live, k)
  <1>1. /\ Heap \in Heaps /\ Exclusive(Heap) /\ Heap.live = live
        /\ Heap.arena = arena /\ Heap.node = node
    BY DEF IInv, Heap
  <1>2. Cardinality(Blocks \ live) \in Nat
    BY <1>1, RoomIsFinite DEF Heaps
  <1>3. ASSUME HasRoom, NEW k \in 0 .. 5
        PROVE  Room(Heap.live, k)
    <2>1. Cardinality(Blocks \ live) >= 5
      BY <1>3 DEF HasRoom
    <2>2. \A c \in Nat : c >= 5 => c >= k
      BY <1>3
    <2>3. Cardinality(Blocks \ live) >= k
      BY <1>2, <2>1, <2>2
    <2> QED
      BY <1>1, <2>3 DEF Room
  <1> QED
    BY <1>1, <1>3

LEMMA CreateStep ==
  ASSUME IInv, NEW t \in Threads, NEW n \in Notes, Create(t, n)
  PROVE  IInv'
  <1> DEFINE E == create_agenda_entry(Heap, t)
             H == create_fuse_node(E, n, new_entry(Heap))
  <1>1. node[n] = NoNode /\ HasRoom
    BY DEF Create
  <1>2. Room(Heap.live, 3 + 2)
    BY <1>1, TheHeap
  <1>3. /\ E \in Heaps /\ Exclusive(E) /\ Room(E.live, 3)
        /\ \A u \in Threads \ {t} : E.arena[u] = arena[u]
        /\ E.node = node
    BY <1>2, TheHeap, AgendaEntryKeeps
  <1>4. FinishWriting(t, H)
    BY DEF Create
  <1> HIDE DEF E
  <1>5. Room(E.live, 1 + 2)
    BY <1>3
  <1>6. H \in Heaps /\ Exclusive(H) /\ H.arena = E.arena
    BY <1>1, <1>3, <1>5, CreateNodeKeeps
  <1> HIDE DEF H
  <1> QED
    BY <1>3, <1>4, <1>6, FinishWritingStep

LEMMA RenameStep ==
  ASSUME IInv, NEW t \in Threads, NEW n \in Notes, Rename(t, n)
  PROVE  IInv'
  <1>1. node[n] # NoNode /\ FinishWriting(t, set_node_filename(Heap, n))
    BY DEF Rename
  <1>2. /\ set_node_filename(Heap, n) \in Heaps
        /\ Exclusive(set_node_filename(Heap, n))
        /\ set_node_filename(Heap, n).arena = arena
    BY <1>1, TheHeap, SetFilenameKeeps
  <1> QED
    BY <1>1, <1>2, FinishWritingStep

LEMMA ReplaceStep ==
  ASSUME IInv, NEW t \in Threads, NEW n \in Notes, NEW m \in Notes,
         Replace(t, n, m)
  PROVE  IInv'
  <1> DEFINE D == delete_fuse_node(Heap, m)
  <1>1. /\ n # m /\ node[n] # NoNode /\ node[m] # NoNode
        /\ FinishWriting(t, set_node_filename(D, n))
    BY DEF Replace
  <1>2. /\ D \in Heaps /\ Exclusive(D) /\ D.arena = arena
        /\ D.node = [node EXCEPT ![m] = NoNode]
    BY <1>1, TheHeap, Deletes
  <1>3. D.node[n] # NoNode
    BY <1>1, <1>2, TheHeap DEF Heaps
  <1> HIDE DEF D
  <1>4. /\ set_node_filename(D, n) \in Heaps
        /\ Exclusive(set_node_filename(D, n))
        /\ set_node_filename(D, n).arena = arena
    BY <1>2, <1>3, SetFilenameKeeps
  <1> QED
    BY <1>1, <1>4, FinishWritingStep

LEMMA UnlinkStep ==
  ASSUME IInv, NEW t \in Threads, NEW n \in Notes, Unlink(t, n)
  PROVE  IInv'
  <1>1. node[n] # NoNode /\ Finish(t, delete_fuse_node(Heap, n))
    BY DEF Unlink
  <1>2. /\ delete_fuse_node(Heap, n) \in Heaps
        /\ Exclusive(delete_fuse_node(Heap, n))
        /\ delete_fuse_node(Heap, n).arena = arena
    BY <1>1, TheHeap, Deletes
  <1> QED
    BY <1>1, <1>2, FinishStep

LEMMA UpdateStep ==
  ASSUME IInv, NEW n \in Notes, Update(n)
  PROVE  IInv'
  <1> DEFINE E == create_agenda_entry(Heap, Watcher)
             e == new_entry(Heap)
             U == upsert_fuse_node(E, n, e)
             L == lose(U)
             A == set_node_filename(L, n)
  <1>1. HasRoom /\ FinishWriting(Watcher, A)
    BY DEF Update, add_fuse_child
  <1>2. Watcher \in Threads /\ Room(Heap.live, 3 + 2)
    BY <1>1, TheHeap, MemoryAssumption
  <1>3. /\ E \in Heaps /\ Exclusive(E) /\ Room(E.live, 3)
        /\ \A u \in Threads \ {Watcher} : E.arena[u] = arena[u]
    BY <1>2, TheHeap, AgendaEntryKeeps
  <1> HIDE DEF E, e
  <1>4. /\ U \in Heaps /\ Exclusive(U) /\ U.arena = E.arena
        /\ U.node[n] # NoNode /\ Room(U.live, 1)
    <2>1. CASE E.node[n] = NoNode
      <3>1. U = create_fuse_node(E, n, e)
        BY <2>1 DEF upsert_fuse_node
      <3>2. Room(E.live, 1 + 2)
        BY <1>3
      <3> HIDE DEF U
      <3> QED
        BY <1>3, <2>1, <3>1, <3>2, CreateNodeKeeps
    <2>2. CASE E.node[n] # NoNode
      <3>1. U = set_node_filename(E, n)
        BY <2>2 DEF upsert_fuse_node
      <3>2. Room(E.live, 1 + 1)
        <4>1. Cardinality(Blocks \ E.live) \in Nat
          BY <1>3, RoomIsFinite DEF Heaps
        <4> QED
          BY <1>3, <4>1 DEF Room
      <3> HIDE DEF U
      <3> QED
        BY <1>3, <2>2, <3>1, <3>2, SetFilenameKeeps
    <2> QED
      BY <2>1, <2>2
  <1> HIDE DEF U
  <1>5. /\ L \in Heaps /\ Exclusive(L) /\ L.arena = E.arena
        /\ L.node[n] # NoNode
    BY <1>4, LoseKeeps
  <1> HIDE DEF L
  <1>6. A \in Heaps /\ Exclusive(A) /\ A.arena = E.arena
    BY <1>5, SetFilenameKeeps
  <1> HIDE DEF A
  <1> QED
    BY <1>1, <1>2, <1>3, <1>6, FinishWritingStep

LEMMA LeaveStep ==
  ASSUME IInv, NEW t \in Threads, Leave(t)
  PROVE  IInv'
  <1>1. Heap \in Heaps /\ Exclusive(Heap) /\ Heap.arena = arena
    BY TheHeap
  <1> QED
    BY <1>1, FinishWritingStep DEF Leave

\* A handler that reads is the reason why no writer changes the name.
LEMMA LookUpStep ==
  ASSUME IInv, NEW t \in Threads, NEW n \in Notes, get_node_filename(t, n)
  PROVE  IInv'
  <1>1. /\ node[n] # NoNode /\ pc[t] = "reading"
        /\ held' = [held EXCEPT ![t] = node[n].filename]
        /\ UNCHANGED <<live, arena, node, lost, twice, pc>>
    BY DEF get_node_filename
  <1>2. Heap' = Heap
    BY <1>1 DEF Heap
  <1>3. node[n].filename \in Blocks
    BY <1>1, TheHeap DEF Heaps, Entries
  <1>4. held' \in [Threads -> Blocks \cup {NULL}]
    BY <1>1, <1>3 DEF IInv
  <1>5. HeldNamesStay'
    BY <1>1 DEF IInv, HeldNamesStay
  <1>6. \A u \in Threads : held'[u] # NULL => pc'[u] = "reading"
    BY <1>1 DEF IInv
  <1>7. Heap' \in Heaps /\ Exclusive(Heap)'
    BY <1>2 DEF IInv, Exclusive
  <1> QED
    BY <1>1, <1>4, <1>5, <1>6, <1>7 DEF IInv

LEMMA UnlockStep ==
  ASSUME IInv, NEW t \in Threads, Unlock(t)
  PROVE  IInv'
  <1>1. /\ pc[t] = "reading" /\ pc' = [pc EXCEPT ![t] = "unlocked"]
        /\ held' = [held EXCEPT ![t] = NULL]
    BY DEF Unlock, GoTo
  <1>2. Heap' \in Heaps /\ Exclusive(Heap)' /\ arena' = arena /\ node' = node
    <2>1. Heap \in Heaps /\ Exclusive(Heap) /\ Heap.arena = arena /\ Heap.node = node
      BY TheHeap
    <2>2. CASE Becomes(Heap)
      <3>1. Heap' = Heap /\ arena' = Heap.arena /\ node' = Heap.node
        BY <2>1, <2>2, HeapBecomes
      <3> QED
        BY <2>1, <3>1 DEF Exclusive
    <2>3. CASE CanLose(Heap) /\ Becomes(lose(Heap))
      <3>1. /\ lose(Heap) \in Heaps /\ Exclusive(lose(Heap))
            /\ lose(Heap).arena = arena /\ lose(Heap).node = node
        BY <2>1, <2>3, CanLoseKeeps
      <3>2. /\ Heap' = lose(Heap) /\ arena' = lose(Heap).arena
            /\ node' = lose(Heap).node
        BY <2>3, <3>1, HeapBecomes
      <3> QED
        BY <3>1, <3>2 DEF Exclusive
    <2> QED
      BY <2>2, <2>3 DEF Unlock
  <1>3. held' \in [Threads -> Blocks \cup {NULL}] /\ HeldNamesStay'
    BY <1>1, <1>2 DEF IInv, HeldNamesStay
  <1>4. /\ pc' \in [Threads -> {"idle", "reading", "writing", "unlocked", "exited"}]
        /\ \A u \in Threads : pc'[u] = IF u = t THEN "unlocked" ELSE pc[u]
        /\ \A u \in Threads : held'[u] = IF u = t THEN NULL ELSE held[u]
    BY <1>1 DEF IInv
  <1> QED
    BY <1>1, <1>2, <1>3, <1>4, MemoryAssumption DEF IInv

\* free_all, without the lock, frees nothing that others point to.
LEMMA FreeStep ==
  ASSUME IInv, NEW t \in Threads, Free(t)
  PROVE  IInv'
  <1>1. /\ pc[t] = "unlocked" /\ Becomes(free_all(Heap, t)) /\ held' = held
        /\ pc' = [pc EXCEPT ![t] = "idle"]
    BY DEF Free, GoTo
  <1>2. /\ free_all(Heap, t) \in Heaps /\ Exclusive(free_all(Heap, t))
        /\ free_all(Heap, t).arena = [arena EXCEPT ![t] = {}]
        /\ free_all(Heap, t).node = node
    BY TheHeap, Empties
  <1>3. /\ Heap' = free_all(Heap, t) /\ node' = node
        /\ arena' = [arena EXCEPT ![t] = {}]
    BY <1>1, <1>2, HeapBecomes
  <1>4. Heap' \in Heaps /\ Exclusive(Heap)'
    BY <1>2, <1>3 DEF Exclusive
  <1>5. HeldNamesStay'
    BY <1>1, <1>3 DEF IInv, HeldNamesStay
  <1>6. /\ pc' \in [Threads -> {"idle", "reading", "writing", "unlocked", "exited"}]
        /\ \A u \in Threads : pc'[u] = IF u = t THEN "idle" ELSE pc[u]
        /\ held' \in [Threads -> Blocks \cup {NULL}]
    BY <1>1 DEF IInv
  <1>7. arena \in [Threads -> SUBSET Blocks]
    BY TheHeap DEF Heaps
  <1>8. \A u \in Threads : arena'[u] = IF u = t THEN {} ELSE arena[u]
    BY <1>3, <1>7
  <1>9. \A u \in Threads : pc'[u] \in {"idle", "exited"} => arena'[u] = {}
    BY <1>6, <1>8 DEF IInv
  <1>10. \A u \in Threads : held'[u] # NULL => pc'[u] = "reading"
    BY <1>1, <1>6 DEF IInv
  <1>11. \A u, v \in Threads :
           pc'[u] = "writing" /\ pc'[v] \in {"reading", "writing"} => u = v
    BY <1>6 DEF IInv
  <1>12. pc'[Watcher] # "reading"
    BY <1>6, MemoryAssumption DEF IInv
  <1> QED
    BY <1>4, <1>5, <1>6, <1>9, <1>10, <1>11, <1>12 DEF IInv

\* At the end the tree and the map are freed, and what the watcher had is lost.
LEMMA ExitStep ==
  ASSUME IInv, Exit
  PROVE  IInv'
  <1>1. /\ \A t \in Threads \ {Watcher} : pc[t] = "idle"
        /\ pc' = [t \in Threads |-> "exited"] /\ held' = held
        /\ live' = live \ shared(Heap) /\ node' = [n \in Notes |-> NoNode]
        /\ lost' = lost \cup arena[Watcher] /\ arena' = [t \in Threads |-> {}]
        /\ twice' = (twice \/ ~(shared(Heap) \subseteq live))
    BY DEF Exit, Becomes, free, Heap
  <1>2. /\ \A t \in Threads : held[t] = NULL
        /\ \A t \in Threads \ {Watcher} : arena[t] = {}
    BY <1>1 DEF IInv
  <1>3. /\ live \in SUBSET Blocks /\ lost \in SUBSET Blocks
        /\ arena \in [Threads -> SUBSET Blocks] /\ Watcher \in Threads
    BY TheHeap, MemoryAssumption DEF Heaps, Heap
  <1>4. /\ twice = FALSE /\ lost \subseteq live
        /\ arena[Watcher] \subseteq live
        /\ \A n \in Notes : node[n] # NoNode =>
             owned(node[n]) \subseteq live \ lost
             /\ arena[Watcher] \cap owned(node[n]) = {}
    BY <1>3, TheHeap DEF Exclusive, Heap
  <1>5. \A b \in shared(Heap) :
          \E n \in Notes : node[n] # NoNode /\ b \in owned(node[n])
    BY DEF shared, Heap
  <1>6. shared(Heap) \subseteq live \ (lost \cup arena[Watcher])
    BY <1>4, <1>5
  <1>7. twice' = FALSE
    BY <1>1, <1>4, <1>6
  <1>8. Heap' \in Heaps
    BY <1>1, <1>3, <1>7 DEF Heap, Heaps
  <1>9. \A b \in live \ shared(Heap) : b \in lost \cup arena[Watcher]
    <2>1. \A b \in live :
            \/ b \in lost
            \/ \E t \in Threads : b \in arena[t]
            \/ \E n \in Notes : node[n] # NoNode /\ b \in owned(node[n])
      BY TheHeap DEF Exclusive, Heap
    <2>2. \A n \in Notes : node[n] # NoNode => owned(node[n]) \subseteq shared(Heap)
      BY DEF shared, Heap
    <2> QED
      BY <1>2, <2>1, <2>2
  <1>10. Exclusive(Heap)'
    BY <1>1, <1>4, <1>6, <1>7, <1>9 DEF Exclusive, Heap
  <1>11. HeldNamesStay'
    BY <1>1, <1>2 DEF HeldNamesStay
  <1>12. held' \in [Threads -> Blocks \cup {NULL}]
    BY <1>1 DEF IInv
  <1> QED
    BY <1>1, <1>2, <1>3, <1>8, <1>10, <1>11, <1>12 DEF IInv

LEMMA NextIInv == IInv /\ [Next]_vars => IInv'
  <1> SUFFICES ASSUME IInv, [Next]_vars PROVE IInv'
    OBVIOUS
  <1>1. ASSUME NEW t \in Threads, FUSE_READ_BEGIN(t) PROVE IInv'
    BY <1>1, BeginStep DEF FUSE_READ_BEGIN
  <1>2. ASSUME NEW t \in Threads, FUSE_WRITE_BEGIN(t) PROVE IInv'
    BY <1>2, BeginStep DEF FUSE_WRITE_BEGIN
  <1>3. ASSUME NEW t \in Threads, Leave(t) \/ Unlock(t) \/ Free(t) PROVE IInv'
    BY <1>3, LeaveStep, UnlockStep, FreeStep
  <1>4. ASSUME NEW t \in Threads, NEW n \in Notes,
               \/ get_node_filename(t, n) \/ Create(t, n) \/ Rename(t, n)
               \/ Unlink(t, n)
               \/ \E m \in Notes : Replace(t, n, m)
        PROVE  IInv'
    BY <1>4, LookUpStep, CreateStep, RenameStep, UnlinkStep, ReplaceStep
  <1>5. ASSUME NEW n \in Notes, Update(n) PROVE IInv'
    BY <1>5, UpdateStep
  <1>6. CASE Exit
    BY <1>6, ExitStep
  <1>7. CASE UNCHANGED vars
    <2>1. Heap' = Heap
      BY <1>7 DEF vars, Heap
    <2>2. Heap' \in Heaps /\ Exclusive(Heap)'
      BY <2>1 DEF IInv, Exclusive
    <2> QED
      BY <1>7, <2>2 DEF vars, IInv, HeldNamesStay
  <1> QED
    BY <1>1, <1>2, <1>3, <1>4, <1>5, <1>6, <1>7 DEF Next

LEMMA IInvHolds == Spec => []IInv
  BY InitIInv, NextIInv, PTL DEF Spec

-----------------------------------------------------------------------------
(* What follows *)

\* Blocks are blocks, each note has all of its own, and a thread between two
\* operations has emptied its arena (FUSE_CLEANUP), for any threads, notes and
\* size of memory.
THEOREM MemoryKeepsTypes == Spec => []TypeOK
  <1>1. ASSUME IInv PROVE TypeOK
    BY <1>1 DEF IInv, TypeOK, Heap, Heaps, Entries
  <1> QED
    BY <1>1, IInvHolds, PTL

\* Whatever the handlers and the watcher do at once, and wherever they lose a
\* block, every other allocated block has exactly one owner, nothing is freed
\* twice, and free_all, which FUSE_CLEANUP calls after the lock is given back,
\* touches nothing that is shared.
THEOREM EveryBlockHasOneOwner == Spec => []OneOwner
  <1>1. ASSUME IInv PROVE OneOwner
    <2>1. Exclusive(Heap)
      BY <1>1 DEF IInv
    <2>2. \A b : b \in shared(Heap) <=>
            \E n \in Notes : node[n] # NoNode /\ b \in owned(node[n])
      BY DEF shared, Heap
    <2>3. \A b : b \in UNION {arena[t] : t \in Threads} <=>
            \E t \in Threads : b \in arena[t]
      OBVIOUS
    <2>4. live = (UNION {arena[t] : t \in Threads}) \cup shared(Heap) \cup lost
      BY <2>1, <2>2, <2>3 DEF Exclusive, Heap
    <2>5. ASSUME NEW t \in Threads
          PROVE  arena[t] \cap (shared(Heap) \cup lost
                        \cup UNION {arena[u] : u \in Threads \ {t}}) = {}
      <3>1. /\ \A u \in Threads \ {t} : arena[t] \cap arena[u] = {}
            /\ arena[t] \cap lost = {}
            /\ \A n \in Notes : node[n] # NoNode => arena[t] \cap owned(node[n]) = {}
        BY <2>1 DEF Exclusive, Heap
      <3> QED
        BY <2>2, <3>1
    <2>6. shared(Heap) \cap lost = {}
      BY <2>1, <2>2 DEF Exclusive, Heap
    <2>7. ~twice
      BY <2>1 DEF Exclusive, Heap
    <2>8. \A n \in Notes : node[n] # NoNode =>
            /\ node[n].entry # node[n].filename
            /\ \A m \in Notes \ {n} :
                 node[m] # NoNode => owned(node[m]) \cap owned(node[n]) = {}
      BY <2>1 DEF Exclusive, Heap
    <2> QED
      BY <2>4, <2>5, <2>6, <2>7, <2>8 DEF OneOwner
  <1> QED
    BY <1>1, IInvHolds, PTL

\* The string that get_node_filename hands out without a copy is still the name
\* of a node whenever the handler uses it.
THEOREM NamesHandedOutStay == Spec => []HeldNamesStay
  <1>1. IInv => HeldNamesStay
    BY DEF IInv
  <1> QED
    BY <1>1, IInvHolds, PTL

=============================================================================
