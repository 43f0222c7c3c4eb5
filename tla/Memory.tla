------------------------------- MODULE Memory -------------------------------
(***************************************************************************)
(* Who owns the memory of the daemon.  What an operation needs it puts     *)
(* into its arena, which free_all empties after the operation has given    *)
(* entries_lock back; what the tree and the hash map keep is allocated and *)
(* freed by hand.  Handlers of other threads run meanwhile.                *)
(*                                                                         *)
(* A block is an address, free to be used again once it is freed; an       *)
(* allocation takes one that is free.  What is made and freed together is  *)
(* one block: an agenda_entry with its vdir name, for a note with the tree *)
(* node and the key in entries_vdir too; all that an operation registers   *)
(* besides (copies of paths, parsed components, text); and all that it     *)
(* loses in one go.  The filename, which set_node_filename replaces, is a  *)
(* block of its own.  A failed allocation ends the process (util.c).       *)
(***************************************************************************)
EXTENDS Integers, FiniteSets

CONSTANTS
  Threads,   \* the threads of libfuse, and the watcher
  Watcher,   \* the thread of handle_vdir_event
  Notes,
  NoNode,    \* a note without tree node
  NULL,
  MaxBlocks, \* the size of memory
  MaxLost    \* how many blocks may be lost in a run

ASSUME MemoryAssumption ==
  /\ Watcher \in Threads
  /\ MaxBlocks \in Nat /\ NULL \notin 1 .. MaxBlocks
  /\ NoNode \notin [entry : 1 .. MaxBlocks, filename : 1 .. MaxBlocks]

VARIABLES
  live,   \* the blocks that are allocated
  arena,  \* the blocks registered in the arena of each thread
  node,   \* the blocks of each note: its tree node with all it points to
  lost,   \* blocks that nothing points to any more
  twice,  \* a block was freed that was not allocated
  pc,     \* where each thread is
  held    \* the filename that a handler which reads has looked up

vars == <<live, arena, node, lost, twice, pc, held>>

Blocks == 1 .. MaxBlocks

Heap == [live |-> live, arena |-> arena, node |-> node, lost |-> lost,
         twice |-> twice]

\* A block that is not in use.
fresh(used) == CHOOSE b \in Blocks : b \notin used

\* No operation allocates more than five blocks, but for what is lost at its end
\* (see CanLose); with less the process may end.
HasRoom == Cardinality(Blocks \ live) >= 5

\* The blocks of a note.
owned(r) == {r.entry, r.filename}

\* The blocks the tree and the hash map point to.
shared(H) == UNION {owned(H.node[n]) : n \in {m \in Notes : H.node[m] # NoNode}}

free(H, blocks) ==
  [H EXCEPT !.live = @ \ blocks,
            !.twice = @ \/ ~(blocks \subseteq H.live)]

-----------------------------------------------------------------------------
(* arena.c *)

rmalloc(H, t) ==
  [H EXCEPT !.live = @ \cup {fresh(@)}, !.arena[t] = @ \cup {fresh(H.live)}]

\* The blocks stay registered.
free_all_again(H, t) == free(H, H.arena[t])

free_all(H, t) == [free(H, H.arena[t]) EXCEPT !.arena[t] = {}]

-----------------------------------------------------------------------------
(* agenda_entry.c *)

\* A struct and its strings: here the pointers, and below the arena with them.
new_entry(H) ==
  [entry |-> fresh(H.live), filename |-> fresh(H.live \cup {fresh(H.live)})]

create_agenda_entry(H, t) ==
  [H EXCEPT !.live = @ \cup owned(new_entry(H)),
            !.arena[t] = @ \cup owned(new_entry(H))]

\* The pointers are copied and the strings are not.
copy_agenda_entry_pointers(H, e) == [e EXCEPT !.entry = fresh(H.live)]

\* The copy belongs to nobody yet.
copy_agenda_entry(H, e) == new_entry(H)

-----------------------------------------------------------------------------
(* fuse_node_store.c *)

create_fuse_node(H, n, e) ==
  LET c == copy_agenda_entry(H, e)
  IN  [H EXCEPT !.live = @ \cup owned(c), !.node[n] = c]

set_node_filename(H, n) ==
  LET F == free(H, {H.node[n].filename})
  IN  [F EXCEPT !.live = @ \cup {fresh(@)}, !.node[n].filename = fresh(F.live)]

upsert_fuse_node(H, n, e) ==
  IF H.node[n] # NoNode THEN set_node_filename(H, n)
                        ELSE create_fuse_node(H, n, e)

\* Something was allocated that will never be freed: the name that add_fuse_child
\* makes, the component of create_vjournal_directory, the text that
\* get_node_categories registers while it is still NULL, or a property that was
\* taken out of a component (write_ical_file, clear_dtstart, set_node_categories,
\* delete_node_categories, delete_node_class).
lose(H) ==
  [H EXCEPT !.live = @ \cup {fresh(@)}, !.lost = @ \cup {fresh(H.live)}]

\* set_node_filename copies the name that add_fuse_child has made, and nobody
\* frees it.
add_fuse_child(H, n) == set_node_filename(lose(H), n)

\* hashmap_remove frees the key, free_tree the node and its entry.
delete_fuse_node(H, n) ==
  [free(H, owned(H.node[n])) EXCEPT !.node[n] = NoNode]

-----------------------------------------------------------------------------

Becomes(H) ==
  /\ live' = H.live /\ arena' = H.arena /\ node' = H.node
  /\ lost' = H.lost /\ twice' = H.twice

GoTo(t, place) == pc' = [pc EXCEPT ![t] = place]

FUSE_READ_BEGIN(t) ==
  /\ t # Watcher /\ pc[t] = "idle" /\ HasRoom
  /\ \A u \in Threads : pc[u] # "writing"
  /\ GoTo(t, "reading")
  /\ Becomes(rmalloc(Heap, t))
  /\ UNCHANGED held

\* get_node_filename hands out the string of the node itself.
get_node_filename(t, n) ==
  /\ pc[t] = "reading" /\ node[n] # NoNode
  /\ held' = [held EXCEPT ![t] = node[n].filename]
  /\ UNCHANGED <<live, arena, node, lost, twice, pc>>

\* Only other writers are kept out.
FUSE_WRITE_BEGIN_among_readers(t) ==
  /\ pc[t] = "idle" /\ HasRoom
  /\ \A u \in Threads : pc[u] # "writing"
  /\ GoTo(t, "writing")
  /\ Becomes(rmalloc(Heap, t))
  /\ UNCHANGED held

FUSE_WRITE_BEGIN(t) ==
  /\ pc[t] = "idle" /\ HasRoom
  /\ \A u \in Threads : pc[u] \notin {"reading", "writing"}
  /\ GoTo(t, "writing")
  /\ Becomes(rmalloc(Heap, t))
  /\ UNCHANGED held

\* The work of an operation is done with the lock, which it then gives back.
Finish(t, H) ==
  /\ pc[t] = "writing"
  /\ Becomes(H)
  /\ GoTo(t, "unlocked")
  /\ UNCHANGED held

\* MaxLost bounds what is lost in a run.
CanLose(H) == Cardinality(H.lost) < MaxLost /\ H.live # Blocks

\* What writes a file may lose something more.
FinishWriting(t, H) ==
  \/ Finish(t, H)
  \/ CanLose(H) /\ Finish(t, lose(H))

\* fuse_create and fuse_mkdir
Create(t, n) ==
  /\ t # Watcher /\ node[n] = NoNode /\ HasRoom
  /\ FinishWriting(t, create_fuse_node(create_agenda_entry(Heap, t), n,
                                       new_entry(Heap)))

Rename(t, n) ==
  /\ t # Watcher /\ node[n] # NoNode
  /\ FinishWriting(t, set_node_filename(Heap, n))

\* A rename to the name of note m.
Replace(t, n, m) ==
  /\ t # Watcher /\ n # m /\ node[n] # NoNode /\ node[m] # NoNode
  /\ FinishWriting(t, set_node_filename(delete_fuse_node(Heap, m), n))

\* fuse_unlink and fuse_rmdir.
Unlink(t, n) ==
  /\ t # Watcher /\ node[n] # NoNode
  /\ Finish(t, delete_fuse_node(Heap, n))

\* update_or_create_fuse_entry_from_vdir
Update(n) ==
  LET H == create_agenda_entry(Heap, Watcher)
  IN  /\ Cardinality(lost) < MaxLost /\ HasRoom
      /\ FinishWriting(Watcher,
           add_fuse_child(upsert_fuse_node(H, n, new_entry(Heap)), n))

\* An early return, or a handler that only changes a file.
Leave(t) == FinishWriting(t, Heap)

\* A handler that reads gives the lock back, and all it has looked up; the text
\* of the categories it may lose.
Unlock(t) ==
  /\ pc[t] = "reading"
  /\ GoTo(t, "unlocked")
  /\ held' = [held EXCEPT ![t] = NULL]
  /\ \/ Becomes(Heap)
     \/ CanLose(Heap) /\ Becomes(lose(Heap))

\* The end of FUSE_CLEANUP: without the lock.
Free(t) ==
  /\ pc[t] = "unlocked"
  /\ Becomes(free_all(Heap, t))
  /\ GoTo(t, "idle")
  /\ UNCHANGED held

\* fuse_main has returned and main cancels the watcher, which may be about to
\* free its arena; hashmap_free and free_tree follow.
Exit ==
  /\ \A t \in Threads \ {Watcher} : pc[t] = "idle"
  /\ pc[Watcher] # "exited"
  /\ pc' = [t \in Threads |-> "exited"]
  /\ Becomes([free(Heap, shared(Heap)) EXCEPT
                !.node = [n \in Notes |-> NoNode],
                !.lost = @ \cup arena[Watcher],
                !.arena = [t \in Threads |-> {}]])
  /\ UNCHANGED held

Init ==
  /\ live = {} /\ lost = {} /\ twice = FALSE
  /\ arena = [t \in Threads |-> {}]
  /\ node = [n \in Notes |-> NoNode]
  /\ pc = [t \in Threads |-> "idle"]
  /\ held = [t \in Threads |-> NULL]

Next ==
  \/ \E t \in Threads :
       \/ FUSE_READ_BEGIN(t) \/ FUSE_WRITE_BEGIN(t)
       \/ Leave(t) \/ Unlock(t) \/ Free(t)
       \/ \E n \in Notes :
            \/ get_node_filename(t, n) \/ Create(t, n) \/ Rename(t, n)
            \/ Unlink(t, n)
            \/ \E m \in Notes : Replace(t, n, m)
  \/ \E n \in Notes : Update(n)
  \/ Exit

Spec == Init /\ [][Next]_vars

-----------------------------------------------------------------------------

\* The types of the variables; each note has all its blocks, and a thread that
\* does nothing has nothing in its arena.
TypeOK ==
  /\ live \subseteq Blocks /\ lost \subseteq Blocks
  /\ arena \in [Threads -> SUBSET Blocks]
  /\ node \in [Notes -> [entry : Blocks, filename : Blocks] \cup {NoNode}]
  /\ twice \in BOOLEAN
  /\ pc \in [Threads -> {"idle", "reading", "writing", "unlocked", "exited"}]
  /\ held \in [Threads -> Blocks \cup {NULL}]
  /\ \A t \in Threads : pc[t] \in {"idle", "exited"} => arena[t] = {}

\* Every block that is allocated has one owner, an arena or the tree and the
\* hash map, or is one of those the code loses (see lose), and nothing else is
\* pointed to.  So that free_all, which runs without the lock while others
\* change the tree, frees nothing that is shared ("Avoid mixing memory_region
\* pointers with global state"), and nothing is freed twice.
OneOwner ==
  /\ ~twice
  /\ live = (UNION {arena[t] : t \in Threads}) \cup shared(Heap) \cup lost
  /\ \A t \in Threads :
       arena[t] \cap (shared(Heap) \cup lost
                        \cup UNION {arena[u] : u \in Threads \ {t}}) = {}
  /\ shared(Heap) \cap lost = {}
  /\ \A n \in Notes : node[n] # NoNode =>
       /\ node[n].entry # node[n].filename
       /\ \A m \in Notes \ {n} :
            node[m] # NoNode => owned(node[m]) \cap owned(node[n]) = {}

\* A name that a handler has got from a node (get_node_filename, without a
\* copy) is the name of a node for as long as the handler uses it.
HeldNamesStay ==
  \A t \in Threads : held[t] # NULL =>
    \E n \in Notes : node[n] # NoNode /\ node[n].filename = held[t]

=============================================================================
