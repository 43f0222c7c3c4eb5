------------------------------ MODULE AgendaFS ------------------------------
(***************************************************************************)
(* The agendafs daemon: the vdir on disk, the tree in memory, the FUSE     *)
(* handlers that change both, the inotify queue of the vdir and the        *)
(* watcher thread that follows it, and the other programs (a sync tool, an *)
(* editor) that change the vdir.                                           *)
(*                                                                         *)
(* Every handler runs under the write lock of entries_lock, so a handler   *)
(* is one step; a step of another program on the vdir falls between two    *)
(* handlers.  A path is the node its directory part resolves to and its    *)
(* last name.  What the kernel refuses before it calls a handler is a      *)
(* guard (see VfsRename), lifted by the request kind "stale": the kernel   *)
(* answers from directory entries that are up to a second old.             *)
(***************************************************************************)
EXTENDS NodeTree, Ics

CONSTANTS
  Foreground,      \* mounted with -f or -d: fuse_main does not fork
  QueueLimit,      \* fs.inotify.max_queued_events
  Requests,        \* the kinds of requests users and other programs make
  MaxRequests,     \* how many of them: bounds every run
  InitDisks,       \* contents of the vdir before the first mount
  NewNames,        \* the names users give: never the empty text
  SyncComponents   \* what other programs write into the file of each note

RequestKinds ==
  {"create", "mkdir", "write", "unlink", "rmdir", "rename", "replace", "top",
   "stale", "sync", "cut", "orphan", "eager", "early", "syncdelete", "syncrename",
   "terminate"}

ASSUME AgendaFSAssumption ==
  /\ Foreground \in BOOLEAN
  /\ QueueLimit \in Nat
  /\ Requests \subseteq RequestKinds
  /\ MaxRequests \in Nat
  /\ InitDisks \subseteq [Uids -> Component \cup {NoFile}]
  /\ NewNames \subseteq Names \ {<<>>, <<Blank>>}
  /\ SyncComponents \in [Uids -> SUBSET Component]

VARIABLES
  proc,      \* what the daemon process is doing
  watcher,   \* the watcher thread: none, created, or watching the vdir
  tree,      \* fuse_root and entries_vdir, a Tree
  disk,      \* the component in <uid>.ics, NoFile when there is none to read
  torn,      \* the files that are there and hold no component: cut to nothing
  queue,     \* inotify events not yet handled
  pending,   \* the keys load_root_node_tree has not placed yet
  requests   \* how many requests were made

vars == <<proc, watcher, tree, disk, torn, queue, pending, requests>>

\* parse_ics_file finds a component in the file, or at least the file.
Parses(u) == disk[u] # NoFile

Exists(u) == Parses(u) \/ u \in torn

Created(u)  == [kind |-> "created", file |-> u]   \* IN_CREATE
Modified(u) == [kind |-> "modified", file |-> u]  \* IN_MODIFY
Deleted(u)  == [kind |-> "deleted", file |-> u]   \* IN_DELETE

Event == [kind : {"created", "modified", "deleted"}, file : Uids]

-----------------------------------------------------------------------------

\* The kernel adds an event to any of the queues Q: only for a watched directory
\* and not when the queue is full.  An event that equals the last one queued is
\* merged with it, unless the watcher has read that one already and is only to
\* handle it.
notify(Q, e) ==
  UNION {IF watcher # "watching" \/ Len(q) >= QueueLimit THEN {q}
         ELSE IF q # <<>> /\ q[Len(q)] = e THEN {q, Append(q, e)}
         ELSE {Append(q, e)} : q \in Q}

\* fopen(.., "w") and fclose: on a new file, and on one that is cut and written.
created(Q, u) == notify(notify(Q, Created(u)), Modified(u))

modified(Q, u) == notify(notify(Q, Modified(u)), Modified(u))

\* One more request, of a kind the instance admits.
Request(kinds) ==
  /\ kinds \cap Requests # {}
  /\ requests < MaxRequests
  /\ requests' = requests + 1

Stale == "stale" \in Requests

\* The files of all these nodes can be opened; the root has none.
Readable(S) == \A n \in S \cap Uids : Exists(n)

\* A failed assertion, or a NULL that is followed: the process is gone.
Abort ==
  /\ proc' = "aborted"
  /\ watcher' = "none"
  /\ tree' = EmptyTree
  /\ queue' = <<>>
  /\ pending' = {}

node_is_directory(T, D, n) ==
  n = Root \/ node_has_children(T, n) \/ (D[n] # NoFile /\ D[n].isdir)

Shown == Attached(tree) \ {Root}

Directories == {n \in Attached(tree) : node_is_directory(tree, disk, n)}

\* A random UUID is one that nothing refers to.
Fresh ==
  {u \in Uids :
     /\ ~Exists(u)
     /\ u \notin tree.live
     /\ \A i \in 1 .. Len(queue) : queue[i].file # u
     /\ \A v \in Uids : Parses(v) =>
          \A i \in 1 .. Len(disk[v].parents) : disk[v].parents[i] # u}

-----------------------------------------------------------------------------
(* Starting and stopping: main and load_root_node_tree                     *)

\* The watcher thread is created before the tree is loaded.
LoadScan_watched ==
  /\ proc \in {"down", "aborted"}
  /\ proc' = "loading"
  /\ watcher' = "created"
  /\ pending' = {u \in Uids : Loadable(disk[u])}
  /\ tree' = [EmptyTree EXCEPT
                !.live = pending', !.entries = pending',
                !.name = [u \in Uids |-> IF u \in pending'
                                           THEN entry_filename(disk[u])
                                           ELSE <<>>]]
  /\ UNCHANGED <<disk, torn, queue, requests>>

\* The scan of the directory: a node for every file that can be loaded.
LoadScan ==
  /\ proc \in {"down", "aborted"}
  /\ proc' = "loading"
  /\ pending' = {u \in Uids : Loadable(disk[u])}
  /\ tree' = [EmptyTree EXCEPT
                !.live = pending', !.entries = pending',
                !.name = [u \in Uids |-> IF u \in pending'
                                           THEN entry_filename(disk[u])
                                           ELSE <<>>]]
  /\ UNCHANGED <<watcher, disk, torn, queue, requests>>

\* Gives one scanned node its parent; the order is that of the hash map.  A
\* file that was cut since the scan names no parent.
LoadAttach(u) ==
  /\ proc = "loading"
  /\ u \in pending
  /\ UNCHANGED <<torn, requests>>
  /\ IF ~Exists(u)
       THEN Abort /\ UNCHANGED disk
       ELSE LET ps == IF Parses(u) THEN get_parent_uid(disk[u]) ELSE {}
            IN  \/ /\ ps = {}
                   /\ tree' = add_fuse_child(tree, Root, u)
                   /\ pending' = pending \ {u}
                   /\ UNCHANGED <<proc, watcher, disk, queue>>
                \/ \E p \in ps :
                     /\ p \notin tree.entries
                     /\ pending' = pending \ {u}
                     /\ UNCHANGED <<proc, watcher, tree, disk, queue>>
                \/ \E p \in ps :
                     /\ p \in tree.entries
                     /\ IF ~Parses(p)
                          THEN Abort /\ UNCHANGED disk
                          ELSE /\ disk' = [disk EXCEPT ![p] =
                                             icalcomponent_mark_as_directory(@)]
                               /\ tree' = move_fuse_node(tree, p, u)
                               /\ pending' = pending \ {u}
                               /\ UNCHANGED <<proc, watcher, queue>>

\* The tree is built and the watcher thread is created.
LoadDone ==
  /\ proc = "loading"
  /\ pending = {}
  /\ proc' = "loaded"
  /\ watcher' = "created"
  /\ UNCHANGED <<tree, disk, torn, queue, pending, requests>>

\* The daemon goes into the background whatever the options say.
ServeFuse_forking ==
  /\ proc = "loaded"
  /\ proc' = "mounted"
  /\ watcher' = "none"
  /\ queue' = <<>>
  /\ UNCHANGED <<tree, disk, torn, pending, requests>>

\* fuse_main.  Without -f it forks and goes on in the child, where only the
\* thread that called it exists.
ServeFuse ==
  /\ proc = "loaded"
  /\ proc' = "mounted"
  /\ IF Foreground
       THEN UNCHANGED <<watcher, queue>>
       ELSE watcher' = "none" /\ queue' = <<>>
  /\ UNCHANGED <<tree, disk, torn, pending, requests>>

\* The file system is unmounted or the process is killed, between two handlers
\* or while it is loading.
Terminate ==
  /\ proc \notin {"down", "aborted"}
  /\ Request({"terminate"})
  /\ proc' = "down"
  /\ watcher' = "none"
  /\ tree' = EmptyTree
  /\ queue' = <<>>
  /\ pending' = {}
  /\ UNCHANGED <<disk, torn>>

-----------------------------------------------------------------------------
(* The watcher thread                                                      *)

\* inotify_add_watch: changes of the vdir are queued from here on.
StartWatch ==
  /\ watcher = "created"
  /\ watcher' = "watching"
  /\ UNCHANGED <<proc, tree, disk, torn, queue, pending, requests>>

\* The key get_node_by_uuid is given is the path of the file, not its uid.
FullPath(u) == <<"vdir", u>>

ASSUME FullPathAssumption == \A u \in Uids : FullPath(u) \notin Uids

\* (The assertion on child_count behind the lookup is never reached.)
delete_from_vdir_path(T, key) ==
  IF key \in T.entries THEN delete_fuse_node(T, key) ELSE T

HandleDeleted(u) ==
  /\ watcher = "watching"
  /\ queue # <<>> /\ Head(queue) = Deleted(u)
  /\ tree' = delete_from_vdir_path(tree, FullPath(u))
  /\ queue' = Tail(queue)
  /\ UNCHANGED <<proc, watcher, disk, torn, pending, requests>>

\* update_or_create_fuse_entry_from_vdir: the file as it is now, not as it
\* was when the event was queued, decides the name and the parent.
HandleChanged(u) ==
  /\ watcher = "watching"
  /\ queue # <<>> /\ Head(queue) \in {Created(u), Modified(u)}
  /\ UNCHANGED <<torn, requests>>
  /\ IF ~Loadable(disk[u])
       THEN /\ queue' = Tail(queue)
            /\ UNCHANGED <<proc, watcher, tree, disk, pending>>
       ELSE LET t  == upsert_fuse_node(tree, u, entry_filename(disk[u]))
                ps == get_parent_uid(disk[u])
            IN  \/ /\ ps = {}
                   /\ tree' = move_fuse_node(t, Root, u)
                   /\ queue' = Tail(queue)
                   /\ UNCHANGED <<proc, watcher, disk, pending>>
                \/ \E p \in ps :
                     IF p \notin t.entries \/ ~Parses(p)
                       THEN Abort /\ UNCHANGED disk
                       ELSE /\ tree' = move_fuse_node(t, p, u)
                            /\ disk' = [disk EXCEPT ![p] =
                                          icalcomponent_mark_as_directory(@)]
                            /\ queue' \in IF disk[p].isdir
                                            THEN {Tail(queue)}
                                            ELSE modified({Tail(queue)}, p)
                            /\ UNCHANGED <<proc, watcher, pending>>

-----------------------------------------------------------------------------
(* The FUSE handlers                                                       *)

\* getattr, readdir, read and the like change nothing, but they open the file
\* of the node, as does every handler that is given a node before it changes
\* anything; and readdir asserts that the file of each child has a component.
FuseRead(n) ==
  /\ proc = "mounted"
  /\ n \in Attached(tree)
  /\ ~Readable({n}) \/ \E child \in ChildSet(tree, n) : ~Parses(child)
  /\ Abort
  /\ UNCHANGED <<disk, torn, requests>>

\* create_entry_from_fuse, called for fuse_create and fuse_mkdir.  dir is None
\* when the directory the kernel still knows cannot be resolved any more.
CreateEntry(dir, name, c) ==
  /\ proc = "mounted"
  /\ dir \in IF Stale THEN Attached(tree) \cup {None} ELSE Directories
  /\ ~pathIsHidden(fuse_path(dir, name))
  /\ dir # None => lookup(tree, dir, name) = None
  /\ UNCHANGED torn
  /\ \E u \in Fresh :
       LET t == create_fuse_node(tree, u, name)
       IN  IF ~Readable({dir})
             THEN Abort /\ UNCHANGED disk
             ELSE IF dir = None \/ dir \notin Directories
             THEN tree' = t /\ UNCHANGED <<proc, watcher, disk, queue, pending>>
             ELSE /\ disk' = [disk EXCEPT ![u] =
                       IF dir = Root
                         THEN c
                         ELSE set_parent_child_relationship(dir, c)]
                  /\ tree' = add_child(t, dir, u)
                  /\ queue' \in created({queue}, u)
                  /\ UNCHANGED <<proc, watcher, pending>>

FuseCreate(dir, name) ==
  /\ Request({"create"})
  /\ CreateEntry(dir, name, create_vjournal_entry(name))

FuseMkdir(dir, name) ==
  /\ Request({"mkdir"})
  /\ CreateEntry(dir, name, create_vjournal_directory(name))

\* fuse_write and the handlers that set an attribute: the file is written
\* again, with another text or another value.  They assert that it had one.
FuseWrite(n) ==
  /\ proc = "mounted"
  /\ Request({"write"})
  /\ n \in Shown
  /\ Readable({n})
  /\ UNCHANGED <<disk, torn>>
  /\ IF n \in torn
       THEN Abort
       ELSE /\ queue' \in modified({queue}, n)
            /\ UNCHANGED <<proc, watcher, tree, pending>>

\* The file goes, the node stays.
DeleteEntry_fileonly(n) ==
  /\ disk' = [disk EXCEPT ![n] = NoFile]
  /\ torn' = torn \ {n}
  /\ queue' \in notify({queue}, Deleted(n))
  /\ UNCHANGED <<proc, watcher, tree, pending>>

\* delete_vdir_entry
DeleteEntry(n) ==
  /\ disk' = [disk EXCEPT ![n] = NoFile]
  /\ torn' = torn \ {n}
  /\ tree' = delete_fuse_node(tree, n)
  /\ queue' \in notify({queue}, Deleted(n))
  /\ UNCHANGED <<proc, watcher, pending>>

FuseUnlink(n) ==
  /\ proc = "mounted"
  /\ Request({"unlink"})
  /\ n \in Shown
  /\ Readable({n})
  /\ ~node_is_directory(tree, disk, n)
  /\ DeleteEntry(n)

\* A directory is removed with what is in it.
FuseRmdir_unchecked(n) ==
  /\ proc = "mounted"
  /\ Request({"rmdir"})
  /\ n \in Shown
  /\ Readable({n})
  /\ node_is_directory(tree, disk, n)
  /\ DeleteEntry(n)

FuseRmdir(n) ==
  /\ proc = "mounted"
  /\ Request({"rmdir"})
  /\ n \in Shown
  /\ Readable({n})
  /\ node_is_directory(tree, disk, n)
  /\ ~node_has_children(tree, n)
  /\ DeleteEntry(n)

\* What the kernel refuses: a name that stays the same, a target that is not
\* in a directory, a directory moved below itself, a directory and a file
\* replacing each other.  However late it is, it takes no file that is just
\* being written for a directory (the code would move the note to the top).
VfsRename(n, dir, target) ==
  /\ target # n
  /\ dir \notin torn
  /\ \/ Stale
     \/ /\ dir \in Directories
        /\ dir \notin Subtree(tree, n)
        /\ target # None => (n \in Directories <=> target \in Directories)

\* The mount point is written as a parent like any other.
moved_component_rooted(c, old, dir) ==
  set_parent_child_relationship(
    dir, IF old = Root THEN c ELSE remove_parent_child_relationship(old, c))

\* The relations after a move from old to dir: at the top nothing is written,
\* not even that the note has left old.
moved_component(c, old, dir) ==
  IF dir = Root
    THEN c
    ELSE set_parent_child_relationship(
           dir, IF old = Root THEN c
                ELSE remove_parent_child_relationship(old, c))

\* fuse_rename deletes an entry that has the new name already, when it can.
Replaceable(target) ==
  target # None =>
    /\ "replace" \in Requests
    /\ ~node_has_children(tree, target)
    /\ Exists(target)

\* fuse_rename and do_agenda_rename.  An entry that has the new name already
\* is deleted before anything else is looked at.
FuseRename(n, dir, name) ==
  LET old    == tree.parent[n]
      target == lookup(tree, dir, name)
      t      == IF target = None THEN tree ELSE delete_fuse_node(tree, target)
      d      == IF target = None THEN disk
                                 ELSE [disk EXCEPT ![target] = NoFile]
      Q      == IF target = None THEN {queue}
                                 ELSE notify({queue}, Deleted(target))
      named  == update_node_file_extension(update_summary(d[n], name), name)
  IN  /\ proc = "mounted"
      /\ Request({"rename"})
      /\ {n, dir} \subseteq Attached(tree)
      /\ VfsRename(n, dir, target)
      /\ dir = Root /\ old # Root => "top" \in Requests
      /\ Replaceable(target)
      /\ torn' = torn \ {target}
      /\ IF ~Readable({n, dir, old}) \/ n \in torn
           THEN Abort /\ disk' = d
           ELSE /\ tree' = move_node(set_node_filename(t, n, name), dir, n)
                /\ disk' = [d EXCEPT ![n] = moved_component(named, old, dir)]
                /\ queue' \in modified(Q, n)
                /\ UNCHANGED <<proc, watcher, pending>>

\* A note that the kernel still knows and that is not there any more: found out
\* by an assertion, after the target is deleted.  (When the new directory is
\* not there any more, the request is refused and nothing is changed.)
FuseRename_unresolved(dir, name) ==
  LET target == lookup(tree, dir, name)
  IN  /\ proc = "mounted"
      /\ Request({"rename"})
      /\ Stale
      /\ dir \in Attached(tree)
      /\ Replaceable(target)
      /\ Abort
      /\ torn' = torn \ {target}
      /\ disk' = IF target = None THEN disk
                                  ELSE [disk EXCEPT ![target] = NoFile]

-----------------------------------------------------------------------------
(* Other programs and the vdir                                             *)

\* Unless "early", they leave the vdir alone while it is not watched.
SyncAllowed ==
  watcher = "watching" \/ proc \in {"down", "aborted"} \/ "early" \in Requests

\* The notes whose files place them below u, and u.
DiskSubtree(u) ==
  LET closed == {S \in SUBSET Uids :
                   /\ u \in S
                   /\ \A v \in Uids : Parses(v) =>
                        (get_parent_uid(disk[v]) \cap S # {} => v \in S)}
  IN  {v \in Uids : \A S \in closed : v \in S}

\* Unless "orphan", a note is written after the note it names as its parent,
\* and not below itself.  Unless "eager", so long after it that a running
\* daemon knows the parent.
ParentsFirst(u, c) ==
  \A i \in 1 .. Len(c.parents) :
    LET p == c.parents[i]
    IN  /\ "orphan" \in Requests \/ (Loadable(disk[p]) /\ p \notin DiskSubtree(u))
        /\ \/ Requests \cap {"orphan", "eager"} # {}
           \/ watcher # "watching"
           \/ p \in tree.live

\* The programs write one file at a time, and cut none that the daemon has for
\* a directory.
MayCut(u) == torn = {} /\ ~node_is_directory(tree, disk, u)

\* A new file is created, empty, and written later.
SyncCreate(u) ==
  /\ SyncAllowed
  /\ "sync" \in Requests /\ requests < MaxRequests
  /\ MayCut(u) /\ ~Exists(u)
  /\ torn' = {u}
  /\ queue' \in notify({queue}, Created(u))
  /\ UNCHANGED <<proc, watcher, tree, disk, pending, requests>>

\* The first half of writing a file again that is there: it is cut to nothing.
SyncCut(u) ==
  /\ SyncAllowed
  /\ Request({"cut"})
  /\ MayCut(u) /\ Parses(u)
  /\ torn' = {u}
  /\ disk' = [disk EXCEPT ![u] = NoFile]
  /\ queue' \in notify({queue}, Modified(u))
  /\ UNCHANGED <<proc, watcher, tree, pending>>

\* The other half; or a file is written again without being cut.
SyncWrite(u, c) ==
  /\ SyncAllowed
  /\ ParentsFirst(u, c)
  /\ Request({"sync"})
  /\ Exists(u) /\ disk[u] # c
  /\ disk' = [disk EXCEPT ![u] = c]
  /\ torn' = torn \ {u}
  /\ queue' \in notify({queue}, Modified(u))
  /\ UNCHANGED <<proc, watcher, tree, pending>>

\* A file that is written elsewhere and renamed into the vdir.  That is an
\* IN_MOVED_TO, which is not in the mask of the watch.
SyncRename(u, c) ==
  /\ SyncAllowed
  /\ ParentsFirst(u, c)
  /\ Request({"syncrename"})
  /\ disk[u] # c
  /\ disk' = [disk EXCEPT ![u] = c]
  /\ torn' = torn \ {u}
  /\ UNCHANGED <<proc, watcher, tree, queue, pending>>

SyncDelete(u) ==
  /\ SyncAllowed
  /\ Exists(u)
  /\ Request({"syncdelete"})
  /\ disk' = [disk EXCEPT ![u] = NoFile]
  /\ torn' = torn \ {u}
  /\ queue' \in notify({queue}, Deleted(u))
  /\ UNCHANGED <<proc, watcher, tree, pending>>

-----------------------------------------------------------------------------

Init ==
  /\ proc = "down"
  /\ watcher = "none"
  /\ tree = EmptyTree
  /\ disk \in InitDisks
  /\ torn = {}
  /\ queue = <<>>
  /\ pending = {}
  /\ requests = 0

Start == (\E u \in Uids : LoadAttach(u)) \/ LoadDone \/ ServeFuse

Watch == StartWatch \/ \E u \in Uids : HandleDeleted(u) \/ HandleChanged(u)

User ==
  \/ \E n \in Nodes : FuseRead(n)
  \/ \E dir \in Nodes \cup {None}, name \in NewNames :
       FuseCreate(dir, name) \/ FuseMkdir(dir, name)
  \/ \E n \in Uids : FuseWrite(n) \/ FuseUnlink(n) \/ FuseRmdir(n)
  \/ \E n \in Uids, dir \in Nodes, name \in NewNames : FuseRename(n, dir, name)
  \/ \E dir \in Nodes, name \in NewNames : FuseRename_unresolved(dir, name)
  \/ LoadScan
  \/ Terminate

Others ==
  \E u \in Uids :
    \/ \E c \in SyncComponents[u] : SyncWrite(u, c) \/ SyncRename(u, c)
    \/ SyncCreate(u) \/ SyncCut(u) \/ SyncDelete(u)

Next == Start \/ Watch \/ User \/ Others

Spec == Init /\ [][Next]_vars

\* Once started, the main thread and the watcher thread keep running.  Nobody
\* is obliged to make a request.
Fairness == WF_vars(Start) /\ WF_vars(Watch)

FairSpec == Spec /\ Fairness

=============================================================================
