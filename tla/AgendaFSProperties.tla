------------------------- MODULE AgendaFSProperties -------------------------
(***************************************************************************)
(* What agendafs is to guarantee.                                          *)
(***************************************************************************)
EXTENDS AgendaFS, Paths

\* Every variable has its type.
TypeOK ==
  /\ proc \in {"down", "loading", "loaded", "mounted", "aborted"}
  /\ watcher \in {"none", "created", "watching"}
  /\ tree \in Tree
  /\ disk \in [Uids -> Component \cup {NoFile}]
  /\ torn \subseteq {u \in Uids : ~Parses(u)}
  /\ queue \in Seq(Event)
  /\ pending \in SUBSET Uids
  /\ requests \in 0 .. MaxRequests

-----------------------------------------------------------------------------
(* The store: whatever users and other programs do                         *)

\* The parent pointers and the child arrays of tree.c describe one forest,
\* after any sequence of attaching, detaching and freeing.
TreeConsistent == Linked(tree)

\* Neither entries_vdir nor the tree refers to a node that free_tree has
\* freed, and every allocated node can be found through entries_vdir: the
\* handlers free a node only when nothing is below it.
NoDanglingNode == NoDangling(tree)

\* No directory lists one name twice, so that a path names one note: the
\* numbers add_fuse_child gives out, and the deletion of the target before a
\* rename, are enough for every mixture of handlers and events.
SiblingNamesUnique == UniqueNames(tree)

\* The path a user gets by going down from the mount point leads every handler
\* to the note he saw, and to its directory and name; a path that he cannot get
\* that way leads to nothing (get_node_by_path).
PathsResolve == Resolves(tree)

\* No other thread touches the tree while load_root_node_tree builds it, and
\* the notes it has yet to place are allocated and have no place.
LoadUndisturbed ==
  /\ proc \notin {"loaded", "mounted"} => watcher = "none"
  /\ pending # {} => proc = "loading"
  /\ \A u \in pending : u \in tree.live /\ tree.parent[u] = None

\* What every step preserves: each part needs the others.
Inv ==
  /\ TypeOK
  /\ TreeConsistent
  /\ NoDanglingNode
  /\ SiblingNamesUnique
  /\ LoadUndisturbed

-----------------------------------------------------------------------------
(* The tree and the vdir                                                   *)

\* The parent a component asks for.
WantedParent(c) == IF c.parents = <<>> THEN Root ELSE c.parents[1]

\* "Each node corresponds to a file on the system" (parse_ics_file): no note
\* that a user can reach has lost its file.
ShownHaveFiles == \A u \in Shown : Exists(u)

\* Once every event is handled, what other programs deleted is gone.
QuietTreeHasNoGhosts ==
  proc = "mounted" /\ watcher = "watching" /\ queue = <<>> => ShownHaveFiles

\* No assertion of the daemon fails and no NULL is followed.
NeverAborts == proc # "aborted"

Started == proc \in {"loaded", "mounted"}

\* At any moment the tree is the one that loading the vdir afresh would give:
\* every note in the vdir is in the tree with the name and the parent its
\* file says, what has children is marked as a directory in its file, and
\* there is nothing else.
TreeIsReload ==
  Started =>
    /\ tree.live = {u \in Uids : Loadable(disk[u])}
    /\ \A u \in tree.live :
         /\ tree.name[u] = entry_filename(disk[u])
         /\ tree.parent[u] = WantedParent(disk[u])
         /\ node_has_children(tree, u) => disk[u].isdir

\* Every VJOURNAL entry in the vdir can be reached from the mount point.
EntriesShown ==
  proc = "mounted" => \A u \in Uids : Loadable(disk[u]) => u \in Shown

\* The events caused by the daemon's own writes change nothing: handling one
\* leaves every name, every place and every file as it is.
OwnEventsInvisible ==
  [][(\E u \in Uids : HandleChanged(u) \/ HandleDeleted(u)) =>
       /\ tree'.name = tree.name
       /\ tree'.parent = tree.parent
       /\ disk' = disk]_vars

-----------------------------------------------------------------------------
(* Users alone *)

\* A name with an extension and something before it: a hidden file is none.
Ordinary(name) ==
  /\ Len(name) > 1
  /\ get_file_extension(name) # Blank
  /\ without_file_extension(name) # <<Blank>>

Files(D) == {u \in Uids : D[u] # NoFile}

\* Every file has a summary and at most one parent, a directory that is there.
ProperFiles(D) ==
  \A u \in Files(D) :
    /\ D[u].summary # <<>>
    /\ Len(D[u].parents) <= 1
    /\ D[u].parents # <<>> =>
         WantedParent(D[u]) \in Files(D) /\ D[WantedParent(D[u])].isdir

\* No two notes of one directory have one name.
DistinctNames(D) ==
  \A u, v \in Files(D) :
    u # v /\ WantedParent(D[u]) = WantedParent(D[v]) =>
      entry_filename(D[u]) # entry_filename(D[v])

\* What has every note whose parent it has.
ClosedDownward(D, S) ==
  \A u \in Files(D) : WantedParent(D[u]) \in S => u \in S

\* Every note is somewhere below the mount point.
Rooted(D) ==
  \A S \in SUBSET Nodes :
    Root \in S /\ ClosedDownward(D, S) => Files(D) \subseteq S

\* A vdir as users leave it who have it for themselves.
Orderly(D) == ProperFiles(D) /\ DistinctNames(D) /\ Rooted(D)

\* The vdir is orderly to begin with, users give ordinary names and move
\* nothing to the top, the kernel is never late, and nobody else writes.
UsersAlone ==
  /\ Requests \subseteq {"create", "mkdir", "write", "unlink", "rmdir", "rename",
                        "replace", "terminate"}
  /\ \A name \in NewNames : Ordinary(name)
  /\ \A D \in InitDisks : Orderly(D)

\* NULL is no entry.
ASSUME NoEntryAssumption ==
  None \notin [dir : Nodes, name : Names, isdir : BOOLEAN]

\* What a user finds at the mount point; while nothing is mounted, what the
\* files of the vdir say.
VisibleEntries ==
  LET reachable == Shown
  IN  [u \in Uids |->
         IF Started
           THEN IF u \in reachable
                  THEN [dir |-> tree.parent[u], name |-> tree.name[u],
                        isdir |-> node_is_directory(tree, disk, u)]
                  ELSE None
           ELSE IF Loadable(disk[u])
                  THEN [dir |-> WantedParent(disk[u]),
                        name |-> entry_filename(disk[u]), isdir |-> disk[u].isdir]
                  ELSE None]

Directory ==
  INSTANCE NotesTree WITH
    entry <- VisibleEntries, Ids <- Uids, Top <- Root, NoEntry <- None,
    EntryNames <- NewNames

\* "Edit these files like you would on a regular filesystem": whatever the
\* handlers do to files, components and nodes, each request of a user is one
\* step of an ordinary tree of directories and files, and neither the events of
\* these requests, nor killing the daemon between two handlers or while it is
\* loading, nor starting it again changes anything in it.
LikeAFileSystem == Directory!Spec

\* The name a file asks for.  A directory that load_root_node_tree was the
\* first to mark as one keeps the name it was scanned with, as a file.
PlainNames(c) == {entry_filename(c), entry_filename([c EXCEPT !.isdir = FALSE])}

\* The names the note may be shown under: a numbered one when it was taken.
NamesFor(c) ==
  PlainNames(c) \cup {filename_numbered(name, k) :
                        name \in PlainNames(c), k \in 1 .. Cardinality(Uids)}

\* u is shown where its file says, under a name for it.
Reflected(u) ==
  /\ u \in Shown
  /\ tree.parent[u] = WantedParent(disk[u])
  /\ tree.name[u] \in NamesFor(disk[u])

VdirReflected == \A u \in Uids : Loadable(disk[u]) => Reflected(u)

\* Users create and write notes, a sync tool writes files beside them: only
\* files with a summary, each after its parent and while the daemon watches
\* the vdir or is not there at all.  Nobody deletes or renames anything, and
\* nobody cuts a file: the tool may create one empty and write it later, but
\* one that has its text gets another in one write, without O_TRUNC before it.
SyncBeside ==
  /\ Requests \subseteq {"create", "mkdir", "write", "sync", "terminate"}
  /\ \A name \in NewNames : Ordinary(name)
  /\ \A u \in Uids : \A c \in SyncComponents[u] : c.summary # <<>>
  /\ \A D \in InitDisks : Rooted(D) /\ \A u \in Files(D) : D[u].summary # <<>>

\* The kernel has room for one more event.
RoomForEvents == Len(queue) < QueueLimit

\* When no event is waiting, the mounted tree shows the vdir.
QuietTreeReflectsVdir ==
  proc = "mounted" /\ watcher = "watching" /\ queue = <<>> => VdirReflected

\* A mounted daemon comes to listen to the vdir: the watcher thread outlives
\* the start of fuse_main.
ComesToListen == proc = "mounted" ~> (watcher = "watching" \/ proc # "mounted")

\* Once requests stop, the daemon, if it is there, comes to show the vdir,
\* and stays so: no event sets off others without end.
ComesToReflectVdir ==
  <>[](proc = "down" \/ (proc = "mounted" /\ queue = <<>> /\ VdirReflected))

=============================================================================
