# agendafs in TLA+

agendafs mounts a *vdir* (a directory of `<uid>.ics` files, each one VJOURNAL
note) as a file system: a note is a file or a directory, its place is given by
`RELATED-TO;RELTYPE=PARENT`, its name by `SUMMARY` and a file extension, and
extended attributes read and change its other properties. This directory holds
TLA+ models of it, TLC configurations that check them on small instances, and
theorems that TLAPS proves for all instances.

## 1. The system

| component | state | operations | talks to |
|---|---|---|---|
| paths and names (`path.c`) | none | base name, extension, numbered name, hidden test, splitting | used by the store and the handlers |
| ics components (`ical_extra.c`, parts of `fuse_node.c`) | the VJOURNAL in each file | create entry/directory, parent relation get/set/remove, directory mark, extension, X- properties | libical, the files |
| node tree (`tree.c`) | `parent`, `children[]`, `child_count` of each node | add, detach, move, free | the store |
| node store (`fuse_node_store.c`, `agenda_entry.c`) | `fuse_root`, `entries_vdir` (hash map from file name to node), `filename` of each node | create, upsert, delete, rename, add with a unique name, move | tree, hash map |
| loading (`load_root_node_tree`) | builds the store from the directory | scan, then attach every node | store, ics, writes the directory mark |
| FUSE handlers (`main.c`, `fuse_node.c`) | none of their own | getattr, readdir, open, read, create, mkdir, write, unlink, rmdir, rename, the xattr calls | store, ics, files, all under `entries_lock` |
| vdir watcher (`watch_vdir_changes`) | inotify descriptor | handles create, modify and delete events | store, ics, files, under the write lock |
| extended attributes (`fuse_*xattr`, `set_node_*`) | properties of one component | set, remove, list, get | ics, files |
| note contents (`rstrins`, `icalcomponent_insert_description`) | DESCRIPTION | read, splice | ics |
| writing of files (`write_to_file`, `write_ical_file`) | one file | truncate, write, close | kernel |
| `entries_lock` | a readers-writer lock | taken around every handler and event | all handlers |
| hash map (`hashmap.c`, third party) | buckets, `n_buckets`, capacity | insert, get, remove, resize, keys | store |
| arenas (`arena.c`) | pointers with their free functions | register, free all | every operation |
| options (`main`) | `VDIR`, `FILE_EXTENSION` | parse, usage | start-up only |

The disk is the only thing that survives: the tree is a cache of it that three
parties change or make stale. Users change tree and disk together through the
handlers; other programs (sync tools, editors) change the disk alone; the
watcher brings the tree up to date from inotify events, and handles the events
of the daemon's own writes as well. What is hard, then, is not one handler but
the agreement of *tree*, *disk* and *event queue* over sequences of steps of
these parties, restarts included.

What makes each component correct:

* **tree and store**: arrays and parent pointers describe one forest; nothing
  refers to a freed node and each allocated node is in the map; no directory
  has two children of one name.
* **loading**: nobody else touches the tree meanwhile; the result is what the
  files say.
* **handlers**: what they change in memory is what a reload would find on disk;
  no assertion fails; every note stays reachable.
* **watcher**: an event of the daemon's own write changes nothing; with no event
  waiting the tree shows the disk; events come to an end.
* **attributes**: a store of values, as the manual describes it.
* **users alone**: what they see is a tree of directories and files in which every
  request is one step, restarts or not.
* **contents**: a note written anew or appended to is a regular file.
* **lock and file writing**: an operation is one step for all who take the lock;
  what a crash or a full disk leaves is confined to the files of one operation;
  every handler returns.
* **hash map**: a map, whose keys are met once each.
* **arenas**: each block has one owner; what outlives an operation is not in its
  arena, and what is in it is not reached by others.

## 2. The modules

```
Names --- Ics ----------------\
   \                           AgendaFS --- AgendaFSProperties --- MC_AgendaFS --- MC_Mounted, MC_Synced
    \---- NodeTree --- Paths -/--------------/   |        \
              \                                  |    AgendaFS_proofs --- Vdir_proofs
               NodeTree_proofs ------------------+--------/
                                                 |
NotesTree   <== refined by ==  AgendaFS ---------/
XattrStore  <== refined by ==  NoteAttributes --- NoteAttributesProperties --- MC_NoteAttributes
                                                     \--- NoteAttributes_proofs
AtomicStore <== refined by ==  Operations --- OperationsProperties --- MC_Operations
                                                     \--- Operations_proofs
RegularFile <== refined by ==  NoteContents --- NoteContents_proofs
KeyedStore  <== refined by ==  HashMap --- MC_HashMap
                                                     \--- HashMap_proofs
                               Memory --- MC_Memory
                                  \--- Memory_proofs
```

* **Names** models `path.c`. A note is its uid, since its file is `<uid>.ics`
  and the code relies on that (`fuse_node.c:29`). A name is the sequence of the
  labels between its dots: `a.txt` is `<<a, txt>>`. Numbers that
  `filename_numbered` prints are naturals, so that all of them differ.
* **Ics** models a component as the four things that decide where a note is
  shown: summary, directory mark, extension, parent relations in file order.
  The rest of a component does not influence the tree. It keeps the quirks of
  the conversion: an empty value is gone when it is read back, "no extension" is
  written as `.`, a new name without a dot leaves the old extension in place. A name
  that users give is never the empty text, for the kernel has no such entries.
* **NodeTree** models `tree.c` and `fuse_node_store.c` as operators on one record
  (`live`, `entries`, `name`, `parent`, `children`). `detach_tree_node` keeps what
  the C does with an index of `(size_t)-1`; `free_tree` frees what the arrays
  reach, and the map is told of one key only, as in `delete_fuse_node`.
* **Paths** models how a handler gets from a path to a node: `split_path`, the
  directory part and the last name, and the loop of `get_node_by_path` from `fuse_root`
  down. A path is a sequence of names and slashes. The paths users have are those of
  `Walks`: down from the mount point, each step to an entry `readdir` lists. `AgendaFS`
  names the node of a path directly; `PathsResolve` is what allows it to.
* **AgendaFS** is the daemon with its surroundings. Variables: `proc` (down,
  loading, loaded, mounted, aborted), `watcher`, `tree`, `disk` (the component in each
  file), `torn` (the files that are there and hold none, because another program has cut
  or created them and not written them yet), `queue` (inotify
  events not handled yet), `pending` (nodes `load_root_node_tree` has yet to
  attach) and `requests` (a counter that bounds the runs). One action per handler,
  event or step of start-up; the table below gives the correspondence.
* **AgendaFSProperties** states what is to hold of it. **NotesTree** is what a user
  who knows nothing of files, events and restarts takes the mount point for. It begins
  as any tree in which every entry is in a directory, under a name of its own, and can
  be reached from the top.
* **NoteAttributes** models the four xattr handlers on one node: the file's component
  is the state, a request is a step, and a file that cannot be opened gives `EIO`.
  `getxattr` and `listxattr` come with the size of the caller's buffer: what `snprintf`
  leaves of a value (`Cut`), what `memcpy` writes past the end of a buffer, and that it
  may read past the end of the list and end the process. **XattrStore** is the abstract
  store the manuals describe, those of the system calls included: a size of 0 asks for the
  length, a buffer that is large enough gets everything, and a smaller one `ERANGE`.
* **Operations** looks into one operation: the lock, the early returns, the parsing
  of the file, the deletion of a rename's target, then for each changed part the
  truncation and the writing of the file, the return. Threads of libfuse and the
  watcher interleave at each of these points; opening and writing fail; the daemon is
  killed, or exits while the watcher is at work. An operation is given by a record
  (how it locks, whether it is refused, its file, what it removes, which parts it
  writes); the instance has one for each shape the handlers have. A component is
  known by the operation that last changed each of its parts, so that a lost or torn
  change shows. **AtomicStore** is the same with each operation as one step.
* **NoteContents** is the DESCRIPTION of one note under `fuse_open`, `fuse_read`,
  `fuse_write` and `fuse_getattr`; **RegularFile** is a file as POSIX has it.
* **HashMap** has the chains, the capacity and the count of `hashmap.c`;
  **KeyedStore** is a partial function.
* **Memory** is about addresses: which blocks are allocated, registered in an arena,
  or reached from the tree and the map, with addresses used again once they are free.
  Which free block `malloc` gives is not known (`fresh`). No operation needs more than
  five blocks; an operation that meets less room (`HasRoom`) may end the process in
  `util.c`, and is not followed further. What the code loses is taken out of what is owned
  and put into `lost`, at the line that loses it or, where this depends on what the file holds,
  at the end of the operation (`FinishWriting`, `Unlock`); `MaxLost` bounds it. These
  are the numbered name of `add_fuse_child` (`fuse_node_store.c:136`), the component of
  `create_vjournal_directory` (`ical_extra.c:191`), the text of `get_node_categories`
  (`fuse_node.c:406`), and each property that is taken out of a component and not freed
  (`fuse_node.c:115`, 375, 450, 476, 551).
* **MC_Mounted** is the instance of `AgendaFS` in which users are alone, **MC_Synced**
  one in which a sync tool writes beside them; they assume `UsersAlone` and `SyncBeside`,
  the hypotheses of the theorems about them, which TLC evaluates.
* The modules that end in **_proofs** hold the theorems: section 6.

| action of AgendaFS | code |
|---|---|
| `LoadScan`, `LoadAttach`, `LoadDone` | `load_root_node_tree`: the `readdir` loop, one turn of the key loop, the return to `main` and `pthread_create` |
| `ServeFuse` | `fuse_main`, which forks unless `Foreground` |
| `Terminate` | unmount or kill, between two handlers or while loading; `LoadScan` starts it again |
| `StartWatch` | `inotify_add_watch` in the watcher thread |
| `HandleChanged`, `HandleDeleted` | `handle_vdir_event` with `update_or_create_fuse_entry_from_vdir`, `delete_from_vdir_path` |
| `FuseRead` | getattr, readdir and every other reading of a node: no effect unless its file is gone, or the file of one of its children is gone or holds no component, and then a failed assertion (`Abort`) |
| `FuseCreate`, `FuseMkdir` | `fuse_create`, `fuse_mkdir`, `create_entry_from_fuse`, `insert_fuse_node_to_path` |
| `FuseWrite` | `fuse_write` and the handlers that set attributes: the file is written, nothing the tree depends on changes; a file without a component fails an assertion |
| `FuseUnlink`, `FuseRmdir` | with `delete_vdir_entry` |
| `FuseRename` | `fuse_rename` with `do_agenda_rename`, an existing target included |
| `FuseRename_unresolved` | the same for a note that is not there any more: `assert(child_node)`, `fuse_node.c:769` |
| `SyncCreate`, `SyncCut`, `SyncWrite` | other programs: a new empty file, a file cut to nothing, the writing of either or of a file that was not cut |
| `SyncRename`, `SyncDelete` | other programs: a file renamed into the vdir, a file deleted |

**Granularity.** Every handler and every event runs under the write lock of
`entries_lock` (reads under the read lock), and nothing in a handler waits for
another thread, so a handler is one step with respect to the others. Other
programs do not take the lock; a step of theirs inside a handler is moved to
just before or after it. That is an abstraction: a file removed between two
opens of one handler fails the same assertion that a file removed before it
does. That a handler may be taken for one step is what `Operations` checks, which
has its parts, and what a crash or an error inside of one leaves. That another program
writes a file in two halves, with handlers and events between them, is in `AgendaFS`
itself: it is the only writing the watch of the vdir sees.

| action of Operations | code |
|---|---|
| `Call` | libfuse calls a handler; the watcher has read an event |
| `FUSE_READ_BEGIN`, `FUSE_WRITE_BEGIN` | the macros of `main.c`; for the watcher the lines of `handle_vdir_event` |
| `Refuse` | every `goto cleanup_return` before something is changed |
| `Remove` | `delete_vdir_entry`, of an unlinked note or of the target of a rename |
| `Parse`, `Abort` | `parse_ics_file` and its assertion |
| `Truncate`, `Put` | `fopen(.., "w")` and `fputs`, `fclose` in `write_to_file`, once for each of `update_summary`, `update_node_file_extension`, `write_parent_child_components` in a rename |
| `FUSE_CLEANUP` | unlocking, and the end of the handler |
| `Crash`, `Restart` | a signal, or `exit` after `pthread_cancel`; a new process |
| `Sync` | another program replaces or removes a file |

The order in `Memory` is that of the code: an arena is made under the lock
(`FUSE_READ_BEGIN`, `FUSE_WRITE_BEGIN`), the handler's work is one step (`Create`,
`Rename`, `Replace`, `Unlink`, `Update`, or `Leave` for one that changes no node), which
ends with unlocking, and `Free` is the `free_all` after it.

**What the kernel does.** `VfsRename` and the guards of `CreateEntry` are the
checks the kernel makes before it calls a handler, from directory entries it
caches. The request kind `stale` lifts them: a handler is then called for a
directory that was moved, removed, or turned into a file meanwhile.
`notify` is inotify's queue: no event for an unwatched directory and none beyond the
limit. `IN_CREATE`, `IN_MODIFY` and `IN_DELETE` are three kinds of event, so a new
file that is written queues two. An event that equals the last one queued is merged with
it, unless the watcher has read that one into its buffer already; which of the two is not
known, so `notify` gives a set of queues. Truncating a file and writing it are each an
`IN_MODIFY`: `modified` queues two, which stand for any number of equal ones.

**Requests.** Each instance lists the kinds of requests it admits. Besides the
handlers they are: `replace` (rename onto an existing entry), `top` (rename from
a directory to the top level), `stale`, `sync`, `syncdelete`, `syncrename`,
`cut` (another program cuts a file to nothing before it writes it again),
`orphan` (another program writes a child before its parent, or below itself),
`eager` (it writes a child before the daemon has handled the parent), `early` (it
changes the vdir while a starting daemon does not watch it yet), `terminate`.

## 3. Runs that pass

| run | question | instance | states |
|---|---|---|---|
| `Store` | Does anything at all break the tree or the map, or lead a path astray? | all kinds of requests, 4 of them, 3 uids, one name for all, a queue of 2 events | ~230 000 (under symmetry) |
| `Mounted` | Is it a directory tree for users alone, and always what a reload would give? | 6 requests, 3 uids, 2 names, every orderly vdir of notes and one directory, restarts, a queue of 2 | ~44 600 (under symmetry) |
| `Synced` | Does the daemon come to listen to the vdir and to show it, and show it whenever no event waits? | users and a sync tool that creates files and writes them later, 4 requests, 3 uids, one name for all notes, liveness | ~174 000 |
| `Attributes` | Do attributes behave as the manuals say, whatever buffer they are read into? | every request, buffers of 5 sizes, notes of four origins and the root | ~23 600 |
| `HashMap` | Is it a map, and is the walk over its keys complete? | 5 keys, two with one hash, arrays of 2 to 16 chains | ~2 500 |
| `Operations` | Is an operation one step, and does each end? | 2 threads of libfuse and the watcher, 2 files, 2 writers, crashes or changes by others | ~38 000 |
| `Contents` | Can a program tell a note from a regular file? | texts of up to 4 bytes, pieces of up to 2 | ~1 000 |
| `Memory` | Is every block freed once, and by who owns it, but for the known leaks? | a thread of libfuse and the watcher, 2 notes, 15 blocks, 2 of them lost | ~2 900 000 (under symmetry) |

* **Store** checks the parts of the inductive invariant of section 6, with every
  kind of request at once. Four requests are enough for a child, a parent, a
  conflict of names and a deletion or restart on top, and events can be handled
  between any two of them. With a queue of 2 the overflow happens, on the creation and
  writing of one file already. `PathsResolve`
  walks from the root for every path a user can have read, and for every name in
  use below every node.
* **Mounted** checks `TreeIsReload` (names, parents and directory marks on disk are
  those of the tree, in every state), `EntriesShown`, `ShownHaveFiles`,
  `NeverAborts`, and the action property `OwnEventsInvisible`: handling an event the
  daemon caused changes no name and no place. `LikeAFileSystem` is the refinement of
  `NotesTree`: an entry is what `readdir` and `getattr` show of it, or, while nothing is
  mounted, what its file says. Each handler is then one step of an ordinary tree or
  none, and events, restarts, and kills between two handlers or while the daemon loads, are
  none. (A kill inside a rename is in `Operations`: it may leave the new name with the old
  place.) Six requests allow two nested
  directories, a file, and three moves or removals among them; the run starts with any
  vdir of notes, and a directory that may hold them, which is in order (`Orderly`).
  Left out are `top`
  (see `MoveToTop`), names without an extension, and other programs. With
  names that lose their extension the property does not hold either: renaming
  `a.txt` to `a` keeps the stored extension (`update_node_file_extension` returns
  early), and the next event or restart names the note `a.txt` again.
* **Synced** adds another program that writes any note with any one parent, in the
  order a sync tool that writes parents first has. A new file is empty between its
  creation and its writing, and users, the watcher and restarts find it so; one that is
  written again is not cut first, as `cut` has it: see section 4. All notes have one summary, so
  that each arrival is a conflict of names. `QuietTreeReflectsVdir` accepts a
  numbered name, since numbers are only given in memory, and for a directory the
  name of the file it was when it was scanned. Left out: rename by users while
  another program changes parents (the two together can make notes parents of each
  other, and no program could show that), and deletion (see `GhostNote`).
  `ComesToListen` and `ComesToReflectVdir` are liveness, under `WF(Start)` and
  `WF(Watch)`. The first is the main thread, which runs `load_root_node_tree` and
  `fuse_main` without waiting for anybody; the second is the watcher thread, which
  polls every 100 ms. `Watch` is enabled until the queue is empty. No fairness is
  assumed of users or other programs, nor of a restart. The write lock is taken to be
  granted in the end; `EveryHandlerReturns` says when it is.
* **Attributes** shows the refinement `XattrStore <= NoteAttributes`: the abstract
  store is what `getxattr` reads. `Deviates` names the requests that do something
  else than the manual says; every other one, also after one of these, is a step of
  the store. What a request does to the store is seen by what a read of every attribute
  would give, and a read with a buffer is a request of its own; the buffers are of no size, of
  the length of a value and one more, of the length of the list of a new note, and larger
  than all. The deviations are: removing `dtstart` or setting it to nothing (`clear_dtstart`
  searches the VCALENDAR, the date is in the VJOURNAL, `fuse_node.c:372`); removing
  `class` (`create_vjournal_entry` adds the property twice and `delete_node_class`
  removes the first) and setting it on a note that has none (`set_node_class` sets it
  on the NULL it found); an invalid `status` (`parse_ical_status` makes it *final*, so
  the check for an invalid one in `fuse_setxattr` never fires); a value of exactly 64
  kilobytes, which the manual allows and `>= 64 * 1024` refuses; removing `uid`
  (reported as done, nothing happens); `getxattr` with a buffer of just the length that
  was announced, or a shorter one (`snprintf(buf, s, ..)` gives the last byte to its NUL, and
  there is no `ERANGE`, `main.c:624`); `listxattr` with a buffer that is too small (the
  guard is the wrong way round, and `memcpy` writes the whole list, `main.c:581`), or
  with one that is more than a byte larger than the list, which is then read past the NUL
  behind it and may kill the daemon; any request on the root except for categories,
  class and status (the component is NULL, and an assertion fails or NULL is
  followed).
* **HashMap**: `k1` and `k3` have one hash, the others share chains in a small array and
  part in a larger one, in different steps, so that growing moves entries from the
  middle of chains, and removal unlinks first, middle and last ones. The array grows
  three times. `KeysFit` is about two counts kept by different code: the room
  `hashmap_get_keys` allocates and the entries it then meets. With a value set twice
  `n_buckets` runs ahead of the entries, which costs memory and breaks nothing.
* **Operations** shows the refinement `AtomicStore <= Operations`. The abstract store is
  the files as they are outside of a writer's critical section (`stored`). An
  operation is one step, when the lock is given back; a writer whose write failed, or
  that is cut off by a crash, leaves each of its own files as before, as after some of
  its writes in their order, or damaged, and all others as they are. So a crash in a
  rename leaves the new name with the old place but never a change without those
  before it; and in one that replaces a note, possibly the deletion alone.
  `ParsesWholeNotes` says a reader never gets what a writer has half done.
  `EveryHandlerReturns` is liveness under `WF(Run(t))` for each thread: the kernel runs
  every thread, and a call of the lock returns when nobody is in its way. It says that
  readers always get in and out, and that writers, the watcher among them, do unless
  readers overlap for ever: entries_lock prefers readers, and then a writer may
  starve. Other programs do not lock. `Sync` leaves alone the files of the operation
  under way, which would write over them: see section 4.
* **Contents** shows the refinement `RegularFile <= NoteContents`. Programs open with
  `O_TRUNC` and write from the beginning, or append, or change the end: writes that
  leave nothing behind them. The text between an open with `O_TRUNC` and the first
  write is empty for the abstract file and the old one in the note; nobody looks
  at it meanwhile. Two pieces make a text, with every offset of a second read or write.
  Any other handler writes the component anew and any other program its file, empty
  DESCRIPTION included.
* **Memory** has 15 blocks: when an operation begins no more than 10 are in use, so
  that there is room for the five it may need. `OneOwner` allows what the code is known to
  lose (section 2), at most two blocks of it in a run, what a cancelled watcher leaves, and
  nothing else: whatever is still allocated and not lost that way is in one arena or
  belongs to one note. That is CONTRIBUTING.md's "Avoid mixing `memory_region` pointers
  with global state", and more. The two notes are symmetric.
  `HeldNamesStay` is what lets `get_node_filename` hand out a pointer: writers are kept
  out while readers are in.

Deadlock is not checked: a run ends when its requests are used up.

## 4. Runs that find a violation

Each checks one property that the documentation or a comment states, and is
listed as a finding with the text it contradicts.

| run | property | what happens |
|---|---|---|
| `MoveToTop` | `OwnEventsInvisible` | the move of a note from a directory, one that was created in it will do, to the top (`mv dir/note .`) is not written to disk; the event of the rename itself, or a restart, puts the note back into `dir`. With a second move of `dir` below the note, the files name each other as parents and both are unreachable from then on. |
| `DaemonBlind` | `ComesToListen` | without `-f`, the fork of `fuse_main` leaves the watcher thread behind |
| `GhostNote` | `QuietTreeHasNoGhosts` | the deletion of a file is looked up under `VDIR/uid.ics.ics`, so the note stays, and reading it fails an assertion. (Should the key be corrected, `assert(node->child_count > 0)` contradicts the comment above the function, "Caller needs to ensure the node has no children".) |
| `MiddleWrite` | `LikeARegularFile` | a write that ends before the end of the text cuts off what follows it (`rstrins`) |

Met while modelling, and left to the reader of the code:

* An event of a note whose parent the daemon does not know yet ends it:
  `update_or_create_fuse_entry_from_vdir` passes the NULL of the lookup on to
  `move_fuse_node` (`fuse_node.c:733`), which loading tests for (`fuse_node.c:307`). The
  file is read when the event is handled, so a program that writes a note, a directory,
  and the note again below it can cause this. The request kinds `orphan` and `eager`
  have it, in `Store`, which a failed assertion does not violate; `Synced` leaves them
  out.
* `IN_MOVED_TO` is not watched (`main.c:764`): a file written elsewhere and renamed into
  the vdir, as sync tools do, is not shown before the next mount (request kind
  `syncrename`, in `Store`).
* A note that another program writes while a handler has parsed it and not written it
  yet is overwritten with what the handler has read.
* `fuse_write` reports a failed write as done: `write_ical_file` returns a `size_t`, and
  `>= 0` always holds (`main.c:250`).
* `: > note` leaves the text as it was, for nothing follows the open with `O_TRUNC`. A
  write behind the end is not padded. Text behind a NUL is lost.
* `readdir` of a directory with an empty or damaged file in it fails an assertion
  (`main.c:126`), while `read` of that file gives `EIO`. A program that writes a note in
  place, which is the only writing the watch sees, makes the file empty for a while:
  listing the directory in between ends the daemon, as does setting an attribute of the
  note, or an event that marks the empty file as a directory (`ical_extra.c:411`). The
  request kind `cut` has it, in `Store`; `Synced` and the theorems about `SyncBeside`
  leave it out.
* A rename into a directory whose file is empty at the moment moves the note to the top,
  where the new name was not looked up; creating in such a directory, if it has
  children already, writes no relation to it. The models leave these two out
  (`VfsRename`, `MayCut`).
* A value read with a buffer of the announced length lacks its last byte, and a list read
  with one that is too small is written past its end: `Deviates` of section 3.
* `get_node_by_path` has room for 255 segments and `split_path` does not count.
* A summary with a slash in it gives a name that no path can have.
* `get_node_categories` registers a NULL before `open_memstream` sets the pointer
  (`fuse_node.c:408`), so that its text is never freed, and a property that is removed from
  a component (`fuse_node.c:115`, 375, 450, 476, 551) belongs to nobody; every
  `listxattr`, `fuse_create` and rename can lose memory this way (`CanLose` of `Memory`).
* Between the scan of the vdir and `inotify_add_watch` a change is missed
  (request kind `early`).
* `pathIsHidden` tests the first character of an absolute path, which is `/`:
  dot files are not refused, although agendafs(8) says so. The model keeps the test
  as it is.
* With `ext=`, a note that only becomes a directory while it is loaded keeps the
  extension in its name until the next event or restart.
* `readdir` passes the directory instead of the child to `get_node_stat`; only the
  attributes of the entry differ, which the kernel asks for again.
* `rename` ignores its flags.

## 5. Mutants

Each property of a passing run has a mutant: a definition in the modules, right
before the one it alters, that changes it as a plausible bug would: an element is
shifted one place too late, a directory is removed without the check for children,
a number is not tested again, an old relation is not removed, the watcher is
started before loading, an early return keeps the lock, a reader does not look for
writers, a copy copies pointers, growing the array moves the heads of chains only. `PROJECT.json` pairs them with the properties they break.

## 6. What is proved

All theorems follow from the named assumptions on the constants alone, and those the
table says so of from one more hypothesis about the instance. `AgendaFS_proofs` and
`Vdir_proofs`, with `NodeTree_proofs` for what the operators of the tree preserve, are about
any set of notes and labels, any initial vdir, any queue limit and any number of requests;
`Operations_proofs` about any threads, files and operations of up to three writes;
`NoteContents_proofs` about any bytes and any lengths of texts and pieces;
`NoteAttributes_proofs` about any attributes, values, limits of length and requests;
`Memory_proofs` about any threads, notes, size of memory and choice of free blocks;
`HashMap_proofs` about any keys, values, hashes and initial capacity.

What is assumed of constants is evaluated by TLC on every run: values that stand for
"nothing" are not values of another kind (`NodeAssumption`, `NoFileAssumption`,
`NoEntryAssumption`, `MemoryAssumption`, ...), labels and numbers differ
(`LabelsAssumption`), the path of a file is not a uid (`FullPathAssumption`), and no
attribute is both built in and custom, as its prefix decides (`NamesAssumption`).
There are finitely many uids (`PathsAssumption`), for they are files of one directory.
`UsersAlone` and `SyncBeside` are not among these. They are hypotheses of the theorems of
`Vdir_proofs`, about the requests and the vdirs at the start of an instance, and
`Mounted` and `Synced` are instances that satisfy them.

| theorem | property |
|---|---|
| `TypeCorrect` | `Spec => []TypeOK` |
| `TreeStaysConsistent` | `Spec => []TreeConsistent` |
| `NoUseAfterFree` | `Spec => []NoDanglingNode` |
| `PathsAreUnambiguous` | `Spec => []SiblingNamesUnique` |
| `PathsLeadToNotes` | `Spec => []PathsResolve` |
| `LoadIsUndisturbed` | `Spec => []LoadUndisturbed` |
| `LockingIsExclusive` | `Spec => []TypeOK` of `Operations` |
| `OperationsAreAtomic` | `Spec => AtomicOperations`, the refinement of `AtomicStore` |
| `ReadersSeeWholeNotes` | `Spec => ParsesWholeNotes` |
| `RepliesFit` | `Spec => []TypeOK` of `NoteContents` |
| `NoAssertionFails` | `UsersAlone` implies `Spec => []NeverAborts` |
| `ReloadFindsTheSame` | `UsersAlone` implies `Spec => []TreeIsReload` |
| `ShownNotesHaveFiles` | `UsersAlone` implies `Spec => []ShownHaveFiles` |
| `NoNoteIsLost` | `UsersAlone` implies `Spec => []EntriesShown` |
| `OwnEventsChangeNothing` | `UsersAlone` implies `Spec => OwnEventsInvisible` |
| `UsersSeeAFileSystem` | `UsersAlone` implies `Spec => LikeAFileSystem`, the refinement of `NotesTree` |
| `NoAssertionFailsBesideSync` | `SyncBeside` implies `Spec => []NeverAborts` |
| `QuietTreeShowsVdir` | `SyncBeside` implies `Spec /\ []RoomForEvents => []QuietTreeReflectsVdir` |
| `AttributesKeepTypes` | `Spec => []TypeOK` of `NoteAttributes` |
| `AttributesKeepPromises` | `Spec => KeepsAttributes`, the refinement of `XattrStore` |
| `MemoryKeepsTypes` | `Spec => []TypeOK` of `Memory` |
| `EveryBlockHasOneOwner` | `Spec => []OneOwner` |
| `NamesHandedOutStay` | `Spec => []HeldNamesStay` |
| `CountStaysANumber` | `Spec => []TypeOK` of `HashMap` |
| `KeysFitTheirArray` | `Spec => []KeysFit` |
| `KeysAreMetOnce` | `Spec => []KeysOnce` |
| `LookupsAreThoseOfAMap` | `Spec => IsAMap`, the refinement of `KeyedStore` |
| `NoteIsARegularFile` | `~AnyOffset` implies `Spec => LikeARegularFile`, the refinement of `RegularFile` |

**The tree.** The inductive invariant is `Inv`, the conjunction of the five (each is checked by
`Store` as well). None is inductive alone. `shift_down` drops the *first* child when
the node is not in its parent's array, so that arrays and pointers must agree
(`TreeConsistent`) for a detached node to leave no trace; deletion frees a subtree
and tells the map of one key only, so that `NoDanglingNode` rests on the handlers
deleting leaves, or, for `unlink`, on `node_is_directory` being true of every node
with children; placing a node by `add_child` keeps names unique only because the
handler looked the name up before, and by `move_node` in a rename because the
target was deleted before; and loading rests on every pending node being allocated
and unplaced, which nobody else may change (`LoadUndisturbed`).

The lemmas follow the code. In `NodeTree_proofs`: the arrays have no repetition
(from `Linked` and uniqueness of names), `shift_down` removes exactly one element,
detaching, adding, moving, upserting and freeing a leaf each preserve a good tree,
and among `count + 1` numbered names one is free, so that the loop of
`add_fuse_child` ends with a name that is new. A tree in the middle of
`upsert_fuse_node` and `move_fuse_node` may have one name twice; `GoodBut(T, c)`
is the invariant with the name of `c` set aside. In `AgendaFS_proofs`: one lemma
per action, combined in `NextInv`. The recursion of `without_parent` is a function
on an interval, whose existence and type are proved with the least counterexample.

**Paths.** `PathsResolve` follows from `Inv` and one more invariant, `Named`: no node has
the empty text for a name. `split_path` drops what lies between two slashes if it is
empty, so a node without a name could be listed and never be reached. Every name comes
from a user, from `entry_filename` or from `filename_numbered`, which always print
something. Splitting and the loop of `get_node_by_path` are recursive functions on
intervals; what they give for the path of a walk is proved by the least counterexample,
for trees of any depth. That the walks reach every attached node, with no more steps
than there are uids, needs that a walk never comes to one node twice: its parents lead
back to the root, one step for each.

**Users alone.** `Inv` says nothing of files, and whether an assertion fails, or whether
the tree is what a reload would give, depends on them. `UserInv` adds three things. The
vdir is in order (`Orderly`): each file has a summary and at most one parent, which is a
directory that is there; no two notes of one directory have one name; and every note is
below the mount point. No assertion has failed. And the tree `Matches` the files: each
node that is attached has the parent and the name its file asks for, and the nodes are
exactly the files. With pending events in the queue this is what makes them
harmless: `ChangedAlone` shows that an event, whichever, is handled by writing what is
there already, and so nothing is assumed of the queue. `Orderly` is not preserved by
accident: a user who moves a directory below itself is refused by the kernel
(`VfsRename`), and the lemma for a move needs exactly that, as a set of notes which is
closed downward, has the moved note and lacks the target (`MovedOrderly`).

`FileStep` is what a request is to the files: nothing, one made, one deleted, one moved, or
one moved into the place of another that is deleted. Every action is a `FileStep`
(`NextUser`), and what is shown is what the files say (`ShownEntries`). The refinement of
`NotesTree` is then about files only: a file made, deleted, moved, replaced is an entry
made, deleted, moved (`MadeIsMake`, `DeletedIsDelete`, `MovedIsMove`, `ReplacedIsMove`),
and an orderly vdir is a tree (`OrderlyIsTree`). `UsersAlone` cannot be weakened much:
`MoveToTop` shows what moves to the top do, and names without an extension break
`TreeIsReload` (section 3).

**A sync tool beside users.** `SyncBeside` lets users create and write notes, and another
program write any file with a summary: a new one, which is empty until it is written, or one
that is there already, with another name or in another place. It lets the daemon be killed
between two handlers or while it loads, and started at any time. A file that is there is
written as a whole: that the program does not cut it first is a condition, for the daemon
does not survive the empty file (`cut`, section 4). The
program writes a note when the daemon knows its parent, never below itself
(`ParentsFirst`), and only while the vdir is watched or no daemon runs (`SyncAllowed`);
each of these conditions is needed, as section 4 says of `orphan`, `eager`, `early` and `cut`.
Nothing is deleted, and users rename nothing.

No assertion fails because of `SyncInv`: every note is below the mount point and has a
summary (`Tidy`), every node has its file, and the parent of every file has a node
whenever the daemon runs, so that the lookup in `update_or_create_fuse_entry_from_vdir`
succeeds in whatever order events are handled. `Tidy` says what `Orderly` does of
reachability and nothing of names, which the program may give twice. That a write keeps
it is `WrittenTidy`: a set of notes that is closed downward, with the note and without
its new parent, stays out of the way from the mount point to the parent. Events that
are lost do no harm to `SyncInv`.

`FollowInv` is what `QuietTreeReflectsVdir` becomes while events are waiting: of every file,
either the node is `Settled`, that is about to be attached by loading, or where the file
says and under a name the file asks for, or an event for it is in the queue. Writing a
file unsettles its note and queues an event, unless the last one queued is the same, which
serves as well (`NotifyAdds`). Handling an event settles its note, whatever the file
says by then (`PlacesOne`); attaching it cannot unsettle another, and where the parent is
marked as a directory, which changes the names its file asks for, the old ones are still
accepted (`MarkedComponent`). The number in a name is bounded by the number of notes
in the directory, which is what `AddFuseChildNumber` and `MoveFuseNodeNumber` say and the
names of `NamesFor` need. When the queue is empty nothing waits, and the way from the mount
point through the files is one through the tree (`QuietShows`).

A full queue loses events, and then the tree may stay behind for good: hence
`[]RoomForEvents` in `QuietTreeShowsVdir`, which is a hypothesis about the kernel and the
scheduling of the watcher thread, and not one the daemon can keep: a new file that is written
is two events and more, one or two are queued again when a directory is marked, and nothing
is known of how soon the watcher reads them. `Synced` has a queue that its
requests do not overfill.

**Attributes.** `TypeOK` is inductive. The refinement has one part for each handler. `SameRefusals`: the checks of `fuse_setxattr` refuse what
the manual does, except for a value of 64 kilobytes and a status nobody knows.
`SetKeepsPromise` and `RemoveKeepsPromise`: a request that is carried out changes what
`getxattr` reads of this attribute, as asked, and of no other, whatever component it
starts from, so that a note which another program wrote, or which went through one of
the `Deviates` requests, is treated the same. `GetIsPromised`: with a size of 0 or one
larger than the value, for whatever lengths, the answer is the one promised, and
`Deviates` has the others. `ListIsPromised`: the list names what `getxattr` finds
(`ListIsGet` compares them for each kind of attribute), and comes whole into a buffer of just
its length or with a byte to spare; into a larger one it comes whole or the daemon is dead.

**Memory.** `IInv` says of the heap that nothing was freed twice and that the arenas, the
notes and the lost blocks are disjoint and make up what is allocated (`Exclusive`),
and of the threads that an arena is filled only between `FUSE_READ_BEGIN` or
`FUSE_WRITE_BEGIN` and `Free`, that a writer is alone, and that a name held by a reader is
the filename of a node. An operation is a chain of up to five allocations and frees; one
lemma for each function of the C (`RmallocKeeps`, `SetFilenameKeeps`, ...) passes on that the
heap is `Exclusive` and how much room is left. `Free` runs without the lock: it
takes blocks from its own arena, which no note has. What an operation loses at its end
(`FinishWritingStep`, `UnlockStep`) is one more allocation, of a block that is nobody's from
the start.

**Hash map.** An array is `Proper` when each entry is in the chain its hash names and no
chain has a key twice; `IInv` adds that there are no more entries than `n_buckets`
counts. `TypeOK` is not inductive without it: that the count does not pass below zero
rests on the entries, of which a removal has found one. What matters of a proper array
is its `Content`, the set of entries. `Inserts` and `Removes` say what happens to that
set, `EntriesMetOnce` that the walk over all chains meets each of it once, and
`GrowingKeepsEntries` that re-linking every chain leaves it as it is. The walk and the
growing are recursive functions on intervals; `UpTo` is the induction for them. A proper array
also means that the search through all other chains (`HM_DONTTRUSTHASH`, which `hashmap.h`
leaves out) would never find anything (`InItsChain`).

**Operations.** The inductive invariant `IInv` adds to the types who holds the lock and
how (`Locking`), and what the files are while a writer is at each of its places (`Left`):
as they were before it (`Untouched`), without those it removes (`Removing`), or, between
its writes (`Writing`), its own file what some of the writes have made of it, or damaged,
and its copy in memory what all of them have made of it. From `Left` follows the last part
of `TypeOK`, that a writer leaves no file cut to nothing, of those it found whole, but its
own. The copy is needed because a
write that fails is made good by the next one. `NextWrite` is the one fact about data:
one more `edited` part is one more part `changed`. `LeftIsTorn` then says that whatever
`Left` allows, `AtomicStore` allows of a crash; the return of a writer maps to a whole
operation, to a failed one, or, after an early return, to nothing; every other step of a
handler is hidden by the lock. For a reader the lock is all that is needed.

**Contents.** `Rstrins` states what `rstrins` returns byte by byte. If a write leaves
nothing behind it, the old text matters up to the offset only, where the abstract file,
which may have been truncated, agrees with it (`WriteIsAWrite`); `ReadIsARead` compares
the two ways of cutting a read short at the end of the text. `MiddleWrite` shows that the
assumption `~AnyOffset` cannot be dropped.

Only model-checked:

* liveness (`ComesToListen`, `ComesToReflectVdir`, `EveryHandlerReturns`), which TLAPS
  has no proof rules for;
* what other programs do beyond `SyncBeside`: deletions, files cut before they are written
  again, files renamed into the vdir, notes without a parent that is there (`Store` has all of these, for the shape of the tree;
  `NeverAborts` does not hold then).

## 7. Bounds

`MaxRequests` bounds the number of requests in a run and is a guard of each request,
not a constraint, so that liveness is meaningful. `Uids` has three members: a
directory, a child, and a third note that conflicts with one or is moved. Uids are
symmetric in the runs of safety. `QueueLimit` is 2 where overflow is of interest and
10, which is all that the run can have in the queue at a time, where it is not: after an
overflow the tree need not show the vdir. Two equal events stand for any number of
truncations and writes of one handler: with one, and with two of which the watcher has read
the first, every handling of an event before and after the next request is there.
`MayCut` has one file empty at a time, and none that the daemon has for a directory.
`Store` gives one name only, so that every create and rename meets a conflict if there
is another note in the place. `SyncComponents` gives every note any one parent or none and the
same summary. A component has at most one parent when another program wrote it, and
any number when the daemon did.

`Operations` has its own `MaxRequests`, of writers, crashes and changes by others;
handlers that read are not counted and may overlap for ever. Two of them are a writer
that meets another, or a crash within one, or a change by another program. The keys of
`HashMap` are enough for three growths; `MaxCount` stops the count, which inserting one
key again and again would carry on. `MaxLength` and `MaxPiece` in `Contents` let two
pieces overlap in every way. `Sizes` in `Attributes` has a buffer for every case of the
comparison with the length of a value and of a list. `MaxLost` in `Memory` is 2, so that what
is lost in one operation and in the next are told apart, and `MaxBlocks` leaves room for
all that is not lost.

## 8. Not modelled, and the plan

Still planned:

1. **Composition**: handlers of the tree with a crash inside (`Operations` has the crash
   and not the tree; `AgendaFS` has files without a component, of other programs).
2. **Other programs that write inside a handler**, once it is said what they may
   expect.

The hash map lacks `hashmap_free` as an operation of its own (it happens once, at exit,
and is part of `Memory`), printing, and the search through all chains under
`HM_DONTTRUSTHASH`, which is not compiled and, by `InItsChain`, would find nothing.

Left out for good: libical itself (its effect on the four properties is in `Ics`), the
wording and layout of files, log output, parsing of options, time stamps, permissions
and the sizes of directories in `getattr`, `utimens` and `readlink`, which do nothing,
failures of malloc, which end the process.
