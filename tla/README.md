# A verification project for BookmarkFS

BookmarkFS mounts the bookmarks of a web browser as a FUSE file system. This
directory holds TLA+ models of its parts, the TLC configurations that check
them on small instances, and TLAPS proofs of theorems for all instances. Each
definition that models code is mapped to its lines in `PROJECT.json` ("map");
the same file lists the runs, the mutants that show that each property can
fail, the hazards the properties are aimed at and the findings.

Run a configuration with `tlc -workers 2 -config X.cfg MCModule`, the proofs
with `tlapm XProofs.tla` for each of the eight modules `*Proofs.tla`.

## 1. Inventory

The daemon serves FUSE requests in one thread. Each request goes through the
frontend (`fs_ops.c`), which calls the backend's `bookmark_*` functions. The
Chromium backend asks its watcher whether the bookmark file has changed; the
watcher has a second thread. The Firefox backend asks SQLite. Other processes
(the browser, editors, another mount) change the bookmarks at any time. The
file system checker uses the backend directly (offline) or the ioctls of the
mounted file system (online).

```
 client processes --FUSE--> fs_ops.c --bookmark_*()--> backend_chromium.c --watcher_poll()--> watcher.c
   (interleaved requests)   file handles               document + 3 hash maps (hashmap.c)    worker thread
   kernel's readdir cache   dir handles                ctx->dirty, store, checksum           fanotify/kqueue/fstatat
            ^                    |                        | json.c: load, dump + rename            |
            |                    |                        +----------> bookmark file <-------------+
 fsck_online.c (ioctls)          |                                          ^ browser, editors
 fsck_offline.c ---bookmark_*()--+---> backend_firefox.c --db.c--> SQLite database <--- browser
            ^                          (transactions, tags, keywords, data_version)
 fsck.c, fsck_handler_simple.c
```

| component | state | operations | what is hard | what makes it correct |
|---|---|---|---|---|
| File watcher (`watcher.c`) | flags IDLE and DEAD, mutex, condition variable, pipe, kernel's marks and event queue, or `old_stat` | `watcher_create`, `watcher_poll`, `watcher_destroy`, the worker's loop | two threads, a file that is replaced between two system calls, errors, joining a thread that may be anywhere | no change between arming and watching is lost; every change is reported; destroy returns; descriptors do not leak |
| Chromium backend, store (`backend_chromium.c`, `json.c`) | `store`, its address, `checksum`, `dirty`, cookies | `store_load`, `store_save`, `bookmark_get`, `bookmark_set`, `bookmark_sync`, `backend_destroy` | the file changes between any two steps; the save's own event; failing saves; addresses compared after `free()` | a stale store is about to be noticed; local edits survive; -EAGAIN means unchanged |
| Chromium backend, tree | JSON document, `id_map`, `assoc_map`, `guid_map`, `max_id`, directory cookies | `bookmark_create`, `_delete`, `_rename`, `_permute`, `_set`, `_check`, `_list`, `build_maps` | long sequences of legal requests over four structures that must agree; hidden names; reloads in between | maps and document are one tree; what is listed can be looked up; saving and loading changes nothing; streams return each entry once |
| Hash map (`hashmap.c`) | buckets with hop bits and parts of hash codes, `exp`, `num_used` | search, insert, update, grow, shrink | displacement that gives up half way, rehashing in both directions, indices kept across one | a search finds what is there and nothing else |
| Firefox backend (`backend_firefox.c`, `db.c`) | `moz_bookmarks`, `moz_places`, `moz_origins`, `moz_keywords`, `data_version` | the same `bookmark_*` interface, in transactions | reference counts kept by hand, positions of siblings, purges that reach into other folders, statements that fail, crashes, another writer | the tables agree; a request is done or not; EAGAIN means unchanged |
| Regular files (`fs_ops.c`) | `struct fs_file_handle`: buffer, DIRTY and MTIME flags, mtime, cookie, reference count | open, read, write, truncate, utimensat, fsync, release | order of requests over two flags; a write-back of two calls, either of which may fail; other programs changing the bookmark | what was written is read; the time stamp is the last one given; the cache is coherent |
| Directories (`fs_ops.c`) | directory handles, cookies shared by readdir and fsck, the fsck lock, DIRTY | opendir, readdir, fsync, close, permd and fsck ioctls, create, unlink, rename | several handles on one inode; the kernel's cache of entries | the lock has an owner; what the kernel keeps is current or marked |
| fsck (`fsck*.c`) | stack of directories, shared buffer of entries, the handler's flags | the two walks, the handler, the user's commands | calls that fail in mid-walk, commands in any order, repairs that need repair | nothing leaks; all that is due is examined; it ends |
| Mount (`mount.c`, `lib.c`), sandbox, `mkfs.c`, `bookmarkctl.c` | start-up state | option parsing, daemonisation | - | resources are released |
| Utilities (`xstd.c`, `prng.c`, `uuid.c`, `base16.c`, `base64.c`, `md5.c`, `xattr.c`) | none | encodings, digests | - | the repository's test vectors |

## 2. Plan

1. `Watcher` - both threads, three implementations. Done, with proofs.
2. `ChromiumSync` - the backend's store over `Watcher`. Done, with proofs.
3. `FileHandle` - regular files over an abstract backend. Done, with proofs.
4. `ChromiumStore` - the tree and its maps. Done for `filename=title`, with
   proofs of every property that is checked.
5. `FirefoxStore` - transactions, positions, tags and keywords, with the
   abstract `BookmarkTree` that it implements; `FirefoxFile` - an open file
   over it, and another writer. Done, with proofs of all but the refinement.
6. `DirHandle` - directory handles, ioctls, the kernel's cache. Done, with
   proofs.
7. `Hashmap` - hopscotch hashing and the client that keeps an index. Done, with
   proofs of every property.
8. `Fsck` - the loop, both walks and the built-in handler. Done, with proofs
   of every safety property.
9. What is not proved stays with TLC; the end of section 5 says why.

## 3. The modules

### Watcher

The variables are the file system as the watcher sees it (the inode the name
refers to, what each inode holds, its `st_mtim`, inodes moved away or unlinked
but open), the kernel's notification object (`marks`, `events`), and `struct
watcher` with the positions of the worker and the client. The worker holds the
mutex from its start until it parks in `pthread_cond_wait()`, so a critical
section of the client is one step; every system call of the worker is a step of
its own. The actions of other processes (`Modify`, `Create`, `Replace`,
`Unlink`, `MoveAway`, `LastClose`) happen between any two of them. `impl`
says which `impl_*` functions were compiled in. fanotify reports the deletion of
an inode that is still open only when it is closed; kqueue at once.

### ChromiumSync

EXTENDS `Watcher` and composes with it: a request of the FUSE thread begins
with `store_load()`, whose `watcher_poll()` is an action of `Watcher` in the
same step, and then reads the file in a later step, so that the file may change
in between. `store_save()` is a rename over the file, followed by the
`watcher_poll()` that discards the save's own event. What a store holds is the
serial number of the write or edit that made it; `Checksum` gives its checksum;
addresses are taken from a small set, because `bookmark_get()` compares them
after the store was freed. `missed` is a history variable: it says that one of
the two calls of `impl_rearm()` outside `store_load()` armed the watcher on a
file that the store does not mirror.

### FileHandle

One file and the handle that all its open descriptions share. The backend is
abstract: `url` and `remtime`, a `version` that other programs advance, and
calls that may fail (`Failing`). `posix` and `touched` are history: what the
file should hold and the time it was last given. Content is a sequence of
characters bounded by `FileMax` = `file_max`. The options `exclusive`, `eol`
and `ctime` are chosen in the initial state (`mount`), from `Mounts`.

### ChromiumStore

`children`, `title`, `folders`, `guid` are the JSON document; `parent`, `shown`
and `assoc`, `guids` are `id_map`, `assoc_map` and `guid_map`; `maxId` is
`ctx->max_id`. An entry of `assoc` records the parent and name it was *hashed*
with, because `hashmap_search()` finds an entry only in the bucket of the hash
code it is given; a resize hashes afresh, and may happen with each insertion or
removal (`Resized`). `BuildMaps` is what loading makes of a document: names that
are invalid or taken by an earlier sibling are hidden, and so is everything
below them. Bookmarks are named by title; tops are the bookmark bar and "other
bookmarks". Of dates there is only `outdated`, a history variable: the folders
whose entries have changed since their `date_modified` was set, each with what
changed them, a request or `fsck_apply()`, which sets no date at all. The cookie
that opendir makes of a stream is left out (`ListOpen` is the first read, which
copies the children afresh).

### FirefoxStore and BookmarkTree

`db` is the database in the file and `wdb` what the connection sees: both are
records of the four tables, `touched` being the folders whose `lastModified` a
transaction has set. The statements (`mozbm_*`, `mozplace_*`, `mozorigin_*`,
`mozkw_*`) are functions from databases to databases, and a request is the
function that its statements make up. It becomes visible in three steps:
`Execute` (BEGIN IMMEDIATE up to the last statement), then `TxnEnd` (COMMIT) or
`TxnRollback` (any statement, or COMMIT, has failed), with `Crash` possible in
between; a crash leaves `db`, which is what SQLite's journal gives. BEGIN
IMMEDIATE keeps other writers out, so nothing changes `db` in between. Rows
that the browser adds and this program never does (a separator, a tag that is
there at first) are in the initial state, the bookmark with any name or with one
that is no valid filename (`BadName`). `FsckApply` gives such an entry another
name, in a transaction that updates the row only: the folder's `lastModified`
stays, and the name may be one that another entry has. `MozbmInsertAgain` is the
loop of `mozbm_insert()`.

`BookmarkTree` is what a backend promises: folders with their entries in an
order, names, URLs and keywords, and a request that takes effect in one step or
not at all; a repair may leave two entries of one name. The refinement mapping
reads the order from the positions; counts, origins and positions have no part
in it. `TreeRefined` is thus about what a user sees: entries end up where they
were asked to go, a replaced entry leaves its place to the new one, and
deleting the last bookmark with a URL takes its tags and keywords along.

### FirefoxFile

EXTENDS `FirefoxStore` with one open file of `fs_ops.c` and a browser that
commits between any two steps of `bookmark_get()`: `GetVersion` (PRAGMA
data_version), `GetQuery`, `GetCookie`. `alive` is history: the row has been
there since the file was opened.

### DirHandle

`row` are the rows of two directories of the Firefox backend, `handle` the open
descriptions with their `struct bm_lcookie` (`map` is `dentry_map`, `idx` the
position of the check) and their offset, `fh` the
`struct fs_file_handle` of each inode, and `cache` what the kernel keeps of it.
The kernel adds what it reads at the position where its cache ends, drops
everything when it changes the directory itself, and otherwise only when
`inval_inode()` tells it to. `overtaken` and `patchy` are history: they mark a
stream in the middle of which the directory has changed, and a cache that such
a stream has filled. The fsck ioctls use the `dentry_map` of the stream of the
same description, so that they overtake it as well. FSCK_APPLY may be asked for any
row of the directory, reported or not. `ReaddirEnd` may fail at will, because
`bookmark_list()` returns a status that is not set when no row is left.

### Hashmap

The table with its real bucket layout: hop bits as a set, the part of the hash
code that is kept beside them, `exp - 1` additional buckets. Words have
`WordSize` bits and tables `ExpMin` to `ExpMax`, so that tables with four
buckets grow, overflow and shrink within five entries. The loops of
`make_room()` and `rehash()` are recursive functions (`Swaps`, `Readds`) whose
values are the states of the loop; a `rehash()` that fails leaves the table as
it is. The retry of `hashmap_insert()` after it has enlarged the table is a step
of its own. `Replace` is `bookmark_rename()` of
the Chromium backend, a client that keeps an index across a removal.

### Fsck

The stack of directories, `dir_stack_top` (`top`) and the local pointer of
`fsck_next()` (`dir`), which differ while it runs; `dent_buf` of the online
walk; the handler's flags; `open` counts the descriptors and cookies of each
directory. A name is the number of faults that its repairs bring to light one
after the other. A malformed name is always found and never stored. One that is
but taken (`Taken`) is valid as the text of a name: a check may report it or not
(`Reports`; Firefox knows the names of its `dentry_map` only, and none without
one), a listing may show it (`Listings`), `openat()` may open its namesake
(`Opened`), and APPLY may refuse it or store it, in which case either of the two
is found under it from then on (`StoreTaken`). Commands are the user's, up to `MaxCommands`; `p` and wrong
commands change nothing and are left out. `seen` is history.

## 4. Runs

| run | module | what it shows | bounds |
|---|---|---|---|
| Watcher | MCWatcher | `NoLostChange`, `Handshake`, `TypeOK`; `ChangeIsReported` and `DestroyReturns` under fairness | fanotify and the fallback; 2 inodes, 4 writes, system calls may fail |
| WatcherKqueue | MCWatcher | `NoWatchFdLeak`, also with spurious wake-ups and a coarse clock | 2 inodes, 4 writes |
| ChromiumSync | MCChromiumSync | `StaleOnlyIfMissed`, `EditsSurvive`, and `FreshUnlessMissed` under fairness, with failing saves and loads and with addresses reused, over the fallback watcher | 2 inodes, 2 addresses, 3 writes and edits |
| File | MCFileHandle | `ContentKept`, `CacheCoherent`, `MtimeKept`, `TypeOK`, with other writers and failing write-backs | 2 descriptions, 3 characters, 5 clock ticks, four mounts in which every two options meet in every combination |
| ChromiumStore | MCChromiumStore | `MapsMatchTree`, `LookupMatchesList`, `SameAfterReload`, `FoldersStamped`, `TypeOK`, and `ReadOnce` for a stream over the bookmark bar | 2 top folders, 3 more nodes (2 while a stream is open), 2 valid names and an invalid one, 3 GUIDs |
| FirefoxStore | MCFirefoxStore | `RefCountsMatch`, `PositionsDistinct`, `TreeConnected`, `FoldersStamped`, `TypeOK`, and `TreeRefined` | a menu, a tag, a tagged bookmark, a separator and 1 more row, of which the bookmark and the other row may be repaired; 2 names and an invalid one, 2 URLs of one origin, 1 keyword, positions to 3; both file name modes |
| FirefoxFile | MCFirefoxFile | `AgainIsFresh` | the same, 2 commits of the browser |
| DirHandle | MCDirHandle | `StateHasOwner`, `KeptIsCurrent`, `TypeOK` | 2 descriptions of a folder and a tag, 2 rows with 2 valid names and an invalid one, 1 change besides repairs, exclusive mode |
| Hashmap | MCHashmap | `SearchIsExact`, `BucketsDistinct`, `LargerTableFits`, `TypeOK` | 5 entries, hash codes 0, 1, 8 and 31 of 5 bits, tables of 2 to 4 bits |
| Fsck | MCFsck | `HandlesMatchStack`, `BufferHasOwn`, `AllExamined`, `RepairIsComplete`, `TypeOK`, and `AlwaysReturns` under fairness | 4 directories, three deep, 2 bookmarks, the names of one directory in the root and of the one below it wrong, with up to 3 faults, the last of which is that the name is taken, 4 commands |
| HashmapReplace | MCHashmap | violation of `IndexIsCurrent` | as Hashmap |
| FirefoxGuid | MCFirefoxStore | violation of `RequestsReturn` | as FirefoxStore with 1 more row |

Why the bounds are enough to be interesting. Two inodes and four writes allow a
file to be moved away, replaced, brought back and changed again between two
steps of the worker, with the inode number reused. Two addresses are what it
takes for a store to return to the address of its predecessor's predecessor.
Three characters hold a hole, an overwritten and an appended byte at `file_max`.
Three nodes besides the top folders allow a nested folder, a rename over an
entry in the same and in another folder, and a hidden duplicate with a third
sibling to move around; an id is used again after the last bookmark is deleted
and the file is loaded. In `FirefoxStore` a folder gets three entries, so that
a shift has something to move and something to leave alone, positions get gaps
by renames and run out, and a place is referred to by a bookmark, a tag and a
keyword at once. Two rows, of which either may have a wrong or a duplicate
name, and two descriptions are what the shared lock and the shared cache of
`DirHandle` need; the theorems of section 5 are about any number of them.
Five entries with colliding and neighbouring hash codes fill
the neighbourhood of a bucket, make `make_room()` displace entries of other
homes and give up, and bring the table to its limit and back. Four directories
let one call of `fsck_next()` leave a directory and enter another one, with
`Chunk` = 2 entries to a `getdents()` call and a stack that must grow. Three
faults are a malformed name, one that its repair leaves malformed, and one that
is taken then; both names are among those of directories, so that a directory is
entered, missed or entered in place of its namesake according to its name. In
`FirefoxStore`, `Repaired` names the rows that FSCK_APPLY is asked for; the
proofs are about all of them, the separator among them.

Names, GUIDs, entries and descriptions are only compared, so permuting them is
a sound symmetry; no liveness is checked with it. `CHECK_DEADLOCK FALSE` where
bounds on writes, time, changes, commands or ids are reached, where the watcher
is destroyed and fsck has ended.

Fairness. The watcher's worker is scheduled whenever it can run, which includes
the 2.5 s timeout of the fallback. The client goes on polling while it runs
(each request calls `watcher_poll()`), and finishes a `watcher_destroy()` it has
begun. No process keeps an unlinked file open for ever (needed for
`FAN_DELETE_SELF`). Nobody has to change the file or to destroy the watcher. In
`ChromiumSync` the client goes on sending requests and a request that was begun
is finished; failures are not fair. In `FirefoxStore` a transaction goes on (the
daemon runs), and in `Fsck` the program does, while the user may stop typing.

## 5. Proofs

A theorem is about every value of the constants that the named ASSUMEs of a
module allow; a run is about one of them. Each `*Proofs` module has the same
order: lemmas on the operators of the model, the inductive invariant, one step
per action that shows that it is kept, and the theorems. All inductive
invariants, but for their types, were checked by TLC on the instances of the
runs as well.

What is assumed of constants is what the code has: in `FirefoxStore` there is a
position (`MaxPos` > 0) and the rows of a new database have ids; in `Fsck`,
`Tree` maps each directory to the sequence of its entries, each entry has one
parent, and going up ends at the root (`BelowRootAssumption`: without it there
could be a cycle of directories that no walk comes to); in `ChromiumStore`, the
GUIDs are none of the model's names for the top folders (`GuidAssumption`); in
`Hashmap`, 1 < `ExpMin` <= `ExpMax` < `WordSize` and hash codes are words; in
`DirHandle` there are finitely many open descriptions and at least as
many positions as ids (`MaxId` <= `MaxPos`), so that the bound on positions is
never what refuses a request, and one of the directories is the folder. The
bounds on writes, time, changes and commands are any numbers. The hypotheses of
single theorems (`FineClock`, `Exclusive`, no spurious wake-ups) are named where they are used: without each of them the theorem
is false, and TLC shows it.

### WatcherProofs

For every set of inodes, every bound on writes and all three implementations:

- `TypeCorrect`: `Spec => []TypeOK`, from `TypeInv`, which adds that the clock
  does not run ahead of the writes.
- `NoChangeIsLost`: `Spec => []NoLostChange`, assuming `FineClock` (the fallback
  implementation has exact time stamps; no assumption for the other two).
  `NoLostChange` only speaks of an armed watcher and is not inductive. The
  inductive invariant `NoLostChangeInv` adds three facts: `ClockInv`, that with
  the fallback every write has its own `st_mtim`, so that `fstatat()` tells two
  contents apart; `ParkedInv`, that a worker that waits or has ended has set
  IDLE, so that it does not count as armed; and `WatchInv`, what an armed watcher
  holds on to while nothing has changed: it is attached to the inode that the
  name refers to, with the content it was armed on, or has something to notice
  (with the fallback, `old_stat` has the time stamp of the armed content). Each
  action of another process then either leaves the attached inode in place or
  queues an event.
- `HandshakeHolds`: `Spec => []Handshake`, assuming no spurious wake-ups. With
  them it is false: `pthread_cond_wait()` is not called in a loop.
- `NoWatchFdLeaks`: `Spec => []NoWatchFdLeak`, from `WatchFdInv`: while the
  kqueue worker is parked, no descriptor is open.

### ChromiumSyncProofs

EXTENDS `WatcherProofs`: a step of the composition is a step of the watcher, a
rename of `store_save()`, which is a `Replace` of it, or a poll; the watcher's
invariants are cited, not proved again.

- `SyncTypeCorrect`: `SyncSpec => []SyncTypeOK`, from `StoreInv`: serial numbers
  are handed out in order, a store is only loaded while nothing is unsaved, and
  the checksum is one of a store or has been freed.
- `StaleStoreIsNoticed`: `SyncSpec => []StaleOnlyIfMissed` with `FineClock`, for
  the three implementations. The inductive part is `KeptInv`: as long as no
  change was missed, the store of a client between requests is what the armed
  watcher was armed on, or there is something to notice. Together with
  `NoLostChangeInv` of the watcher this gives the property.
- `EditsAreKept`: `SyncSpec => EditsSurvive`, an action property, from `StoreInv`.

### FileHandleProofs

For any alphabet, `file_max`, number of descriptions and mount options, and any
failing calls.

- `TypeCorrect`, from `TypeInv`: time stamps are behind the clock (`PastInv`),
  and a buffer that is one character longer than `file_max` ends with the newline
  that the write-back strips (`TailInv`), without which the bound on the
  bookmark's content is not inductive.
- `ContentIsKept`: `ContentKept` compares contents up to a last newline, which a
  write behind it would not preserve. `ContentInv` says more: a buffer that holds
  the file *is* what POSIX says, and the bookmark of a clean file is that content
  without its newline.
- `CacheIsCoherent`: `CacheCoherent` is inductive with `TypeInv`.
- `MtimeIsKept`, from `MtimeInv`: the time is in the handle as long as MTIME is
  set and is then younger than the backend's; otherwise the backend has it. One
  case is excepted, because the code loses the time: a `utimensat()` that the
  backend refuses while a write is unsaved clears MTIME all the same
  (`UtimensFails` makes `touched` `Lost`, `fs_ops.c:1132`), after which nothing
  is claimed until the next write, truncation or `utimensat()`.

### ChromiumStoreProofs

For any number of ids, names and GUIDs, with repairs and reloads anywhere
between the requests. All theorems follow from one inductive invariant,
`StoreInv`, since each request reads and writes the document and the three maps
together:

- `DocInv`: the document is a tree. That everything can be reached from the root
  is not kept by a single move as it stands; what is kept is that every node is
  in one folder, once, and that no set of nodes keeps to itself (`Tree`). That
  everything is reached follows: the ids that `Below` has not reached would be
  such a set. The recursive functions of `Below` and `ShownIn` are shown to exist
  and to end with a closed set, because each value is larger than the one before
  and there are no more values than ids.
- `MapInv`: `id_map` has the nodes of the document with their folders, but for
  nodes that a rename has replaced, which are empty; no node has an id that is
  still to be given.
- `AssocInv`: an entry of `assoc_map` is hashed with the name and folder that its
  node has now, or that name in that folder was given by `fsck_apply()`
  (`repaired`). `GuidInv`: `guid_map` has one entry for each node of `id_map`.
- `StreamInv`: what has stayed in the directory of a stream is in its copy of the
  children, once, and was returned exactly if it is before the offset.

The theorems: `TypeCorrect`; `MapsAreTheTree` (`MapsMatchTree`); `ListedIsFound`
(`LookupMatchesList`), in which a resize may hash any part of the map afresh;
`ReloadChangesNothing` (`SameAfterReload`), that `BuildMaps` of the document
gives the maps of the requests; `FoldersAreStamped` (`FoldersStamped`), that a
folder that is older than its entries is one in which `fsck_apply()` has named an
entry, so that each request stamps the one folder, or both, that it changes;
`EntriesAreReadOnce` (`ReadOnce`).

### FirefoxProofs

About `FirefoxStore` and `FirefoxFile`, for any number of rows, positions, names,
URLs and keywords, both file name modes, rollbacks and crashes. `StoreInv` says that the committed database, and
that of a transaction that may be committed, satisfy `BmOK` and `Counted`, and
that the latter is a change of the former that the request may make.

- `ReferencesAreCounted`: `Counted` is `RefCountsMatch` with cardinalities of the
  sets of rows and keywords of a place. Each statement is shown to move a count
  and the number of references together; the transaction in which
  `mozbm_insert()` has counted a place whose row is not there yet (phase
  "insert") is the one that is exempt.
- `PositionsStayDistinct`: the two shifts are shown to be injective on the
  siblings, for any start and end.
- `TreeStaysConnected`: a walk from each row to the root is not something that an
  action keeps. `Grounded` is: no non-empty set of rows without the root contains
  all parents of its rows. Deleting an empty folder, moving a folder that is not
  above its new parent, and purging bookmarks preserve it; that a row reaches the
  root follows with a minimal counterexample over the steps of `Below`, whose
  sets grow until they hold the root.
- `CommitsStampFolders`: `Stamped`, that the entries of folders that are not in
  `touched` are as before, but for the folder of a repair, in which names may
  have changed. It needs `Marked`: what `mozplace_purge()` deletes in other
  folders are rows of tags.
- `AgainIsAlwaysFresh`: `data_version` does not change with the commits of this
  connection, so versions alone say nothing. `FileInv` relates the handle, the
  version that was polled and the query; `UrlsOf` (a part of `StoreInv`) says
  that no request but a write changes the URL of a row that stays.
- `TablesStayInOrder`: the invariants of the tables with a browser that commits
  between any two steps.

### FsckProofs

For every tree of directories, both walks, all options, any commands and any
failing call.

- `HandlesAreClosed` and `BufferIsShared`, from `WalkInv`: the frames in use are
  a path from the top (`PathOf`), on which no directory is twice because each has
  one parent; the open directories are those on it (`OpenOf`); and what lies
  between a frame's position and the beginning of the next frame was read from
  its directory (`BufOf`). `top` and `dir` differ while `fsck_next()` runs, which
  is why all three are about a stack with `Last` frames.
- `TypeCorrect`, with `LoopInv`: a name that is shown to the handler has a fault.
- `DueIsExamined` (`AllExamined`) and `RepairsAreComplete` (`RepairIsComplete`),
  which are about a whole walk. No frame is left of a directory that was walked
  through, so that the invariant (`BehindInv`) says that there is a set `L` of
  such directories: the names of each are examined, or skipped, and repaired if
  nobody may say no (`Passed`), and each of their subdirectories that is listed is
  in `L` as well or was pruned (`WalkedFrom`). A frame says the same of the part
  of its directory that is behind it (`FrameInv`): the names up to `idx`, and of
  the entries up to `read` those that are neither in `L`, nor on the stack, nor
  still in the frame's part of the buffer. `Leave` adds the directory to `L`,
  SKIP_CHILDREN takes it out, and a RESET makes `L` empty. A malformed name that
  the check has come to is with the handler until something is stored
  (`AskInv`), and no malformed name is ever stored (`Stores`). Names that are
  taken have no part in the argument: whatever a check reports of them, whatever
  is listed, and whichever are stored, an entry that nothing hides is listed, and
  storing one changes names of the directory on the top only (`StoresValid`), whose
  subdirectories are not entered before its check is through, so that what is
  behind stays behind. At the end the stack is the root; if a directory that is due were
  not in `L`, so would be its parent, up to the root, which
  `BelowRootAssumption` excludes. The lemma `GetdentsReads` says what a
  getdents() call leaves in the buffer, by ranks, and `AboveEquation` that the
  recursive function `Above` exists.

### DirHandleProofs

For any number of descriptions, names and rows, and any bound on changes.

- `TypeCorrect` and `FsckStateIsOwned`: `StateHasOwner` is inductive with the
  types (`OwnerInv`); the reference count is a cardinality.
- `KeptEntriesAreCurrent`: `KeptIsCurrent`, with `Exclusive` (without it
  `inval_dir()` tells the kernel nothing, which then asks for the attributes
  again; the model does not have this). `KeptInv` adds what one
  `readdir()` needs from those before it: positions in the folder are distinct;
  the `dentry_map` of a stream that was not overtaken has exactly the names of
  the rows it has passed, each with the row that is shown (`StreamInv`), so that
  the next row it shows is the next visible one; and what the kernel has so far is
  the list of the visible rows up to where it ends (`CacheInv`). A change through
  the kernel empties the cache; a repair or a permutation marks it (`DirtyInv`);
  the entries of a tag are never kept (`TagInv`). `Listing` is defined by ranks,
  and the lemmas show that adding the next visible row appends to it.

### HashmapProofs

For any entries, keys and hash codes, any width of words and any range of table
sizes (`ExpAssumption`; the code has 8 to 57 on words of 64 bits).

- `TypeCorrect`, `SearchesAreExact` and `BucketsAreDistinct`, from `TableInv`. The
  invariant of a table is `Keeps`: a bit leads to an entry that has its home
  there and the hash bits that are kept beside it (`BitsLead`), an entry has such
  a bit (`EntriesLed`), and is in one bucket (`EntriesOnce`). Within
  `make_room()`, one bucket is excepted (`H`): the free one, which after a
  displacement still holds the entry that was moved out of it. Each swap moves
  this exception nearer to the home (`SwapMaking`), and the end of the insertion
  writes it, or `make_room()` empties it when it gives up, so that both outcomes
  end without one (`MakeRoomKeeps`). An iteration of `rehash()` is such an
  insertion of the next old bucket (`ReaddedAdding`).
- `LargerTablesFit`: growing by one never fails for lack of room. While
  `rehash()` fills a table, nothing is removed, so that there is no empty bucket
  between an entry and its home (`Packed`; `Filling` within `make_room()`).
  Suppose no entry below the free bucket `b` can be swapped there. Then the
  entries in the run of full buckets up to `b` all have their homes at or before
  `b - exp`, and at or after the beginning `a` of the run. In the old table their
  homes were at half these numbers (`HomeDoubles`), and each was less than
  `exp - 1` buckets from its home: the `b - a` entries and the new one had their
  places in at most about half as many buckets, which is too few (`Crowded`).
- tlapm knows neither powers nor recursive functions. `TwoTo` is a recursive
  function, and so are `Swaps` and `Readds`: the lemma `StepsExist` shows that a
  function with such an equation exists, and `TwoToDef`, `SwapsMaking` and
  `ReaddsAdding` use it.

### Only model-checked

- The liveness properties `ChangeIsReported`, `DestroyReturns`,
  `FreshUnlessMissed`, `AlwaysReturns` (and `RequestsReturn`): fairness and
  ENABLED are out of the prover's reach.
- `TreeRefined`: the refinement of `BookmarkTree`. Its mapping orders the entries
  of each folder by their positions, so that every request needs a fact about
  sorted sequences; only the parts that `StoreInv` states are proved.

Where the proofs above use an induction over numbers (least elements, ranks,
paths, iterations of a loop), it is one by a minimal counterexample, with the
library's theorem that the naturals are well-founded.

## 6. Findings

Two runs show that the code does not do what a document or an assertion of the
repository says; `PROJECT.json` quotes the lines.

- `HashmapReplace`: removing the replaced entry may shrink `assoc_map`, after
  which `old_lctx.entry_id` is an index into the old table. The rehash has put
  the renamed entry where its new hash belongs; what is removed at the old index
  is another bucket, and the entry is inserted a second time.
- `FirefoxGuid`: a file whose name is a GUID in use elsewhere is never created,
  and its request never ends.

### Properties that do not hold

The modules state nine more properties that a document or a test of the
repository claims and that TLC refutes, each when it is added to the
configuration named here.

- `AgainMeansUnchanged` (`ChromiumSync.cfg`). "Bookmark data has not been
  changed externally since the last call to bookmark_get with the same cookie"
  (bookmarkfs.texi:2440). Cookies hold the address of a store that may have been
  freed (`backend_chromium.c:1826`); a new store at that address makes
  `bookmark_get()` say -EAGAIN. Nothing is proved of it: which addresses
  `malloc()` hands out again is not this program's.
- `NoCrash` (`File.cfg`). With `eol`, "a trailing newline is automatically
  removed (if one exists)" (bookmarkfs.texi:278), but an empty file is written
  back from `buf[-1]` (`fs_ops.c:446`). The model goes on from a byte that is
  not a newline.
- `RepairedIsVisible` (`ChromiumStore.cfg`). "To ensure that the rename is
  visible to further lookups ..." (bookmarkfs.texi:1205). `fsck_apply()` hashes
  the new name with the bookmark's own id (`backend_chromium.c:514`); the entry
  is listed but not found, and duplicates are not noticed.
- `AlwaysStamped` (`ChromiumStore.cfg`). "mtime behavior
  mostly stays compatible with POSIX", by default it "updates normally"
  (bookmarkfs.texi:254-261). `fsck_apply()`
  gives an entry of a folder a name and leaves the time of the folder as it is
  (`backend_chromium.c:523`); so does that of the Firefox backend
  (`backend_firefox.c:526`), whose commits `FoldersStamped` excepts.
- `ReplacedStaysGone` (`ChromiumStore.cfg`). tests/fs_basic.at:31 expects "test
  ! -e $name-2" after a rename. A rename over an entry of the same folder leaves
  the replaced node in the document (`backend_chromium.c:2398`). It is back
  after the next load, in front of the renamed one if it comes first; until
  then a folder that looks empty cannot be removed, and giving its GUID to
  another bookmark makes the file impossible to load.
- `DeletedNotWritten` (`FirefoxFile.cfg`, as a PROPERTY). Requests on a bookmark
  that is gone fail with ESTALE (bookmarkfs.texi:903). SQLite uses the largest
  id again; a dirty handle of a deleted bookmark is then written to the
  bookmark that was created since.
- `SyncedIsVisible` (`DirHandle.cfg`, as a PROPERTY, with `Dirs` =
  {"bookmarks", "folder"}). fsync() or close() make a new order visible
  (bookmarkfs.texi:1063). For the directory `bookmarks`, `intfs_syncdir()` and
  `intfs_freedir()` pass the number of the root folder in the database
  (`fs_ops.c:282`), which is the inode of the mount point, or none at all. With any directory it
  also fails for a close() that is not the last one, which flushes nothing.
- `RepairIsDistinct` (`DirHandle.cfg`, as a PROPERTY, with `MaxId` =
  `MaxPos` = 3).
  FSCK_APPLY answers NAME_DUPLICATE for a name in use (bookmarkfs.texi:1142).
  Without a `dentry_map`, which a check that follows no readdir() does not have,
  `fsck_apply()` starts one that is empty (`backend_firefox.c:513`).
- `ResetExaminesAll` (`Fsck.cfg`). "Rewind all" (bookmarkfs.texi:3333).
  `reset_top()` of `fsck_offline.c:206` does not rewind the check of a top
  directory that is through: its names are not examined again.

### Met while modelling

- `watcher.c:330`: after a spurious wake-up the worker watches with no mark and
  the mutex held; every later `watcher_poll()` gives -EAGAIN. The fanotify and
  fallback runs assume there is none.
- `watcher.c:293`: two writes with the same time stamp are one to the fallback.
- `watcher.c:406`: if `watcher_destroy()` signals before the worker has taken
  the mutex and the file does not exist, the worker parks and
  `pthread_join()` never returns (`DestroyReturns` starts after that point).
  With kqueue (`watcher.c:250`) a vnode event that is returned before the EOF of
  the pipe has the same effect; the kqueue run does not check `DestroyReturns`.
- `watcher.c:438`: an -EIO of `impl_rearm()` is not final, as the manual says.
- `backend_chromium.c:1481` and `:656`: a change between the first load and the
  worker's first `impl_rearm()`, or between the rename of `store_save()` and its
  `watcher_poll()`, stays unseen (`missed` in `ChromiumSync`); `:649` leaves
  `ctx->checksum` at the old value.
- `backend_chromium.c:1213`: with `filename=guid` loaded entries have no name,
  and every request treats an entry without a name as stale.
- `backend_chromium.c:2437`: with `ctime`, a rename over an entry of another
  folder stamps the old node, which is no longer in the document.
- `fs_ops.c:1187`: a write to a handle that was not read drops the rest of the
  file (`blind` in `FileHandle`); `:564`: a write-back whose second call fails
  has changed the bookmark; `:1132`: a refused `utimensat()` loses the time of
  an unsaved write; `:537`: after a write and a `utimensat()`, `st_size` is the
  old one; `:1320`: `has_access()` grants what is *not* in `accmode`;
  FSCK_REWIND clears the lock of a check that another description has begun.
- `backend_firefox.c:2360`: `readdir()` and the fsck ioctls of one description
  share `dentry_map`. With rows x, y, an invalid name, z and y again, an FSCK_NEXT
  between two `readdir()` calls may make the stream show the second y instead of
  the first. `KeptIsCurrent` excepts such a stream (`overtaken`).
- A stream with an old `dentry_map` fills the kernel's cache with a listing that
  no other stream would give (`patchy` in `DirHandle`).
- `hashmap.c:168`: `find_entry()` asserts `exp < EXP_MAX`, `hashmap_search()`
  `exp <= EXP_MAX`, which is what `rehash()` allows; `hashmap_update()` with a
  new entry clears the hop bit that leads to it (nobody calls it so).
- `db.c:146`: `err & SQLITE_BUSY` is also true of SQLITE_FULL.
- `backend_firefox.c`: the place of a URL goes with its last bookmark, history
  or not; writing another URL to the last bookmark with a URL leaves tags and
  keywords behind; `mozkw_delete()` uses `place_id` unset when there is no such
  keyword; a tag's listing and its lookup may give different bookmarks of one
  URL; several keywords may name one bookmark; `fsck_apply()` keeps the new name
  in `dentry_map` when COMMIT fails; `mozkw_rename()` cannot be reached.
- `fsck_handler_simple.c:85`: the `-` of a command whose repair is refused stays
  set for the next one; `r` after `s-` has no effect, because the directory
  counts as done. A recursive check that may not repair never enters a
  directory whose name is wrong: it is not listed.

## 7. Not modelled

The mount program: one pass from the options to `fuse_session_loop()`, with no
state of its own between requests. The sandbox (a table of system call filters),
option parsing, `mkfs` and `bookmarkctl` (one pass, no state), the Tcl handler of
fsck, encodings, digests and random numbers. A crash during `store_save()` would
need a model of the disk; the code writes and syncs a temporary file before the
rename. In `ChromiumStore`, setting values and times, `filename=guid` and the
position of `fsck_next()` are left out, in `FileHandle` atime, in `FirefoxStore`
extended attributes other than the URL, deletions noted for Firefox Sync and the
checks of `store_init()`, in `DirHandle` lookups and attributes, which change
nothing.
