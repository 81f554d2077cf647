------------------------------ MODULE DirHandle -------------------------------
(***************************************************************************)
(* Open directories of the mounted file system (fs_ops.c) over the Firefox *)
(* backend: one struct fs_file_handle for each inode, shared by all of its *)
(* open descriptions, and one cookie (struct bm_lcookie) for each of them, *)
(* which readdir() and the fsck ioctls have in common.  In exclusive mode  *)
(* the kernel keeps the entries that it has read for an hour, and a change *)
(* that it cannot perceive (a permutation, a repair) must be told to it.   *)
(*                                                                         *)
(* There are three directories: `bookmarks' of the internal file system,   *)
(* whose entries are those of the root folder, one bookmark folder and one *)
(* tag.  A reply to readdir() holds one entry: a longer one is several of  *)
(* them with nothing in between.                                           *)
(***************************************************************************)
EXTENDS Naturals, FiniteSets, Sequences, Functions

CONSTANTS
    Handles,        \* the open descriptions
    Dirs,           \* the directories that processes open
    Names, BadName, \* file names; a title that is not one
    MaxId, MaxPos,  \* bounds on the rows and on their positions
    MaxChanges,     \* bound on the changes of the rows
    Tagged,         \* the bookmarks that the tag was given to
    Exclusive, Readonly,
    Accmode,        \* ctx.flags.accmode, pairs of a class and a permission
    Classes         \* the classes that has_access() keeps for the caller

ASSUME DirAssumption ==
    Dirs \subseteq {"bookmarks", "folder", "tag"} /\ "folder" \in Dirs
ASSUME NameAssumption == BadName \notin Names
ASSUME HandleAssumption == IsFiniteSet(Handles) /\ "none" \notin Handles
ASSUME BoundAssumption ==
    {MaxId, MaxPos, MaxChanges} \subseteq Nat \ {0} /\ MaxId <= MaxPos
ASSUME FlagAssumption == {Exclusive, Readonly} \subseteq BOOLEAN

VARIABLES
    row,        \* moz_bookmarks: the rows of the two folders, by id
    handle,     \* the cookie of each open description, and its position
    fh,         \* fs_file_handle, by inode
    cache,      \* the entries that the kernel keeps, by inode
    changes     \* the number of changes

vars == <<row, handle, fh, cache, changes>>

NoMap  == <<>>      \* dentry_map is NULL, or nothing is in it
Closed == [dir |-> "none"]
NoFh   == [refcount |-> 0, dirty |-> FALSE, fsck |-> "none"]

\* full: the end has been read.  patchy is history: some entry came from a
\* stream that was overtaken, by a change of the directory, or by an fsck ioctl
\* on the same description: those share dentry_map with readdir(), and put names
\* of later rows into it.
Empty == [list |-> <<>>, pos |-> 0, full |-> FALSE, patchy |-> FALSE]

IsOpen(h) == handle[h] # Closed

OpenIn(d) == {h \in Handles : handle[h].dir = d}
-----------------------------------------------------------------------------
(***************************************************************************)
(* Rows.                                                                   *)
(***************************************************************************)
\* BOOKMARK_LIST, BOOKMARK_LIST_TAG.
RowsOf(d) == {i \in DOMAIN row : IF d = "tag" THEN i \in Tagged
                                              ELSE row[i].dir = d}

PosOf(d, i) == IF d = "tag" THEN i ELSE row[i].pos

First(d, S) == CHOOSE i \in S : \A j \in S : PosOf(d, i) <= PosOf(d, j)

Valid(i) == row[i].name # BadName       \* validate_filename()

\* check_name of bookmark_do_list(): only a folder hides the second of two
\* entries with one name.
ChecksName(d) == d # "tag"

\* What a stream shows, from beginning to end.
Visible(d) ==
    {i \in RowsOf(d) :
        Valid(i) /\ (ChecksName(d) =>
                        i = First(d, {j \in RowsOf(d) : row[j].name = row[i].name}))}

Listing(d) ==
    LET V       == Visible(d)
        rank(i) == Cardinality({j \in V : PosOf(d, j) <= PosOf(d, i)})
    IN [n \in 1 .. Cardinality(V) |->
            CHOOSE m \in Names : \E i \in V : row[i].name = m /\ rank(i) = n]

\* mozbm_lookup(): 0 is ENOENT.
Lookup(d, n) ==
    LET found == {i \in RowsOf(d) : row[i].name = n}
    IN IF found = {} THEN 0 ELSE First(d, found)

\* Mutant: the position after the last row is counted twice.
EndPosLate(d) == IF RowsOf(d) = {} THEN 0
                 ELSE 2 + CHOOSE p \in {row[i].pos : i \in RowsOf(d)} :
                            \A i \in RowsOf(d) : row[i].pos <= p

EndPos(d) == IF RowsOf(d) = {} THEN 0
             ELSE 1 + CHOOSE p \in {row[i].pos : i \in RowsOf(d)} :
                        \A i \in RowsOf(d) : row[i].pos <= p

NextId == IF DOMAIN row = {} THEN 1
          ELSE 1 + CHOOSE i \in DOMAIN row : \A j \in DOMAIN row : j <= i

\* A change of d overtakes the streams that are in the middle of it.
Overtaken(d) ==
    [h \in Handles |-> IF handle[h].dir = d
                       THEN [handle[h] EXCEPT !.overtaken = handle[h].off > 0]
                       ELSE handle[h]]
-----------------------------------------------------------------------------
(***************************************************************************)
(* opendir(), readdir(), fsync() and close().                              *)
(***************************************************************************)
\* Mutant: the entries of a tag are kept as well.
KeptAll(d) == TRUE

\* cache_readdir and keep_cache of bm_opendir().
Kept(d) == d # "tag"

Opendir(h, d) ==
    /\ ~IsOpen(h)
    /\ handle' = [handle EXCEPT ![h] =
                    [dir |-> d, map |-> NoMap, idx |-> 0, off |-> 0,
                     overtaken |-> FALSE]]
    /\ fh' = [fh EXCEPT ![d].refcount = @ + 1]
    /\ UNCHANGED <<row, cache, changes>>

\* dentry_map at offset off: rewinddir() frees it.
MapAt(h) == IF handle[h].off = 0 THEN NoMap ELSE handle[h].map

\* bookmark_list_cb(): the rows that are shown from the offset on.
Shown(h) ==
    LET d   == handle[h].dir
        map == MapAt(h)
    IN {i \in RowsOf(d) :
            /\ PosOf(d, i) >= handle[h].off
            /\ Valid(i)
            /\ ChecksName(d) /\ row[i].name \in DOMAIN map => map[row[i].name] = i}

\* The kernel adds what it reads at the end of what it keeps.
Added(d, n, pos, patchy) ==
    [cache EXCEPT ![d].list = Append(@, n), ![d].pos = pos,
                  ![d].patchy = @ \/ patchy]

Readdir(h) ==
    LET d     == handle[h].dir
        shown == Shown(h)
        i     == First(d, shown)
        n     == row[i].name
    IN /\ IsOpen(h) /\ ~cache[d].full
       /\ shown # {}
       /\ handle' = [handle EXCEPT
                        ![h].off = PosOf(d, i) + 1,
                        ![h].map = IF ChecksName(d)
                                   THEN [m \in DOMAIN MapAt(h) \cup {n} |->
                                            IF m = n THEN i ELSE MapAt(h)[m]]
                                   ELSE MapAt(h),
                        ![h].overtaken = @ /\ handle[h].off > 0]
       /\ cache' = IF Kept(d) /\ handle[h].off = cache[d].pos
                   THEN Added(d, n, PosOf(d, i) + 1, handle'[h].overtaken)
                   ELSE cache
       /\ UNCHANGED <<row, fh, changes>>

\* No row is left.  bookmark_list() has not set qctx.status: what it returns
\* is whatever was there, and a negative value is an error to bm_readdir().
ReaddirEnd(h, error) ==
    LET d == handle[h].dir
    IN /\ IsOpen(h) /\ ~cache[d].full
       /\ Shown(h) = {}
       /\ handle' = [handle EXCEPT ![h].map = MapAt(h)]
       /\ cache' = IF ~error /\ Kept(d) /\ handle[h].off = cache[d].pos
                   THEN [cache EXCEPT ![d].full = TRUE,
                                      ![d].patchy = @ \/ handle[h].overtaken]
                   ELSE cache
       /\ UNCHANGED <<row, fh, changes>>

Rewinddir(h) ==
    /\ IsOpen(h) /\ handle[h].off > 0
    /\ handle' = [handle EXCEPT ![h].off = 0]
    /\ UNCHANGED <<row, fh, cache, changes>>

\* inval_inode(): the directories whose entries the kernel drops.  For the
\* internal directory the number is that of the root folder in the database,
\* which is the inode of the mount point.
InvalInode(d) == {d} \ {"bookmarks"}

\* inval_dir(), with the handle that it leaves behind.
InvalDir(d, left) ==
    LET flush == ~Readonly /\ Exclusive /\ fh[d].dirty
    IN /\ cache' = [e \in Dirs |-> IF flush /\ e \in InvalInode(d)
                                   THEN Empty ELSE cache[e]]
       /\ fh' = [fh EXCEPT ![d] = [left EXCEPT !.dirty = @ /\ ~flush]]

\* fs_op_fsyncdir(): for a tag, there is only the backend to be told.
Fsyncdir(h) ==
    /\ IsOpen(h) /\ ~Readonly /\ handle[h].dir # "tag"
    /\ InvalDir(handle[h].dir, fh[handle[h].dir])
    /\ UNCHANGED <<row, handle, changes>>

\* Mutant: the fsck state of the closed description is kept.
UnlockedNever(h) == fh[handle[h].dir].fsck

Unlocked(h) ==
    IF fh[handle[h].dir].fsck = h THEN "none" ELSE fh[handle[h].dir].fsck

Freedir(h) ==
    LET d    == handle[h].dir
        left == [fh[d] EXCEPT !.refcount = @ - 1, !.fsck = Unlocked(h)]
    IN /\ IsOpen(h)
       /\ handle' = [handle EXCEPT ![h] = Closed]
       /\ IF left.refcount > 0
          THEN fh' = [fh EXCEPT ![d] = left] /\ UNCHANGED cache
          ELSE InvalDir(d, NoFh)
       /\ UNCHANGED <<row, changes>>
-----------------------------------------------------------------------------
(***************************************************************************)
(* The ioctls of bm_ioctl().  Those that only fail are not shown.          *)
(***************************************************************************)
HasAccess(want) == (Classes \X want) \ Accmode # {}

CanRead  == HasAccess({"r"})
CanWrite == HasAccess({"w", "x"})

HasIoctl(h) == IsOpen(h) /\ handle[h].dir # "tag"

FsckRewind(h) ==
    LET d == handle[h].dir
    IN /\ HasIoctl(h)
       /\ handle' = [handle EXCEPT ![h].map = NoMap, ![h].idx = 0,
                                   ![h].overtaken = handle[h].off > 0]
       /\ fh' = [fh EXCEPT ![d].fsck = "none"]
       /\ UNCHANGED <<row, cache, changes>>

\* The row that a name belongs to, for bookmark_check_cb() on the rows from
\* idx on.
Claimant(h, n) ==
    LET d == handle[h].dir
    IN IF n \in DOMAIN handle[h].map THEN handle[h].map[n]
       ELSE First(d, {i \in RowsOf(d) :
                        row[i].name = n /\ row[i].pos >= handle[h].idx})

\* Without a dentry_map, a valid name is no fault.
Faulty(h) ==
    LET d == handle[h].dir
    IN {i \in RowsOf(d) :
            /\ row[i].pos >= handle[h].idx
            /\ \/ ~Valid(i)
               \/ handle[h].map # NoMap /\ Claimant(h, row[i].name) # i}

MayCheck(h) == fh[handle[h].dir].fsck \in {"none", h}

\* dentry_map after the rows of S.
Mapped(h, S) ==
    LET found == {row[i].name : i \in {j \in S : Valid(j)}}
    IN IF handle[h].map = NoMap THEN NoMap
       ELSE [n \in DOMAIN handle[h].map \cup found |-> Claimant(h, n)]

FsckNext(h) ==
    LET d    == handle[h].dir
        rest == {i \in RowsOf(d) : row[i].pos >= handle[h].idx}
        bad  == Faulty(h)
        hit  == First(d, bad)   \* the row that is reported
    IN /\ HasIoctl(h) /\ CanRead /\ MayCheck(h)
       /\ IF bad = {}
          THEN /\ handle' = [handle EXCEPT
                    ![h].map = Mapped(h, rest),
                    ![h].idx = IF rest = {} THEN @ ELSE EndPos(d),
                    ![h].overtaken = handle[h].off > 0]
               /\ fh' = [fh EXCEPT ![d].fsck = "none"]
          ELSE /\ handle' = [handle EXCEPT
                    ![h].map = Mapped(h, {i \in rest : row[i].pos < row[hit].pos}),
                    ![h].idx = row[hit].pos + 1,
                    ![h].overtaken = handle[h].off > 0]
               /\ fh' = [fh EXCEPT ![d].fsck = h]
       /\ UNCHANGED <<row, cache, changes>>

\* Mutant: the change is not noted for inval_dir().
MarkedNot(d) == fh

Marked(d) == [fh EXCEPT ![d].dirty = TRUE]      \* FH_FLAG_DIRTY

\* fsck_apply(): row i gets a name, whether or not FSCK_NEXT has reported it.
\* mozbm_check_cb() passes a row whose name is not valid, or which is known to
\* belong to another row.
FsckApply(h, i, n) ==
    LET d == handle[h].dir
        m == row[i].name
    IN /\ HasIoctl(h) /\ ~Readonly /\ CanWrite
       /\ i \in RowsOf(d)
       /\ Valid(i) => m \in DOMAIN handle[h].map /\ handle[h].map[m] # i
       /\ n \notin DOMAIN handle[h].map
       /\ changes < MaxChanges /\ changes' = changes + 1
       /\ row' = [row EXCEPT ![i].name = n]
       /\ handle' = [Overtaken(d) EXCEPT
                        ![h].map = [k \in DOMAIN @ \cup {n} |->
                                        IF k = n THEN i ELSE @[k]]]
       /\ fh' = Marked(d)
       /\ UNCHANGED cache

\* Without a dentry_map, a valid name counts as repaired.
FsckApplyAgain(h, i) ==
    LET d == handle[h].dir
    IN /\ HasIoctl(h) /\ ~Readonly /\ CanWrite
       /\ i \in RowsOf(d) /\ Valid(i) /\ handle[h].map = NoMap
       /\ fh' = Marked(d)
       /\ UNCHANGED <<row, handle, cache, changes>>

\* BOOKMARKFS_IOC_PERMD, which swaps two entries.

Permd(h, m, n) ==
    LET d == handle[h].dir
        i == Lookup(d, m)
        j == Lookup(d, n)
    IN /\ HasIoctl(h) /\ ~Readonly /\ CanWrite
       /\ m # n /\ i # 0 /\ j # 0
       /\ changes < MaxChanges /\ changes' = changes + 1
       /\ row' = [row EXCEPT ![i].pos = row[j].pos, ![j].pos = row[i].pos]
       /\ handle' = Overtaken(d)
       /\ fh' = Marked(d)
       /\ UNCHANGED cache
-----------------------------------------------------------------------------
(***************************************************************************)
(* Requests by name.  The kernel makes them, and drops what it keeps of    *)
(* the directory.                                                          *)
(***************************************************************************)
ByName(d, result) ==
    /\ ~Readonly
    /\ changes < MaxChanges /\ changes' = changes + 1
    /\ row' = result
    /\ handle' = Overtaken(d)
    /\ cache' = [e \in Dirs |-> IF e = d THEN Empty ELSE cache[e]]
    /\ UNCHANGED fh

Create(n) ==
    LET i == NextId
        d == "folder"
    IN /\ i <= MaxId /\ EndPos(d) <= MaxPos
       /\ Lookup(d, n) = 0
       /\ ByName(d, [j \in DOMAIN row \cup {i} |->
                        IF j = i THEN [dir |-> d, pos |-> EndPos(d), name |-> n]
                        ELSE row[j]])

Delete(n) ==
    LET i == Lookup("folder", n)
    IN i # 0 /\ ByName("folder", Restrict(row, DOMAIN row \ {i}))

Rename(m, n) ==
    LET i == Lookup("folder", m)
    IN /\ i # 0 /\ Lookup("folder", n) = 0
       /\ EndPos("folder") <= MaxPos
       /\ ByName("folder", [row EXCEPT ![i].name = n, ![i].pos = EndPos("folder")])
-----------------------------------------------------------------------------
\* The rows of a folder have been added one after the other.
Init ==
    /\ row \in UNION {[1 .. k -> [dir : {"bookmarks", "folder"} \cap Dirs,
                                  pos : 0 .. k - 1,
                                  name : Names \cup {BadName}]] : k \in 1 .. MaxId}
    /\ \A i \in DOMAIN row : row[i].pos = Cardinality({j \in RowsOf(row[i].dir) : j < i})
    /\ handle = [h \in Handles |-> Closed]
    /\ fh = [d \in Dirs |-> NoFh]
    /\ cache = [d \in Dirs |-> Empty]
    /\ changes = 0

Next ==
    \/ \E h \in Handles, d \in Dirs : Opendir(h, d)
    \/ \E h \in Handles : Readdir(h)
    \/ \E h \in Handles, error \in BOOLEAN : ReaddirEnd(h, error)
    \/ \E h \in Handles : Rewinddir(h)
    \/ \E h \in Handles : Fsyncdir(h)
    \/ \E h \in Handles : Freedir(h)
    \/ \E h \in Handles : FsckRewind(h)
    \/ \E h \in Handles : FsckNext(h)
    \/ \E h \in Handles, i \in 1 .. MaxId, n \in Names : FsckApply(h, i, n)
    \/ \E h \in Handles, i \in 1 .. MaxId : FsckApplyAgain(h, i)
    \/ \E h \in Handles, m, n \in Names : Permd(h, m, n)
    \/ \E n \in Names : Create(n)
    \/ \E n \in Names : Delete(n)
    \/ \E m, n \in Names : Rename(m, n)

Spec == Init /\ [][Next]_vars
-----------------------------------------------------------------------------
(***************************************************************************)
(* Properties.                                                             *)
(***************************************************************************)
\* The type of every variable.
TypeOK ==
    /\ DOMAIN row \subseteq 1 .. MaxId
    /\ \A i \in DOMAIN row : /\ row[i].dir \in {"bookmarks", "folder"}
                             /\ row[i].pos \in 0 .. MaxPos
                             /\ row[i].name \in Names \cup {BadName}
    /\ \A h \in Handles : IsOpen(h) =>
            /\ handle[h].dir \in Dirs
            /\ DOMAIN handle[h].map \subseteq Names
            /\ handle[h].idx \in 0 .. MaxPos + 1
            /\ handle[h].off \in 0 .. MaxPos + 1
    /\ \A d \in Dirs : /\ fh[d].refcount \in 0 .. Cardinality(Handles)
                       /\ fh[d].dirty \in BOOLEAN
                       /\ fh[d].fsck \in Handles \cup {"none"}

\* The handle of an inode lives as long as an open description does, and the
\* fsck state belongs to one of them: bm_freedir() gives it back with the
\* cookie, or everyone else would get EBUSY for good.
StateHasOwner ==
    \A d \in Dirs : /\ fh[d].refcount = Cardinality(OpenIn(d))
                    /\ fh[d].fsck # "none" => fh[d].fsck \in OpenIn(d)

\* What the kernel keeps of a directory are its entries, unless a change that it
\* could not perceive is still to be flushed (inval_dir()), whatever the order
\* of requests.  It is stated for directories whose inode is known, and for
\* entries that were all read after the last change.
KeptIsCurrent ==
    \A d \in Dirs \ {"bookmarks"} :
        cache[d].full /\ ~cache[d].patchy /\ ~fh[d].dirty =>
            cache[d].list = Listing(d)

\* A permutation or a repair is visible to further readdir() calls once the
\* directory was fsync()ed or closed: what the kernel still keeps is current.
SyncedIsVisible ==
    [][\A h \in Handles :
        LET d == handle[h].dir
        IN (Fsyncdir(h) \/ Freedir(h)) /\ cache'[d].full /\ ~cache'[d].patchy =>
                cache'[d].list = Listing(d)]_vars

\* A repair does not give a bookmark the name of another one: FSCK_APPLY answers
\* NAME_DUPLICATE.
RepairIsDistinct ==
    [][\A i \in DOMAIN row \cap DOMAIN row' :
            row[i].name = BadName /\ row'[i].name # BadName =>
                \A j \in DOMAIN row :
                    j # i /\ row[j].dir = row[i].dir => row[j].name # row'[i].name]_vars
=============================================================================
