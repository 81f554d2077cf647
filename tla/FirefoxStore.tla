----------------------------- MODULE FirefoxStore -----------------------------
(***************************************************************************)
(* The bookmarks of the Firefox backend (src/src/backend_firefox.c): the   *)
(* tables moz_bookmarks, moz_places, moz_origins and moz_keywords, and the *)
(* transactions that change them.                                          *)
(*                                                                         *)
(* Folders, bookmarks, tag folders, tags and separators are all rows of    *)
(* moz_bookmarks.  A tag is a row without a title below the folder of the  *)
(* tag, with the fk of the bookmark.  A row of moz_places counts the rows  *)
(* that refer to it in foreign_count, and goes when there are none; a row  *)
(* of moz_origins goes with its last place.                                *)
(*                                                                         *)
(* A request is a transaction: BEGIN IMMEDIATE, statements that may fail,  *)
(* and COMMIT or ROLLBACK.  Its effect on the database is given here by    *)
(* what its statements make of the database, up to COMMIT.                 *)
(***************************************************************************)
EXTENDS Naturals, Sequences, FiniteSets, Functions, SequencesExt, TLC

CONSTANTS
    MaxId,      \* BOOKMARKFS_MAX_ID
    MaxPos,     \* the largest position, INT64_MAX
    Names,      \* names of files: valid titles, or valid GUIDs
    BadName,    \* a title that is no valid filename
    Urls,       \* URLs
    Blank,      \* "about:blank", the URL of a new bookmark
    NoUrl,      \* fk is NULL: folders and separators
    Origin,     \* the origin of each URL
    Keywords,   \* keywords
    Repaired,   \* the rows that fsck_apply() is asked for
    GuidModes   \* filename=guid (TRUE) or filename=title (FALSE)

NoName == "null"

Root     == 1       \* root________
Menu     == 2       \* menu________
TagsRoot == 3       \* tags________
Tag      == 4       \* a tag
First    == 5       \* a bookmark in the menu
Mark     == 6       \* its entry below the tag
Rule     == 7       \* the separator that follows it in the menu

ASSUME IdAssumption == MaxId \in Nat /\ MaxId >= Rule /\ MaxPos \in Nat \ {0}
ASSUME UrlAssumption == /\ Blank \in Urls /\ NoUrl \notin Urls
                        /\ Urls \subseteq DOMAIN Origin
ASSUME NameAssumption == /\ NoName \notin Names /\ GuidModes \subseteq BOOLEAN
                         /\ BadName \notin Names \cup {NoName}

VARIABLES
    byGuid,     \* BACKEND_FILENAME_GUID
    db,         \* the database in the file
    wdb,        \* the database that this connection sees
    phase,      \* how far the transaction is
    request,    \* the request that is being served
    retries     \* executions of the INSERT that fails, modulo 2

vars == <<byGuid, db, wdb, phase, request, retries>>

None == <<"none">>
-----------------------------------------------------------------------------
(***************************************************************************)
(* Queries.                                                                *)
(***************************************************************************)
Kids(d, p) == {i \in DOMAIN d.bm : d.bm[i].parent = p}

NameOf(r) == IF byGuid THEN r.guid ELSE r.title

Lowest(S) == CHOOSE i \in S : \A j \in S : i <= j

\* mozbm_lookup(), bookmark_do_lookup(): 0 is ENOENT.
MozbmLookup(d, p, n) ==
    LET found == {i \in Kids(d, p) : NameOf(d.bm[i]) = n}
    IN IF found = {} THEN 0
       ELSE CHOOSE i \in found : \A j \in found : d.bm[i].pos <= d.bm[j].pos

\* A bookmark below a tag: the first one with that name and a URL of the tag.
TagLookup(d, t, n) ==
    LET found == {i \in DOMAIN d.bm : /\ NameOf(d.bm[i]) = n
                                      /\ d.bm[i].fk # NoUrl
                                      /\ \E j \in Kids(d, t) :
                                            d.bm[j].fk = d.bm[i].fk}
    IN IF found = {} THEN 0 ELSE Lowest(found)

TagEntries(d, t, u) == {i \in Kids(d, t) : d.bm[i].fk = u}

NextPos(d, p) ==    \* safeincr() of the largest position
    IF Kids(d, p) = {} THEN 0
    ELSE 1 + CHOOSE x \in {d.bm[i].pos : i \in Kids(d, p)} :
                \A i \in Kids(d, p) : d.bm[i].pos <= x

NextId(d) == 1 + CHOOSE i \in DOMAIN d.bm : \A j \in DOMAIN d.bm : j <= i

IsFolder(d, i) == d.bm[i].fk = NoUrl

\* The folders that requests change: not the root, whose entries are fixed.
TagDirs(d) == {i \in Kids(d, TagsRoot) : IsFolder(d, i)}

BookmarkDirs(d) ==
    {i \in DOMAIN d.bm \ ({Root, TagsRoot} \cup TagDirs(d)) :
        IsFolder(d, i) /\ d.bm[i].title \notin {NoName, BadName}}

\* The bookmarks that can be looked up.
Bookmarks(d) ==
    {i \in DOMAIN d.bm : ~IsFolder(d, i) /\ d.bm[i].title \notin {NoName, BadName}}
-----------------------------------------------------------------------------
(***************************************************************************)
(* Statements, as functions of the database.                               *)
(***************************************************************************)
DropRows(d, S) == [d EXCEPT !.bm = Restrict(@, DOMAIN @ \ S)]

MozoriginDelete(d, o) ==
    IF \E u \in DOMAIN d.places : Origin[u] = o THEN d
    ELSE [d EXCEPT !.origins = @ \ {o}]

MozplaceDelete(d, u) ==
    MozoriginDelete([d EXCEPT !.places = Restrict(@, DOMAIN @ \ {u})], Origin[u])

MozplaceAddref(d, u) ==
    IF u \in DOMAIN d.places THEN [d EXCEPT !.places[u] = @ + 1]
    ELSE [d EXCEPT !.origins = @ \cup {Origin[u]},
                   !.places = [v \in DOMAIN @ \cup {u} |->
                                    IF v = u THEN 1 ELSE @[v]]]

\* mozplace_delref() with a count: the place goes with its last reference.
Delref(d, u, n) ==
    IF d.places[u] = n THEN MozplaceDelete(d, u)
    ELSE [d EXCEPT !.places[u] = @ - n]

\* Mutant: the references of the keywords are not given back.
PurgeTags(d, u) ==
    LET tags  == {i \in DOMAIN d.bm : d.bm[i].fk = u}
        keys  == {k \in DOMAIN d.keywords : d.keywords[k] = u}
        after == [DropRows(d, tags) EXCEPT
                    !.keywords = Restrict(@, DOMAIN @ \ keys)]
    IN IF (\E i \in tags : d.bm[i].title # NoName) \/ tags = {} THEN d
       ELSE Delref(after, u, Cardinality(tags))

Purge(d, u) ==      \* mozplace_purge()
    LET tags  == {i \in DOMAIN d.bm : d.bm[i].fk = u}
        keys  == {k \in DOMAIN d.keywords : d.keywords[k] = u}
        after == [DropRows(d, tags) EXCEPT
                    !.keywords = Restrict(@, DOMAIN @ \ keys)]
    IN IF \E i \in tags : d.bm[i].title # NoName THEN d
       ELSE IF tags = {} /\ keys = {} THEN d
       ELSE Delref(after, u, Cardinality(tags) + Cardinality(keys))

MozplaceDelref(d, u, purge) ==
    LET after == Delref(d, u, 1)
    IN IF purge /\ u \in DOMAIN after.places THEN Purge(after, u) ELSE after

MozbmInsert(d, p, n, u) ==
    LET row == [parent |-> p, pos |-> NextPos(d, p), title |-> n,
                guid |-> IF byGuid THEN n ELSE NoName, fk |-> u]
    IN [d EXCEPT !.bm = [i \in DOMAIN @ \cup {NextId(d)} |->
                            IF i = NextId(d) THEN row ELSE @[i]]]

\* Mutant: safeincr() does not check for overflow.
CanInsertAnywhere(d, p) == NextId(d) <= MaxId

CanInsert(d, p) == NextId(d) <= MaxId /\ NextPos(d, p) <= MaxPos

GuidTaken(d, n) == byGuid /\ \E i \in DOMAIN d.bm : d.bm[i].guid = n

MozbmMove(d, i, p, n, pos) ==
    LET row == d.bm[i]
    IN [d EXCEPT !.bm[i] = [parent |-> p, pos |-> pos, fk |-> row.fk,
                            title |-> IF byGuid THEN row.title ELSE n,
                            guid |-> IF byGuid THEN n ELSE row.guid]]

MtimeUpdate(d, S) == [d EXCEPT !.touched = @ \cup S]

PosUpdate(d, i, pos) == [d EXCEPT !.bm[i].pos = pos]

\* Mutant: one row too few makes room.
ShiftDownLess(d, p, lo, hi) ==
    [d EXCEPT !.bm = [i \in DOMAIN d.bm |->
        IF d.bm[i].parent = p /\ d.bm[i].pos \in lo .. hi - 1
        THEN [d.bm[i] EXCEPT !.pos = @ - 1] ELSE d.bm[i]]]

\* mozbm_pos_shift(): the rows from lo to hi make room.
ShiftDown(d, p, lo, hi) ==
    [d EXCEPT !.bm = [i \in DOMAIN d.bm |->
        IF d.bm[i].parent = p /\ d.bm[i].pos \in lo .. hi
        THEN [d.bm[i] EXCEPT !.pos = @ - 1] ELSE d.bm[i]]]

ShiftUp(d, p, lo, hi) ==
    [d EXCEPT !.bm = [i \in DOMAIN d.bm |->
        IF d.bm[i].parent = p /\ d.bm[i].pos \in lo .. hi
        THEN [d.bm[i] EXCEPT !.pos = @ + 1] ELSE d.bm[i]]]
-----------------------------------------------------------------------------
(***************************************************************************)
(* What the statements of a request make of the database, one on the       *)
(* result of the other.                                                    *)
(***************************************************************************)
Deleted(d, i, purge) ==     \* mozbm_delete()
    LET without == DropRows(d, {i})
    IN IF IsFolder(d, i) THEN without
       ELSE MozplaceDelref(without, d.bm[i].fk, purge)

\* Mutant: a folder is deleted with entries in it.
CanDeleteAny(d, i) == TRUE

CanDelete(d, i) == IsFolder(d, i) => Kids(d, i) = {}

Created(d, p, n, u) ==
    MtimeUpdate(MozbmInsert(IF u = NoUrl THEN d ELSE MozplaceAddref(d, u),
                            p, n, u), {p})

Removed(d, p, i, purge) == MtimeUpdate(Deleted(d, i, purge), {p})

\* Mutant: only the old folder gets a new lastModified.
RenamedUnstamped(d, i, p, q, n, j) ==
    LET cleared == IF j = 0 THEN d ELSE Deleted(d, j, TRUE)
        pos     == IF j = 0 THEN NextPos(d, q) ELSE d.bm[j].pos
    IN MtimeUpdate(MozbmMove(cleared, i, q, n, pos), {p})

\* bookmark_rename(): the row takes the place of the replaced one (j), or
\* goes to the end of its new folder.
Renamed(d, i, p, q, n, j) ==
    LET cleared == IF j = 0 THEN d ELSE Deleted(d, j, TRUE)
        pos     == IF j = 0 THEN NextPos(d, q) ELSE d.bm[j].pos
    IN MtimeUpdate(MozbmMove(cleared, i, q, n, pos), {p, q})

Swapped(d, p, i, j) ==
    LET one == PosUpdate(d, j, d.bm[i].pos)
    IN MtimeUpdate(PosUpdate(one, i, d.bm[j].pos), {p})

\* Mutant: MOVE_AFTER stops one position short, like MOVE_BEFORE.
ShiftedShort(d, p, i, j, before) ==
    LET start == d.bm[i].pos
        stop  == d.bm[j].pos
    IN IF start < stop
       THEN MtimeUpdate(PosUpdate(ShiftDown(d, p, start + 1, stop - 1),
                                  i, stop - 1), {p})
       ELSE MtimeUpdate(PosUpdate(ShiftUp(d, p, stop, start - 1), i, stop), {p})

\* mozbm_pos_shift() and mozbm_pos_update(): row i to the position before or
\* after row j; nothing is done when it is there already.
Shifted(d, p, i, j, before) ==
    LET start == d.bm[i].pos
        stop  == d.bm[j].pos
        down  == start < stop
        new   == CASE down /\ before   -> stop - 1
                   [] down /\ ~before  -> stop
                   [] ~down /\ before  -> stop
                   [] ~down /\ ~before -> stop + 1
        room  == IF down THEN ShiftDown(d, p, start + 1, new)
                         ELSE ShiftUp(d, p, new, start - 1)
    IN IF new = start THEN d
       ELSE MtimeUpdate(PosUpdate(room, i, new), {p})

Tagged(d, t, u) ==
    MtimeUpdate(MozplaceAddref(MozbmInsert(d, t, NoName, u), u), {t})

KeywordAdded(d, k, u) ==
    MozplaceAddref([d EXCEPT !.keywords = [l \in DOMAIN @ \cup {k} |->
                                            IF l = k THEN u ELSE @[l]]], u)

KeywordDeleted(d, k) ==
    MozplaceDelref([d EXCEPT !.keywords = Restrict(@, DOMAIN @ \ {k})],
                   d.keywords[k], FALSE)

\* mozbm_update() of the title alone.
Retitled(d, i, n) == [d EXCEPT !.bm[i].title = n]

\* mozplace_update(), and the fk of the row when the place is another one.
UrlSet(d, i, u) ==
    LET moved == MozplaceDelref(MozplaceAddref(d, u), d.bm[i].fk, FALSE)
    IN [moved EXCEPT !.bm[i].fk = u]
-----------------------------------------------------------------------------
(***************************************************************************)
(* Transactions.  Until COMMIT, nobody but this connection sees what the   *)
(* statements have done.  A request that is refused before it changes      *)
(* anything is not shown.                                                  *)
(***************************************************************************)
Execute(r, result) ==
    /\ phase = "idle"
    /\ request' = r
    /\ wdb' = result
    /\ phase' = "open"
    /\ UNCHANGED <<byGuid, db, retries>>

TxnEnd ==
    /\ phase = "open"
    /\ db' = [wdb EXCEPT !.touched = {}]
    /\ wdb' = db'
    /\ phase' = "idle"
    /\ request' = None
    /\ UNCHANGED <<byGuid, retries>>

\* A statement has failed or refused the request, or COMMIT has failed.
TxnRollback ==
    /\ phase = "open"
    /\ wdb' = db
    /\ phase' = "idle"
    /\ request' = None
    /\ UNCHANGED <<byGuid, db, retries>>

\* The daemon is killed: SQLite rolls the transaction back when it is opened.
Crash ==
    /\ phase # "idle"
    /\ wdb' = db
    /\ phase' = "idle"
    /\ request' = None
    /\ retries' = 0
    /\ UNCHANGED <<byGuid, db>>

\* mozbm_insert() executes its INSERT again when the GUID is taken, and binds
\* the same GUID: it fails again.
MozbmInsertAgain ==
    /\ phase = "insert"
    /\ retries' = 1 - retries
    /\ UNCHANGED <<byGuid, db, wdb, phase, request>>
-----------------------------------------------------------------------------
(***************************************************************************)
(* Requests.                                                               *)
(***************************************************************************)
BookmarkCreate(p, n, u) ==
    /\ MozbmLookup(db, p, n) = 0
    /\ CanInsert(db, p)
    /\ ~GuidTaken(db, n)
    /\ Execute(<<"create", p, n, u>>, Created(db, p, n, u))

\* The GUID names a file in another directory.
BookmarkCreateTaken(p, n, u) ==
    /\ phase = "idle"
    /\ MozbmLookup(db, p, n) = 0
    /\ GuidTaken(db, n)
    /\ wdb' = IF u = NoUrl THEN db ELSE MozplaceAddref(db, u)
    /\ phase' = "insert"
    /\ request' = <<"create", p, n, u>>
    /\ UNCHANGED <<byGuid, db, retries>>

BookmarkDelete(p, n) ==
    LET i == MozbmLookup(db, p, n)
    IN /\ i # 0
       /\ CanDelete(db, i)
       /\ Execute(<<"delete", p, n>>, Removed(db, p, i, TRUE))

\* The kernel refuses to move a directory below itself.
Below(d, q, i) ==
    LET Up[n \in 0 .. MaxId] ==
            IF n = 0 THEN {q}
            ELSE LET above == Up[n - 1]
                 IN above \cup {d.bm[j].parent : j \in above \cap DOMAIN d.bm}
    IN i \in Up[Cardinality(DOMAIN d.bm)]

BookmarkRename(p, n, q, m) ==
    LET i == MozbmLookup(db, p, n)
        j == MozbmLookup(db, q, m)
    IN /\ <<p, n>> # <<q, m>>
       /\ i # 0 /\ ~Below(db, q, i)
       /\ j # 0 => IsFolder(db, i) = IsFolder(db, j) /\ CanDelete(db, j)
       /\ j = 0 => NextPos(db, q) <= MaxPos
       /\ n # m /\ j = 0 => ~GuidTaken(db, m)
       /\ Execute(<<"rename", p, n, q, m>>, Renamed(db, i, p, q, m, j))

BookmarkSwap(p, n, m) ==
    LET i == MozbmLookup(db, p, n)
        j == MozbmLookup(db, p, m)
    IN /\ i # 0 /\ j # 0 /\ i # j
       /\ Execute(<<"swap", p, n, m>>, Swapped(db, p, i, j))

BookmarkShift(p, n, m, before) ==
    LET i == MozbmLookup(db, p, n)
        j == MozbmLookup(db, p, m)
    IN /\ i # 0 /\ j # 0 /\ i # j
       /\ db.bm[i].pos # db.bm[j].pos   \* EIO
       /\ Shifted(db, p, i, j, before) # db    \* 0 rolls back
       /\ Execute(<<IF before THEN "before" ELSE "after", p, n, m>>,
                  Shifted(db, p, i, j, before))

TagEntryAdd(t, i) ==    \* the kernel has looked the name up below the tag
    /\ TagEntries(db, t, db.bm[i].fk) = {}
    /\ TagLookup(db, t, NameOf(db.bm[i])) = 0
    /\ CanInsert(db, t)
    /\ Execute(<<"tag", t, i>>, Tagged(db, t, db.bm[i].fk))

TagEntryDelete(t, n) ==
    LET i == TagLookup(db, t, n)
    IN /\ i # 0
       /\ LET entries == TagEntries(db, t, db.bm[i].fk)
          IN Execute(<<"untag", t, n>>, Removed(db, t, Lowest(entries), FALSE))

KeywordCreate(k, i) ==
    /\ k \notin DOMAIN db.keywords      \* EEXIST
    /\ Execute(<<"keyword", k, i>>, KeywordAdded(db, k, db.bm[i].fk))

MozkwDelete(k) == Execute(<<"unbind", k>>, KeywordDeleted(db, k))

\* Any row with a URL can be written: readdir shows the rows of tags, too.
BookmarkSet(i, u) ==
    /\ ~IsFolder(db, i)
    /\ Execute(<<"set", i, u>>, UrlSet(db, i, u))

\* fsck_apply(): an entry gets another name, whose title is no valid filename (a
\* separator's is none, either), or is in the dentry map of the directory's
\* description for another entry, which may have gone since.  The new name may
\* be one that an entry of the folder has: without a dentry map nothing is
\* searched, and an old map need not have it.  The folder is not stamped.
FsckApply(p, i, n) ==
    /\ ~byGuid                          \* EPERM
    /\ db.bm[i].title \in {NoName, BadName} \cup (Names \ {n})
    /\ Execute(<<"repair", p, i, n>>, Retitled(db, i, n))
-----------------------------------------------------------------------------
Row(p, pos, n, u) == [parent |-> p, pos |-> pos, title |-> n,
                      guid |-> IF byGuid /\ n \in Names THEN n ELSE NoName,
                      fk |-> u]

\* store_new(), with what the browser has added: a bookmark with a tag,
\* and a separator.
Init ==
    /\ byGuid \in GuidModes
    /\ \E n \in Names \cup IF byGuid THEN {} ELSE {BadName} :
       db = [bm |-> [i \in Root .. Rule |->
                        CASE i = Root     -> Row(0, 0, "root", NoUrl)
                          [] i = Menu     -> Row(Root, 0, "menu", NoUrl)
                          [] i = TagsRoot -> Row(Root, 1, "tags", NoUrl)
                          [] i = Tag      -> Row(TagsRoot, 0, "tag", NoUrl)
                          [] i = First    -> Row(Menu, 0, n, Blank)
                          [] i = Mark     -> Row(Tag, 0, NoName, Blank)
                          [] i = Rule     -> Row(Menu, 1, NoName, NoUrl)],
             places |-> [u \in {Blank} |-> 2], origins |-> {Origin[Blank]},
             keywords |-> <<>>, touched |-> {}]
    /\ wdb = db
    /\ phase = "idle"
    /\ request = None
    /\ retries = 0

Request ==
    \/ \E p \in BookmarkDirs(db) \cup {TagsRoot}, n \in Names :
        \/ BookmarkCreate(p, n, NoUrl)
        \/ BookmarkDelete(p, n)
        \/ \E m \in Names : \/ BookmarkSwap(p, n, m)
                            \/ \E b \in BOOLEAN : BookmarkShift(p, n, m, b)
    \/ \E p \in BookmarkDirs(db), n \in Names :
        \/ BookmarkCreate(p, n, Blank)
        \/ \E u \in {Blank, NoUrl} : BookmarkCreateTaken(p, n, u)
    \/ \E p, q \in BookmarkDirs(db), n, m \in Names : BookmarkRename(p, n, q, m)
    \/ \E n, m \in Names : BookmarkRename(TagsRoot, n, TagsRoot, m)
    \/ \E t \in TagDirs(db) :
        \/ \E i \in Bookmarks(db) : TagEntryAdd(t, i)
        \/ \E n \in Names : TagEntryDelete(t, n)
    \/ \E k \in Keywords, i \in Bookmarks(db) : KeywordCreate(k, i)
    \/ \E k \in DOMAIN db.keywords : MozkwDelete(k)
    \/ \E i \in DOMAIN db.bm, u \in Urls : BookmarkSet(i, u)
    \/ \E p \in BookmarkDirs(db) \cup {TagsRoot}, n \in Names :
           \E i \in Kids(db, p) \cap Repaired : FsckApply(p, i, n)

Next == Request \/ TxnEnd \/ TxnRollback \/ Crash \/ MozbmInsertAgain

Spec == Init /\ [][Next]_vars /\ WF_vars(TxnEnd \/ TxnRollback \/ MozbmInsertAgain)
-----------------------------------------------------------------------------
(***************************************************************************)
(* Properties.                                                             *)
(***************************************************************************)
\* The tables are a tree whose folders are ordered: the entries of a folder
\* in the order of their positions.
Ordered(p) ==
    LET entries == Kids(db, p)
        before(i) == Cardinality({j \in entries : db.bm[j].pos < db.bm[i].pos})
    IN [k \in 1 .. Cardinality(entries) |->
            CHOOSE i \in entries : before(i) = k - 1]

Tree == INSTANCE BookmarkTree WITH
    Ids     <- 1 .. MaxId,
    NoName  <- NoName,
    kids    <- [i \in {j \in DOMAIN db.bm : IsFolder(db, j)} |-> Ordered(i)],
    entry   <- [i \in DOMAIN db.bm |-> [name |-> NameOf(db.bm[i]), url |-> db.bm[i].fk]],
    keyword <- db.keywords

Databases == {db, wdb}

TypeOK ==
    /\ byGuid \in GuidModes
    /\ phase \in {"idle", "open", "insert"}
    /\ request \in Tree!Requests
    /\ retries \in {0, 1}
    /\ \A d \in Databases :
        /\ DOMAIN d.bm \subseteq 1 .. MaxId
        /\ \A i \in DOMAIN d.bm : d.bm[i].pos \in 0 .. MaxPos
        /\ DOMAIN d.places \subseteq Urls
        /\ DOMAIN d.keywords \subseteq Keywords
        /\ d.touched \subseteq 1 .. MaxId

\* foreign_count is the number of rows of moz_bookmarks and moz_keywords that
\* refer to the place, and a place that is referred to exists: otherwise
\* mozplace_delref() deletes a place that is in use, or never deletes it.
\* mozorigin_delete() removes the origins that no place has, and only these.
RefCountsMatch ==
    /\ db.origins = {Origin[u] : u \in DOMAIN db.places}
    /\ \A u \in Urls :
           LET refs == Cardinality({i \in DOMAIN db.bm : db.bm[i].fk = u})
                     + Cardinality({k \in DOMAIN db.keywords : db.keywords[k] = u})
           IN IF u \in DOMAIN db.places THEN db.places[u] = refs /\ refs > 0
                                        ELSE refs = 0

\* No two entries of a folder share a position: mozbm_pos_shift() gives up
\* with EIO when they do, and readdir would show one of them only.
PositionsDistinct ==
    \A i, j \in DOMAIN db.bm :
        /\ i # j
        /\ db.bm[i].parent = db.bm[j].parent
        => db.bm[i].pos # db.bm[j].pos

\* Every row is below the root, through folders that exist: no request leaves
\* entries behind in a folder that it deletes.
TreeConnected == \A i \in DOMAIN db.bm : Below(db, i, Root)

\* A transaction that changes the entries of a folder sets its lastModified
\* in the same commit (the folders of tags that mozplace_purge() empties are
\* not updated).  fsck_apply() does not, for the folder it works in.
FoldersStamped ==
    [][\A f \in BookmarkDirs(db) \cap BookmarkDirs(db') :
        {<<i, NameOf(db.bm[i]), db.bm[i].pos>> : i \in Kids(db, f)} #
        {<<i, NameOf(db'.bm[i]), db'.bm[i].pos>> : i \in Kids(db', f)}
        => \/ f \in wdb.touched
           \/ request[1] = "repair" /\ request[2] = f]_vars

\* Whatever fails, and wherever the daemon is killed, a request does to the
\* tree what it promises, or nothing: the positions are the order that was
\* asked for, and the last bookmark with a URL takes tags and keywords along.
TreeRefined == Tree!TreeSpec

\* A request that has begun ends, with an error or without.
RequestsReturn == (phase # "idle") ~> (phase = "idle")
=============================================================================
