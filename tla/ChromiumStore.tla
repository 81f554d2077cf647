---------------------------- MODULE ChromiumStore ----------------------------
(***************************************************************************)
(* The bookmark tree of the Chromium backend (src/src/backend_chromium.c): *)
(* the JSON document that is written to the bookmark file, and the three   *)
(* hash maps over it that every request goes through (struct backend_ctx). *)
(* Bookmarks are named by their titles, not by GUID.                       *)
(*                                                                         *)
(* A bookmark whose title is no valid filename, or the title of an earlier *)
(* sibling, is hidden: it has an entry in id_map, without a name.  When    *)
(* the file is loaded again, everything but the document is built afresh.  *)
(***************************************************************************)
EXTENDS Naturals, Sequences, FiniteSets, SequencesExt

CONSTANTS
    MaxId,      \* BOOKMARKFS_MAX_ID
    Names,      \* valid filenames
    BadName,    \* a title that is no valid filename
    Guids,      \* GUIDs, besides the ones of the top folders
    Listed,     \* the folders that are read with a directory stream
    MaxStreamId \* bound on the ids while one is open

Root == 0                   \* BOOKMARKS_ROOT_ID, the fake root
Tops == {1, 2}              \* bookmark bar, other bookmarks
Ids  == 0 .. MaxId

ASSUME IdAssumption == MaxId \in Nat /\ MaxId >= 4
ASSUME NameAssumption == BadName \notin Names
ASSUME GuidAssumption == Guids \cap {"none", "bar", "other"} = {}
ASSUME ListedAssumption == Listed \subseteq Ids /\ MaxStreamId \in Ids

VARIABLES
    \* The JSON document; what is not in it has its default.
    children,   \* the ids in the "children" of each folder, in order
    title,      \* "name"
    folders,    \* the ids of type "folder"
    guid,       \* "guid"
    \* The maps.
    parent,     \* id_map: the parent_id of each entry
    shown,      \* the entries whose name is not NULL
    assoc,      \* assoc_map: <<parent_id and name that were hashed, id>>
    guids,      \* guid_map: <<guid, id>>
    maxId,      \* ctx->max_id
    \* One directory stream: a bookmark_lcookie and the offset of its reader.
    stream,     \* [dir, snap, off]
    \* History.
    stay,       \* entries that were in the directory ever since it was opened,
                \* with the number of times that the stream has returned them
    outdated,   \* folders whose entries a request has changed, and whose
                \* date_modified is from before that, with the request
    repaired    \* the folders and names of entries that fsck_apply() has named

document   == <<children, title, folders, guid>>
maps       == <<parent, shown, assoc, guids, maxId>>
vars       == <<document, maps, stream, stay, outdated, repaired>>

NoName == "none"
NoGuid == "none"
NoStream == [dir |-> Root, snap |-> <<>>, off |-> 0]
-----------------------------------------------------------------------------
(***************************************************************************)
(* What build_maps() makes of a document.                                  *)
(***************************************************************************)

\* The parent of each node: maps_iter_cb() under iter_node().
ParentIn(ch) ==
    LET kids == UNION {ToSet(ch[p]) : p \in Ids}
    IN  [i \in kids \cup {Root} |->
            IF i = Root THEN Root ELSE CHOOSE p \in Ids : i \in ToSet(ch[p])]

\* A child gets its name if that is valid and no sibling before it has it.
Nameable(s, nm, k) ==
    /\ nm[s[k]] # BadName
    /\ \A j \in 1 .. k - 1 : nm[s[j]] # nm[s[k]]

\* The children of a nameless entry stay nameless.
ShownIn(ch, nm) ==
    LET level[d \in 0 .. MaxId] ==
            IF d = 0 THEN {Root}
            ELSE LET up == level[d - 1]
                 IN  up \cup UNION {{ch[p][k] : k \in {k \in DOMAIN ch[p] :
                                                       Nameable(ch[p], nm, k)}}
                                    : p \in up}
    IN  level[MaxId]

AssocIn(ch, nm) ==
    LET par == ParentIn(ch)
    IN  {<<par[i], nm[i], i>> : i \in ShownIn(ch, nm) \ {Root}}

\* iter_roots() refuses a document with a GUID that occurs twice.
Loadable ==
    LET nodes == DOMAIN ParentIn(children) \ {Root}
    IN  \A i, j \in nodes : guid[i] = guid[j] => i = j

\* Mutant: a hidden node does not count for max_id.
BuildMapsShown(ch, nm, gu) ==
    /\ parent' = ParentIn(ch)
    /\ shown' = ShownIn(ch, nm)
    /\ assoc' = AssocIn(ch, nm)
    /\ guids' = {<<gu[i], i>> : i \in DOMAIN ParentIn(ch) \ {Root}}
    /\ maxId' = Max(ShownIn(ch, nm))

BuildMaps(ch, nm, gu) ==
    /\ parent' = ParentIn(ch)
    /\ shown' = ShownIn(ch, nm)
    /\ assoc' = AssocIn(ch, nm)
    /\ guids' = {<<gu[i], i>> : i \in DOMAIN ParentIn(ch) \ {Root}}
    /\ maxId' = Max(DOMAIN ParentIn(ch))
-----------------------------------------------------------------------------
\* The two top folders, and two more nodes in the bookmark bar: any mixture of
\* kinds and titles that the browser may have saved.
Init ==
    /\ children = [i \in Ids |-> IF i = Root THEN <<1, 2>>
                                 ELSE IF i = 1 THEN <<3, 4>> ELSE <<>>]
    /\ \E a, b \in Names \cup {BadName} :
           title = [i \in Ids |-> CASE i = 1 -> "bar" [] i = 2 -> "other"
                                    [] i = 3 -> a [] i = 4 -> b
                                    [] OTHER -> NoName]
    /\ \E D \in SUBSET {3, 4} : folders = {Root} \cup Tops \cup D
    /\ \E g, h \in Guids :
           /\ g # h
           /\ guid = [i \in Ids |-> CASE i = 1 -> "bar" [] i = 2 -> "other"
                                      [] i = 3 -> g [] i = 4 -> h
                                      [] OTHER -> NoGuid]
    /\ parent = ParentIn(children)
    /\ shown = ShownIn(children, title)
    /\ assoc = AssocIn(children, title)
    /\ guids = {<<guid[i], i>> : i \in 1 .. 4}
    /\ maxId = 4
    /\ stream = NoStream
    /\ stay = << >>
    /\ outdated = {}
    /\ repaired = {}

\* lookup_id(), with the check that the entry has a name.
Live(i) == i \in shown

\* lookup_name(): the bucket of the hash of parent and name is searched for an
\* entry with this parent and this name.
Lookup(p, n) == {i \in shown : <<p, n, i>> \in assoc /\ parent[i] = p /\ title[i] = n}

\* A folder in which entries may be changed: not the root (EPERM), there
\* (ESTALE), a folder (ENOTDIR).
Writable(p) == p # Root /\ Live(p) /\ p \in folders

WithoutId(S, i) == {t \in S : t[Len(t)] # i}

\* json_array_remove() at the index that json_array_search() has found.
Taken(s, i) == RemoveAt(s, CHOOSE j \in DOMAIN s : s[j] = i)
WithoutKey(f, i) == [j \in DOMAIN f \ {i} |-> f[j]]

\* hashmap_insert() and hashmap_update() may resize the map, which hashes
\* every entry afresh, by its parent and its name.
Resized(S) == {S, {<<parent[t[3]], title[t[3]], t[3]>> : t \in S}}

\* The JSON object of id i is freed.
FreeNode(i) ==
    /\ title' = [title EXCEPT ![i] = NoName]
    /\ folders' = folders \ {i}
    /\ guid' = [guid EXCEPT ![i] = NoGuid]

\* A request changes what is in some folders, and calls node_mtime_now() of
\* the folders in S.
Entries(p) == {<<i, title[i]>> : i \in {i \in shown : parent[i] = p}}
Changed == {p \in Ids : Entries(p)' # Entries(p) \/ children'[p] # children[p]}
Stamp(S, why) ==
    outdated' = {o \in outdated \cup (Changed \X {why}) : o[1] \notin S}

\* The end of a request of the kernel; and which entries are still there as
\* they were when the stream was opened.
Done(S) ==
    /\ Stamp(S, "request")
    /\ LET kept == {i \in DOMAIN stay : /\ i \in shown'
                                         /\ parent'[i] = stream.dir
                                         /\ title'[i] = title[i]}
       IN  stay' = [i \in kept |-> stay[i]]
    /\ repaired' = repaired \cap {<<parent'[i], title'[i]>> : i \in shown'}
-----------------------------------------------------------------------------
(***************************************************************************)
(* Requests.                                                               *)
(***************************************************************************)

\* build_node_id(), build_node_guid(): ids are counted up; a random GUID is one
\* that no node has.
NewId == maxId + 1
FreshGuids == Guids \ {guid[j] : j \in Ids}

\* bookmark_create(), build_node().
Create(p, n, isDir) ==
    /\ Writable(p)
    /\ Lookup(p, n) = {}
    /\ NewId <= IF stream = NoStream THEN MaxId ELSE MaxStreamId
    /\ LET i == NewId IN
       /\ children' = [children EXCEPT ![p] = Append(@, i)]
       /\ title' = [title EXCEPT ![i] = n]
       /\ folders' = IF isDir THEN folders \cup {i} ELSE folders
       /\ \E g \in FreshGuids :
              /\ guid' = [guid EXCEPT ![i] = g]
              /\ guids' = guids \cup {<<g, i>>}
       /\ parent' = [j \in DOMAIN parent \cup {i} |-> IF j = i THEN p ELSE parent[j]]
       /\ shown' = shown \cup {i}
       /\ \E A \in Resized(assoc) : assoc' = A \cup {<<p, n, i>>}
       /\ maxId' = i
    /\ UNCHANGED stream
    /\ Done({p})

\* bookmark_delete().
Delete(p, n, isDir) ==
    /\ Writable(p)
    /\ \E i \in Lookup(p, n) :
       /\ isDir <=> i \in folders
       /\ children[i] = <<>>
       /\ children' = [children EXCEPT ![p] = Taken(@, i)]
       /\ FreeNode(i)
       /\ parent' = WithoutKey(parent, i)
       /\ shown' = shown \ {i}
       /\ assoc' \in Resized(WithoutId(assoc, i))
       /\ guids' = WithoutId(guids, i)
    /\ UNCHANGED <<maxId, stream>>
    /\ Done({p})

\* bookmark_permute(): s with its j-th element swapped with, or moved before or
\* after, its k-th.
Permuted(s, op, j, k) ==
    LET to == IF op = "MOVE_AFTER" THEN k + 1 ELSE k
    IN  IF op = "SWAP" THEN [s EXCEPT ![j] = s[k], ![k] = s[j]]
        ELSE IF j > to THEN InsertAt(RemoveAt(s, j), to, s[j])
        ELSE RemoveAt(InsertAt(s, to, s[j]), j)

Permute(p, op, n1, n2) ==
    /\ Writable(p)
    /\ \E i1 \in Lookup(p, n1), i2 \in Lookup(p, n2) :
       /\ i1 # i2
       /\ LET s == children[p]
              j == CHOOSE j \in DOMAIN s : s[j] = i1
              k == CHOOSE k \in DOMAIN s : s[k] = i2
          IN  /\ ~(op = "MOVE_AFTER" /\ j = k + 1)
              /\ children' = [children EXCEPT ![p] = Permuted(s, op, j, k)]
    /\ UNCHANGED <<title, folders, guid, maps, stream>>
    /\ Done({p})

\* The kernel refuses to move a folder into itself.
Below(i) ==
    LET below[d \in 0 .. MaxId] ==
            IF d = 0 THEN {i}
            ELSE LET up == below[d - 1]
                 IN  up \cup UNION {ToSet(children[p]) : p \in up}
    IN  below[MaxId]

\* Mutant: the entry is inserted with the hash code of its old name.
RenameOldHash(p, n, q, m) ==
    /\ Writable(p)
    /\ Writable(q)
    /\ Lookup(q, m) = {}
    /\ \E i \in Lookup(p, n) :
       /\ q \notin Below(i)
       /\ title' = [title EXCEPT ![i] = m]
       /\ parent' = [parent EXCEPT ![i] = q]
       /\ children' = IF p = q THEN children
                      ELSE [children EXCEPT ![p] = Taken(@, i), ![q] = Append(@, i)]
       /\ \E A \in Resized(WithoutId(assoc, i)) : assoc' = A \cup {<<p, n, i>>}
    /\ UNCHANGED <<folders, guid, shown, guids, maxId, stream>>
    /\ Done({p, q})

\* Mutant: only the old folder gets a new time stamp.
RenameUnstamped(p, n, q, m) ==
    /\ Writable(p)
    /\ Writable(q)
    /\ Lookup(q, m) = {}
    /\ \E i \in Lookup(p, n) :
       /\ q \notin Below(i)
       /\ title' = [title EXCEPT ![i] = m]
       /\ parent' = [parent EXCEPT ![i] = q]
       /\ children' = IF p = q THEN children
                      ELSE [children EXCEPT ![p] = Taken(@, i), ![q] = Append(@, i)]
       /\ \E A \in Resized(WithoutId(assoc, i)) : assoc' = A \cup {<<q, m, i>>}
    /\ UNCHANGED <<folders, guid, shown, guids, maxId, stream>>
    /\ Done({p})

\* bookmark_rename() to a name that is free.
RenameFree(p, n, q, m) ==
    /\ Writable(p)
    /\ Writable(q)
    /\ Lookup(q, m) = {}
    /\ \E i \in Lookup(p, n) :
       /\ q \notin Below(i)
       /\ title' = [title EXCEPT ![i] = m]
       /\ parent' = [parent EXCEPT ![i] = q]
       /\ children' = IF p = q THEN children
                      ELSE [children EXCEPT ![p] = Taken(@, i), ![q] = Append(@, i)]
       /\ \E A \in Resized(WithoutId(assoc, i)) : assoc' = A \cup {<<q, m, i>>}
    /\ UNCHANGED <<folders, guid, shown, guids, maxId, stream>>
    /\ Done({p, q})

\* bookmark_rename() over an entry of the same folder.  The entry that is
\* replaced goes from the maps; its node stays in the document.
RenameReplace(p, n, m) ==
    /\ Writable(p)
    /\ \E i \in Lookup(p, n), t \in Lookup(p, m) :
       /\ i # t
       /\ i \in folders <=> t \in folders
       /\ children[t] = <<>>
       /\ title' = [title EXCEPT ![i] = m]
       /\ parent' = WithoutKey(parent, t)
       /\ shown' = shown \ {t}
       /\ \E A \in Resized(WithoutId(WithoutId(assoc, t), i)) :
              assoc' = A \cup {<<p, m, i>>}
       /\ guids' = WithoutId(guids, t)
    /\ UNCHANGED <<children, folders, guid, maxId, stream>>
    /\ Done({p})

\* Mutant: the old node is not removed from its folder.
RenameIntoKept(p, n, q, m) ==
    /\ Writable(p)
    /\ Writable(q)
    /\ p # q
    /\ \E i \in Lookup(p, n), t \in Lookup(q, m) :
       /\ q \notin Below(i)
       /\ i \in folders <=> t \in folders
       /\ children[t] = <<>>
       /\ children' = [children EXCEPT ![q] = ReplaceAll(@, t, i)]
       /\ title' = [title EXCEPT ![i] = m, ![t] = NoName]
       /\ folders' = folders \ {t}
       /\ guid' = [guid EXCEPT ![t] = NoGuid]
       /\ parent' = [WithoutKey(parent, t) EXCEPT ![i] = q]
       /\ shown' = shown \ {t}
       /\ \E A \in Resized(WithoutId(WithoutId(assoc, t), i)) :
              assoc' = A \cup {<<q, m, i>>}
       /\ guids' = WithoutId(guids, t)
       /\ stream' = [stream EXCEPT !.snap = ReplaceAll(@, t, i)]
    /\ UNCHANGED maxId
    /\ Done({p, q})

\* bookmark_rename() over an entry of another folder.  The contents of the old
\* node are copied over the new one, also in the list that a stream holds.
RenameReplaceInto(p, n, q, m) ==
    /\ Writable(p)
    /\ Writable(q)
    /\ p # q
    /\ \E i \in Lookup(p, n), t \in Lookup(q, m) :
       /\ q \notin Below(i)
       /\ i \in folders <=> t \in folders
       /\ children[t] = <<>>
       /\ children' = [children EXCEPT ![p] = Taken(@, i), ![q] = ReplaceAll(@, t, i)]
       /\ title' = [title EXCEPT ![i] = m, ![t] = NoName]
       /\ folders' = folders \ {t}
       /\ guid' = [guid EXCEPT ![t] = NoGuid]
       /\ parent' = [WithoutKey(parent, t) EXCEPT ![i] = q]
       /\ shown' = shown \ {t}
       /\ \E A \in Resized(WithoutId(WithoutId(assoc, t), i)) :
              assoc' = A \cup {<<q, m, i>>}
       /\ guids' = WithoutId(guids, t)
       /\ stream' = [stream EXCEPT !.snap = ReplaceAll(@, t, i)]
    /\ UNCHANGED maxId
    /\ Done({p, q})

\* Mutant: guid_map keeps the old GUID.
SetGuidUnmapped(i, g) ==
    /\ Live(i)
    /\ parent[i] # Root
    /\ \A t \in guids : t[1] # g
    /\ guid' = [guid EXCEPT ![i] = g]
    /\ UNCHANGED <<children, title, folders, parent, shown, assoc, guids, maxId,
                   stream, stay, outdated, repaired>>

\* bookmark_set() of the extended attribute "guid".
SetGuid(i, g) ==
    /\ Live(i)
    /\ parent[i] # Root
    /\ \A t \in guids : t[1] # g
    /\ guid' = [guid EXCEPT ![i] = g]
    /\ guids' = WithoutId(guids, i) \cup {<<g, i>>}
    /\ UNCHANGED <<children, title, folders, parent, shown, assoc, maxId,
                   stream, stay, outdated, repaired>>

\* fsck_apply(): a hidden entry gets a name.  The name is hashed with the
\* entry's own id, both to search for a duplicate and to insert the entry.  The
\* time stamp of the folder is not touched.
FsckApply(p, i, n) ==
    /\ Live(p)
    /\ p \in folders
    /\ i \in DOMAIN parent \ shown
    /\ parent[i] = p
    /\ ~ \E j \in shown : <<i, n, j>> \in assoc /\ parent[j] = p /\ title[j] = n
    /\ title' = [title EXCEPT ![i] = n]
    /\ shown' = shown \cup {i}
    /\ \E A \in Resized(assoc) : assoc' = A \cup {<<i, n, i>>}
    /\ repaired' = repaired \cup {<<p, n>>}
    /\ UNCHANGED <<children, folders, guid, parent, guids, maxId, stream, stay>>
    /\ Stamp({}, "fsck_apply")

\* bookmark_sync() writes the document to the file, and later store_load()
\* reads it back, when the watcher reports a change of the file (module
\* ChromiumSync says when that happens).
Reload ==
    /\ Loadable
    /\ BuildMaps(children, title, guid)
    /\ repaired' = {}
    /\ stay' = [i \in {i \in DOMAIN stay : i \in shown'} |-> stay[i]]
    /\ UNCHANGED <<document, stream, outdated>>
-----------------------------------------------------------------------------
(***************************************************************************)
(* bookmark_list() with a cookie.                                          *)
(***************************************************************************)

\* The first read, or one after rewinddir(): the children are copied.  The
\* cookie that opendir() makes is not shown: with an offset of 0 the children
\* are fetched again (as they are then).
ListOpen(p) ==
    /\ Live(p) /\ maxId <= MaxStreamId
    /\ p \in folders
    /\ stream' = [dir |-> p, snap |-> children[p], off |-> 0]
    /\ stay' = [i \in {i \in shown : parent[i] = p /\ i # Root} |-> 0]
    /\ UNCHANGED <<document, maps, outdated, repaired>>

\* The next entry: parse_entry() skips what has no name or is gone.
Return(i) ==
    /\ stay' = IF i \in shown \cap DOMAIN stay THEN [stay EXCEPT ![i] = @ + 1]
               ELSE stay
    /\ stream' = [stream EXCEPT !.off = @ + 1]
    /\ UNCHANGED <<document, maps, outdated, repaired>>

\* Mutant: the children are not copied.
ListNextLive ==
    /\ stream.off < Len(stream.snap)
    /\ stream.off < Len(children[stream.dir])
    /\ Return(children[stream.dir][stream.off + 1])

ListNext ==
    /\ stream.off < Len(stream.snap)
    /\ Return(stream.snap[stream.off + 1])

Ops == {"SWAP", "MOVE_BEFORE", "MOVE_AFTER"}

Next ==
    \/ \E p \in Ids, n \in Names, d \in BOOLEAN : Create(p, n, d) \/ Delete(p, n, d)
    \/ \E p \in Ids, op \in Ops, n1, n2 \in Names : Permute(p, op, n1, n2)
    \/ \E p, q \in Ids, n, m \in Names : RenameFree(p, n, q, m)
    \/ \E p \in Ids, n, m \in Names : RenameReplace(p, n, m)
    \/ \E p, q \in Ids, n, m \in Names : RenameReplaceInto(p, n, q, m)
    \/ \E i \in Ids, g \in Guids : SetGuid(i, g)
    \/ \E p, i \in Ids, n \in Names : FsckApply(p, i, n)
    \/ Reload
    \/ \E p \in Listed : ListOpen(p)
    \/ ListNext

Spec == Init /\ [][Next]_vars
-----------------------------------------------------------------------------
(***************************************************************************)
(* Properties.                                                             *)
(***************************************************************************)
Nodes == UNION {ToSet(children[p]) : p \in Ids}

\* The state is well-formed; max_id is at least every id in use, so that
\* build_node_id() makes a new one.
TypeOK ==
    /\ children \in [Ids -> Seq(Ids)]
    /\ title \in [Ids -> Names \cup {BadName, NoName, "bar", "other"}]
    /\ guid \in [Ids -> Guids \cup {NoGuid, "bar", "other"}]
    /\ folders \subseteq Ids
    /\ DOMAIN parent \subseteq 0 .. maxId
    /\ maxId \in Ids
    /\ shown \subseteq DOMAIN parent
    /\ repaired \subseteq Ids \X Names

\* id_map and the document are the same tree: an entry is in the folder its
\* parent_id names, once, and in no other, and can be reached from the root.
\* assoc_map and guid_map hold no entry that has been freed: whatever order of
\* requests removes entries, it removes them from all three maps.
MapsMatchTree ==
    /\ \A t \in assoc : t[3] \in shown
    /\ \A t \in guids : t[2] \in DOMAIN parent
    /\ \A i \in DOMAIN parent \ {Root} :
           {p \in Ids : i \in ToSet(children[p])} = {parent[i]}
    /\ \A p \in Ids : IsInjective(children[p])
    /\ DOMAIN parent \subseteq Below(Root)
    /\ \A p \in Ids : children[p] # <<>> => p \in folders \cap DOMAIN parent

\* What bookmark_list() shows, bookmark_lookup() finds, and finds only that:
\* each entry with a name is in a folder with a name, and is the one that the
\* name stands for.  Names that fsck_apply() gave are excepted (see
\* RepairedIsVisible).
LookupMatchesList ==
    \A i \in shown \ {Root} :
        /\ parent[i] \in shown \cap folders
        /\ <<parent[i], title[i]>> \notin repaired =>
               Lookup(parent[i], title[i]) = {i}

\* Saving the document and loading it again changes nothing that can be seen.
\* Excepted are bookmarks that build_maps() has hidden because of their name,
\* when it was an earlier sibling's, and what RepairedIsVisible and
\* ReplacedStaysGone are about.
SameAfterReload ==
    ( /\ Nodes \subseteq DOMAIN parent
      /\ repaired = {}
      /\ \A i \in DOMAIN parent \ shown :
             title[i] = BadName \/ parent[i] \notin shown )
    => /\ Loadable
       /\ parent = ParentIn(children)
       /\ shown = ShownIn(children, title)
       /\ assoc = AssocIn(children, title)
       /\ guids = {<<guid[i], i>> : i \in Nodes}

\* A create, delete, permute, rename or replacement that changes what is in a
\* folder, the old one or the new one, sets that folder's time stamp: the only
\* folders older than their entries are those in which fsck_apply() has named
\* an entry since.  (For all requests this does not hold: see AlwaysStamped.)
FoldersStamped == outdated \subseteq Ids \X {"fsck_apply"}

\* No folder is older than its entries.  fsck_apply() breaks this.
AlwaysStamped == outdated = {}

\* A directory stream that has come to its end has returned each entry that
\* was in the directory all the time exactly once, whatever was deleted, moved,
\* renamed, repaired or reloaded meanwhile.
ReadOnce ==
    stream.off = Len(stream.snap) => \A i \in DOMAIN stay : stay[i] = 1

\* "To ensure that the rename is visible to further lookups and readdir()
\* calls, fsync() or close() the directory": a name that fsck_apply() gave can
\* be looked up.
RepairedIsVisible ==
    \A i \in shown : <<parent[i], title[i]>> \in repaired =>
                        i \in Lookup(parent[i], title[i])

\* What a rename has replaced is gone: when the file is loaded again, no entry
\* is shown that had been removed.
ReplacedStaysGone == ShownIn(children, title) \subseteq DOMAIN parent
=============================================================================
