----------------------------- MODULE BookmarkTree -----------------------------
(***************************************************************************)
(* What a backend promises of its bookmarks: a tree whose folders keep     *)
(* their entries in an order, and keywords.  A request that was made does  *)
(* to the tree what it asks for, in one step, or nothing.                  *)
(*                                                                         *)
(* An entry without a name is a tag: it stands in the folder of the tag    *)
(* for the bookmarks with its URL.  Deleting the last bookmark with a URL  *)
(* takes the tags and the keywords of the URL with it.                     *)
(***************************************************************************)
EXTENDS Naturals, Sequences, SequencesExt

CONSTANTS
    Ids,        \* the entries that can be created
    Names,      \* the names of entries
    NoName,     \* the name of tags and separators
    Urls,       \* URLs
    NoUrl,      \* the URL of a folder
    Keywords    \* keywords

VARIABLES
    kids,       \* the entries of each folder, in order
    entry,      \* the name and the URL of each entry
    keyword,    \* the URL of each keyword
    request     \* the request that is being served

tree     == <<entry, keyword, kids>>
treeVars == <<request, tree>>

None == <<"none">>
-----------------------------------------------------------------------------
Named(u, but) == {i \in DOMAIN entry \ {but} :
                    entry[i].name # NoName /\ entry[i].url = u}

\* What goes when bookmark or folder i does, and the keywords that go with it.
Gone(i) == {i} \cup
    {j \in DOMAIN entry : /\ entry[i].url # NoUrl
                          /\ entry[j].url = entry[i].url
                          /\ Named(entry[i].url, i) = {}}

Purged(i) == {k \in DOMAIN keyword : /\ keyword[k] = entry[i].url
                                     /\ Named(entry[i].url, i) = {}}

\* The entries that a name stands for in a folder: the first one at most.
Lookup(p, n) ==
    LET s    == kids[p]
        here == {k \in DOMAIN s : entry[s[k]].name = n}
    IN  {s[k] : k \in {k \in here : \A l \in here : k <= l}}

Without(s, S) == SelectSeq(s, LAMBDA i : i \notin S)

Position(s, i) == CHOOSE k \in 1 .. Len(s) : s[k] = i

PutAt(s, i, j, d) ==    \* i moves next to j: before it (0) or after it (1)
    LET rest == Without(s, {i})
    IN InsertAt(rest, Position(rest, j) + d, i)

Swapped(s, i, j) == [k \in DOMAIN s |-> CASE s[k] = i -> j
                                          [] s[k] = j -> i
                                          [] OTHER -> s[k]]

\* The tree without the entries S and the keywords K.
Forget(kd, S, K) ==
    /\ kids' = [f \in DOMAIN kd \ S |-> Without(kd[f], S)]
    /\ keyword' = [k \in DOMAIN keyword \ K |-> keyword[k]]
-----------------------------------------------------------------------------
Create(p, n, u) ==
    \E i \in Ids \ DOMAIN entry :
        /\ n # NoName => Lookup(p, n) = {}
        /\ entry' = [j \in DOMAIN entry \cup {i} |->
                        IF j = i THEN [name |-> n, url |-> u] ELSE entry[j]]
        /\ kids' = [f \in DOMAIN kids \cup IF u = NoUrl THEN {i} ELSE {} |->
                        CASE f = i -> <<>>
                          [] f = p -> Append(kids[p], i)
                          [] OTHER -> kids[f]]
        /\ UNCHANGED keyword

Empty(i) == i \in DOMAIN kids => kids[i] = <<>>

\* In the operations below, i and j are entries, j one of folder q.
Delete(i) ==
    /\ entry' = [j \in DOMAIN entry \ Gone(i) |-> entry[j]]
    /\ Empty(i)
    /\ Forget(kids, Gone(i), Purged(i))

\* Removing a tag leaves the bookmark, its other tags and its keywords.
Untag(i) ==
    /\ entry' = [j \in DOMAIN entry \ {i} |-> entry[j]]
    /\ Forget(kids, {i}, {})

Move(i, q, n) ==
    /\ entry' = [entry EXCEPT ![i].name = n]
    /\ Lookup(q, n) = {}
    /\ kids' = [f \in DOMAIN kids |->
                    LET rest == Without(kids[f], {i})
                    IN IF f = q THEN Append(rest, i) ELSE rest]
    /\ UNCHANGED keyword

\* The entry takes the place of the one that it replaces.
Replace(i, q, j) ==
    /\ i # j
    /\ entry' = [k \in DOMAIN entry \ Gone(j) |->
                    IF k = i THEN [entry[i] EXCEPT !.name = entry[j].name]
                             ELSE entry[k]]
    /\ Empty(j)
    /\ (entry[i].url = NoUrl) = (entry[j].url = NoUrl)
    /\ LET moved == [f \in DOMAIN kids |->
                        LET rest == Without(kids[f], {i})
                        IN IF f = q THEN ReplaceAt(rest, Position(rest, j), i)
                                    ELSE rest]
       IN Forget(moved, Gone(j), Purged(j))

Reorder(p, order) ==
    /\ UNCHANGED <<entry, keyword>>
    /\ kids' = [kids EXCEPT ![p] = order]

SetUrl(i, u) ==
    /\ entry[i].url # NoUrl
    /\ entry' = [entry EXCEPT ![i].url = u]
    /\ UNCHANGED <<kids, keyword>>

\* An entry of folder p gets another name, where it is: the name may be one that
\* another entry has, and then only the first of them can be looked up.
Repair(p, i, n) ==
    /\ i \in ToSet(kids[p])
    /\ entry[i].name # n
    /\ entry' = [entry EXCEPT ![i].name = n]
    /\ UNCHANGED <<kids, keyword>>

Bind(k, i) ==
    /\ k \notin DOMAIN keyword /\ entry[i].url # NoUrl
    /\ keyword' = [l \in DOMAIN keyword \cup {k} |->
                    IF l = k THEN entry[i].url ELSE keyword[l]]
    /\ UNCHANGED <<kids, entry>>

Unbind(k) ==
    /\ k \in DOMAIN keyword
    /\ keyword' = [l \in DOMAIN keyword \ {k} |-> keyword[l]]
    /\ UNCHANGED <<kids, entry>>

-----------------------------------------------------------------------------
Requests ==
    LET I == Ids  N == Names  U == Urls
    IN  {None}
        \cup ({"create"} \X I \X N \X (U \cup {NoUrl}))
        \cup ({"delete"} \X I \X N)
        \cup ({"rename"} \X I \X N \X I \X N)
        \cup ({"swap", "before", "after"} \X I \X N \X N)
        \cup ({"tag", "keyword"} \X (I \cup Keywords) \X I)
        \cup ({"untag"} \X I \X N)
        \cup ({"unbind"} \X Keywords)
        \cup ({"set"} \X I \X U)
        \cup ({"repair"} \X I \X I \X N)

Rename(p, n, q, m) ==
    \E i \in Lookup(p, n) : IF Lookup(q, m) = {} THEN Move(i, q, m)
                            ELSE \E j \in Lookup(q, m) : Replace(i, q, j)

Permute(op, p, n, m) ==
    \E i \in Lookup(p, n), j \in Lookup(p, m) :
        Reorder(p, CASE op = "swap"   -> Swapped(kids[p], i, j)
                     [] op = "before" -> PutAt(kids[p], i, j, 0)
                     [] op = "after"  -> PutAt(kids[p], i, j, 1))

\* The bookmarks with that name and the URL of the tag stay.
UntagName(t, n) ==
    \E i \in ToSet(kids[t]), j \in DOMAIN entry :
        /\ entry[j].name = n /\ entry[j].url = entry[i].url
        /\ Untag(i)

Serve(r) ==
    CASE r[1] = "create"  -> Create(r[2], r[3], r[4])
      [] r[1] = "delete"  -> \E i \in Lookup(r[2], r[3]) : Delete(i)
      [] r[1] = "rename"  -> Rename(r[2], r[3], r[4], r[5])
      [] r[1] = "swap"    -> Permute(r[1], r[2], r[3], r[4])
      [] r[1] = "before"  -> Permute(r[1], r[2], r[3], r[4])
      [] r[1] = "after"   -> Permute(r[1], r[2], r[3], r[4])
      [] r[1] = "tag"     -> Create(r[2], NoName, entry[r[3]].url)
      [] r[1] = "untag"   -> UntagName(r[2], r[3])
      [] r[1] = "keyword" -> Bind(r[2], r[3])
      [] r[1] = "unbind"  -> Unbind(r[2])
      [] r[1] = "set"     -> SetUrl(r[2], r[3])
      [] r[1] = "repair"  -> Repair(r[2], r[3], r[4])

TreeInit ==     \* some tree
    /\ request = None
    /\ DOMAIN kids = {f \in DOMAIN entry : entry[f].url = NoUrl}
    /\ \A f \in DOMAIN kids : ToSet(kids[f]) \subseteq DOMAIN entry
    /\ \A k \in DOMAIN keyword : keyword[k] \in Urls

Ask == request = None /\ request' \in Requests /\ UNCHANGED tree

Answer ==
    /\ request # None /\ request' = None
    /\ UNCHANGED tree \/ Serve(request)

TreeSpec == TreeInit /\ [][Ask \/ Answer]_treeVars
=============================================================================
