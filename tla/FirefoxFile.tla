----------------------------- MODULE FirefoxFile ------------------------------
(***************************************************************************)
(* A bookmark file that is open over the Firefox backend: the file handle  *)
(* of fs_ops.c (struct fs_file_handle, one for each inode), its cookie     *)
(* with the data version of the database (struct bm_gcookie), and a        *)
(* browser that writes the database at the same time (lock=normal).        *)
(*                                                                         *)
(* PRAGMA data_version changes with the commits of other connections only. *)
(* bookmark_get() answers EAGAIN when it has not changed since the value   *)
(* was read, and the content of the handle is then used again.             *)
(***************************************************************************)
EXTENDS FirefoxStore

CONSTANT MaxVersion     \* bound on the commits of the browser

ASSUME VersionAssumption == MaxVersion \in Nat \ {0}

VARIABLES
    version,    \* PRAGMA data_version
    polled,     \* the version that bookmark_get() has read, 0: none
    queried,    \* its query is done
    handle,     \* the handle of the open file
    flushing    \* bm_do_write() has begun the transaction

fileVars == <<version, polled, queried, handle, flushing>>
allVars  == <<vars, fileVars>>

\* Without a cookie, version is 0.  alive is history: the row has been there
\* ever since the file was opened.
NoHandle == [id |-> 0, version |-> 0, url |-> NoUrl, dirty |-> FALSE,
             alive |-> FALSE]

IsOpen == handle # NoHandle
-----------------------------------------------------------------------------
FileInit ==
    /\ Init
    /\ version = 1
    /\ polled = 0
    /\ queried = FALSE
    /\ handle = NoHandle
    /\ flushing = FALSE

\* The handle after a step that leaves it alone.
Followed(h) == [h EXCEPT !.alive = @ /\ h.id \in DOMAIN db'.bm]

\* A request that is not for the content of the open file: all writes to a
\* file go through its handle.
OtherRequest ==
    /\ Request \/ TxnEnd \/ TxnRollback
    /\ polled = 0
    /\ ~flushing
    /\ phase = "idle" => request'[1] # "set" \/ request'[2] # handle.id
    /\ handle' = IF IsOpen THEN Followed(handle) ELSE handle
    /\ UNCHANGED <<version, polled, queried, flushing>>

FileOpen(i) ==
    /\ phase = "idle" /\ ~IsOpen /\ ~IsFolder(db, i)
    /\ handle' = [NoHandle EXCEPT !.id = i, !.alive = TRUE]
    /\ UNCHANGED <<vars, version, polled, queried, flushing>>

\* bookmark_get(): data_version, the query, and the cookie.  The content of a dirty
\* handle is not read again.
GetVersion ==
    /\ phase = "idle" /\ IsOpen /\ ~handle.dirty /\ polled = 0
    /\ handle.version # version     \* EAGAIN
    /\ polled' = version
    /\ UNCHANGED <<vars, version, queried, handle, flushing>>

GetQuery ==
    /\ polled # 0 /\ ~queried /\ handle.id \in DOMAIN db.bm
    /\ handle' = [handle EXCEPT !.url = db.bm[handle.id].fk]
    /\ queried' = TRUE
    /\ UNCHANGED <<vars, version, polled, flushing>>

\* Mutant: the cookie gets the version after the query.
GetCookieLate ==
    /\ queried
    /\ handle' = [handle EXCEPT !.version = version]
    /\ polled' = 0
    /\ queried' = FALSE
    /\ UNCHANGED <<vars, version, flushing>>

GetCookie ==
    /\ queried
    /\ handle' = [handle EXCEPT !.version = polled]
    /\ polled' = 0
    /\ queried' = FALSE
    /\ UNCHANGED <<vars, version, flushing>>

GetStale ==
    /\ polled # 0 /\ ~queried /\ handle.id \notin DOMAIN db.bm
    /\ polled' = 0
    /\ UNCHANGED <<vars, version, queried, handle, flushing>>

FileWrite(u) ==
    /\ phase = "idle" /\ IsOpen /\ polled = 0
    /\ handle' = [handle EXCEPT !.url = u, !.dirty = TRUE]
    /\ UNCHANGED <<vars, version, polled, queried, flushing>>

\* bm_do_write(): ESTALE when there is no such row.
Flush ==
    /\ IsOpen /\ handle.dirty /\ handle.id \in DOMAIN db.bm
    /\ BookmarkSet(handle.id, handle.url)
    /\ flushing' = TRUE
    /\ UNCHANGED <<version, polled, queried, handle>>

FlushEnd ==
    /\ flushing
    /\ \/ TxnEnd /\ handle' = [handle EXCEPT !.dirty = FALSE]
       \/ TxnRollback /\ UNCHANGED handle
    /\ flushing' = FALSE
    /\ UNCHANGED <<version, polled, queried>>

\* bm_free(), of a handle that is clean or cannot be written.
FileRelease ==
    /\ phase = "idle" /\ IsOpen /\ polled = 0
    /\ handle.dirty => handle.id \notin DOMAIN db.bm
    /\ handle' = NoHandle
    /\ UNCHANGED <<vars, version, polled, queried, flushing>>

\* The daemon is killed and started again.
FileCrash ==
    /\ Crash
    /\ polled' = 0
    /\ queried' = FALSE
    /\ handle' = NoHandle
    /\ flushing' = FALSE
    /\ UNCHANGED version

\* Another connection commits, between the requests or within bookmark_get().
BrowserCommits(d) ==
    /\ phase = "idle" /\ version < MaxVersion
    /\ db' = [d EXCEPT !.touched = {}]
    /\ wdb' = db'
    /\ version' = version + 1
    /\ handle' = IF IsOpen THEN Followed(handle) ELSE handle
    /\ UNCHANGED <<byGuid, phase, request, retries, polled, queried, flushing>>

FileNext ==
    \/ OtherRequest
    \/ \E i \in DOMAIN db.bm : FileOpen(i)
    \/ GetVersion \/ GetQuery \/ GetCookie \/ GetStale
    \/ \E u \in Urls : FileWrite(u)
    \/ Flush \/ FlushEnd \/ FileRelease \/ FileCrash
    \/ \E i \in Bookmarks(db) :
        \/ \E u \in Urls : BrowserCommits(UrlSet(db, i, u))
        \/ BrowserCommits(Removed(db, db.bm[i].parent, i, TRUE))

FileSpec == FileInit /\ [][FileNext]_allVars
-----------------------------------------------------------------------------
\* EAGAIN is answered only when the content of the handle is still the URL of
\* the bookmark, however the commits of the browser fall between the read of
\* data_version and the query.
AgainIsFresh ==
    /\ phase = "idle" /\ IsOpen /\ ~handle.dirty /\ polled = 0
    /\ handle.alive /\ handle.version = version
    => handle.url = db.bm[handle.id].fk

\* The handle of a bookmark that was deleted is not written to a bookmark that
\* was created since: its write fails with ESTALE.
DeletedNotWritten == [][FlushEnd /\ db' # db => handle.alive]_allVars
=============================================================================
