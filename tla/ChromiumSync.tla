---------------------------- MODULE ChromiumSync ----------------------------
(***************************************************************************)
(* How the Chromium backend (src/src/backend_chromium.c) keeps its copy of *)
(* the bookmark file in step with the browser.  The FUSE thread serves one *)
(* request at a time; each begins with store_load(), which asks the        *)
(* watcher (module Watcher) whether to read the file again.  Changes made  *)
(* through the file system are kept in memory (ctx->dirty) until           *)
(* store_save() replaces the file.                                         *)
(*                                                                         *)
(* What a store holds is abstracted to the serial number of the write, or  *)
(* of the local edit, that produced it.  One open bookmark file, with the  *)
(* cookie of its bookmark_get() calls, stands for all of them.             *)
(***************************************************************************)
EXTENDS Watcher

CONSTANTS
    Checksum,      \* checksum of the store of each serial number
    Freed,         \* a checksum that has been freed
    Addresses,     \* addresses a json_t can have
    Readonly       \* BOOKMARKFS_BACKEND_READONLY

ASSUME ChecksumAssumption == DOMAIN Checksum = Stamps
ASSUME ReadonlyAssumption == Readonly \in BOOLEAN

VARIABLES
    store,     \* ctx->store: what it holds, 0 for NULL
    addr,      \* ctx->store: its address
    sum,       \* ctx->checksum
    dirty,     \* ctx->dirty > DIRTY_LEVEL_NONE
    main,      \* where the FUSE thread is
    op,        \* the request it serves
    cookie,    \* the struct bookmark_gcookie, as a set of at most one record
    view,      \* what the client of the open file has been given or has written
    missed     \* history: which rearm outside store_load() hid a change

syncVars == <<store, addr, sum, dirty, main, op, cookie, view, missed>>
allVars  == <<vars, syncVars>>

SyncInit ==
    /\ Init
    /\ store = 0
    /\ addr \in Addresses
    /\ sum = Freed
    /\ dirty = FALSE
    /\ main = "idle"
    /\ op = "none"
    /\ cookie = {}
    /\ view = 0
    /\ missed = "no"
-----------------------------------------------------------------------------
(***************************************************************************)
(* The browser and the watcher's worker.                                   *)
(***************************************************************************)

\* Chromium saves with rename(); a user may also edit, remove or restore the
\* file.
Browser ==
    /\ \/ Modify
       \/ \E i \in Inodes : Replace(i, FALSE)
       \/ Unlink(FALSE)
       \/ \E i \in Inodes : Create(i)
    /\ UNCHANGED syncVars

\* The store in memory is meant to be what the file holds.
Mirrors == store # 0 /\ (~dirty \/ main = "saved")

WorkerStep ==
    /\ Worker \/ WorkerFails
    /\ missed' = IF /\ worker = "start"
                    /\ worker' = "watch"
                    /\ Mirrors
                    /\ Shown # store
                 THEN "first"
                 ELSE missed
    /\ UNCHANGED <<store, addr, sum, dirty, main, op, cookie, view>>
-----------------------------------------------------------------------------
(***************************************************************************)
(* store_load().                                                           *)
(***************************************************************************)

\* Client-side modification is prioritized: no reload while dirty.
LoadSkipped(o) ==
    /\ main = "idle"
    /\ client = "run"
    /\ dirty
    /\ main' = "run"
    /\ op' = o
    /\ UNCHANGED <<vars, store, addr, sum, dirty, cookie, view, missed>>

\* watcher_poll() returns -EAGAIN: the store is kept, if there is one.
LoadUnchanged(o) ==
    /\ main = "idle"
    /\ ~dirty
    /\ PollAgain
    /\ main' = IF store = 0 THEN "load" ELSE "run"
    /\ op' = o
    /\ UNCHANGED <<store, addr, sum, dirty, cookie, view, missed>>

\* Mutant: the store is kept although the file has changed.
LoadChangedKept(o) ==
    /\ main = "idle"
    /\ ~dirty
    /\ PollChanged
    /\ main' = IF store = 0 THEN "load" ELSE "run"
    /\ op' = o
    /\ UNCHANGED <<store, addr, sum, dirty, cookie, view, missed>>

\* watcher_poll() returns 0: the store is freed.
LoadChanged(o) ==
    /\ main = "idle"
    /\ ~dirty
    /\ PollChanged
    /\ store' = 0
    /\ main' = "load"
    /\ op' = o
    /\ UNCHANGED <<addr, sum, dirty, cookie, view, missed>>

\* watcher_poll() returns -ENOENT or -EIO: the request fails.
LoadRefused ==
    /\ main = "idle"
    /\ ~dirty
    /\ PollNoFile \/ PollFails
    /\ UNCHANGED syncVars

\* Mutant: a missing file is taken for an empty one.
ReadFileUnchecked ==
    /\ main = "load"
    /\ store' = Shown
    /\ addr' \in Addresses
    /\ sum' = Checksum[Shown]
    /\ main' = "run"
    /\ missed' = "no"
    /\ UNCHANGED <<vars, dirty, op, cookie, view>>

\* json_load_file_at() and build_maps().  The new store may have the address of
\* one that is gone and that a cookie remembers: bookmark_get() does not count a
\* reference, and malloc() may hand it out again.
ReadFile ==
    /\ main = "load"
    /\ file # NoFile
    /\ store' = Shown
    /\ addr' \in Addresses
    /\ sum' = Checksum[Shown]
    /\ main' = "run"
    /\ missed' = "no"
    /\ UNCHANGED <<vars, dirty, op, cookie, view>>

\* The file is gone or is not a bookmark file: ctx->store stays NULL.
ReadFails ==
    /\ main = "load"
    /\ file = NoFile \/ MayFail
    /\ main' = "idle"
    /\ op' = "none"
    /\ UNCHANGED <<vars, store, addr, sum, dirty, cookie, view, missed>>
-----------------------------------------------------------------------------
(***************************************************************************)
(* Requests.                                                               *)
(***************************************************************************)

\* json_equal(): comparing with freed memory may give any result.
MayEqual(a, b) == a = b \/ Freed \in {a, b}
MayDiffer(a, b) == a # b \/ Freed \in {a, b}

Finish == main' = "idle" /\ op' = "none"

\* bookmark_get() with a cookie reports -EAGAIN.
GetAgain ==
    /\ main = "run"
    /\ op = "get"
    /\ \E c \in cookie : c.addr = addr \/ MayEqual(c.sum, sum)
    /\ Finish
    /\ UNCHANGED <<vars, store, addr, sum, dirty, cookie, view, missed>>

\* bookmark_get() hands out the value, and the cookie is made or renewed.
GetValue ==
    /\ main = "run"
    /\ op = "get"
    /\ \A c \in cookie : c.addr # addr /\ MayDiffer(c.sum, sum)
    /\ view' = store
    /\ cookie' = {[addr |-> addr, sum |-> sum]}
    /\ Finish
    /\ UNCHANGED <<vars, store, addr, sum, dirty, missed>>

\* The client writes the bookmark: bookmark_set().  A failed bookmark_set(),
\* as any read-only request, only finishes.
Set ==
    /\ main = "run"
    /\ op = "set"
    /\ writes < MaxWrites
    /\ writes' = writes + 1
    /\ now' = now + 1
    /\ store' = writes + 1
    /\ dirty' = TRUE
    /\ view' = writes + 1
    /\ Finish
    /\ UNCHANGED <<impl, file, data, mtime, moved, orphans, kernelVars, watcherVars,
                   clientVars, armed, addr, sum, cookie, missed>>

SetFails ==
    /\ main = "run"
    /\ op = "set"
    /\ Finish
    /\ UNCHANGED <<vars, store, addr, sum, dirty, cookie, view, missed>>
-----------------------------------------------------------------------------
(***************************************************************************)
(* store_save(), on bookmark_sync() and on backend_destroy().              *)
(***************************************************************************)

\* json_dump_file_at(): a temporary file is renamed over the file.
RenameOver(i) ==
    /\ i \in Free
    /\ file' = i
    /\ data' = [data EXCEPT ![i] = store]
    /\ mtime' = [mtime EXCEPT ![i] = store]
    /\ IF file = NoFile THEN UNCHANGED kernelVars ELSE Notify({file}, {file})
    /\ UNCHANGED <<impl, moved, orphans, writes, now, watcherVars, clientVars,
                   armed>>

\* The new checksum replaces the old one in the store; ctx->checksum still
\* refers to the old one, which lives on only if a cookie shares it.
StaleSum == IF \E c \in cookie : c.sum = sum THEN sum ELSE Freed

Save(i, o) ==
    /\ main = "idle"
    /\ client = "run"
    /\ dirty
    /\ RenameOver(i)
    /\ sum' = StaleSum
    /\ main' = "saved"
    /\ op' = o
    /\ missed' = "no"
    /\ UNCHANGED <<store, addr, dirty, cookie, view>>

\* The directory cannot be synced: the file is replaced, the store stays dirty.
SaveUnsynced(i) ==
    /\ MayFail
    /\ main = "idle"
    /\ client = "run"
    /\ dirty
    /\ RenameOver(i)
    /\ sum' = StaleSum
    /\ UNCHANGED <<store, addr, dirty, main, op, cookie, view, missed>>

\* Mutant: the store is marked clean although it could not be written.
SaveFailsClean ==
    /\ MayFail
    /\ main = "idle"
    /\ client = "run"
    /\ dirty
    /\ dirty' = FALSE
    /\ sum' = StaleSum
    /\ UNCHANGED <<vars, store, addr, main, op, cookie, view, missed>>

\* The temporary file cannot be written.
SaveFails ==
    /\ MayFail
    /\ main = "idle"
    /\ client = "run"
    /\ dirty
    /\ sum' = StaleSum
    /\ UNCHANGED <<vars, store, addr, dirty, main, op, cookie, view, missed>>

\* The watcher_poll() at the end of store_save(), whose result is not used.
SaveDone ==
    /\ main = "saved"
    /\ Poll
    /\ missed' = IF flags' # flags /\ Shown # store THEN "save" ELSE missed
    /\ dirty' = FALSE
    /\ main' = IF op = "sync" THEN "idle" ELSE "destroy"
    /\ op' = "none"
    /\ UNCHANGED <<store, addr, sum, cookie, view>>

\* backend_destroy(): watcher_destroy() follows store_save(), which has done
\* nothing for a clean store and may have failed for a dirty one.
Unmount ==
    /\ \/ main = "destroy"
       \/ main = "idle" /\ (~dirty \/ MayFail)
    /\ DestroyClose
    /\ main' = "destroy"
    /\ UNCHANGED <<store, addr, sum, dirty, op, cookie, view, missed>>

UnmountDone ==
    /\ DestroySignal \/ DestroyJoin
    /\ UNCHANGED syncVars
-----------------------------------------------------------------------------
Begin(o) == LoadSkipped(o) \/ LoadUnchanged(o) \/ LoadChanged(o)

SyncNext ==
    \/ Browser
    \/ WorkerStep
    \/ \E o \in IF Readonly THEN {"get"} ELSE {"get", "set"} : Begin(o)
    \/ LoadRefused
    \/ ReadFile
    \/ ReadFails
    \/ GetAgain
    \/ GetValue
    \/ Set
    \/ SetFails
    \/ \E i \in Inodes, o \in {"sync", "unmount"} : Save(i, o)
    \/ \E i \in Inodes : SaveUnsynced(i)
    \/ SaveFails
    \/ SaveDone
    \/ Unmount
    \/ UnmountDone

SyncSpec == SyncInit /\ [][SyncNext]_allVars

(***************************************************************************)
(* Fairness: the worker runs (its system calls need not fail); the FUSE    *)
(* thread finishes the request it has begun, and while the file system is  *)
(* mounted a client goes on reading.                                       *)
(***************************************************************************)
SyncFairness ==
    /\ WF_allVars(Worker /\ WorkerStep)
    /\ WF_allVars(ReadFile \/ ReadFails \/ GetAgain \/ GetValue \/ SetFails
                  \/ SaveDone)
    /\ WF_allVars(LoadChanged("get"))

SyncLiveSpec == SyncSpec /\ SyncFairness
-----------------------------------------------------------------------------
(***************************************************************************)
(* Properties.                                                             *)
(***************************************************************************)

\* Every field of struct backend_ctx and of the cookie keeps its type, and no
\* request gets past store_load() without a store to work on.
SyncTypeOK ==
    /\ TypeOK
    /\ store \in Stamps
    /\ addr \in Addresses
    /\ dirty \in BOOLEAN
    /\ main \in {"idle", "load", "run", "saved", "destroy"}
    /\ op \in {"none", "get", "set", "sync", "unmount"}
    /\ cookie \subseteq [addr : Addresses, sum : {Checksum[n] : n \in Stamps}
                                              \cup {Freed}]
    /\ view \in Stamps
    /\ missed \in {"no", "first", "save"}
    /\ main \in {"run", "saved"} \/ dirty => store # 0

\* The store in memory is meant to be what the file holds, and is not.
Behind == store # 0 /\ ~dirty /\ file # NoFile /\ Shown # store

\* The same between two requests.
StaleStore == main = "idle" /\ Behind

\* A change by another process can stay unnoticed by store_load() only if
\* the watcher was armed after it by someone other than store_load(): the
\* worker's first impl_rearm(), or the watcher_poll() of store_save().  In
\* every other stale state the worker has noticed the change or will.
StaleOnlyIfMissed ==
    StaleStore =>
        \/ missed # "no"
        \/ "IDLE" \in flags
        \/ worker \in {"start", "unmark", "drain"}
        \/ Noticeable

\* ctx->dirty: what the client has changed is never replaced by what another
\* process wrote, and stays dirty until a save has replaced the file.
EditsSurvive ==
    [][dirty => \/ dirty' /\ (store' = store \/ op = "set")
                \/ main = "saved" /\ store' = store]_allVars

\* bookmark_get() with a cookie: doc/bookmarkfs.texi:2440 "EAGAIN: Bookmark
\* data has not been changed externally since the last call to bookmark_get
\* with the same cookie."  What the client holds has the store's checksum.
AgainMeansUnchanged == [][GetAgain => Checksum[view] = Checksum[store]]_allVars

\* doc/bookmarkfs.texi:2452 "False negatives are also acceptable for a short
\* time duration (preferably no more than a few seconds)": a change by another
\* process that was not missed in one of these two ways is seen sooner or
\* later: while the file system is mounted, some request of a client that goes
\* on reading drops the old store.
FreshUnlessMissed ==
    (Behind /\ missed = "no")
        ~> (~Behind \/ missed # "no" \/ worker = "dead" \/ main = "destroy")
=============================================================================
