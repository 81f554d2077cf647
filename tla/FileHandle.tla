----------------------------- MODULE FileHandle -----------------------------
(***************************************************************************)
(* One regular file of the mounted file system (src/src/fs_ops.c): the     *)
(* struct fs_file_handle that all open descriptions of the file share, and *)
(* the bookmark behind it.  The daemon serves one FUSE request at a time;  *)
(* every action is a request of some process, or a change of the bookmark  *)
(* by another program.  The backend is what bookmark_get(), bookmark_set() *)
(* and bookmark_lookup() are specified to be; any call of it may fail.     *)
(*                                                                         *)
(* The content of a file is a short sequence of characters: two ordinary   *)
(* ones, the NUL that fills holes and the newline of the `eol' option.     *)
(***************************************************************************)
EXTENDS Naturals, Sequences

CONSTANTS
    Nul, Newline,   \* '\0' and '\n'
    Letters,        \* the characters that clients write, Newline included
    FileMax,        \* ctx.file_max
    MaxOpen,        \* bound on concurrently open descriptions
    MaxTime,        \* bound on the clock
    Mounts,         \* the combinations of ctx.flags that are looked at
    Failing         \* the calls of the backend that may fail

ASSUME CharAssumption == Newline \in Letters /\ Nul \notin Letters
ASSUME LimitAssumption == {FileMax, MaxOpen, MaxTime} \subseteq Nat \ {0}
ASSUME FlagAssumption ==
    Mounts \subseteq [eol : BOOLEAN, exclusive : BOOLEAN, ctime : BOOLEAN]
ASSUME FailureAssumption == Failing \subseteq {"setattr", "writeback"}

VARIABLES
    \* The bookmark.
    url,        \* its value
    remtime,    \* its modification time
    version,    \* number of changes by other programs
    \* struct fs_file_handle.
    refcount,   \* 0: the handle does not exist
    flags,      \* FH_FLAG_DIRTY, FH_FLAG_MTIME
    loaded,     \* buf is not NULL
    buf,        \* the first data_len bytes of buf
    mtime,
    cookie,     \* the version that bookmark_get() has seen, as a singleton set
    \* The environment.
    mount,      \* the flags that the file system was mounted with
    now,        \* the clock
    alive,      \* the daemon runs
    \* History: what POSIX says the file holds (when other programs may change
    \* it, from its last read on), the time stamp that it was last given, and
    \* whether a write has gone to a buffer that never held the file.
    posix, touched, blind

bookmarkVars == <<url, remtime, version>>
handleVars   == <<refcount, flags, loaded, buf, mtime, cookie>>
historyVars  == <<posix, touched, blind>>
vars         == <<bookmarkVars, handleVars, mount, now, alive, historyVars>>

Eol       == mount.eol
Exclusive == mount.exclusive
Ctime     == mount.ctime

Chars == Letters \cup {Nul}
Lost  == MaxTime + 1    \* no time

\* Sequences over S of at most n elements.
BoundedSeq(S, n) == UNION {[1 .. k -> S] : k \in 0 .. n}

\* What bm_read_cb() makes of the bookmark's value.
FileOf(u) == IF Eol THEN Append(u, Newline) ELSE u

\* What bm_do_write() makes of the file's content.
StripEol(s) ==
    IF Eol /\ s # <<>> /\ s[Len(s)] = Newline THEN SubSeq(s, 1, Len(s) - 1) ELSE s

\* The content s after a write of b at offset off, with the hole filled.
Overwrite(s, off, b) ==
    [k \in 1 .. (IF Len(s) > off + Len(b) THEN Len(s) ELSE off + Len(b)) |->
        IF k > off /\ k <= off + Len(b) THEN b[k - off]
        ELSE IF k <= Len(s) THEN s[k] ELSE Nul]

\* The content s after a truncation to n bytes.
Resize(s, n) == [k \in 1 .. n |-> IF k <= Len(s) THEN s[k] ELSE Nul]

Dirty == "DIRTY" \in flags

\* What a read() of the file would return now, from offset 0.
Content == IF Dirty \/ (Exclusive /\ loaded) THEN buf ELSE FileOf(url)

\* What bm_fillstat() reports, through getattr and lookup.
StatMtime ==
    IF "MTIME" \in flags /\ (Ctime => mtime > remtime) THEN mtime ELSE remtime

NoHandle ==
    /\ flags' = {}
    /\ loaded' = FALSE
    /\ buf' = <<>>
    /\ mtime' = 0
    /\ cookie' = {}

Init ==
    /\ mount \in Mounts
    /\ url \in BoundedSeq(Letters \ {Newline}, FileMax)
    /\ remtime = 0
    /\ version = 0
    /\ refcount = 0
    /\ flags = {}
    /\ loaded = FALSE
    /\ buf = <<>>
    /\ mtime = 0
    /\ cookie = {}
    /\ now = 1
    /\ alive = TRUE
    /\ posix = FileOf(url)
    /\ touched = 0
    /\ blind = FALSE
-----------------------------------------------------------------------------
\* Time passes; the bound on the clock bounds the number of updates.
Tick == now < MaxTime /\ now' = now + 1

\* Mutant: the time of the first unsaved write is kept.
TouchOnce ==
    /\ Tick
    /\ mtime' = IF "DIRTY" \in flags THEN mtime ELSE now
    /\ flags' = {"DIRTY", "MTIME"}
    /\ touched' = now

\* FH_FLAG_DIRTY and FH_FLAG_MTIME are set, with the current time.
Touch ==
    /\ Tick
    /\ mtime' = now
    /\ flags' = {"DIRTY", "MTIME"}
    /\ touched' = now

\* The buffer is changed although the content of the bookmark has never been
\* read into it.
IsBlind == blind \/ (~loaded /\ ~Dirty /\ FileOf(url) # <<>>)

\* The content that a write applies to.
Base == IF Exclusive \/ loaded \/ Dirty THEN posix ELSE FileOf(url)

\* The content s, once the file is read back from the bookmark.
ReadBack(s) == FileOf(StripEol(s))

\* open() and creat(): bm_open(), bm_fh_new().
Open ==
    /\ alive
    /\ refcount < MaxOpen
    /\ refcount' = refcount + 1
    /\ UNCHANGED <<bookmarkVars, flags, loaded, buf, mtime, cookie, now, alive,
                   historyVars>>

OpenTrunc ==
    /\ alive
    /\ refcount < MaxOpen
    /\ refcount' = refcount + 1
    /\ buf' = <<>>
    /\ Touch
    /\ posix' = <<>>
    /\ blind' = FALSE
    /\ UNCHANGED <<bookmarkVars, loaded, cookie, alive>>

\* Mutant: data that has not been written back yet is replaced.
ReadFetchDirty ==
    /\ alive
    /\ refcount > 0
    /\ IF Exclusive THEN ~loaded ELSE cookie # {version}
    /\ buf' = FileOf(url)
    /\ loaded' = TRUE
    /\ cookie' = IF Exclusive THEN {} ELSE {version}
    /\ UNCHANGED <<bookmarkVars, refcount, flags, mtime, now, alive, historyVars>>

\* Mutant: a buffer that is there is kept in either mode.
ReadFetchOnce ==
    /\ alive
    /\ refcount > 0
    /\ ~Dirty
    /\ IF Exclusive THEN ~loaded ELSE cookie # {version}
    /\ buf' = IF loaded THEN buf ELSE FileOf(url)
    /\ loaded' = TRUE
    /\ cookie' = IF Exclusive THEN {} ELSE {version}
    /\ UNCHANGED <<bookmarkVars, refcount, flags, mtime, now, alive, historyVars>>

\* bm_read(): the buffer is filled by bm_read_cb(), unless it holds data that
\* must not be replaced, or the backend says that it is up to date.
ReadFetch ==
    /\ alive
    /\ refcount > 0
    /\ ~Dirty
    /\ IF Exclusive THEN ~loaded ELSE cookie # {version}
    /\ buf' = FileOf(url)
    /\ loaded' = TRUE
    /\ cookie' = IF Exclusive THEN {} ELSE {version}
    /\ posix' = IF Exclusive THEN ReadBack(posix) ELSE FileOf(url)
    /\ blind' = (Exclusive /\ blind)
    /\ UNCHANGED <<bookmarkVars, refcount, flags, mtime, now, alive, touched>>

\* bm_write(), with the offset given or at the end for O_APPEND.
Write(off, b) ==
    /\ alive
    /\ refcount > 0
    /\ off + Len(b) <= FileMax
    /\ buf' = Overwrite(buf, off, b)
    /\ loaded' = TRUE
    /\ Touch
    /\ posix' = Overwrite(Base, off, b)
    /\ blind' = IsBlind
    /\ UNCHANGED <<bookmarkVars, refcount, cookie, alive>>

\* Mutant: the limit is checked for the offset that was asked for.
AppendToUnlimited(b) ==
    /\ alive
    /\ refcount > 0
    /\ buf' = buf \o b
    /\ loaded' = TRUE
    /\ Touch
    /\ posix' = Base \o b
    /\ blind' = IsBlind
    /\ UNCHANGED <<bookmarkVars, refcount, cookie, alive>>

AppendTo(b) ==
    /\ alive
    /\ refcount > 0
    /\ Len(buf) + Len(b) <= FileMax
    /\ buf' = buf \o b
    /\ loaded' = TRUE
    /\ Touch
    /\ posix' = Base \o b
    /\ blind' = IsBlind
    /\ UNCHANGED <<bookmarkVars, refcount, cookie, alive>>

\* ftruncate(): bm_setattr() with FUSE_SET_ATTR_SIZE.
Truncate(n) ==
    /\ alive
    /\ refcount > 0
    /\ n <= FileMax
    /\ buf' = Resize(buf, n)
    /\ loaded' = (loaded \/ n > Len(buf))
    /\ Touch
    /\ posix' = Resize(Base, n)
    /\ blind' = (IsBlind /\ n > 0)
    /\ UNCHANGED <<bookmarkVars, refcount, cookie, alive>>

\* utimensat(): bm_setattr() with FUSE_SET_ATTR_MTIME.
Utimens(t) ==
    /\ alive
    /\ Ctime => t = now
    /\ Tick
    /\ flags' = flags \ {"MTIME"}
    /\ remtime' = t
    /\ touched' = t
    /\ UNCHANGED <<url, version, refcount, loaded, buf, mtime, cookie, alive,
                   posix, blind>>

\* bookmark_set() refuses the times: FH_FLAG_MTIME is gone nonetheless, and
\* with it the time of a write that is not saved yet.
UtimensFails ==
    /\ alive
    /\ "setattr" \in Failing
    /\ flags' = flags \ {"MTIME"}
    /\ touched' = IF "MTIME" \in flags THEN Lost ELSE touched
    /\ UNCHANGED <<bookmarkVars, refcount, loaded, buf, mtime, cookie, now, alive,
                   posix, blind>>
-----------------------------------------------------------------------------
(***************************************************************************)
(* bm_do_write().                                                          *)
(***************************************************************************)

\* With the eol option, the byte before an empty buffer is looked at.
OutOfBounds == Eol /\ buf = <<>>

\* The byte before NULL cannot be read; one before the buffer can be.
Survives == OutOfBounds => loaded

\* Mutant: the modification time is not written back.
WriteBackUntimed ==
    /\ Survives
    /\ url' = StripEol(buf)
    /\ UNCHANGED <<remtime, version>>

\* Both bookmark_set() calls succeed.
WriteBack ==
    /\ Survives
    /\ url' = StripEol(buf)
    /\ remtime' = IF "MTIME" \in flags THEN mtime ELSE remtime
    /\ UNCHANGED version

\* The first or the second one fails; the handle is not changed.
WriteBackFails ==
    /\ "writeback" \in Failing
    /\ Survives
    /\ \/ UNCHANGED bookmarkVars
       \/ /\ "MTIME" \in flags
          /\ url' = StripEol(buf)
          /\ UNCHANGED <<remtime, version>>

\* fsync() of a clean file leaves it alone.  Whether bookmark_sync(), which
\* follows, succeeds makes no difference to the handle.
Fsync ==
    /\ alive
    /\ refcount > 0
    /\ Dirty
    /\ WriteBack
    /\ flags' = {}
    /\ UNCHANGED <<refcount, loaded, buf, mtime, cookie, now, alive, historyVars>>

FsyncFails ==
    /\ alive
    /\ refcount > 0
    /\ Dirty
    /\ WriteBackFails
    /\ UNCHANGED <<handleVars, now, alive, historyVars>>

\* close() of an open description that is not the last one: bm_free().
ReleaseShared ==
    /\ alive
    /\ refcount > 1
    /\ refcount' = refcount - 1
    /\ UNCHANGED <<bookmarkVars, flags, loaded, buf, mtime, cookie, now, alive,
                   historyVars>>

\* close() of the last one.  The history starts afresh from the bookmark.
Release ==
    /\ alive
    /\ refcount = 1
    /\ IF Dirty THEN WriteBack ELSE UNCHANGED bookmarkVars
    /\ refcount' = 0
    /\ NoHandle
    /\ blind' = FALSE
    /\ posix' = IF blind \/ ~Exclusive THEN FileOf(url') ELSE ReadBack(posix)
    /\ UNCHANGED <<now, alive, touched>>

\* The data is dropped if it cannot be written back.
ReleaseFails ==
    /\ alive
    /\ refcount = 1
    /\ Dirty
    /\ WriteBackFails
    /\ refcount' = 0
    /\ NoHandle
    /\ blind' = FALSE
    /\ posix' = FileOf(url')
    /\ touched' = remtime'
    /\ UNCHANGED <<now, alive>>

\* bm_do_write() reads, and a length of -1 is passed on, outside the buffer.
Crash ==
    /\ alive
    /\ refcount > 0
    /\ Dirty
    /\ OutOfBounds
    /\ alive' = FALSE
    /\ UNCHANGED <<bookmarkVars, handleVars, now, historyVars>>

\* Another program changes the bookmark (not in exclusive mode).
Remote ==
    /\ ~Exclusive
    /\ Tick
    /\ \E c \in Letters : url' = <<c>>
    /\ url' # url
    /\ remtime' = now
    /\ version' = version + 1
    /\ UNCHANGED <<handleVars, alive, historyVars>>

\* The bounds on what one request writes.
Offsets == 0 .. FileMax
Chunks  == BoundedSeq(Letters, 1) \ {<<>>}

Request ==
    \/ Open
    \/ OpenTrunc
    \/ ReadFetch
    \/ \E off \in Offsets, b \in Chunks : Write(off, b)
    \/ \E b \in Chunks : AppendTo(b)
    \/ \E n \in 0 .. FileMax : Truncate(n)
    \/ \E t \in {0, now} : Utimens(t)
    \/ UtimensFails
    \/ Fsync
    \/ FsyncFails
    \/ ReleaseShared
    \/ Release
    \/ ReleaseFails
    \/ Crash
    \/ Remote

Next == Request /\ UNCHANGED mount

Spec == Init /\ [][Next]_vars
-----------------------------------------------------------------------------
(***************************************************************************)
(* What the file promises.                                                 *)
(***************************************************************************)

\* The variables have their types; with the eol option, bm_read_cb() may add
\* one character to a bookmark of the maximal length.
TypeOK ==
    /\ url \in BoundedSeq(Chars, FileMax)
    /\ {remtime, version, mtime} \subseteq 0 .. MaxTime
    /\ touched \in 0 .. MaxTime \cup {Lost}
    /\ now \in 1 .. MaxTime
    /\ refcount \in 0 .. MaxOpen
    /\ flags \in {{}, {"DIRTY"}, {"DIRTY", "MTIME"}}
    /\ buf \in BoundedSeq(Chars, IF Eol THEN FileMax + 1 ELSE FileMax)
    /\ {loaded, alive, blind} \subseteq BOOLEAN
    /\ cookie \in {{}} \cup {{v} : v \in 0 .. version}

\* What was written is what is read, in this descriptor and in others, before
\* and after fsync(), close() and a new open(), whatever calls of the backend
\* have failed in between, unless a close() could not write the data back.
\* The exception is a write through a handle that has not been read: bm_write()
\* and bm_setattr() work on the empty buffer, and the rest of the file is lost.
ContentKept ==
    alive /\ (Exclusive \/ Dirty) /\ ~blind => StripEol(Content) = StripEol(posix)

\* stat() gives the time of the last write, truncation or utimensat(), no
\* matter whether it is still in the handle (fs_ops.c, bm_fillstat()) or has
\* been handed to the backend by bm_do_write() or bm_setattr(), and whatever
\* writebacks have failed.  When other programs also set it, it is not older
\* than an unsaved write.  A utimensat() that fails loses the time of one.
MtimeKept ==
    IF Exclusive THEN StatMtime = touched \/ touched = Lost
    ELSE "MTIME" \in flags => StatMtime >= touched

\* Unless the file is dirty, a buffer for which the backend says that nothing
\* has changed since it was read holds the bookmark's value, although bm_write()
\* and bm_do_write() leave the cookie alone.
CacheCoherent == ~Dirty /\ cookie = {version} => StripEol(buf) = url

\* Writing back an empty file removes a trailing newline only if there is one.
NoCrash == alive
=============================================================================
