------------------------------- MODULE Watcher -------------------------------
(***************************************************************************)
(* The file watcher (src/src/watcher.c): a worker thread that watches one  *)
(* file for changes made by other processes, and the client's thread that  *)
(* creates it, asks it with watcher_poll() whether the file has changed,   *)
(* and stops it with watcher_destroy().                                    *)
(*                                                                         *)
(* The worker holds the mutex from the moment it starts to watch until it  *)
(* parks itself in pthread_cond_wait(), so the client, which only ever     *)
(* holds the mutex for the few instructions of one call, runs each of its  *)
(* critical sections as one step.  What happens to the file between two    *)
(* system calls of the worker is visible: each of them is a step.          *)
(*                                                                         *)
(* The file is known by its name.  The inode it names, the inodes that     *)
(* were renamed to another name and the inodes that were unlinked but are  *)
(* still open somewhere are tracked, because native watchers attach to     *)
(* inodes and the fallback watcher compares inode numbers.                 *)
(***************************************************************************)
EXTENDS Naturals, FiniteSets

CONSTANTS
    Inodes,          \* the inode numbers the file system hands out
    NoFile,          \* the name does not exist
    Impls,           \* the implementations (impl_* functions) to choose from
    CoarseClock,     \* may two writes get the same st_mtim?
    MayFail,         \* may system calls fail for reasons other than ENOENT?
    SpuriousWakeup,  \* does pthread_cond_wait() return without a signal?
    MaxWrites        \* bound on the number of writes to the file

ASSUME InodesAssumption == NoFile \notin Inodes
ASSUME ImplAssumption == Impls \subseteq {"fanotify", "kqueue", "fallback"}
ASSUME SwitchAssumption ==
    {CoarseClock, MayFail, SpuriousWakeup} \subseteq BOOLEAN
ASSUME BoundAssumption == MaxWrites \in Nat \ {0}

VARIABLES
    \* The system that the program is built for.
    impl,      \* which of the implementations it has
    \* The file system.
    file,      \* the inode the watched name refers to, or NoFile
    data,      \* what each inode holds: the serial number of its last write
    mtime,     \* st_mtim of each inode
    moved,     \* inodes that are linked under another name
    orphans,   \* inodes without a name that some process still has open
    writes,    \* number of writes so far
    now,       \* the file system's clock
    \* The kernel's notification object (fanfd, or kqfd and wfd).
    marks,     \* inodes it is attached to
    events,    \* inodes with an unread event
    \* struct watcher and its two threads.
    oldStat,   \* old_stat of the fallback: st_ino and st_mtim
    flags,     \* WATCHER_IDLE, WATCHER_DEAD
    worker,    \* where the worker thread is
    client,    \* "run" until watcher_destroy() closes the pipe
    ret,       \* the last value of watcher_poll() other than -EAGAIN
    armed      \* history: what the file held when the watcher was last armed

fsVars      == <<impl, file, data, mtime, moved, orphans, writes, now>>
kernelVars  == <<marks, events>>
watcherVars == <<oldStat, flags, worker>>
clientVars  == <<client, ret>>
vars        == <<fsVars, kernelVars, watcherVars, clientVars, armed>>

Stamps == 0 .. MaxWrites

\* What a reader of the name sees; 0 when there is no such file.
Shown == IF file = NoFile THEN 0 ELSE data[file]

\* fstatat() of the name (only where it exists).
Stat == [ino |-> file, mtime |-> mtime[file]]

InUse == {file} \cup moved \cup orphans \cup marks
Free  == Inodes \ InUse

\* pthread_mutex_trylock() and pthread_mutex_lock() of the client: the worker
\* owns the mutex except before its first lock, in pthread_cond_wait(), and
\* after its end.
MutexFree == worker \in {"start", "wait", "woken", "dead"}

Init ==
    /\ impl \in Impls
    /\ file \in Inodes
    /\ data = [i \in Inodes |-> IF i = file THEN 1 ELSE 0]
    /\ mtime = data
    /\ moved = {}
    /\ orphans = {}
    /\ writes = 1
    /\ now = 1
    /\ marks = {}
    /\ events = {}
    /\ oldStat = [ino |-> NoFile, mtime |-> 0]
    /\ flags = {}
    /\ worker = "start"
    /\ client = "run"
    /\ ret = "none"
    /\ armed = 0
-----------------------------------------------------------------------------
(***************************************************************************)
(* Other processes.                                                        *)
(***************************************************************************)

\* New content for inode i.
Write(i) ==
    /\ writes < MaxWrites
    /\ writes' = writes + 1
    /\ data' = [data EXCEPT ![i] = writes + 1]
    /\ now' \in IF CoarseClock THEN {now, now + 1} ELSE {now + 1}
    /\ mtime' = [mtime EXCEPT ![i] = now']

\* The marked inodes of I queue an event.  A fanotify mark goes away with
\* its inode; a kqueue filter lives as long as its file descriptor.
Notify(I, gone) ==
    /\ events' = events \cup (I \cap marks)
    /\ marks' = IF impl = "fanotify" THEN marks \ gone ELSE marks

\* Inode i loses its name.  If some process has it open, fanotify reports
\* FAN_DELETE_SELF only once that process closes it; kqueue reports
\* NOTE_DELETE at once.  `also' is the inode that takes the name.
DropName(i, open, also) ==
    /\ orphans' = IF open THEN orphans \cup {i} ELSE orphans
    /\ IF open /\ impl = "fanotify"
       THEN Notify(also, {})
       ELSE Notify({i} \cup also, {i})

NotFs == UNCHANGED <<impl, watcherVars, clientVars, armed>>

\* The file is written in place.
Modify ==
    /\ file # NoFile
    /\ Write(file)
    /\ Notify({file}, {})
    /\ UNCHANGED <<file, moved, orphans>>
    /\ NotFs

\* An inode that the name no longer refers to is written.
ModifyOther(i) ==
    /\ i \in moved \cup orphans
    /\ Write(i)
    /\ Notify({i}, {})
    /\ UNCHANGED <<file, moved, orphans>>
    /\ NotFs

\* i gets the watched name: a new file, or one that was renamed away before.
TakeName(i) ==
    /\ file' = i
    /\ \/ /\ i \in Free
          /\ Write(i)
          /\ moved' = moved
       \/ /\ i \in moved
          /\ moved' = moved \ {i}
          /\ UNCHANGED <<data, mtime, writes, now>>

Create(i) ==
    /\ file = NoFile
    /\ TakeName(i)
    /\ Notify({i}, {})
    /\ UNCHANGED orphans
    /\ NotFs

\* rename() of another file over the name, as most programs save files.
Replace(i, open) ==
    /\ file # NoFile
    /\ TakeName(i)
    /\ DropName(file, open, {i})
    /\ NotFs

Unlink(open) ==
    /\ file # NoFile
    /\ file' = NoFile
    /\ DropName(file, open, {})
    /\ UNCHANGED <<data, mtime, moved, writes, now>>
    /\ NotFs

MoveAway ==
    /\ file # NoFile
    /\ file' = NoFile
    /\ moved' = moved \cup {file}
    /\ Notify({file}, {})
    /\ UNCHANGED <<data, mtime, orphans, writes, now>>
    /\ NotFs

\* The last process that has orphan i open closes it.
LastClose(i) ==
    /\ i \in orphans
    /\ orphans' = orphans \ {i}
    /\ IF impl = "fanotify" THEN Notify({i}, {i}) ELSE UNCHANGED kernelVars
    /\ UNCHANGED <<file, data, mtime, moved, writes, now>>
    /\ NotFs

Others ==
    \/ Modify
    \/ \E i \in Inodes : ModifyOther(i)
    \/ \E i \in Inodes : Create(i)
    \/ \E i \in Inodes, open \in BOOLEAN : Replace(i, open)
    \/ \E open \in BOOLEAN : Unlink(open)
    \/ MoveAway
-----------------------------------------------------------------------------
(***************************************************************************)
(* impl_rearm().                                                           *)
(***************************************************************************)

\* Mutant: the result of fanotify_mark() is not looked at.
RearmUnchecked ==
    /\ "DEAD" \notin flags
    /\ armed' = Shown
    /\ marks' = marks \cup {file}
    /\ UNCHANGED oldStat

\* It returns 0: the file is marked, or its attributes are saved.
Rearm ==
    /\ "DEAD" \notin flags
    /\ file # NoFile
    /\ armed' = Shown
    /\ IF impl = "fallback"
       THEN oldStat' = Stat /\ UNCHANGED marks
       ELSE marks' = marks \cup {file} /\ UNCHANGED oldStat

\* It returns -ENOENT.
RearmNoFile ==
    /\ "DEAD" \notin flags
    /\ file = NoFile

\* It returns -EIO.
RearmFails == "DEAD" \in flags \/ MayFail
-----------------------------------------------------------------------------
(***************************************************************************)
(* The worker thread: worker_loop() and the impl_watch() functions.        *)
(***************************************************************************)

\* pthread_cond_wait() in the loop: the worker is parked, the mutex free.
Park ==
    /\ flags' = flags \cup {"IDLE"}
    /\ worker' = "wait"

Die ==
    /\ flags' = flags \cup {"IDLE", "DEAD"}
    /\ worker' = "dead"

\* pthread_mutex_lock(), sandbox_enter() and the first impl_rearm().
WorkerStart ==
    /\ worker = "start"
    /\ \/ Rearm /\ worker' = "watch" /\ UNCHANGED flags
       \/ RearmNoFile /\ Park /\ UNCHANGED <<marks, oldStat, armed>>
    /\ UNCHANGED <<fsVars, events, clientVars>>

\* fanotify: poll() reports events and no hangup, the first read() follows.
WatchEvents ==
    /\ impl = "fanotify"
    /\ worker = "watch"
    /\ client = "run"
    /\ events # {}
    /\ events' = {}
    /\ worker' = "unmark"
    /\ UNCHANGED <<fsVars, marks, oldStat, flags, clientVars, armed>>

\* FAN_MARK_REMOVE looks the file up by name, and tolerates ENOENT.
RemoveMark ==
    /\ worker = "unmark"
    /\ marks' = marks \ {file}
    /\ worker' = "drain"
    /\ UNCHANGED <<fsVars, events, oldStat, flags, clientVars, armed>>

\* The rest of the queue is read, and the loop body is entered.
DrainEvents ==
    /\ worker = "drain"
    /\ events' = {}
    /\ Park
    /\ UNCHANGED <<fsVars, marks, oldStat, clientVars, armed>>

\* Mutant: wfd is not closed.
WatchVnodeLeaks ==
    /\ impl = "kqueue"
    /\ worker = "watch"
    /\ events # {}
    /\ events' = {}
    /\ Park
    /\ UNCHANGED <<fsVars, marks, oldStat, clientVars, armed>>

\* kqueue: kevent() returns the vnode's event, and wfd is closed.
WatchVnode ==
    /\ impl = "kqueue"
    /\ worker = "watch"
    /\ events # {}
    /\ events' = {}
    /\ marks' = {}
    /\ Park
    /\ UNCHANGED <<fsVars, oldStat, clientVars, armed>>

\* The attributes that the fallback compares.
StatDiffers == file = NoFile \/ Stat # oldStat

\* fallback: poll() times out after WATCHER_FALLBACK_POLL_INTERVAL.
WatchTimeout ==
    /\ impl = "fallback"
    /\ worker = "watch"
    /\ client = "run"
    /\ worker' = "stat"
    /\ UNCHANGED <<fsVars, kernelVars, oldStat, flags, clientVars, armed>>

\* fallback: fstatat() shows a change, or the loop goes on.
WatchStat ==
    /\ worker = "stat"
    /\ IF StatDiffers THEN Park ELSE worker' = "watch" /\ UNCHANGED flags
    /\ UNCHANGED <<fsVars, kernelVars, oldStat, clientVars, armed>>

\* The write end of the pipe is closed.
WatchHangup ==
    /\ worker = "watch"
    /\ client # "run"
    /\ Die
    /\ UNCHANGED <<fsVars, kernelVars, oldStat, clientVars, armed>>

\* sandbox_enter(), poll(), read(), fanotify_mark(), fstatat() ... fail.
WorkerFails ==
    /\ MayFail
    /\ worker \in {"start", "watch", "stat", "unmark"}
    /\ Die
    /\ UNCHANGED <<fsVars, kernelVars, oldStat, clientVars, armed>>

\* pthread_cond_wait() returns, with the mutex.
WakeUp ==
    /\ worker = "woken"
    /\ worker' = "watch"
    /\ UNCHANGED <<fsVars, kernelVars, oldStat, flags, clientVars, armed>>

WakeSpuriously ==
    /\ SpuriousWakeup
    /\ worker = "wait"
    /\ worker' = "woken"
    /\ UNCHANGED <<fsVars, kernelVars, oldStat, flags, clientVars, armed>>

Worker ==
    \/ WorkerStart
    \/ WatchEvents
    \/ RemoveMark
    \/ DrainEvents
    \/ WatchVnode
    \/ WatchTimeout
    \/ WatchStat
    \/ WatchHangup
    \/ WakeUp
-----------------------------------------------------------------------------
(***************************************************************************)
(* The client's thread.                                                    *)
(***************************************************************************)

\* pthread_cond_signal(): it wakes the worker only if it waits already.
Signal == worker' = IF worker = "wait" THEN "woken" ELSE worker

\* watcher_poll(): the mutex is taken, or the worker is "drowsy".
PollAgain ==
    /\ client = "run"
    /\ ~MutexFree \/ "IDLE" \notin flags
    /\ UNCHANGED vars

\* Mutant: the worker is woken without impl_rearm().
PollChangedUnarmed ==
    /\ client = "run"
    /\ MutexFree
    /\ "IDLE" \in flags
    /\ "DEAD" \notin flags
    /\ file # NoFile
    /\ flags' = flags \ {"IDLE"}
    /\ Signal
    /\ ret' = "OK"
    /\ UNCHANGED <<fsVars, kernelVars, oldStat, client, armed>>

\* Mutant: IDLE is not cleared.
PollChangedIdle ==
    /\ client = "run"
    /\ MutexFree
    /\ "IDLE" \in flags
    /\ Rearm
    /\ Signal
    /\ ret' = "OK"
    /\ UNCHANGED <<fsVars, events, flags, client>>

\* Mutant: the worker is not signalled.
PollChangedUnsignalled ==
    /\ client = "run"
    /\ MutexFree
    /\ "IDLE" \in flags
    /\ Rearm
    /\ flags' = flags \ {"IDLE"}
    /\ ret' = "OK"
    /\ UNCHANGED <<fsVars, events, worker, client>>

\* watcher_poll(): the worker has seen a change; it is armed and woken.
PollChanged ==
    /\ client = "run"
    /\ MutexFree
    /\ "IDLE" \in flags
    /\ Rearm
    /\ flags' = flags \ {"IDLE"}
    /\ Signal
    /\ ret' = "OK"
    /\ UNCHANGED <<fsVars, events, client>>

\* watcher_poll(): impl_rearm() fails; IDLE stays set.
PollNoFile ==
    /\ client = "run"
    /\ MutexFree
    /\ "IDLE" \in flags
    /\ RearmNoFile
    /\ ret' = "ENOENT"
    /\ UNCHANGED <<fsVars, kernelVars, watcherVars, client, armed>>

PollFails ==
    /\ client = "run"
    /\ MutexFree
    /\ "IDLE" \in flags
    /\ RearmFails
    /\ ret' = "EIO"
    /\ UNCHANGED <<fsVars, kernelVars, watcherVars, client, armed>>

Poll == PollAgain \/ PollChanged \/ PollNoFile \/ PollFails

\* watcher_destroy(): close(), then signal under the mutex, then join.
DestroyClose ==
    /\ client = "run"
    /\ client' = "closing"
    /\ UNCHANGED <<fsVars, kernelVars, watcherVars, ret, armed>>

\* Mutant: the worker is not signalled.
DestroyUnsignalled ==
    /\ client = "closing"
    /\ MutexFree
    /\ client' = "joining"
    /\ UNCHANGED <<fsVars, kernelVars, watcherVars, ret, armed>>

DestroySignal ==
    /\ client = "closing"
    /\ MutexFree
    /\ Signal
    /\ client' = "joining"
    /\ UNCHANGED <<fsVars, kernelVars, oldStat, flags, ret, armed>>

DestroyJoin ==
    /\ client = "joining"
    /\ worker = "dead"
    /\ client' = "done"
    /\ UNCHANGED <<fsVars, kernelVars, watcherVars, ret, armed>>

Destroy == DestroyClose \/ DestroySignal \/ DestroyJoin
-----------------------------------------------------------------------------
Next ==
    \/ Others
    \/ \E i \in Inodes : LastClose(i)
    \/ Worker
    \/ WorkerFails
    \/ WakeSpuriously
    \/ Poll
    \/ Destroy

Spec == Init /\ [][Next]_vars

(***************************************************************************)
(* Fairness.  The scheduler runs the worker whenever it can run, which     *)
(* includes that the fallback's 2.5 s timeout expires; the client goes on  *)
(* polling while it runs and finishes a watcher_destroy() it has begun.    *)
(* The client need never destroy the watcher, nobody else need ever touch  *)
(* the file, but no process keeps an unlinked file open for ever.          *)
(***************************************************************************)
Fairness ==
    /\ WF_vars(Worker)
    /\ WF_vars(PollChanged)
    /\ WF_vars(DestroySignal)
    /\ WF_vars(DestroyJoin)
    /\ \A i \in Inodes : WF_vars(LastClose(i))

LiveSpec == Spec /\ Fairness
-----------------------------------------------------------------------------
(***************************************************************************)
(* Properties.                                                             *)
(***************************************************************************)

\* Every variable of struct watcher, of the kernel and of the file system
\* keeps its shape through impl_rearm(), impl_watch(), watcher_poll() and
\* watcher_destroy().
TypeOK ==
    /\ impl \in Impls
    /\ file \in Inodes \cup {NoFile}
    /\ data \in [Inodes -> Stamps]
    /\ mtime \in [Inodes -> Stamps]
    /\ moved \subseteq Inodes
    /\ orphans \subseteq Inodes
    /\ writes \in Stamps
    /\ now \in Stamps
    /\ marks \subseteq Inodes
    /\ events \subseteq Inodes
    /\ oldStat \in [ino : Inodes \cup {NoFile}, mtime : Stamps]
    /\ flags \subseteq {"IDLE", "DEAD"}
    /\ worker \in {"start", "watch", "stat", "unmark", "drain", "wait", "woken",
                   "dead"}
    /\ client \in {"run", "closing", "joining", "done"}
    /\ ret \in {"none", "OK", "ENOENT", "EIO"}
    /\ armed \in Stamps

\* The watcher is armed: impl_rearm() has succeeded for the client, and
\* impl_watch() is running or about to run.
Armed == worker \in {"watch", "stat", "woken"} /\ "IDLE" \notin flags

\* What impl_watch() will notice, now or once the last user of an unlinked
\* file closes it.
Noticeable ==
    IF impl = "fallback"
    THEN StatDiffers
    ELSE events # {} \/ (impl = "fanotify" /\ marks \cap orphans # {})

\* No change is lost between impl_rearm() and impl_watch(): whenever the
\* armed watcher's file no longer holds what it held at impl_rearm(), there
\* is something for impl_watch() to notice, whatever was moved away, brought
\* back, unlinked or replaced in between.
NoLostChange == Armed /\ Shown # armed => Noticeable

\* WATCHER_IDLE is the handshake between the threads: until watcher_destroy()
\* signals the worker it is set exactly while the worker is in
\* pthread_cond_wait() or has ended, so that the pthread_cond_signal() of
\* watcher_poll() always finds the worker waiting, and never arms the watcher
\* under a worker that is still watching.
Handshake ==
    client \in {"run", "closing"}
        => ("IDLE" \in flags <=> worker \in {"wait", "dead"})

\* With kqueue, impl_rearm() stores a new descriptor in w->wfd: whenever
\* watcher_poll() may call it, the previous descriptor has been closed.
NoWatchFdLeak ==
    impl = "kqueue" /\ MutexFree /\ "DEAD" \notin flags
        => "IDLE" \notin flags \/ marks = {}

\* The file holds something that no impl_rearm() has seen.
Stale == file # NoFile /\ Shown # armed

\* A change is not kept from the client for ever: if the file has changed
\* since the watcher was armed, watcher_poll() eventually returns 0 (which
\* arms it again), unless the worker dies or the client destroys the watcher.
ChangeIsReported ==
    Stale ~> (~Stale \/ worker = "dead" \/ client # "run")

\* watcher_destroy() returns once it is called, provided that the worker has
\* got as far as its first pthread_mutex_lock(): the closed pipe or the signal
\* reaches it wherever it is in worker_loop(), and pthread_join() ends.
DestroyReturns ==
    (client = "closing" /\ worker # "start") ~> (client = "done")
=============================================================================
