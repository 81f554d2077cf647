------------------------- MODULE ChromiumSyncProofs -------------------------
(***************************************************************************)
(* Theorems about ChromiumSync, for every set of inodes and addresses, any *)
(* number of writes and all implementations of the watcher.                *)
(***************************************************************************)
EXTENDS ChromiumSync, WatcherProofs

\* A store is only loaded while there is nothing unsaved.
LoadsClean == main = "load" => ~dirty

\* ctx->checksum is the one of some store, or has been freed.
SumInv == sum \in {Checksum[n] : n \in Stamps} \cup {Freed}

\* Serial numbers are handed out in order; nobody moves the file away or keeps
\* it open, and a file is never empty.
SerialInv ==
    /\ moved = {} /\ orphans = {}
    /\ \A i \in Inodes : data[i] <= writes
    /\ store <= writes
    /\ armed <= writes
    /\ file # NoFile => data[file] # 0

\* The store is what the armed watcher has seen, or the watcher has something
\* to notice.
KeptInv == Mirrors /\ Armed /\ missed = "no" => store = armed \/ Noticeable

StoreInv == TypeInv /\ SyncTypeOK /\ SumInv /\ LoadsClean /\ SerialInv

SyncInv == StoreInv /\ NoLostChangeInv /\ KeptInv

\* The steps in which the Watcher module takes a step of its own.
WatcherStep ==
    \/ Browser
    \/ WorkerStep
    \/ \E o \in {"get", "set"} : Begin(o)
    \/ LoadRefused \/ ReadFile \/ ReadFails \/ GetAgain \/ GetValue \/ SetFails
    \/ SaveFails \/ SaveDone \/ Unmount \/ UnmountDone

LEMMA WatcherStepIsNext == WatcherStep => [Next]_vars
  <1>1. Browser => Next
    BY DEF Browser, Next, Others
  <1>2. WorkerStep => Next
    BY DEF WorkerStep, Next
  <1>3. ASSUME NEW o \in {"get", "set"}, Begin(o) PROVE [Next]_vars
    BY <1>3 DEF Begin, LoadSkipped, LoadUnchanged, LoadChanged, Next, Poll
  <1>4. LoadRefused => Next
    BY DEF LoadRefused, Next, Poll
  <1>5. ReadFile \/ ReadFails \/ GetAgain \/ GetValue \/ SetFails \/ SaveFails
          => UNCHANGED vars
    BY DEF ReadFile, ReadFails, GetAgain, GetValue, SetFails, SaveFails
  <1>6. SaveDone \/ Unmount \/ UnmountDone => Next
    BY DEF SaveDone, Unmount, UnmountDone, Next, Destroy
  <1>7. QED
    BY <1>1, <1>2, <1>3, <1>4, <1>5, <1>6 DEF WatcherStep

LEMMA SyncNextSplits ==
    [SyncNext]_allVars =>
        \/ WatcherStep \/ Set
        \/ \E i \in Inodes, o \in {"sync", "unmount"} : Save(i, o)
        \/ \E i \in Inodes : SaveUnsynced(i)
        \/ UNCHANGED allVars
  BY DEF SyncNext, WatcherStep

LEMMA RenameType ==
    ASSUME TypeInv, SyncTypeOK, NEW i \in Inodes, RenameOver(i)
    PROVE  TypeInv'
  BY NotifyType
  DEF RenameOver, TypeInv, TypeOK, SyncTypeOK, kernelVars, watcherVars, clientVars

LEMMA SetType ==
    ASSUME TypeInv, Set
    PROVE  TypeInv'
  BY BoundAssumption
  DEF Set, TypeInv, TypeOK, Stamps, kernelVars, watcherVars, clientVars

LEMMA SyncWatcherType ==
    ASSUME StoreInv, [SyncNext]_allVars
    PROVE  TypeInv'
  <1>1. CASE WatcherStep
    BY <1>1, WatcherStepIsNext, TypeNext DEF StoreInv
  <1>2. CASE Set
    BY <1>2, SetType DEF StoreInv
  <1>3. ASSUME NEW i \in Inodes, RenameOver(i) PROVE TypeInv'
    BY <1>3, RenameType DEF StoreInv
  <1>4. CASE UNCHANGED allVars
    BY <1>4, TypeNext DEF StoreInv, allVars
  <1>5. QED
    BY <1>1, <1>2, <1>3, <1>4, SyncNextSplits DEF Save, SaveUnsynced

LEMMA RenameKeeps ==
    ASSUME NoLostChangeInv, SyncTypeOK, NEW i \in Inodes, RenameOver(i)
    PROVE  NoLostChangeInv'
  <1> USE DEF kernelVars, watcherVars, clientVars
  <1>1. TypeInv'
    BY RenameType DEF NoLostChangeInv
  <1>2. ClockInv' /\ ParkedInv'
    BY DEF RenameOver, NoLostChangeInv, ClockInv, ParkedInv, TypeInv, TypeOK,
           SyncTypeOK
  <1>3. WatchInv'
    <2>1. CASE impl = "fallback"
      BY <2>1 DEF RenameOver, NoLostChangeInv, WatchInv, Armed
    <2>2. CASE impl # "fallback"
      <3>1. Armed' => Armed
        BY DEF RenameOver, Armed
      <3>2. Noticeable => Noticeable'
        BY <2>2 DEF RenameOver, Noticeable, Notify
      <3>3. Attached => Noticeable'
        BY <2>2, InodesAssumption
        DEF RenameOver, Attached, Noticeable, Notify, NoLostChangeInv, TypeInv,
            TypeOK
      <3>4. QED
        BY <2>2, <3>1, <3>2, <3>3 DEF NoLostChangeInv, WatchInv, RenameOver
    <2>3. QED
      BY <2>1, <2>2
  <1>4. QED
    BY <1>1, <1>2, <1>3 DEF NoLostChangeInv

LEMMA SetKeeps ==
    ASSUME NoLostChangeInv, Set
    PROVE  NoLostChangeInv'
  <1> USE DEF kernelVars, watcherVars, clientVars
  <1>1. TypeInv'
    BY SetType DEF NoLostChangeInv
  <1>2. ClockInv' /\ ParkedInv'
    BY DEF Set, NoLostChangeInv, ClockInv, ParkedInv, TypeInv, TypeOK
  <1>3. WatchInv'
    BY DEF Set, NoLostChangeInv, WatchInv, Armed, Noticeable, Attached, StatDiffers,
           Stat
  <1>4. QED
    BY <1>1, <1>2, <1>3 DEF NoLostChangeInv

LEMMA SyncWatch ==
    ASSUME FineClock, SyncInv, [SyncNext]_allVars
    PROVE  NoLostChangeInv'
  <1>0. NoLostChangeInv /\ SyncTypeOK
    BY DEF SyncInv, StoreInv
  <1>1. CASE WatcherStep
    BY <1>0, <1>1, WatcherStepIsNext, NoLostChangeNext
  <1>2. CASE Set
    BY <1>0, <1>2, SetKeeps
  <1>3. ASSUME NEW i \in Inodes, RenameOver(i) PROVE NoLostChangeInv'
    BY <1>0, <1>3, RenameKeeps
  <1>4. CASE UNCHANGED allVars
    BY <1>0, <1>4, NoLostChangeNext DEF allVars
  <1>5. QED
    BY <1>1, <1>2, <1>3, <1>4, SyncNextSplits DEF Save, SaveUnsynced

\* A reader of the name sees something that was written.
LEMMA ShownIsStamp ==
    ASSUME TypeOK
    PROVE  Shown \in Stamps
  BY BoundAssumption DEF TypeOK, Shown, Stamps

\* What the FUSE thread and the client keep has its type, and no request works
\* without a store.
LEMMA SyncTypes ==
    ASSUME StoreInv, TypeInv', [SyncNext]_allVars
    PROVE  SyncTypeOK' /\ SumInv' /\ LoadsClean'
  <1> USE DEF StoreInv, SyncTypeOK, SumInv, LoadsClean
  <1>0. TypeOK /\ TypeOK'
    BY DEF TypeInv
  <1>1. CASE UNCHANGED syncVars
    BY <1>0, <1>1 DEF syncVars
  <1>2. CASE Browser \/ LoadRefused \/ UnmountDone \/ UNCHANGED allVars
    BY <1>1, <1>2 DEF Browser, LoadRefused, UnmountDone, allVars
  <1>3. CASE WorkerStep
    BY <1>0, <1>3 DEF WorkerStep
  <1>4. ASSUME NEW o \in {"get", "set"}, Begin(o)
        PROVE  SyncTypeOK' /\ SumInv' /\ LoadsClean'
    <2>1. 0 \in Stamps
      BY BoundAssumption DEF Stamps
    <2>2. QED
      BY <1>0, <1>4, <2>1 DEF Begin, LoadSkipped, LoadUnchanged, LoadChanged
  <1>5. CASE ReadFile
    <2>1. Shown \in Stamps /\ Shown # 0
      BY <1>0, <1>5, ShownIsStamp DEF ReadFile, SerialInv, Shown
    <2>2. QED
      BY <1>0, <1>5, <2>1 DEF ReadFile
  <1>6. CASE ReadFails \/ GetAgain \/ SetFails
    BY <1>0, <1>6 DEF ReadFails, GetAgain, SetFails, Finish
  <1>7. CASE GetValue
    BY <1>0, <1>7 DEF GetValue, Finish
  <1>8. CASE Set
    <2>1. writes + 1 \in Stamps /\ writes + 1 # 0
      BY <1>0, <1>8, BoundAssumption DEF Set, TypeOK, Stamps
    <2>2. QED
      BY <1>0, <1>8, <2>1 DEF Set, Finish
  <1>9. ASSUME NEW i \in Inodes, NEW o \in {"sync", "unmount"}, Save(i, o)
        PROVE  SyncTypeOK' /\ SumInv' /\ LoadsClean'
    BY <1>0, <1>9 DEF Save, StaleSum
  <1>10. ASSUME NEW i \in Inodes, SaveUnsynced(i)
         PROVE  SyncTypeOK' /\ SumInv' /\ LoadsClean'
    BY <1>0, <1>10 DEF SaveUnsynced, StaleSum
  <1>11. CASE SaveFails
    BY <1>0, <1>11 DEF SaveFails, StaleSum
  <1>12. CASE SaveDone
    BY <1>0, <1>12 DEF SaveDone
  <1>13. CASE Unmount
    BY <1>0, <1>13 DEF Unmount
  <1>14. QED
    BY <1>2, <1>3, <1>4, <1>5, <1>6, <1>7, <1>8, <1>9, <1>10, <1>11, <1>12, <1>13,
       SyncNextSplits DEF WatcherStep

LEMMA WriteSerial ==
    ASSUME TypeOK, NEW i \in Inodes, Write(i), \A j \in Inodes : data[j] <= writes
    PROVE  /\ \A j \in Inodes : data'[j] <= writes'
           /\ writes' > writes
           /\ data'[i] = writes + 1
  BY DEF TypeOK, Stamps, Write

\* What the worker and watcher_poll() arm the watcher with is a number of a
\* write.
LEMMA WatchSerial ==
    ASSUME TypeOK, SerialInv, UNCHANGED <<fsVars, store>>,
           armed' = armed \/ armed' = Shown
    PROVE  SerialInv'
  BY DEF TypeOK, SerialInv, Shown, fsVars, Stamps

LEMMA SyncSerial ==
    ASSUME StoreInv, TypeInv', [SyncNext]_allVars
    PROVE  SerialInv'
  <1>0. TypeOK /\ TypeOK' /\ SerialInv /\ SyncTypeOK
    BY DEF StoreInv, TypeInv
  <1> USE DEF SerialInv
  <1>1. CASE Browser
    <2>1. UNCHANGED <<store, armed>>
      BY <1>1 DEF Browser, syncVars, Modify, Replace, Unlink, Create, NotFs
    <2>2. CASE Modify
      BY <1>0, <2>1, <2>2, WriteSerial DEF Modify, TypeOK, Stamps, SyncTypeOK
    <2>3. ASSUME NEW i \in Inodes, Replace(i, FALSE) PROVE SerialInv'
      <3>1. Write(i) /\ moved' = moved /\ file' = i /\ orphans' = orphans
        BY <1>0, <2>3 DEF Replace, TakeName, DropName
      <3>2. QED
        BY <1>0, <2>1, <3>1, WriteSerial DEF TypeOK, Stamps, SyncTypeOK
    <2>4. CASE Unlink(FALSE)
      BY <1>0, <2>1, <2>4 DEF Unlink, DropName
    <2>5. ASSUME NEW i \in Inodes, Create(i) PROVE SerialInv'
      <3>1. Write(i) /\ moved' = moved /\ file' = i /\ orphans' = orphans
        BY <1>0, <2>5 DEF Create, TakeName
      <3>2. QED
        BY <1>0, <2>1, <3>1, WriteSerial DEF TypeOK, Stamps, SyncTypeOK
    <2>6. QED
      BY <1>1, <2>2, <2>3, <2>4, <2>5 DEF Browser
  <1>2. CASE WorkerStep
    <2>1. UNCHANGED <<fsVars, store>> /\ (armed' = armed \/ armed' = Shown)
      BY <1>2
      DEF WorkerStep, Worker, WorkerFails, WorkerStart, Rearm, WatchEvents,
          RemoveMark, DrainEvents, WatchVnode, WatchTimeout, WatchStat, WatchHangup,
          WakeUp
    <2>2. QED
      BY <1>0, <2>1, WatchSerial
  <1>3. ASSUME NEW o \in {"get", "set"}, Begin(o) PROVE SerialInv'
    <2>1. UNCHANGED fsVars /\ (armed' = armed \/ armed' = Shown)
      BY <1>3
      DEF Begin, LoadSkipped, LoadUnchanged, LoadChanged, PollAgain, PollChanged,
          Rearm, vars
    <2>2. store' \in {store, 0}
      BY <1>3 DEF Begin, LoadSkipped, LoadUnchanged, LoadChanged
    <2>3. QED
      BY <1>0, <2>1, <2>2 DEF TypeOK, Shown, fsVars, Stamps
  <1>4. CASE ReadFile
    BY <1>0, <1>4
    DEF ReadFile, Shown, vars, fsVars, TypeOK, Stamps
  <1>5. CASE SaveDone \/ LoadRefused \/ Unmount \/ UnmountDone
    <2>1. UNCHANGED <<fsVars, store>> /\ (armed' = armed \/ armed' = Shown)
      BY <1>5
      DEF SaveDone, LoadRefused, Unmount, UnmountDone, Poll, PollAgain, PollChanged,
          PollNoFile, PollFails, Rearm, DestroyClose, DestroySignal, DestroyJoin,
          vars, syncVars
    <2>2. QED
      BY <1>0, <2>1, WatchSerial
  <1>6. CASE \/ ReadFails \/ GetAgain \/ GetValue \/ SetFails \/ SaveFails
             \/ UNCHANGED allVars
    <2>1. UNCHANGED <<vars, store>>
      BY <1>6
      DEF ReadFails, GetAgain, GetValue, SetFails, SaveFails, allVars, syncVars
    <2>2. QED
      BY <1>0, <2>1, WatchSerial DEF vars
  <1>7. CASE Set
    BY <1>0, <1>7 DEF Set, TypeOK, Stamps, SyncTypeOK
  <1>8. ASSUME NEW i \in Inodes, RenameOver(i), store' = store, dirty
        PROVE  SerialInv'
    BY <1>0, <1>8 DEF RenameOver, TypeOK, Stamps, SyncTypeOK
  <1>9. QED
    BY <1>1, <1>2, <1>3, <1>4, <1>5, <1>6, <1>7, <1>8, SyncNextSplits
    DEF WatcherStep, Save, SaveUnsynced

\* What the watcher has to notice does not go away when the browser writes on:
\* queued events stay, and an st_mtim never comes back.
LEMMA BrowserNoticeable ==
    ASSUME SyncInv, NoLostChangeInv', Browser, Armed, Noticeable
    PROVE  Noticeable'
  <1>0. NotFs /\ TypeOK /\ SerialInv
    BY DEF Browser, Modify, Replace, Unlink, Create, SyncInv, StoreInv, TypeInv
  <1>1. CASE impl = "fallback"
    <2>1. oldStat.mtime <= writes /\ UNCHANGED <<impl, oldStat>>
      BY <1>0, <1>1
      DEF SyncInv, NoLostChangeInv, WatchInv, SerialInv, NotFs, watcherVars
    <2>2. mtime' = data'
      BY <1>1, <2>1 DEF NoLostChangeInv, ClockInv
    <2>3. file' = NoFile \/ data'[file'] = writes + 1
      BY <1>0, WriteSerial
      DEF Browser, Modify, Replace, Unlink, Create, TakeName, TypeOK, SerialInv
    <2>4. writes + 1 # oldStat.mtime
      BY <1>0, <2>1 DEF TypeOK, Stamps
    <2>5. QED
      BY <1>1, <2>1, <2>2, <2>3, <2>4 DEF Noticeable, StatDiffers, Stat
  <1>2. CASE impl # "fallback"
    <2>1. events \subseteq events' /\ events # {}
      BY <1>0, <1>2
      DEF Browser, Modify, Replace, Unlink, Create, DropName, Notify, SerialInv,
          Noticeable
    <2>2. QED
      BY <1>0, <1>2, <2>1 DEF Noticeable, NotFs
  <1>3. QED
    BY <1>1, <1>2

LEMMA SyncKept ==
    ASSUME SyncInv, NoLostChangeInv', SyncTypeOK', [SyncNext]_allVars
    PROVE  KeptInv'
  <1> USE DEF KeptInv, Mirrors
  <1>0. NoLostChange /\ TypeOK /\ KeptInv
    BY NoLostChangeImplied DEF SyncInv, StoreInv, TypeInv
  <1>a. ASSUME Armed' => Armed, Noticeable => Noticeable' \/ ~Armed',
               Mirrors' => Mirrors, UNCHANGED <<store, armed, missed>>
        PROVE  KeptInv'
    BY <1>0, <1>a
  <1>b. ASSUME UNCHANGED <<fsVars, kernelVars, oldStat>>
        PROVE  Noticeable => Noticeable'
    BY <1>b DEF Noticeable, StatDiffers, Stat, fsVars, kernelVars
  <1>1. CASE Browser
    <2>1. NotFs /\ UNCHANGED syncVars
      BY <1>1 DEF Browser, Modify, Replace, Unlink, Create
    <2>2. QED
      BY <1>1, <1>a, <2>1, BrowserNoticeable
      DEF NotFs, watcherVars, syncVars, Armed
  <1>2. CASE WorkerStep
    <2>1. CASE WorkerStart
      BY <1>2, <2>1
      DEF WorkerStep, WorkerStart, Rearm, Park, Armed
    <2>2. CASE ~WorkerStart
      <3>1. missed' = missed
        BY <1>2, <2>2
        DEF WorkerStep, Worker, WorkerFails, WatchEvents, RemoveMark, DrainEvents,
            WatchVnode, WatchTimeout, WatchStat, WatchHangup, WakeUp, Die, Park
      <3>2. CASE WatchTimeout \/ WatchStat \/ WakeUp
        <4>1. (Armed' => Armed) /\ armed' = armed
          BY <3>2 DEF WatchTimeout, WatchStat, WakeUp, Park, Armed
        <4>2. Noticeable => Noticeable'
          BY <1>b, <3>2 DEF WatchTimeout, WatchStat, WakeUp
        <4>3. QED
          BY <1>2, <1>a, <3>1, <4>1, <4>2 DEF WorkerStep
      <3>3. CASE \/ WatchEvents \/ RemoveMark \/ DrainEvents \/ WatchVnode
                 \/ WatchHangup \/ WorkerFails
        BY <3>3
        DEF WatchEvents, RemoveMark, DrainEvents, WatchVnode, WatchHangup,
            WorkerFails, Park, Die, Armed
      <3>4. QED
        BY <1>2, <2>2, <3>2, <3>3 DEF WorkerStep, Worker
    <2>3. QED
      BY <2>1, <2>2
  <1>3. ASSUME UNCHANGED <<vars, store, missed>>, Mirrors' => Mirrors PROVE KeptInv'
    BY <1>3, <1>a, <1>b DEF vars, watcherVars, Armed
  <1>4. ASSUME NEW o \in {"get", "set"}, Begin(o) PROVE KeptInv'
    <2>1. CASE LoadSkipped(o)
      BY <2>1 DEF LoadSkipped
    <2>2. CASE LoadUnchanged(o)
      BY <1>3, <2>2 DEF LoadUnchanged, PollAgain
    <2>3. CASE LoadChanged(o)
      BY <2>3 DEF LoadChanged
    <2>4. QED
      BY <1>4, <2>1, <2>2, <2>3 DEF Begin
  <1>5. CASE ReadFile
    <2>1. UNCHANGED vars /\ store' = Shown
      BY <1>5 DEF ReadFile
    <2>2. Armed' = Armed /\ armed' = armed
      BY <2>1 DEF vars, watcherVars, Armed
    <2>3. QED
      BY <1>0, <1>b, <2>1, <2>2 DEF NoLostChange, vars, watcherVars
  <1>6. CASE ReadFails \/ GetAgain \/ GetValue \/ SetFails \/ SaveFails
    BY <1>6, <1>3
    DEF ReadFails, GetAgain, GetValue, SetFails, SaveFails, Finish
  <1>7. CASE LoadRefused \/ Unmount \/ UnmountDone
    <2>1. UNCHANGED <<fsVars, kernelVars, oldStat, armed, store, missed>>
      BY <1>7
      DEF LoadRefused, PollNoFile, PollFails, Unmount, UnmountDone, DestroyClose,
          DestroySignal, DestroyJoin, watcherVars, syncVars
    <2>2. (Armed' => Armed) /\ (Mirrors' => Mirrors)
      BY <1>7
      DEF LoadRefused, PollNoFile, PollFails, Unmount, UnmountDone, DestroyClose,
          DestroySignal, DestroyJoin, watcherVars, syncVars, Signal, Armed, SyncInv,
          NoLostChangeInv, ParkedInv
    <2>3. QED
      BY <1>a, <1>b, <2>1, <2>2
  <1>8. CASE Set
    BY <1>8 DEF Set, Finish
  <1>9. ASSUME NEW i \in Inodes, NEW o \in {"sync", "unmount"}, Save(i, o)
        PROVE  KeptInv'
    <2>1. Shown' = store' /\ armed' = armed
      BY <1>9, InodesAssumption, <1>0 DEF Save, RenameOver, Shown, TypeOK
    <2>2. NoLostChange'
      BY NoLostChangeImplied, PTL
    <2>3. QED
      BY <2>1, <2>2 DEF NoLostChange
  <1>10. ASSUME NEW i \in Inodes, SaveUnsynced(i) PROVE KeptInv'
    BY <1>10 DEF SaveUnsynced
  <1>11. CASE SaveDone
    <2>1. CASE PollChanged
      BY <1>11, <2>1
      DEF SaveDone, PollChanged, Rearm
    <2>2. CASE PollAgain
      BY <1>11, <1>3, <2>2 DEF SaveDone, PollAgain, vars, watcherVars
    <2>3. CASE PollNoFile \/ PollFails
      BY <2>3 DEF PollNoFile, PollFails, watcherVars, Armed
    <2>4. QED
      BY <1>11, <2>1, <2>2, <2>3 DEF SaveDone, Poll
  <1>12. CASE UNCHANGED allVars
    BY <1>12, <1>3 DEF allVars, syncVars
  <1>13. QED
    BY <1>1, <1>2, <1>4, <1>5, <1>6, <1>7, <1>8, <1>9, <1>10, <1>11, <1>12,
       SyncNextSplits DEF WatcherStep

LEMMA StoreInit == SyncInit => StoreInv
  <1> SUFFICES ASSUME SyncInit PROVE StoreInv
    OBVIOUS
  <1>1. TypeInv /\ TypeOK
    BY TypeInit DEF SyncInit, TypeInv
  <1>2. SyncTypeOK /\ SumInv /\ LoadsClean
    <2>1. 0 \in Stamps
      BY BoundAssumption DEF Stamps
    <2>2. QED
      BY <1>1, <2>1 DEF SyncInit, SyncTypeOK, SumInv, LoadsClean
  <1>3. SerialInv
    BY DEF SyncInit, Init, SerialInv
  <1>4. QED
    BY <1>1, <1>2, <1>3 DEF StoreInv

LEMMA StoreNext == StoreInv /\ [SyncNext]_allVars => StoreInv'
  BY SyncWatcherType, SyncTypes, SyncSerial DEF StoreInv

LEMMA SyncInitInv == SyncInit => SyncInv
  BY StoreInit, NoLostChangeInit DEF SyncInit, SyncInv, KeptInv, Mirrors

LEMMA SyncNextInv ==
    ASSUME FineClock
    PROVE  SyncInv /\ [SyncNext]_allVars => SyncInv'
  BY StoreNext, SyncWatch, SyncKept DEF SyncInv, StoreInv

\* Every variable keeps its type, and no request of a client gets past
\* store_load() without a store.
THEOREM SyncTypeCorrect == SyncSpec => []SyncTypeOK
  <1>1. StoreInv => SyncTypeOK
    BY DEF StoreInv
  <1>2. QED
    BY <1>1, StoreInit, StoreNext, PTL DEF SyncSpec

\* store_load() goes on with an outdated store only if a rearm outside of it
\* has hidden the change; otherwise the worker has noticed it, or will.
THEOREM StaleStoreIsNoticed ==
    ASSUME FineClock
    PROVE  SyncSpec => []StaleOnlyIfMissed
  <1>1. SyncInv => StaleOnlyIfMissed
    <2> SUFFICES ASSUME SyncInv, StaleStore, missed = "no", "IDLE" \notin flags,
                        worker \notin {"start", "unmark", "drain"}
                 PROVE  Noticeable
      BY DEF StaleOnlyIfMissed
    <2>1. Armed
      BY DEF SyncInv, NoLostChangeInv, ParkedInv, TypeInv, TypeOK, Armed
    <2>2. store = armed \/ Noticeable
      BY <2>1 DEF SyncInv, KeptInv, Mirrors, StaleStore, Behind
    <2>3. QED
      BY <2>1, <2>2, NoLostChangeImplied
      DEF SyncInv, NoLostChange, StaleStore, Behind
  <1>2. QED
    BY <1>1, SyncInitInv, SyncNextInv, PTL DEF SyncSpec

\* store_load() never replaces what the client has changed by what another
\* process wrote, and ctx->dirty is only reset by a store_save() that has
\* replaced the file.
THEOREM EditsAreKept == SyncSpec => EditsSurvive
  <1> DEFINE Survives == dirty => \/ dirty' /\ (store' = store \/ op = "set")
                                  \/ main = "saved" /\ store' = store
  <1>1. StoreInv /\ [SyncNext]_allVars => [Survives]_allVars
    BY SyncNextSplits
    DEF StoreInv, LoadsClean, WatcherStep, Browser, WorkerStep, Begin, LoadSkipped,
        LoadUnchanged, LoadChanged, LoadRefused, ReadFile, ReadFails, GetAgain,
        GetValue, Set, SetFails, Save, SaveUnsynced, SaveFails, SaveDone, Unmount,
        UnmountDone, syncVars, allVars
  <1>2. QED
    BY <1>1, StoreInit, StoreNext, PTL DEF SyncSpec, EditsSurvive
=============================================================================
