---------------------------- MODULE WatcherProofs ----------------------------
(***************************************************************************)
(* Theorems about Watcher, for every set of inodes, every bound on the     *)
(* number of writes and all three implementations.                         *)
(***************************************************************************)
EXTENDS Watcher, TLAPS

\* The clock never runs ahead of the writes, which is what keeps it, and every
\* st_mtim, within its type.
TypeInv == TypeOK /\ now <= writes

LEMMA WriteType ==
    ASSUME TypeInv, NEW i \in Inodes, Write(i)
    PROVE  /\ data' \in [Inodes -> Stamps]
           /\ mtime' \in [Inodes -> Stamps]
           /\ writes' \in Stamps
           /\ now' \in Stamps
           /\ now' <= writes'
  <1>1. writes' \in Stamps /\ now' \in Stamps /\ now' <= writes'
    BY BoundAssumption DEF TypeInv, TypeOK, Write, Stamps
  <1>2. writes + 1 \in Stamps
    BY BoundAssumption DEF TypeInv, TypeOK, Write, Stamps
  <1>3. QED
    BY <1>1, <1>2 DEF TypeInv, TypeOK, Write

LEMMA TakeNameType ==
    ASSUME TypeInv, NEW i \in Inodes, TakeName(i)
    PROVE  /\ file' \in Inodes
           /\ moved' \subseteq Inodes
           /\ data' \in [Inodes -> Stamps]
           /\ mtime' \in [Inodes -> Stamps]
           /\ writes' \in Stamps
           /\ now' \in Stamps
           /\ now' <= writes'
  <1>1. CASE i \in Free /\ Write(i) /\ moved' = moved
    BY <1>1, WriteType DEF TakeName, TypeInv, TypeOK
  <1>2. CASE i \in moved /\ moved' = moved \ {i}
                /\ UNCHANGED <<data, mtime, writes, now>>
    BY <1>2 DEF TakeName, TypeInv, TypeOK
  <1>3. QED
    BY <1>1, <1>2 DEF TakeName

\* The implementation is chosen once and for all.
LEMMA ImplStays == [Next]_vars => UNCHANGED impl
  BY DEF vars, fsVars, NotFs, Next, Others, Modify, ModifyOther, Create, Replace,
         Unlink, MoveAway, LastClose, Worker, WorkerStart, WatchEvents, RemoveMark,
         DrainEvents, WatchVnode, WatchTimeout, WatchStat, WatchHangup, WakeUp,
         WorkerFails, WakeSpuriously, Poll, PollAgain, PollChanged, PollNoFile,
         PollFails, Destroy, DestroyClose, DestroySignal, DestroyJoin

LEMMA NotifyType ==
    ASSUME TypeInv, NEW I, NEW gone, Notify(I, gone)
    PROVE  marks' \subseteq Inodes /\ events' \subseteq Inodes
  BY DEF TypeInv, TypeOK, Notify

\* impl_rearm(), as called by the worker and by watcher_poll().
LEMMA RearmType ==
    ASSUME TypeInv, Rearm
    PROVE  /\ marks' \subseteq Inodes
           /\ oldStat' \in [ino : Inodes \cup {NoFile}, mtime : Stamps]
           /\ armed' \in Stamps
  <1>1. file \in Inodes
    BY DEF TypeInv, TypeOK, Rearm
  <1>2. mtime[file] \in Stamps /\ data[file] \in Stamps
    BY <1>1 DEF TypeInv, TypeOK
  <1>3. QED
    BY <1>1, <1>2 DEF TypeInv, TypeOK, Rearm, Shown, Stat

LEMMA TypeInit == Init => TypeInv
  <1>1. 0 \in Stamps /\ 1 \in Stamps
    BY BoundAssumption DEF Stamps
  <1>2. QED
    BY <1>1 DEF Init, TypeInv, TypeOK

LEMMA TypeNext == TypeInv /\ [Next]_vars => TypeInv'
  <1> SUFFICES ASSUME TypeInv, [Next]_vars PROVE TypeInv'
    OBVIOUS
  <1> USE DEF TypeInv, fsVars, kernelVars, watcherVars, clientVars, NotFs
  <1>1. CASE Modify
    <2>1. file \in Inodes
      BY <1>1 DEF Modify, TypeOK
    <2>2. QED
      BY <1>1, <2>1, WriteType, NotifyType DEF Modify, TypeOK
  <1>2. ASSUME NEW i \in Inodes, ModifyOther(i) PROVE TypeInv'
    BY <1>2, WriteType, NotifyType DEF ModifyOther, TypeOK
  <1>3. ASSUME NEW i \in Inodes, Create(i) PROVE TypeInv'
    BY <1>3, TakeNameType, NotifyType DEF Create, TypeOK
  <1>4. ASSUME NEW i \in Inodes, NEW open \in BOOLEAN, Replace(i, open)
        PROVE  TypeInv'
    <2>1. file \in Inodes
      BY <1>4 DEF Replace, TypeOK
    <2>2. /\ orphans' \subseteq Inodes
          /\ marks' \subseteq Inodes
          /\ events' \subseteq Inodes
      BY <1>4, <2>1, NotifyType DEF Replace, DropName, TypeOK
    <2>3. QED
      BY <1>4, <2>2, TakeNameType DEF Replace, TypeOK
  <1>5. ASSUME NEW open \in BOOLEAN, Unlink(open) PROVE TypeInv'
    <2>1. file \in Inodes
      BY <1>5 DEF Unlink, TypeOK
    <2>2. /\ orphans' \subseteq Inodes
          /\ marks' \subseteq Inodes
          /\ events' \subseteq Inodes
      BY <1>5, <2>1, NotifyType DEF Unlink, DropName, TypeOK
    <2>3. QED
      BY <1>5, <2>2 DEF Unlink, TypeOK
  <1>6. CASE MoveAway
    BY <1>6, NotifyType DEF MoveAway, TypeOK
  <1>7. ASSUME NEW i \in Inodes, LastClose(i) PROVE TypeInv'
    BY <1>7, NotifyType DEF LastClose, TypeOK
  <1>8. CASE WorkerStart
    <2>1. CASE Rearm /\ worker' = "watch" /\ UNCHANGED flags
      BY <1>8, <2>1, RearmType DEF WorkerStart, TypeOK
    <2>2. CASE RearmNoFile /\ Park /\ UNCHANGED <<marks, oldStat, armed>>
      BY <1>8, <2>2 DEF WorkerStart, Park, TypeOK
    <2>3. QED
      BY <1>8, <2>1, <2>2 DEF WorkerStart
  <1>9. CASE WatchEvents
    BY <1>9 DEF WatchEvents, TypeOK
  <1>10. CASE RemoveMark
    BY <1>10 DEF RemoveMark, TypeOK
  <1>11. CASE DrainEvents
    BY <1>11 DEF DrainEvents, Park, TypeOK
  <1>12. CASE WatchVnode
    BY <1>12 DEF WatchVnode, Park, TypeOK
  <1>13. CASE WatchTimeout
    BY <1>13 DEF WatchTimeout, TypeOK
  <1>14. CASE WatchStat
    BY <1>14 DEF WatchStat, Park, TypeOK
  <1>15. CASE WatchHangup
    BY <1>15 DEF WatchHangup, Die, TypeOK
  <1>16. CASE WorkerFails
    BY <1>16 DEF WorkerFails, Die, TypeOK
  <1>17. CASE WakeUp
    BY <1>17 DEF WakeUp, TypeOK
  <1>18. CASE WakeSpuriously
    BY <1>18 DEF WakeSpuriously, TypeOK
  <1>19. CASE PollAgain
    BY <1>19 DEF PollAgain, TypeOK, vars
  <1>20. CASE PollChanged
    BY <1>20, RearmType DEF PollChanged, Signal, TypeOK
  <1>21. CASE PollNoFile
    BY <1>21 DEF PollNoFile, TypeOK
  <1>22. CASE PollFails
    BY <1>22 DEF PollFails, TypeOK
  <1>23. CASE Destroy
    BY <1>23 DEF Destroy, DestroyClose, DestroySignal, DestroyJoin, Signal, TypeOK
  <1>24. CASE UNCHANGED vars
    BY <1>24 DEF vars, TypeOK
  <1>25. QED
    BY <1>1, <1>2, <1>3, <1>4, <1>5, <1>6, <1>7, <1>8, <1>9, <1>10, <1>11,
       <1>12, <1>13, <1>14, <1>15, <1>16, <1>17, <1>18, <1>19, <1>20, <1>21,
       <1>22, <1>23, <1>24
    DEF Next, Others, Worker, Poll

\* Every variable keeps its type.
THEOREM TypeCorrect == Spec => []TypeOK
  <1>1. TypeInv => TypeOK
    BY DEF TypeInv
  <1>2. QED
    BY <1>1, TypeInit, TypeNext, PTL DEF Spec
-----------------------------------------------------------------------------
(***************************************************************************)
(* No change is lost.  NoLostChange is not inductive: it does not say what *)
(* the armed watcher holds on to while the file is unchanged.  WatchInv    *)
(* does.  A native watcher is attached to the inode that the name refers   *)
(* to, unless an event is queued already or is bound to be queued when an  *)
(* orphan is closed; the fallback has the attributes of the inode that     *)
(* held the armed content, and no two writes share an st_mtim.             *)
(***************************************************************************)

\* st_mtim tells writes apart, where the watcher depends on it.
FineClock == "fallback" \in Impls => CoarseClock = FALSE

\* Every write has its own st_mtim.
ClockInv == impl = "fallback" => mtime = data /\ now = writes

Attached == file \in marks /\ data[file] = armed

WatchInv ==
    Armed => IF impl = "fallback"
             THEN oldStat.mtime = armed
             ELSE Noticeable \/ Attached

\* The worker waits and ends with IDLE set, and is not armed once it has ended.
ParkedInv ==
    /\ worker \in {"wait", "dead"} => "IDLE" \in flags
    /\ worker = "dead" => "DEAD" \in flags

NoLostChangeInv == TypeInv /\ ClockInv /\ ParkedInv /\ WatchInv

LEMMA WriteClock ==
    ASSUME FineClock, TypeInv, ClockInv, UNCHANGED impl,
           NEW i \in Inodes, Write(i)
    PROVE  ClockInv'
  BY DEF FineClock, TypeInv, TypeOK, ClockInv, Write

LEMMA TakeNameClock ==
    ASSUME FineClock, TypeInv, ClockInv, UNCHANGED impl,
           NEW i \in Inodes, TakeName(i)
    PROVE  ClockInv'
  <1>1. CASE Write(i)
    BY <1>1, WriteClock
  <1>2. CASE UNCHANGED <<data, mtime, writes, now>>
    BY <1>2 DEF ClockInv
  <1>3. QED
    BY <1>1, <1>2 DEF TakeName

\* A step of another process keeps the armed watcher watching: if it changes
\* the inode behind the name, or takes the name from it, then that inode was
\* marked and an event is queued, or it becomes a marked orphan.
LEMMA OthersWatch ==
    ASSUME NoLostChangeInv, TypeInv', NotFs, impl # "fallback",
           events \subseteq events',
           marks \cap orphans # {} /\ impl = "fanotify" => Noticeable',
           Attached => Noticeable' \/ Attached'
    PROVE  WatchInv'
  <1>1. Armed' => Armed
    BY DEF NotFs, watcherVars, Armed
  <1>2. events # {} => Noticeable'
    BY DEF Noticeable, NotFs
  <1>3. QED
    BY <1>1, <1>2 DEF NoLostChangeInv, WatchInv, Noticeable, NotFs

LEMMA OthersWatchStat ==
    ASSUME NoLostChangeInv, NotFs, impl = "fallback"
    PROVE  WatchInv'
  BY DEF NoLostChangeInv, WatchInv, NotFs, watcherVars, Armed

LEMMA OthersParked ==
    ASSUME ParkedInv, NotFs
    PROVE  ParkedInv'
  BY DEF ParkedInv, NotFs, watcherVars

LEMMA NoLostChangeInit == Init => NoLostChangeInv
  <1> SUFFICES ASSUME Init PROVE NoLostChangeInv
    OBVIOUS
  <1>1. TypeInv
    BY TypeInit
  <1>2. ClockInv
    BY DEF Init, ClockInv
  <1>3. ParkedInv /\ WatchInv
    BY DEF Init, ParkedInv, WatchInv, Armed
  <1>4. QED
    BY <1>1, <1>2, <1>3 DEF NoLostChangeInv

LEMMA NoLostChangeNext ==
    ASSUME FineClock
    PROVE  NoLostChangeInv /\ [Next]_vars => NoLostChangeInv'
  <1> SUFFICES ASSUME NoLostChangeInv, [Next]_vars PROVE NoLostChangeInv'
    OBVIOUS
  <1> USE DEF fsVars, kernelVars, watcherVars, clientVars
  <1>0. TypeInv /\ TypeInv'
    BY TypeNext DEF NoLostChangeInv
  <1>a. file # NoFile => file \in Inodes
    BY <1>0 DEF TypeInv, TypeOK
  <1>b. UNCHANGED impl
    BY ImplStays
  <1> USE <1>b
  <1>1. CASE Modify
    <2>1. ClockInv'
      BY <1>0, <1>1, <1>a, WriteClock DEF Modify, NoLostChangeInv
    <2>2. ASSUME impl # "fallback" PROVE WatchInv'
      <3>1. Attached => Noticeable'
        BY <1>1, <2>2 DEF Modify, Notify, Attached, Noticeable
      <3>2. marks \cap orphans # {} /\ impl = "fanotify" => Noticeable'
        BY <1>1, <2>2 DEF Modify, Notify, Noticeable
      <3>3. events \subseteq events' /\ NotFs
        BY <1>1 DEF Modify, Notify
      <3>4. QED
        BY <1>0, <2>2, <3>1, <3>2, <3>3, OthersWatch
    <2>3. QED
      BY <1>0, <1>1, <2>1, <2>2, OthersWatchStat, OthersParked
      DEF Modify, NoLostChangeInv
  <1>2. ASSUME NEW i \in Inodes, ModifyOther(i) PROVE NoLostChangeInv'
    <2>1. ClockInv'
      BY <1>0, <1>2, WriteClock DEF ModifyOther, NoLostChangeInv
    <2>2. ASSUME impl # "fallback" PROVE WatchInv'
      <3>1. Attached => Noticeable' \/ Attached'
        <4>1. marks \subseteq marks' /\ file' = file /\ armed' = armed
          BY <1>2 DEF ModifyOther, Notify, NotFs
        <4>2. CASE i = file
          BY <1>2, <2>2, <4>2 DEF ModifyOther, Notify, Attached, Noticeable
        <4>3. CASE i # file
          <5>1. file \in Inodes => data'[file] = data[file]
            BY <1>0, <1>2, <4>3 DEF ModifyOther, Write, TypeInv, TypeOK
          <5>2. QED
            BY <1>0, <4>1, <5>1 DEF Attached, TypeInv, TypeOK
        <4>4. QED
          BY <4>2, <4>3
      <3>2. marks \cap orphans # {} /\ impl = "fanotify" => Noticeable'
        BY <1>2, <2>2 DEF ModifyOther, Notify, Noticeable
      <3>3. events \subseteq events' /\ NotFs
        BY <1>2 DEF ModifyOther, Notify
      <3>4. QED
        BY <1>0, <2>2, <3>1, <3>2, <3>3, OthersWatch
    <2>3. QED
      BY <1>0, <1>2, <2>1, <2>2, OthersWatchStat, OthersParked
      DEF ModifyOther, NoLostChangeInv
  <1>3. ASSUME NEW i \in Inodes, Create(i) PROVE NoLostChangeInv'
    <2>1. ClockInv'
      BY <1>0, <1>3, TakeNameClock DEF Create, NoLostChangeInv
    <2>2. ASSUME impl # "fallback" PROVE WatchInv'
      <3>1. ~Attached
        BY <1>0, <1>3, InodesAssumption DEF Create, Attached, TypeInv, TypeOK
      <3>2. marks \cap orphans # {} /\ impl = "fanotify" => Noticeable'
        BY <1>3, <2>2 DEF Create, Notify, Noticeable
      <3>3. events \subseteq events' /\ NotFs
        BY <1>3 DEF Create, Notify
      <3>4. QED
        BY <1>0, <2>2, <3>1, <3>2, <3>3, OthersWatch
    <2>3. QED
      BY <1>0, <1>3, <2>1, <2>2, OthersWatchStat, OthersParked
      DEF Create, NoLostChangeInv
  <1>4. ASSUME NEW i \in Inodes, NEW open \in BOOLEAN, Replace(i, open)
        PROVE  NoLostChangeInv'
    <2>1. ClockInv'
      BY <1>0, <1>4, TakeNameClock DEF Replace, NoLostChangeInv
    <2>2. ASSUME impl # "fallback" PROVE WatchInv'
      <3>1. Attached => Noticeable'
        BY <1>0, <1>4, <2>2
        DEF Replace, DropName, Notify, Attached, Noticeable, TypeInv, TypeOK
      <3>2. marks \cap orphans # {} /\ impl = "fanotify" => Noticeable'
        BY <1>4, <2>2 DEF Replace, DropName, Notify, Noticeable
      <3>3. events \subseteq events' /\ NotFs
        BY <1>4 DEF Replace, DropName, Notify
      <3>4. QED
        BY <1>0, <2>2, <3>1, <3>2, <3>3, OthersWatch
    <2>3. QED
      BY <1>0, <1>4, <2>1, <2>2, OthersWatchStat, OthersParked
      DEF Replace, NoLostChangeInv
  <1>5. ASSUME NEW open \in BOOLEAN, Unlink(open) PROVE NoLostChangeInv'
    <2>1. ClockInv'
      BY <1>5 DEF Unlink, NoLostChangeInv, ClockInv
    <2>2. ASSUME impl # "fallback" PROVE WatchInv'
      <3>1. Attached => Noticeable'
        BY <1>0, <1>5, <2>2
        DEF Unlink, DropName, Notify, Attached, Noticeable, TypeInv, TypeOK
      <3>2. marks \cap orphans # {} /\ impl = "fanotify" => Noticeable'
        BY <1>5, <2>2 DEF Unlink, DropName, Notify, Noticeable
      <3>3. events \subseteq events' /\ NotFs
        BY <1>5 DEF Unlink, DropName, Notify
      <3>4. QED
        BY <1>0, <2>2, <3>1, <3>2, <3>3, OthersWatch
    <2>3. QED
      BY <1>0, <1>5, <2>1, <2>2, OthersWatchStat, OthersParked
      DEF Unlink, NoLostChangeInv
  <1>6. CASE MoveAway
    <2>1. ClockInv'
      BY <1>6 DEF MoveAway, NoLostChangeInv, ClockInv
    <2>2. ASSUME impl # "fallback" PROVE WatchInv'
      <3>1. Attached => Noticeable'
        BY <1>6, <2>2 DEF MoveAway, Notify, Attached, Noticeable
      <3>2. marks \cap orphans # {} /\ impl = "fanotify" => Noticeable'
        BY <1>6, <2>2 DEF MoveAway, Notify, Noticeable
      <3>3. events \subseteq events' /\ NotFs
        BY <1>6 DEF MoveAway, Notify
      <3>4. QED
        BY <1>0, <2>2, <3>1, <3>2, <3>3, OthersWatch
    <2>3. QED
      BY <1>0, <1>6, <2>1, <2>2, OthersWatchStat, OthersParked
      DEF MoveAway, NoLostChangeInv
  <1>7. ASSUME NEW i \in Inodes, LastClose(i) PROVE NoLostChangeInv'
    <2>1. ClockInv'
      BY <1>7 DEF LastClose, NoLostChangeInv, ClockInv
    <2>2. ASSUME impl # "fallback" PROVE WatchInv'
      <3>1. Attached => Noticeable' \/ Attached'
        <4>1. file' = file /\ data' = data /\ armed' = armed
          BY <1>7 DEF LastClose, NotFs
        <4>2. file \in marks => file \in marks' \/ events' # {}
          BY <1>7 DEF LastClose, Notify
        <4>3. QED
          BY <2>2, <4>1, <4>2 DEF Attached, Noticeable
      <3>2. marks \cap orphans # {} /\ impl = "fanotify" => Noticeable'
        BY <1>7, <2>2 DEF LastClose, Notify, Noticeable
      <3>3. events \subseteq events' /\ NotFs
        BY <1>7 DEF LastClose, Notify
      <3>4. QED
        BY <1>0, <2>2, <3>1, <3>2, <3>3, OthersWatch
    <2>3. QED
      BY <1>0, <1>7, <2>1, <2>2, OthersWatchStat, OthersParked
      DEF LastClose, NoLostChangeInv
  <1>8. ASSUME Rearm, UNCHANGED fsVars PROVE WatchInv' /\ ClockInv'
    <2>1. ClockInv'
      BY <1>8 DEF NoLostChangeInv, ClockInv
    <2>2. CASE impl = "fallback"
      <3>1. oldStat'.mtime = mtime[file] /\ armed' = data[file]
        BY <1>8, <2>2 DEF Rearm, Shown, Stat
      <3>2. mtime[file] = data[file]
        BY <2>2 DEF NoLostChangeInv, ClockInv
      <3>3. QED
        BY <2>1, <2>2, <3>1, <3>2 DEF WatchInv
    <2>3. CASE impl # "fallback"
      BY <1>8, <2>1, <2>3 DEF Rearm, Shown, WatchInv, Attached
    <2>4. QED
      BY <2>1, <2>2, <2>3
  <1>9. CASE WorkerStart
    <2>1. CASE Rearm /\ worker' = "watch" /\ UNCHANGED flags
      BY <1>0, <1>8, <1>9, <2>1 DEF WorkerStart, NoLostChangeInv, ParkedInv
    <2>2. CASE RearmNoFile /\ Park /\ UNCHANGED <<marks, oldStat, armed>>
      BY <1>0, <1>9, <2>2
      DEF WorkerStart, Park, NoLostChangeInv, ClockInv, ParkedInv, WatchInv, Armed
    <2>3. QED
      BY <1>9, <2>1, <2>2 DEF WorkerStart
  <1>10. CASE \/ WatchEvents \/ RemoveMark \/ DrainEvents \/ WatchVnode
              \/ WatchHangup \/ WorkerFails
    <2>1. ~Armed' /\ ParkedInv' /\ UNCHANGED fsVars
      BY <1>10
      DEF WatchEvents, RemoveMark, DrainEvents, WatchVnode, WatchHangup,
          WorkerFails, Park, Die, Armed, ParkedInv
    <2>2. QED
      BY <1>0, <2>1 DEF NoLostChangeInv, WatchInv, ClockInv
  <1>11. CASE WatchTimeout \/ WakeUp
    <2>1. ParkedInv' /\ (Armed' => Armed)
      BY <1>11 DEF WatchTimeout, WakeUp, ParkedInv, Armed
    <2>2. QED
      BY <1>0, <1>11, <2>1
      DEF WatchTimeout, WakeUp, NoLostChangeInv, WatchInv, ClockInv, Noticeable,
          Attached
  <1>12. CASE WatchStat
    <2>1. ParkedInv' /\ (Armed' => Armed)
      BY <1>12 DEF WatchStat, Park, ParkedInv, Armed
    <2>2. QED
      BY <1>0, <1>12, <2>1
      DEF WatchStat, NoLostChangeInv, WatchInv, ClockInv, Noticeable, Attached
  <1>13. CASE WakeSpuriously
    <2>1. ParkedInv' /\ ~Armed'
      BY <1>13 DEF WakeSpuriously, NoLostChangeInv, ParkedInv, Armed
    <2>2. QED
      BY <1>0, <1>13, <2>1 DEF WakeSpuriously, NoLostChangeInv, WatchInv, ClockInv
  <1>14. CASE PollChanged
    <2>1. ParkedInv'
      BY <1>14 DEF PollChanged, Rearm, Signal, NoLostChangeInv, ParkedInv
    <2>2. QED
      BY <1>0, <1>8, <1>14, <2>1 DEF PollChanged, NoLostChangeInv
  <1>15. CASE \/ PollAgain \/ PollNoFile \/ PollFails \/ DestroyClose
              \/ DestroyJoin \/ UNCHANGED vars
    <2>1. UNCHANGED <<fsVars, kernelVars, watcherVars, armed>>
      BY <1>15
      DEF PollAgain, PollNoFile, PollFails, DestroyClose, DestroyJoin, vars
    <2>2. QED
      BY <1>0, <2>1
      DEF NoLostChangeInv, WatchInv, ClockInv, ParkedInv, Armed, Noticeable,
          Attached
  <1>16. CASE DestroySignal
    <2>1. ParkedInv' /\ (Armed' => Armed)
      BY <1>16 DEF DestroySignal, Signal, NoLostChangeInv, ParkedInv, Armed
    <2>2. QED
      BY <1>0, <1>16, <2>1
      DEF DestroySignal, NoLostChangeInv, WatchInv, ClockInv, Noticeable, Attached
  <1>17. QED
    BY <1>1, <1>2, <1>3, <1>4, <1>5, <1>6, <1>7, <1>9, <1>10, <1>11, <1>12,
       <1>13, <1>14, <1>15, <1>16
    DEF Next, Others, Worker, Poll, Destroy

LEMMA NoLostChangeImplied == NoLostChangeInv => NoLostChange
  <1> SUFFICES ASSUME NoLostChangeInv, Armed, Shown # armed PROVE Noticeable
    BY DEF NoLostChange
  <1>1. CASE impl = "fallback"
    BY <1>1
    DEF NoLostChangeInv, WatchInv, ClockInv, Shown, Stat, Noticeable, StatDiffers
  <1>2. CASE impl # "fallback"
    BY <1>2, InodesAssumption
    DEF NoLostChangeInv, WatchInv, Attached, Shown, TypeInv, TypeOK
  <1>3. QED
    BY <1>1, <1>2

\* No change made by another process after impl_rearm() is lost, whichever
\* implementation is used, if two writes never share an st_mtim where the
\* watcher relies on it.
THEOREM NoChangeIsLost ==
    ASSUME FineClock
    PROVE  Spec => []NoLostChange
  BY NoLostChangeImplied, NoLostChangeInit, NoLostChangeNext, PTL DEF Spec
-----------------------------------------------------------------------------
(***************************************************************************)
(* The IDLE handshake between watcher_poll() and worker_loop().            *)
(***************************************************************************)

\* DEAD is set only by the worker's last step.
HandshakeInv == TypeInv /\ Handshake /\ (worker = "dead" => "DEAD" \in flags)

LEMMA HandshakeNext ==
    ASSUME SpuriousWakeup = FALSE
    PROVE  HandshakeInv /\ [Next]_vars => HandshakeInv'
  <1> SUFFICES ASSUME HandshakeInv, [Next]_vars PROVE HandshakeInv'
    OBVIOUS
  <1> USE DEF watcherVars, clientVars
  <1>0. TypeInv /\ TypeInv'
    BY TypeNext DEF HandshakeInv
  <1>1. CASE UNCHANGED watcherVars /\ (client' # client => client = "run"
                                         \/ client' = "done")
    BY <1>0, <1>1 DEF HandshakeInv, Handshake
  <1>2. CASE Others \/ \E i \in Inodes : LastClose(i)
    <2>1. NotFs
      BY <1>2
      DEF Others, Modify, ModifyOther, Create, Replace, Unlink, MoveAway, LastClose
    <2>2. QED
      BY <1>1, <2>1 DEF NotFs
  <1>3. CASE WorkerStart \/ WatchStat
    BY <1>0, <1>3
    DEF WorkerStart, WatchStat, Park, HandshakeInv, Handshake
  <1>4. CASE \/ WatchEvents \/ RemoveMark \/ DrainEvents \/ WatchVnode
             \/ WatchTimeout \/ WatchHangup \/ WorkerFails \/ WakeUp
    BY <1>0, <1>4
    DEF WatchEvents, RemoveMark, DrainEvents, WatchVnode, WatchTimeout,
        WatchHangup, WorkerFails, WakeUp, Park, Die, HandshakeInv, Handshake
  <1>5. ~WakeSpuriously
    BY DEF WakeSpuriously
  <1>6. CASE PollChanged
    BY <1>0, <1>6
    DEF PollChanged, MutexFree, Rearm, Signal, HandshakeInv, Handshake
  <1>7. CASE \/ PollAgain \/ PollNoFile \/ PollFails \/ DestroyClose
             \/ DestroyJoin \/ UNCHANGED vars
    BY <1>1, <1>7
    DEF PollAgain, PollNoFile, PollFails, DestroyClose, DestroyJoin, vars
  <1>8. CASE DestroySignal
    BY <1>0, <1>8 DEF DestroySignal, Signal, HandshakeInv, Handshake
  <1>9. QED
    BY <1>2, <1>3, <1>4, <1>5, <1>6, <1>7, <1>8
    DEF Next, Worker, Poll, Destroy

\* If pthread_cond_wait() returns only when it is signalled, IDLE is set
\* exactly while the worker waits or has ended, until watcher_destroy().
THEOREM HandshakeHolds ==
    ASSUME SpuriousWakeup = FALSE
    PROVE  Spec => []Handshake
  <1>1. Init => HandshakeInv
    BY TypeInit DEF Init, HandshakeInv, Handshake
  <1>2. HandshakeInv => Handshake
    BY DEF HandshakeInv
  <1>3. QED
    BY <1>1, <1>2, HandshakeNext, PTL DEF Spec
-----------------------------------------------------------------------------
(***************************************************************************)
(* kqueue: w->wfd is closed before it is opened again.                     *)
(***************************************************************************)

\* The worker closes wfd before it sets IDLE; states of the other
\* implementations do not occur.
WatchFdInv ==
    impl = "kqueue" =>
        /\ "IDLE" \in flags /\ "DEAD" \notin flags => marks = {}
        /\ worker = "start" => marks = {} /\ flags = {}
        /\ worker \notin {"unmark", "drain", "stat"}

LEMMA WatchFdNext == TypeInv /\ WatchFdInv /\ [Next]_vars => WatchFdInv'
  <1> SUFFICES ASSUME TypeInv, WatchFdInv, [Next]_vars, impl = "kqueue",
                      UNCHANGED impl
               PROVE  WatchFdInv'
    BY ImplStays DEF WatchFdInv
  <1> USE DEF fsVars, kernelVars, watcherVars
  <1>1. CASE UNCHANGED <<marks, flags, worker>>
    BY <1>1 DEF WatchFdInv
  <1>2. CASE Others \/ \E i \in Inodes : LastClose(i)
    <2>1. UNCHANGED <<marks, flags, worker>>
      BY <1>2
      DEF Others, Modify, ModifyOther, Create, Replace, Unlink, MoveAway,
          LastClose, DropName, Notify, NotFs
    <2>2. QED
      BY <1>1, <2>1
  <1>3. CASE WorkerStart
    BY <1>3 DEF WorkerStart, Park, WatchFdInv
  <1>4. CASE WatchEvents \/ RemoveMark \/ DrainEvents \/ WatchTimeout \/ WatchStat
    BY <1>4
    DEF WatchEvents, RemoveMark, DrainEvents, WatchTimeout, WatchStat, WatchFdInv
  <1>5. CASE WatchVnode \/ WatchHangup \/ WorkerFails \/ WakeUp \/ WakeSpuriously
    BY <1>5
    DEF WatchVnode, WatchHangup, WorkerFails, WakeUp, WakeSpuriously, Park, Die,
        WatchFdInv
  <1>6. CASE PollChanged
    BY <1>6 DEF PollChanged, Signal, WatchFdInv
  <1>7. CASE \/ PollAgain \/ PollNoFile \/ PollFails \/ DestroyClose
             \/ DestroyJoin \/ UNCHANGED vars
    BY <1>1, <1>7
    DEF PollAgain, PollNoFile, PollFails, DestroyClose, DestroyJoin, vars
  <1>8. CASE DestroySignal
    BY <1>8 DEF DestroySignal, Signal, WatchFdInv
  <1>9. QED
    BY <1>2, <1>3, <1>4, <1>5, <1>6, <1>7, <1>8 DEF Next, Worker, Poll, Destroy

\* impl_rearm() never overwrites an open w->wfd, spurious wakeups or not.
THEOREM NoWatchFdLeaks == Spec => []NoWatchFdLeak
  <1>1. Init => WatchFdInv
    BY DEF Init, WatchFdInv
  <1>2. WatchFdInv => NoWatchFdLeak
    BY DEF WatchFdInv, NoWatchFdLeak
  <1>3. QED
    BY <1>1, <1>2, TypeInit, TypeNext, WatchFdNext, PTL DEF Spec
=============================================================================
