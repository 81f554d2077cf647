-------------------------- MODULE FileHandleProofs --------------------------
(***************************************************************************)
(* Theorems about FileHandle, for every alphabet, every limit on the size  *)
(* of the file, the number of open descriptions and the clock, and every   *)
(* combination of mount flags.                                             *)
(***************************************************************************)
EXTENDS FileHandle, TLAPS

-----------------------------------------------------------------------------
(***************************************************************************)
(* What the operators on contents return.                                  *)
(***************************************************************************)

LEMMA BoundedSeqIsSeq ==
    ASSUME NEW S, NEW n \in Nat
    PROVE  BoundedSeq(S, n) = {s \in Seq(S) : Len(s) <= n}
  <1>1. ASSUME NEW s \in BoundedSeq(S, n) PROVE s \in Seq(S) /\ Len(s) <= n
    <2>1. PICK k \in 0 .. n : s \in [1 .. k -> S]
      BY DEF BoundedSeq
    <2>2. QED
      BY <2>1
  <1>2. ASSUME NEW s \in Seq(S), Len(s) <= n PROVE s \in BoundedSeq(S, n)
    <2>1. Len(s) \in 0 .. n /\ s \in [1 .. Len(s) -> S]
      BY <1>2
    <2>2. QED
      BY <2>1 DEF BoundedSeq
  <1>3. QED
    BY <1>1, <1>2

\* The newline that bm_read_cb() adds is the one that bm_do_write() removes.
LEMMA StripFileOf ==
    ASSUME NEW S, NEW u \in Seq(S)
    PROVE  StripEol(FileOf(u)) = u
  BY DEF StripEol, FileOf

LEMMA FileOfType ==
    ASSUME NEW u \in Seq(Chars)
    PROVE  /\ FileOf(u) \in Seq(Chars)
           /\ Len(FileOf(u)) <= Len(u) + 1
           /\ Len(FileOf(u)) > Len(u) => Eol /\ FileOf(u)[Len(FileOf(u))] = Newline
  BY CharAssumption DEF FileOf, Chars

LEMMA FrontType ==
    ASSUME NEW S, NEW s \in Seq(S), NEW n \in Nat, n <= Len(s)
    PROVE  SubSeq(s, 1, n) \in Seq(S) /\ Len(SubSeq(s, 1, n)) = n
  OBVIOUS

LEMMA StripEolType ==
    ASSUME NEW s \in Seq(Chars)
    PROVE  /\ StripEol(s) \in Seq(Chars)
           /\ Len(StripEol(s)) <= Len(s)
           /\ Eol /\ s # <<>> /\ s[Len(s)] = Newline => Len(StripEol(s)) = Len(s) - 1
  <1>1. ASSUME s # <<>>
        PROVE  /\ SubSeq(s, 1, Len(s) - 1) \in Seq(Chars)
               /\ Len(SubSeq(s, 1, Len(s) - 1)) = Len(s) - 1
    <2>1. Len(s) - 1 \in Nat /\ Len(s) - 1 <= Len(s)
      BY <1>1
    <2>2. QED
      BY <2>1, FrontType
  <1>2. QED
    BY <1>1 DEF StripEol

LEMMA OverwriteType ==
    ASSUME NEW s \in Seq(Chars), NEW off \in Nat, NEW b \in Seq(Chars)
    PROVE  LET t == Overwrite(s, off, b)
           IN  /\ t \in Seq(Chars)
               /\ Len(t) = IF Len(s) > off + Len(b) THEN Len(s) ELSE off + Len(b)
               /\ Len(s) > off + Len(b) => t[Len(t)] = s[Len(s)]
  <1> DEFINE n == IF Len(s) > off + Len(b) THEN Len(s) ELSE off + Len(b)
             t == Overwrite(s, off, b)
  <1>1. n \in Nat
    OBVIOUS
  <1>2. t \in [1 .. n -> Chars]
    BY DEF Overwrite, Chars
  <1>3. t \in Seq(Chars) /\ Len(t) = n
    BY <1>1, <1>2
  <1>4. Len(s) > off + Len(b) => t[Len(t)] = s[Len(s)]
    BY <1>3 DEF Overwrite
  <1>5. QED
    BY <1>3, <1>4

LEMMA ResizeType ==
    ASSUME NEW s \in Seq(Chars), NEW n \in Nat
    PROVE  Resize(s, n) \in Seq(Chars) /\ Len(Resize(s, n)) = n
  <1>1. Resize(s, n) \in [1 .. n -> Chars]
    BY DEF Resize, Chars
  <1>2. QED
    BY <1>1
-----------------------------------------------------------------------------
(***************************************************************************)
(* Types.  Two of them need more than the type: the number of changes by   *)
(* other programs and all time stamps stay below the clock, and a buffer   *)
(* that is one character too long for a bookmark ends with the newline     *)
(* that bm_do_write() strips.                                              *)
(***************************************************************************)

PastInv == remtime < now /\ version < now /\ mtime < now

TailInv == Len(buf) > FileMax => buf[Len(buf)] = Newline

TypeInv == TypeOK /\ mount \in Mounts /\ PastInv /\ TailInv

\* The part of TypeOK that is about contents, in terms of sequences.
LEMMA ContentType ==
    /\ FileMax \in Nat \ {0}
    /\ TypeInv => /\ url \in Seq(Chars) /\ Len(url) <= FileMax
                  /\ buf \in Seq(Chars) /\ Len(buf) <= FileMax + 1
                  /\ Len(buf) > FileMax => Eol /\ buf[Len(buf)] = Newline
  <1>1. FileMax \in Nat \ {0} /\ FileMax + 1 \in Nat
    BY LimitAssumption
  <1>2. QED
    BY <1>1, BoundedSeqIsSeq DEF TypeInv, TypeOK, TailInv

\* A new content of the buffer.
LEMMA BufType ==
    ASSUME UNCHANGED mount, buf' \in Seq(Chars), Len(buf') <= FileMax + 1,
           Len(buf') > FileMax => Eol /\ buf'[Len(buf')] = Newline
    PROVE  /\ buf' \in BoundedSeq(Chars, IF Eol' THEN FileMax + 1 ELSE FileMax)
           /\ TailInv'
  <1>1. FileMax \in Nat /\ FileMax + 1 \in Nat /\ Len(buf') \in Nat
    BY LimitAssumption
  <1>2. QED
    BY <1>1, BoundedSeqIsSeq DEF TailInv, Eol

\* What bm_do_write() hands to the backend fits into the bookmark.
LEMMA StrippedFits ==
    ASSUME TypeInv
    PROVE  StripEol(buf) \in BoundedSeq(Chars, FileMax)
  <1>1. /\ FileMax \in Nat
        /\ StripEol(buf) \in Seq(Chars) /\ Len(StripEol(buf)) <= FileMax
    BY ContentType, StripEolType
  <1>2. QED
    BY <1>1, BoundedSeqIsSeq

LEMMA TypeInit == Init => TypeInv
  <1> SUFFICES ASSUME Init PROVE TypeInv
    OBVIOUS
  <1>0. FileMax \in Nat /\ MaxTime \in Nat \ {0} /\ MaxOpen \in Nat
    BY LimitAssumption
  <1>1. url \in BoundedSeq(Chars, FileMax)
    BY DEF Init, BoundedSeq, Chars
  <1>2. /\ buf \in BoundedSeq(Chars, IF Eol THEN FileMax + 1 ELSE FileMax)
        /\ TailInv
    <2>1. buf \in Seq(Chars) /\ Len(buf) = 0
      BY DEF Init
    <2>2. ASSUME NEW n \in Nat PROVE buf \in BoundedSeq(Chars, n)
      <3>1. BoundedSeq(Chars, n) = {s \in Seq(Chars) : Len(s) <= n}
        BY BoundedSeqIsSeq
      <3>2. QED
        BY <2>1, <3>1
    <2>3. QED
      BY <1>0, <2>1, <2>2 DEF TailInv
  <1>3. /\ {remtime, version, mtime} \subseteq 0 .. MaxTime
        /\ touched \in 0 .. MaxTime
        /\ now \in 1 .. MaxTime
        /\ refcount \in 0 .. MaxOpen
        /\ PastInv
    BY <1>0 DEF Init, PastInv
  <1>4. /\ {loaded, alive, blind} \subseteq BOOLEAN
        /\ flags = {} /\ cookie = {}
    BY DEF Init
  <1>5. QED
    BY <1>1, <1>2, <1>3, <1>4 DEF Init, TypeInv, TypeOK

\* A request that leaves bookmark and buffer alone, but for the flags.
LEMMA QuietType ==
    ASSUME TypeInv, UNCHANGED <<bookmarkVars, loaded, buf, mtime, cookie, mount, now>>,
           refcount' \in 0 .. MaxOpen, flags' \in {{}, {"DIRTY"}, {"DIRTY", "MTIME"}},
           touched' \in 0 .. MaxTime \cup {Lost}, alive' \in BOOLEAN,
           blind' \in BOOLEAN
    PROVE  TypeInv'
  BY DEF TypeInv, TypeOK, PastInv, TailInv, bookmarkVars, Eol

\* A request that changes the buffer.
LEMMA TouchType ==
    ASSUME TypeInv, Touch, UNCHANGED <<bookmarkVars, cookie, alive, mount>>,
           refcount' \in 0 .. MaxOpen, loaded' \in BOOLEAN, blind' \in BOOLEAN,
           buf' \in Seq(Chars), Len(buf') <= FileMax + 1,
           Len(buf') > FileMax => Eol /\ buf'[Len(buf')] = Newline
    PROVE  TypeInv'
  <1>1. /\ buf' \in BoundedSeq(Chars, IF Eol' THEN FileMax + 1 ELSE FileMax)
        /\ TailInv'
    BY BufType
  <1>2. MaxTime \in Nat
    BY LimitAssumption
  <1>3. PastInv' /\ now' \in 1 .. MaxTime /\ mtime' \in 0 .. MaxTime
          /\ touched' \in 0 .. MaxTime
    BY <1>2 DEF TypeInv, TypeOK, PastInv, Touch, Tick, bookmarkVars
  <1>4. QED
    BY <1>1, <1>3 DEF TypeInv, TypeOK, Touch, bookmarkVars

LEMMA NoHandleType ==
    ASSUME TypeInv, NoHandle, refcount' = 0, UNCHANGED <<now, alive, mount>>,
           blind' = FALSE, touched' \in 0 .. MaxTime \cup {Lost},
           url' \in BoundedSeq(Chars, FileMax), remtime' \in {remtime, mtime},
           version' = version
    PROVE  TypeInv'
  <1>0. FileMax \in Nat /\ MaxOpen \in Nat
    BY LimitAssumption
  <1>1. /\ buf' \in BoundedSeq(Chars, IF Eol' THEN FileMax + 1 ELSE FileMax)
        /\ TailInv'
    <2>1. buf' \in Seq(Chars) /\ Len(buf') = 0
      BY DEF NoHandle
    <2>2. QED
      BY <1>0, <2>1, BufType
  <1>2. /\ remtime' \in 0 .. MaxTime /\ mtime' \in 0 .. MaxTime
        /\ PastInv'
    BY LimitAssumption DEF NoHandle, TypeInv, TypeOK, PastInv
  <1>3. {loaded, alive, blind}' \subseteq BOOLEAN /\ flags' = {} /\ cookie' = {}
    BY Zenon DEF NoHandle, TypeInv, TypeOK
  <1>4. /\ mount' \in Mounts /\ now' \in 1 .. MaxTime /\ version' \in 0 .. MaxTime
        /\ refcount' \in 0 .. MaxOpen
    BY <1>0 DEF TypeInv, TypeOK
  <1>5. QED
    BY <1>1, <1>2, <1>3, <1>4 DEF TypeInv, TypeOK

LEMMA TypeNext == TypeInv /\ [Next]_vars => TypeInv'
  <1> SUFFICES ASSUME TypeInv, [Next]_vars PROVE TypeInv'
    OBVIOUS
  <1>0. /\ FileMax \in Nat \ {0} /\ MaxOpen \in Nat /\ MaxTime \in Nat \ {0}
        /\ refcount \in 0 .. MaxOpen /\ alive \in BOOLEAN /\ blind \in BOOLEAN
        /\ loaded \in BOOLEAN /\ touched \in 0 .. MaxTime \cup {Lost}
        /\ flags \in {{}, {"DIRTY"}, {"DIRTY", "MTIME"}}
    BY LimitAssumption DEF TypeInv, TypeOK
  <1>a. UNCHANGED mount
    BY DEF Next, vars
  <1> USE <1>a
  <1>1. CASE Open \/ ReleaseShared
    <2>1. refcount' \in 0 .. MaxOpen
      BY <1>0, <1>1 DEF Open, ReleaseShared
    <2>2. QED
      BY <1>0, <1>1, <2>1, QuietType DEF Open, ReleaseShared, historyVars
  <1>2. CASE OpenTrunc
    <2>1. refcount' \in 0 .. MaxOpen
      BY <1>0, <1>2 DEF OpenTrunc
    <2>2. buf' \in Seq(Chars) /\ Len(buf') = 0
      BY <1>2 DEF OpenTrunc
    <2>3. loaded' \in BOOLEAN /\ blind' \in BOOLEAN
      BY <1>0, <1>2, Zenon DEF OpenTrunc
    <2>4. Len(buf') <= FileMax + 1 /\ ~(Len(buf') > FileMax)
      BY <1>0, <2>2
    <2>5. QED
      BY <1>2, <2>1, <2>2, <2>3, <2>4, TouchType DEF OpenTrunc
  <1>3. CASE ReadFetch
    <2>1. /\ buf' \in BoundedSeq(Chars, IF Eol' THEN FileMax + 1 ELSE FileMax)
          /\ TailInv'
      <3>1. /\ FileOf(url) \in Seq(Chars) /\ Len(FileOf(url)) <= FileMax + 1
            /\ Len(FileOf(url)) > FileMax
                => Eol /\ FileOf(url)[Len(FileOf(url))] = Newline
        BY ContentType, FileOfType
      <3>2. QED
        BY <1>3, <3>1, BufType DEF ReadFetch
    <2>2. cookie' \in {{}} \cup {{v} : v \in 0 .. version'}
      BY <1>3 DEF ReadFetch, bookmarkVars, TypeInv, TypeOK
    <2>3. {loaded, alive, blind}' \subseteq BOOLEAN
      BY <1>0, <1>3, Zenon DEF ReadFetch
    <2>4. PastInv'
      BY <1>3 DEF ReadFetch, bookmarkVars, TypeInv, PastInv
    <2>5. QED
      BY <1>0, <1>3, <2>1, <2>2, <2>3, <2>4
      DEF ReadFetch, bookmarkVars, TypeInv, TypeOK
  <1>4. ASSUME NEW off \in Offsets, NEW b \in Chunks, Write(off, b)
        PROVE  TypeInv'
    <2>1. off \in Nat /\ b \in Seq(Chars)
      BY <1>0, BoundedSeqIsSeq DEF Offsets, Chunks, Chars
    <2>2. /\ Overwrite(buf, off, b) \in Seq(Chars)
          /\ Len(Overwrite(buf, off, b)) <= FileMax + 1
          /\ Len(Overwrite(buf, off, b)) > FileMax
                => Eol /\ Overwrite(buf, off, b)[Len(Overwrite(buf, off, b))] = Newline
      BY <1>4, <2>1, ContentType, OverwriteType DEF Write
    <2>3. blind' \in BOOLEAN /\ loaded' \in BOOLEAN
      BY <1>0, <1>4 DEF Write, IsBlind
    <2>4. QED
      BY <1>0, <1>4, <2>2, <2>3, TouchType DEF Write
  <1>5. ASSUME NEW b \in Chunks, AppendTo(b) PROVE TypeInv'
    <2>1. b \in Seq(Chars)
      BY <1>0, BoundedSeqIsSeq DEF Chunks, Chars
    <2>2. buf' \in Seq(Chars) /\ Len(buf') <= FileMax
      BY <1>5, <2>1, ContentType DEF AppendTo
    <2>3. blind' \in BOOLEAN /\ loaded' \in BOOLEAN
      BY <1>0, <1>5 DEF AppendTo, IsBlind
    <2>4. QED
      BY <1>0, <1>5, <2>2, <2>3, TouchType DEF AppendTo
  <1>6. ASSUME NEW n \in 0 .. FileMax, Truncate(n) PROVE TypeInv'
    <2>1. buf' \in Seq(Chars) /\ Len(buf') <= FileMax
      BY <1>0, <1>6, ContentType, ResizeType DEF Truncate
    <2>2. blind' \in BOOLEAN /\ loaded' \in BOOLEAN
      BY <1>0, <1>6 DEF Truncate, IsBlind
    <2>3. QED
      BY <1>0, <1>6, <2>1, <2>2, TouchType DEF Truncate
  <1>7. ASSUME NEW t \in {0, now}, Utimens(t) PROVE TypeInv'
    <2>1. /\ remtime' \in 0 .. MaxTime /\ touched' \in 0 .. MaxTime
          /\ now' \in 1 .. MaxTime /\ PastInv'
      BY <1>0, <1>7 DEF Utimens, Tick, TypeInv, TypeOK, PastInv
    <2>2. flags' \in {{}, {"DIRTY"}, {"DIRTY", "MTIME"}}
      BY <1>0, <1>7 DEF Utimens
    <2>3. QED
      BY <1>7, <2>1, <2>2 DEF Utimens, TypeInv, TypeOK, TailInv, Eol
  <1>8. CASE UtimensFails
    <2>1. flags' \in {{}, {"DIRTY"}, {"DIRTY", "MTIME"}}
      BY <1>0, <1>8 DEF UtimensFails
    <2>2. QED
      BY <1>0, <1>8, <2>1, QuietType DEF UtimensFails
  <1>9. CASE Fsync
    <2>1. url' \in BoundedSeq(Chars, FileMax)
      BY <1>9, StrippedFits DEF Fsync, WriteBack
    <2>2. remtime' \in 0 .. MaxTime /\ PastInv'
      BY <1>9 DEF Fsync, WriteBack, TypeInv, TypeOK, PastInv
    <2>3. QED
      BY <1>9, <2>1, <2>2
      DEF Fsync, WriteBack, historyVars, TypeInv, TypeOK, TailInv, Eol
  <1>10. CASE FsyncFails
    <2>1. url' \in BoundedSeq(Chars, FileMax) /\ UNCHANGED <<remtime, version>>
      BY <1>10, StrippedFits DEF FsyncFails, WriteBackFails, bookmarkVars, TypeInv, TypeOK
    <2>2. QED
      BY <1>10, <2>1
      DEF FsyncFails, handleVars, historyVars, TypeInv, TypeOK, PastInv, TailInv, Eol
  <1>11. CASE Release
    <2>1. /\ url' \in BoundedSeq(Chars, FileMax)
          /\ remtime' \in {remtime, mtime} /\ version' = version
      BY <1>11, StrippedFits DEF Release, WriteBack, bookmarkVars, TypeInv, TypeOK
    <2>2. QED
      BY <1>0, <1>11, <2>1, NoHandleType DEF Release
  <1>12. CASE ReleaseFails
    <2>1. /\ url' \in BoundedSeq(Chars, FileMax)
          /\ remtime' = remtime /\ version' = version
      BY <1>12, StrippedFits
      DEF ReleaseFails, WriteBackFails, bookmarkVars, TypeInv, TypeOK
    <2>2. touched' \in 0 .. MaxTime
      BY <1>12, <2>1 DEF ReleaseFails, TypeInv, TypeOK
    <2>3. QED
      BY <1>12, <2>1, <2>2, NoHandleType DEF ReleaseFails
  <1>13. CASE Crash
    BY <1>0, <1>13, QuietType DEF Crash, handleVars, historyVars
  <1>14. CASE Remote
    <2>1. url' \in BoundedSeq(Chars, FileMax)
      <3>1. PICK c \in Letters : url' = <<c>>
        BY <1>14 DEF Remote
      <3>2. url' \in Seq(Chars) /\ Len(url') = 1
        BY <3>1 DEF Chars
      <3>3. BoundedSeq(Chars, FileMax) = {s \in Seq(Chars) : Len(s) <= FileMax}
        BY <1>0, BoundedSeqIsSeq
      <3>4. 1 <= FileMax
        BY <1>0
      <3>5. QED
        BY <3>2, <3>3, <3>4, Zenon
    <2>2. /\ remtime' \in 0 .. MaxTime /\ version' \in 0 .. MaxTime
          /\ now' \in 1 .. MaxTime /\ PastInv'
      BY <1>0, <1>14 DEF Remote, handleVars, Tick, TypeInv, TypeOK, PastInv
    <2>3. cookie' \in {{}} \cup {{v} : v \in 0 .. version'}
      BY <1>0, <1>14 DEF Remote, handleVars, TypeInv, TypeOK
    <2>4. QED
      BY <1>14, <2>1, <2>2, <2>3
      DEF Remote, handleVars, historyVars, TypeInv, TypeOK, TailInv, Eol
  <1>15. CASE UNCHANGED vars
    BY <1>0, <1>15, QuietType DEF vars, handleVars, historyVars
  <1>16. QED
    BY <1>1, <1>2, <1>3, <1>4, <1>5, <1>6, <1>7, <1>8, <1>9, <1>10, <1>11, <1>12,
       <1>13, <1>14, <1>15 DEF Next, Request

\* Every variable keeps its type; in particular the buffer never exceeds
\* file_max by more than a newline, and what is written back never exceeds it.
THEOREM TypeCorrect == Spec => []TypeOK
  <1>1. TypeInv => TypeOK
    BY DEF TypeInv
  <1>2. QED
    BY <1>1, TypeInit, TypeNext, PTL DEF Spec
-----------------------------------------------------------------------------
(***************************************************************************)
(* What was written is what is read.  ContentKept compares contents up to  *)
(* the last newline, which a write beyond it would not preserve: the       *)
(* inductive invariant says that the buffer is exactly what POSIX says     *)
(* whenever it holds the file, and that a clean bookmark is that content   *)
(* without its last newline.                                               *)
(***************************************************************************)

ContentInv ==
    /\ ~loaded => buf = <<>>
    /\ (loaded \/ Dirty) /\ ~blind => buf = posix
    /\ Exclusive /\ ~Dirty /\ ~blind => url = StripEol(posix)

\* A change of the buffer that makes the file dirty.
LEMMA TouchContent ==
    ASSUME Touch, blind' \/ buf' = posix', loaded' \/ buf' = <<>>
    PROVE  ContentInv'
  BY DEF ContentInv, Touch, Dirty

\* The content that a write applies to is what the buffer holds, unless the
\* write is blind.
LEMMA BaseIsBuffer ==
    ASSUME TypeInv, ContentInv, ~IsBlind
    PROVE  Base = buf
  <1>1. CASE loaded \/ Dirty
    BY <1>1 DEF ContentInv, IsBlind, Base
  <1>2. CASE ~loaded /\ ~Dirty
    <2>1. FileOf(url) = <<>> /\ buf = <<>> /\ ~blind
      BY <1>2 DEF ContentInv, IsBlind
    <2>2. url = StripEol(FileOf(url))
      BY ContentType, StripFileOf
    <2>3. ~Eol
      BY <2>1, ContentType DEF FileOf
    <2>4. url = <<>> /\ StripEol(posix) = posix
      BY <2>1, <2>2, <2>3 DEF StripEol
    <2>5. QED
      BY <1>2, <2>1, <2>4 DEF ContentInv, Base
  <1>3. QED
    BY <1>1, <1>2

LEMMA ContentNext == TypeInv /\ ContentInv /\ [Next]_vars => ContentInv'
  <1> SUFFICES ASSUME TypeInv, ContentInv, [Next]_vars PROVE ContentInv'
    OBVIOUS
  <1>a. UNCHANGED mount
    BY DEF Next, vars
  <1>b. UNCHANGED <<Eol, Exclusive>>
    BY <1>a DEF Eol, Exclusive
  <1>c. ASSUME NEW s, posix' = s PROVE StripEol(posix)' = StripEol(s)
    BY <1>b, <1>c DEF StripEol
  <1>1. CASE UNCHANGED <<url, loaded, buf, posix, blind>> /\ Dirty' = Dirty
    <2>1. StripEol(posix)' = StripEol(posix)
      BY <1>1, <1>c
    <2>2. QED
      BY <1>1, <1>b, <2>1 DEF ContentInv
  <1>2. CASE Open \/ ReleaseShared \/ Crash \/ Utimens(0) \/ Utimens(now)
             \/ UtimensFails \/ UNCHANGED vars
    BY <1>1, <1>2
    DEF Open, ReleaseShared, Crash, Utimens, UtimensFails, vars, bookmarkVars,
        handleVars, historyVars, Dirty
  <1>3. CASE OpenTrunc
    BY <1>3, TouchContent DEF OpenTrunc
  <1>4. CASE ReadFetch
    <2>1. ~Dirty /\ ~Dirty' /\ loaded' /\ url' = url /\ buf' = FileOf(url)
      BY <1>4 DEF ReadFetch, Dirty, bookmarkVars
    <2>2. CASE Exclusive
      <3>1. posix' = FileOf(StripEol(posix)) /\ blind' = blind
        BY <1>4, <2>2 DEF ReadFetch, ReadBack, TypeInv, TypeOK
      <3>2. ASSUME ~blind PROVE StripEol(posix)' = url /\ posix' = FileOf(url)
        <4>1. url = StripEol(posix)
          BY <2>1, <2>2, <3>2 DEF ContentInv
        <4>2. QED
          BY <1>c, <3>1, <4>1, ContentType, StripFileOf
      <3>3. QED
        BY <2>1, <3>1, <3>2 DEF ContentInv
    <2>3. CASE ~Exclusive
      BY <1>4, <1>b, <2>1, <2>3 DEF ReadFetch, ContentInv
    <2>4. QED
      BY <2>2, <2>3
  <1>5. ASSUME NEW off \in Offsets, NEW b \in Chunks, Write(off, b)
        PROVE  ContentInv'
    BY <1>5, BaseIsBuffer, TouchContent DEF Write
  <1>6. ASSUME NEW b \in Chunks, AppendTo(b) PROVE ContentInv'
    BY <1>6, BaseIsBuffer, TouchContent DEF AppendTo
  <1>7. ASSUME NEW n \in 0 .. FileMax, Truncate(n) PROVE ContentInv'
    <2>1. CASE n = 0
      <3>1. \A s : Resize(s, 0) = <<>>
        BY DEF Resize
      <3>2. QED
        BY <1>7, <2>1, <3>1, TouchContent DEF Truncate
    <2>2. CASE n > 0
      <3>1. ~loaded => n > Len(buf)
        BY <2>2 DEF ContentInv
      <3>2. QED
        BY <1>7, <2>2, <3>1, BaseIsBuffer, TouchContent DEF Truncate
    <2>3. QED
      BY <2>1, <2>2, LimitAssumption
  <1>8. CASE Fsync
    <2>1. StripEol(posix)' = StripEol(posix)
      BY <1>8, <1>c DEF Fsync, historyVars
    <2>2. /\ UNCHANGED <<loaded, buf, posix, blind>> /\ ~Dirty'
          /\ Dirty /\ url' = StripEol(buf)
      BY <1>8 DEF Fsync, WriteBack, historyVars, Dirty
    <2>3. QED
      BY <2>1, <2>2 DEF ContentInv
  <1>9. CASE FsyncFails
    BY <1>9 DEF FsyncFails, handleVars, historyVars, ContentInv, Dirty
  <1>10. CASE Release
    <2>1. ~loaded' /\ buf' = <<>> /\ ~Dirty' /\ blind' = FALSE
      BY <1>10 DEF Release, NoHandle, Dirty
    <2>2. url' \in Seq(Chars)
      <3>1. url' \in BoundedSeq(Chars, FileMax)
        BY TypeNext DEF TypeInv, TypeOK
      <3>2. QED
        BY <3>1, ContentType, BoundedSeqIsSeq
    <2>3. Exclusive => StripEol(posix)' = url'
      <3>1. CASE blind
        BY <1>10, <1>c, <2>2, <3>1, StripFileOf DEF Release
      <3>2. CASE ~blind /\ Exclusive
        <4>1. url' = StripEol(posix)
          BY <1>10, <3>2 DEF Release, WriteBack, bookmarkVars, ContentInv
        <4>2. posix' = FileOf(url')
          BY <1>10, <3>2, <4>1 DEF Release, ReadBack
        <4>3. QED
          BY <1>c, <2>2, <4>2, StripFileOf
      <3>3. QED
        BY <3>1, <3>2
    <2>4. QED
      BY <1>b, <2>1, <2>3 DEF ContentInv
  <1>11. CASE ReleaseFails
    <2>1. ~loaded' /\ buf' = <<>> /\ ~Dirty' /\ posix' = FileOf(url')
      BY <1>11 DEF ReleaseFails, NoHandle, Dirty
    <2>2. url' \in Seq(Chars)
      <3>1. url' \in BoundedSeq(Chars, FileMax)
        BY TypeNext DEF TypeInv, TypeOK
      <3>2. QED
        BY <3>1, ContentType, BoundedSeqIsSeq
    <2>3. StripEol(posix)' = url'
      BY <1>c, <2>1, <2>2, StripFileOf
    <2>4. QED
      BY <2>1, <2>3 DEF ContentInv
  <1>12. CASE Remote
    BY <1>12, <1>b DEF Remote, handleVars, historyVars, ContentInv, Dirty
  <1>13. QED
    BY <1>2, <1>3, <1>4, <1>5, <1>6, <1>7, <1>8, <1>9, <1>10, <1>11, <1>12
    DEF Next, Request

\* While nobody else changes the bookmark, or the file is dirty, a read returns
\* what POSIX says, whatever writebacks have failed, unless a write went to a
\* buffer that had never been filled.
THEOREM ContentIsKept == Spec => []ContentKept
  <1>1. Init => ContentInv
    <2> SUFFICES ASSUME Init PROVE ContentInv
      OBVIOUS
    <2>1. url \in Seq(Chars)
      BY TypeInit, ContentType
    <2>2. StripEol(posix) = url
      BY <2>1, StripFileOf DEF Init
    <2>3. QED
      BY <2>2 DEF Init, ContentInv, Dirty
  <1>2. TypeInv /\ ContentInv => ContentKept
    <2> SUFFICES ASSUME TypeInv, ContentInv, Exclusive \/ Dirty, ~blind
                 PROVE  StripEol(Content) = StripEol(posix)
      BY DEF ContentKept
    <2>1. CASE loaded \/ Dirty
      BY <2>1 DEF ContentInv, Content
    <2>2. CASE ~loaded /\ ~Dirty
      BY <2>2, ContentType, StripFileOf DEF ContentInv, Content
    <2>3. QED
      BY <2>1, <2>2
  <1>3. QED
    BY <1>1, <1>2, TypeInit, TypeNext, ContentNext, PTL DEF Spec
-----------------------------------------------------------------------------
(***************************************************************************)
(* The cookie of bookmark_get().                                           *)
(***************************************************************************)

LEMMA CacheNext == TypeInv /\ CacheCoherent /\ [Next]_vars => CacheCoherent'
  <1> SUFFICES ASSUME TypeInv, CacheCoherent, [Next]_vars PROVE CacheCoherent'
    OBVIOUS
  <1>a. UNCHANGED Eol
    BY DEF Next, vars, Eol
  <1>b. ASSUME NEW s, buf' = s PROVE StripEol(buf)' = StripEol(s)
    BY <1>a, <1>b DEF StripEol
  <1>1. CASE UNCHANGED <<url, version, buf, cookie>> /\ Dirty' = Dirty
    BY <1>1, <1>b DEF CacheCoherent
  <1>2. CASE Open \/ ReleaseShared \/ Crash \/ Utimens(0) \/ Utimens(now)
             \/ UtimensFails \/ UNCHANGED vars
    BY <1>1, <1>2
    DEF Open, ReleaseShared, Crash, Utimens, UtimensFails, vars, bookmarkVars,
        handleVars, Dirty
  <1>3. CASE Dirty'
    BY <1>3 DEF CacheCoherent
  <1>4. ASSUME Touch PROVE CacheCoherent'
    BY <1>3, <1>4 DEF Touch, Dirty
  <1>5. CASE ReadFetch
    <2>1. url' = url /\ StripEol(buf)' = StripEol(FileOf(url))
      BY <1>5, <1>b DEF ReadFetch, bookmarkVars
    <2>2. QED
      BY <2>1, ContentType, StripFileOf DEF CacheCoherent
  <1>6. CASE Fsync
    <2>1. url' = StripEol(buf) /\ buf' = buf
      BY <1>6 DEF Fsync, WriteBack
    <2>2. QED
      BY <1>b, <2>1 DEF CacheCoherent
  <1>7. CASE FsyncFails
    BY <1>3, <1>7 DEF FsyncFails, handleVars, Dirty
  <1>8. CASE Release \/ ReleaseFails
    BY <1>8 DEF Release, ReleaseFails, NoHandle, CacheCoherent
  <1>9. CASE Remote
    <2>1. cookie # {version'}
      BY <1>9 DEF Remote, TypeInv, TypeOK
    <2>2. QED
      BY <1>9, <2>1 DEF Remote, handleVars, CacheCoherent
  <1>10. QED
    BY <1>2, <1>4, <1>5, <1>6, <1>7, <1>8, <1>9
    DEF Next, Request, OpenTrunc, Write, AppendTo, Truncate

\* A clean buffer that the backend says is up to date holds the bookmark's
\* value, however writes, writebacks and changes by others have alternated.
THEOREM CacheIsCoherent == Spec => []CacheCoherent
  <1>1. Init => CacheCoherent
    BY DEF Init, CacheCoherent
  <1>2. QED
    BY <1>1, TypeInit, TypeNext, CacheNext, PTL DEF Spec
-----------------------------------------------------------------------------
(***************************************************************************)
(* Time stamps.  The time of a write is in the handle as long as           *)
(* FH_FLAG_MTIME is set, and then younger than the backend's; when it is   *)
(* not, the backend has it.                                                *)
(***************************************************************************)

MtimeInv ==
    /\ "MTIME" \in flags => mtime = touched
    /\ Exclusive /\ "MTIME" \in flags => mtime > remtime
    /\ Exclusive /\ "MTIME" \notin flags => remtime = touched \/ touched = Lost

LEMMA MtimeNext == TypeInv /\ MtimeInv /\ [Next]_vars => MtimeInv'
  <1> SUFFICES ASSUME TypeInv, MtimeInv, [Next]_vars PROVE MtimeInv'
    OBVIOUS
  <1>a. UNCHANGED Exclusive
    BY DEF Next, vars, Exclusive
  <1>1. CASE UNCHANGED <<flags, mtime, remtime, touched>>
    BY <1>1, <1>a DEF MtimeInv
  <1>2. CASE \/ Open \/ ReadFetch \/ ReleaseShared \/ Crash \/ FsyncFails
             \/ UNCHANGED vars
    BY <1>1, <1>2
    DEF Open, ReadFetch, ReleaseShared, Crash, FsyncFails, WriteBackFails, vars,
        bookmarkVars, handleVars, historyVars
  <1>3. ASSUME Touch, remtime' = remtime PROVE MtimeInv'
    BY <1>3 DEF Touch, MtimeInv, TypeInv, PastInv
  <1>4. CASE Utimens(0) \/ Utimens(now)
    BY <1>4 DEF Utimens, MtimeInv
  <1>5. CASE UtimensFails
    BY <1>5, <1>a DEF UtimensFails, MtimeInv, bookmarkVars
  <1>6. CASE Fsync
    BY <1>6, <1>a DEF Fsync, WriteBack, MtimeInv, historyVars
  <1>7. CASE Release
    <2>1. /\ flags' = {} /\ touched' = touched
          /\ remtime' = IF "MTIME" \in flags THEN mtime ELSE remtime
      BY <1>7 DEF Release, NoHandle, WriteBack, bookmarkVars, Dirty, TypeInv, TypeOK
    <2>2. QED
      BY <1>a, <2>1 DEF MtimeInv
  <1>8. CASE ReleaseFails
    BY <1>8 DEF ReleaseFails, NoHandle, MtimeInv
  <1>9. CASE Remote
    BY <1>9, <1>a DEF Remote, MtimeInv, handleVars, historyVars
  <1>10. QED
    BY <1>2, <1>3, <1>4, <1>5, <1>6, <1>7, <1>8, <1>9
    DEF Next, Request, OpenTrunc, Write, AppendTo, Truncate, bookmarkVars

\* stat() never loses the time of a write, truncation or utimensat(), wherever
\* bm_do_write(), bm_setattr() and failed writebacks have left it.
THEOREM MtimeIsKept == Spec => []MtimeKept
  <1>1. Init => MtimeInv
    BY DEF Init, MtimeInv
  <1>2. TypeInv /\ MtimeInv => MtimeKept
    BY DEF TypeInv, TypeOK, MtimeInv, MtimeKept, StatMtime
  <1>3. QED
    BY <1>1, <1>2, TypeInit, TypeNext, MtimeNext, PTL DEF Spec
=============================================================================
