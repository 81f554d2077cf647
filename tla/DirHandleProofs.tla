--------------------------- MODULE DirHandleProofs ----------------------------
(***************************************************************************)
(* Proofs about DirHandle, for any number of open descriptions, names and  *)
(* rows: whose the fsck state is, and what the kernel keeps of a folder.   *)
(***************************************************************************)
EXTENDS DirHandle, Integers, FiniteSetTheorems, SequenceTheorems, TLAPS

RowType == [dir : {"bookmarks", "folder"}, pos : 0 .. MaxPos,
            name : Names \cup {BadName}]

RowsType == UNION {[S -> RowType] : S \in SUBSET (1 .. MaxId)}

MapType == UNION {[S -> 1 .. MaxId] : S \in SUBSET Names}

OpenType == [dir : Dirs, map : MapType, idx : 0 .. MaxPos + 1, off : 0 .. MaxPos + 1,
             overtaken : BOOLEAN]

HandlesType == [Handles -> {Closed} \cup OpenType]

FhType == [refcount : Nat, dirty : BOOLEAN, fsck : Handles \cup {"none"}]

FhsType == [Dirs -> FhType]

CacheType == [list : Seq(Names), pos : 0 .. MaxPos + 1, full : BOOLEAN,
              patchy : BOOLEAN]

CachesType == [Dirs -> CacheType]

TypeInv ==
    row \in RowsType /\ handle \in HandlesType /\ fh \in FhsType /\ cache \in CachesType
-----------------------------------------------------------------------------
(***************************************************************************)
(* Numbers.                                                                *)
(***************************************************************************)
\* The bounds.
LEMMA Bounds ==
    MaxId \in Nat /\ MaxId >= 1 /\ MaxPos \in Nat /\ MaxPos >= 1 /\ MaxId <= MaxPos
BY BoundAssumption

\* A set of naturals has a least element.
LEMMA NatMin ==
    ASSUME NEW T, T \subseteq Nat, T # {}
    PROVE  \E x \in T : \A y \in T : x <= y
<1>1. IsWellFoundedOn(OpToRel(<, Nat), Nat)
  BY NatLessThanWellFounded
<1>2. PICK x \in T : \A y \in T : ~(<<y, x>> \in OpToRel(<, Nat))
  BY <1>1, WFMin
<1>3. \A y \in T : ~(y < x)
  BY <1>2 DEF OpToRel
<1> QED
  BY <1>3

\* A bounded set of naturals has a largest element.
LEMMA NatMax ==
    ASSUME NEW T, NEW n \in Nat, T \subseteq 0 .. n, T # {}
    PROVE  \E x \in T : \A y \in T : y <= x
<1> DEFINE U == {n - x : x \in T}
<1>1. \A x \in T : n - x \in Nat
  OBVIOUS
<1>2. U \subseteq Nat /\ U # {}
  BY <1>1
<1>3. PICK u \in U : \A v \in U : u <= v
  BY <1>2, NatMin
<1>4. PICK x \in T : u = n - x
  BY <1>3
<1>5. \A y \in T : n - x <= n - y
  BY <1>3, <1>4
<1> QED
  BY <1>4, <1>5
-----------------------------------------------------------------------------
(***************************************************************************)
(* Rows.                                                                   *)
(***************************************************************************)
LEMMA RowFacts ==
    ASSUME NEW r \in RowsType
    PROVE  /\ DOMAIN r \in SUBSET (1 .. MaxId) /\ r \in [DOMAIN r -> RowType]
           /\ \A i \in DOMAIN r : /\ r[i] \in RowType /\ i \in 1 .. MaxId
                                  /\ r[i].dir \in {"bookmarks", "folder"}
                                  /\ r[i].pos \in 0 .. MaxPos /\ r[i].pos \in Nat
                                  /\ r[i].name \in Names \cup {BadName}
<1>1. PICK S \in SUBSET (1 .. MaxId) : r \in [S -> RowType]
  BY DEF RowsType
<1>2. DOMAIN r = S /\ \A i \in S : r[i] \in RowType
  BY <1>1
<1>3. ASSUME NEW i \in S
      PROVE  /\ r[i].dir \in {"bookmarks", "folder"} /\ r[i].pos \in 0 .. MaxPos
             /\ r[i].pos \in Nat /\ r[i].name \in Names \cup {BadName}
  BY <1>2, Bounds DEF RowType
<1> QED
  BY <1>1, <1>2, <1>3

LEMMA RowsIn ==
    ASSUME NEW S \in SUBSET (1 .. MaxId), NEW r \in [S -> RowType]
    PROVE  r \in RowsType
BY DEF RowsType

LEMMA PosType ==
    ASSUME row \in RowsType, NEW d, NEW i \in DOMAIN row
    PROVE  PosOf(d, i) \in 0 .. MaxPos /\ PosOf(d, i) \in Nat
BY RowFacts, Bounds DEF PosOf

LEMMA FirstIn ==
    ASSUME row \in RowsType, NEW d, NEW S \in SUBSET DOMAIN row, S # {}
    PROVE  /\ First(d, S) \in S /\ First(d, S) \in 1 .. MaxId
           /\ \A j \in S : PosOf(d, First(d, S)) <= PosOf(d, j)
<1> DEFINE T == {PosOf(d, i) : i \in S}
<1>1. T \subseteq Nat /\ T # {}
  BY PosType
<1>2. PICK x \in T : \A y \in T : x <= y
  BY <1>1, NatMin
<1>3. \E i \in S : \A j \in S : PosOf(d, i) <= PosOf(d, j)
  BY <1>2
<1>4. First(d, S) \in S /\ \A j \in S : PosOf(d, First(d, S)) <= PosOf(d, j)
  <2> HIDE DEF T
  <2> QED
    BY <1>3, Zenon DEF First
<1> QED
  BY <1>4, RowFacts

LEMMA RowsOfIn ==
    ASSUME NEW d
    PROVE  RowsOf(d) \in SUBSET DOMAIN row
BY DEF RowsOf

LEMMA EndPosType ==
    ASSUME row \in RowsType, NEW d
    PROVE  /\ EndPos(d) \in 0 .. MaxPos + 1
           /\ \A i \in RowsOf(d) : row[i].pos < EndPos(d)
<1>1. CASE RowsOf(d) = {}
  BY <1>1, Bounds DEF EndPos
<1>2. CASE RowsOf(d) # {}
  <2> DEFINE T == {row[i].pos : i \in RowsOf(d)}
             p == CHOOSE p \in T : \A i \in RowsOf(d) : row[i].pos <= p
  <2>1. T \subseteq 0 .. MaxPos /\ T # {}
    BY <1>2, RowFacts, RowsOfIn
  <2>2. PICK x \in T : \A y \in T : y <= x
    BY <2>1, Bounds, NatMax
  <2>3. \E q \in T : \A i \in RowsOf(d) : row[i].pos <= q
    BY <2>2
  <2>4. p \in T /\ \A i \in RowsOf(d) : row[i].pos <= p
    <3> HIDE DEF T
    <3> QED
      BY <2>3, Zenon
  <2>5. EndPos(d) = 1 + p
    BY <1>2 DEF EndPos
  <2>6. p \in 0 .. MaxPos
    <3> HIDE DEF p
    <3> QED
      BY <2>1, <2>4
  <2>7. \A i \in RowsOf(d) : row[i].pos \in Nat
    BY RowFacts, RowsOfIn
  <2> HIDE DEF p
  <2> QED
    BY <2>4, <2>5, <2>6, <2>7, Bounds
<1> QED
  BY <1>1, <1>2

LEMMA NextIdType ==
    ASSUME row \in RowsType
    PROVE  NextId \in Nat /\ NextId >= 1 /\ NextId \notin DOMAIN row
<1>1. CASE DOMAIN row = {}
  BY <1>1 DEF NextId
<1>2. CASE DOMAIN row # {}
  <2>1. DOMAIN row \subseteq 0 .. MaxId /\ DOMAIN row \subseteq 1 .. MaxId
    BY RowFacts, Bounds
  <2>2. \E i \in DOMAIN row : \A j \in DOMAIN row : j <= i
    BY <1>2, <2>1, Bounds, NatMax
  <2> DEFINE m == CHOOSE i \in DOMAIN row : \A j \in DOMAIN row : j <= i
  <2>3. m \in DOMAIN row /\ \A j \in DOMAIN row : j <= m
    BY <2>2, Zenon
  <2>4. NextId = 1 + m
    BY <1>2 DEF NextId
  <2> HIDE DEF m
  <2> QED
    BY <2>1, <2>3, <2>4, Bounds
<1> QED
  BY <1>1, <1>2
-----------------------------------------------------------------------------
(***************************************************************************)
(* Cookies.                                                                *)
(***************************************************************************)
LEMMA MapIn ==
    ASSUME NEW S \in SUBSET Names, NEW m \in [S -> 1 .. MaxId]
    PROVE  m \in MapType
BY DEF MapType

LEMMA MapFacts ==
    ASSUME NEW m \in MapType
    PROVE  /\ DOMAIN m \in SUBSET Names /\ m \in [DOMAIN m -> 1 .. MaxId]
           /\ \A n \in DOMAIN m : m[n] \in 1 .. MaxId
<1>1. PICK S \in SUBSET Names : m \in [S -> 1 .. MaxId]
  BY DEF MapType
<1> QED
  BY <1>1

LEMMA NoMapIn == NoMap \in MapType /\ DOMAIN NoMap = {}
<1>1. DOMAIN NoMap = {}
  BY DEF NoMap
<1>2. NoMap \in [{} -> 1 .. MaxId]
  BY DEF NoMap
<1> QED
  BY <1>1, <1>2, MapIn

LEMMA ClosedFacts ==
    ASSUME NEW c \in {Closed} \cup OpenType
    PROVE  /\ c # Closed <=> c \in OpenType
           /\ c # Closed <=> c.dir \in Dirs
           /\ c.dir \in Dirs \cup {"none"} /\ "none" \notin Dirs
<1>1. Closed.dir = "none"
  BY DEF Closed
<1>2. \A x \in OpenType : x.dir \in Dirs
  BY DEF OpenType
<1>3. "none" \notin Dirs
  BY DirAssumption
<1> QED
  BY <1>1, <1>2, <1>3

LEMMA HandleFacts ==
    ASSUME handle \in HandlesType, NEW h \in Handles, IsOpen(h)
    PROVE  /\ handle[h] \in OpenType /\ handle[h].dir \in Dirs
           /\ handle[h].map \in MapType /\ handle[h].idx \in 0 .. MaxPos + 1
           /\ handle[h].off \in 0 .. MaxPos + 1 /\ handle[h].off \in Nat
           /\ handle[h].overtaken \in BOOLEAN
<1>1. handle[h] \in {Closed} \cup OpenType
  BY DEF HandlesType
<1>2. handle[h] \in OpenType
  BY <1>1 DEF IsOpen
<1>3. handle[h].overtaken \in BOOLEAN
  BY <1>2, Zenon DEF OpenType
<1> DEFINE c == handle[h]
<1>4. c \in OpenType
  BY <1>2
<1> HIDE DEF c
<1>5. /\ c.dir \in Dirs /\ c.map \in MapType /\ c.idx \in 0 .. MaxPos + 1
      /\ c.off \in 0 .. MaxPos + 1 /\ c.off \in Nat
  BY <1>4, Bounds DEF OpenType
<1> QED
  BY <1>2, <1>3, <1>5 DEF c

LEMMA FhFacts ==
    ASSUME fh \in FhsType, NEW d \in Dirs
    PROVE  /\ fh[d] \in FhType /\ fh[d].refcount \in Nat /\ fh[d].dirty \in BOOLEAN
           /\ fh[d].fsck \in Handles \cup {"none"}
<1>1. fh[d] \in FhType
  BY DEF FhsType
<1>2. fh[d].dirty \in BOOLEAN
  BY <1>1, Zenon DEF FhType
<1>3. fh[d].refcount \in Nat /\ fh[d].fsck \in Handles \cup {"none"}
  BY <1>1 DEF FhType
<1> QED
  BY <1>1, <1>2, <1>3

LEMMA CacheFacts ==
    ASSUME cache \in CachesType, NEW d \in Dirs
    PROVE  /\ cache[d] \in CacheType /\ cache[d].list \in Seq(Names)
           /\ cache[d].pos \in 0 .. MaxPos + 1 /\ cache[d].pos \in Nat
           /\ cache[d].full \in BOOLEAN /\ cache[d].patchy \in BOOLEAN
<1>1. cache[d] \in CacheType
  BY DEF CachesType
<1>2. cache[d].full \in BOOLEAN /\ cache[d].patchy \in BOOLEAN
  BY <1>1, Zenon DEF CacheType
<1>3. cache[d].list \in Seq(Names) /\ cache[d].pos \in 0 .. MaxPos + 1 /\ cache[d].pos \in Nat
  BY <1>1, Bounds DEF CacheType
<1> QED
  BY <1>1, <1>2, <1>3

LEMMA NoFhIn == NoFh \in FhType /\ NoFh.refcount = 0 /\ NoFh.fsck = "none"
<1>0. 0 \in Nat
  OBVIOUS
<1>1. NoFh \in FhType
  BY <1>0, Zenon DEF NoFh, FhType
<1> QED
  BY <1>1 DEF NoFh

LEMMA EmptyIn == Empty \in CacheType
<1>1. <<>> \in Seq(Names)
  OBVIOUS
<1>2. 0 \in 0 .. MaxPos + 1
  BY Bounds
<1> QED
  BY <1>1, <1>2, Zenon DEF Empty, CacheType

\* Another state of the cookie of one open description.
Moved(h, g) ==
    /\ g \in HandlesType /\ g[h].dir = handle[h].dir
    /\ \A k \in Handles : k # h => g[k] = handle[k]

LEMMA OvertakenFacts ==
    ASSUME handle \in HandlesType, NEW d \in Dirs
    PROVE  /\ Overtaken(d) \in HandlesType
           /\ \A k \in Handles :
                /\ Overtaken(d)[k].dir = handle[k].dir
                /\ handle[k].dir # d => Overtaken(d)[k] = handle[k]
                /\ handle[k].dir = d =>
                    /\ Overtaken(d)[k].off = handle[k].off
                    /\ Overtaken(d)[k].map = handle[k].map
                    /\ Overtaken(d)[k].overtaken = (handle[k].off > 0)
<1>1. ASSUME NEW k \in Handles, handle[k].dir # d
      PROVE  Overtaken(d)[k] = handle[k]
  BY <1>1 DEF Overtaken
<1>2. ASSUME NEW k \in Handles, handle[k].dir = d
      PROVE  /\ Overtaken(d)[k] \in OpenType /\ Overtaken(d)[k].dir = handle[k].dir
             /\ Overtaken(d)[k].off = handle[k].off
             /\ Overtaken(d)[k].map = handle[k].map
             /\ Overtaken(d)[k].overtaken = (handle[k].off > 0)
  <2> DEFINE c == handle[k]
             b == handle[k].off > 0
             e == [c EXCEPT !.overtaken = b]
  <2>1. Overtaken(d)[k] = e
    BY <1>2 DEF Overtaken
  <2>2. c \in OpenType
    <3>1. c \in {Closed} \cup OpenType
      BY DEF HandlesType
    <3> QED
      BY <1>2, <3>1, ClosedFacts
  <2>3. b \in BOOLEAN
    OBVIOUS
  <2> HIDE DEF c, b
  <2>4. e \in OpenType
    BY <2>2, <2>3, Zenon DEF OpenType
  <2>5. e.dir = c.dir /\ e.off = c.off /\ e.map = c.map
    BY <2>2 DEF OpenType
  <2>6. e.overtaken = b
    BY <2>2 DEF OpenType
  <2> HIDE DEF e
  <2> QED
    BY <2>1, <2>4, <2>5, <2>6 DEF c, b
<1>3. Overtaken(d) \in HandlesType
  <2>1. \A k \in Handles : Overtaken(d)[k] \in {Closed} \cup OpenType
    BY <1>1, <1>2 DEF HandlesType
  <2>2. Overtaken(d) = [k \in Handles |-> Overtaken(d)[k]]
    BY DEF Overtaken
  <2> QED
    BY <2>1, <2>2 DEF HandlesType
<1> QED
  BY <1>1, <1>2, <1>3

\* What a fh looks like after an operation on directory d.
FhStep(d, g) ==
    /\ g \in FhsType
    /\ \A e \in Dirs : e # d => g[e] = fh[e]

LEMMA MarkedFacts ==
    ASSUME fh \in FhsType, NEW d \in Dirs
    PROVE  /\ FhStep(d, Marked(d)) /\ Marked(d)[d].dirty = TRUE
           /\ Marked(d)[d].refcount = fh[d].refcount /\ Marked(d)[d].fsck = fh[d].fsck
<1>1. fh[d] \in FhType
  BY FhFacts
<1>2. Marked(d) = [fh EXCEPT ![d].dirty = TRUE]
  BY DEF Marked
<1> DEFINE b == TRUE
<1>3. b \in BOOLEAN
  OBVIOUS
<1>4. Marked(d) \in FhsType
  BY <1>1, <1>2, Zenon DEF FhsType, FhType
<1>5. /\ \A e \in Dirs : e # d => Marked(d)[e] = fh[e]
      /\ Marked(d)[d].refcount = fh[d].refcount /\ Marked(d)[d].fsck = fh[d].fsck
      /\ Marked(d)[d].dirty = TRUE
  BY <1>1, <1>2 DEF FhsType, FhType
<1> QED
  BY <1>4, <1>5 DEF FhStep

LEMMA FsckSet ==
    ASSUME fh \in FhsType, NEW d \in Dirs, NEW x \in Handles \cup {"none"}
    PROVE  LET g == [fh EXCEPT ![d].fsck = x]
           IN /\ FhStep(d, g) /\ g[d].dirty = fh[d].dirty
              /\ g[d].refcount = fh[d].refcount /\ g[d].fsck = x
<1> DEFINE g == [fh EXCEPT ![d].fsck = x]
<1>1. fh[d] \in FhType
  BY FhFacts
<1>4. g \in FhsType
  BY <1>1, Zenon DEF FhsType, FhType
<1>5. /\ \A e \in Dirs : e # d => g[e] = fh[e]
      /\ g[d].refcount = fh[d].refcount /\ g[d].fsck = x /\ g[d].dirty = fh[d].dirty
  BY <1>1 DEF FhsType, FhType
<1> QED
  BY <1>4, <1>5 DEF FhStep

\* inval_dir(): flush is its condition.
Flush(d) == ~Readonly /\ Exclusive /\ fh[d].dirty

LEMMA InvalFacts ==
    ASSUME fh \in FhsType, cache \in CachesType, NEW d \in Dirs, NEW left \in FhType,
           InvalDir(d, left)
    PROVE  /\ FhStep(d, fh') /\ fh'[d].refcount = left.refcount /\ fh'[d].fsck = left.fsck
           /\ fh'[d].dirty => left.dirty /\ ~Flush(d)
           /\ cache' \in CachesType
           /\ \A e \in Dirs : cache'[e] = cache[e] \/ cache'[e] = Empty
           /\ Flush(d) /\ d # "bookmarks" => cache'[d] = Empty
           /\ \A e \in Dirs : e # d => cache'[e] = cache[e]
           /\ ~Flush(d) => fh'[d].dirty = left.dirty
<1>1. /\ cache' = [e \in Dirs |-> IF Flush(d) /\ e \in InvalInode(d) THEN Empty ELSE cache[e]]
      /\ fh' = [fh EXCEPT ![d] = [left EXCEPT !.dirty = @ /\ ~Flush(d)]]
  BY DEF InvalDir, Flush
<1> DEFINE b == left.dirty /\ ~Flush(d)
           g == [left EXCEPT !.dirty = b]
<1>2. fh' = [fh EXCEPT ![d] = g]
  BY <1>1
<1>3. b \in BOOLEAN
  OBVIOUS
<1>a. b => left.dirty /\ ~Flush(d)
  OBVIOUS
<1>b. left.dirty \in BOOLEAN
  BY Zenon DEF FhType
<1>c. ~Flush(d) => b = left.dirty
  BY <1>b
<1> HIDE DEF b
<1>4. g \in FhType
  BY <1>3, Zenon DEF FhType
<1>5. g.refcount = left.refcount /\ g.fsck = left.fsck
  BY DEF FhType
<1>6. g.dirty = b
  BY DEF FhType
<1> HIDE DEF g
<1>7. FhStep(d, fh') /\ fh'[d] = g
  BY <1>2, <1>4 DEF FhsType, FhStep
<1>8. /\ cache' \in CachesType
      /\ \A e \in Dirs : cache'[e] = cache[e] \/ cache'[e] = Empty
      /\ \A e \in Dirs : e # d => cache'[e] = cache[e]
      /\ Flush(d) /\ d # "bookmarks" => cache'[d] = Empty
  BY <1>1, EmptyIn DEF CachesType, InvalInode
<1> QED
  BY <1>5, <1>6, <1>7, <1>8, <1>a, <1>c
-----------------------------------------------------------------------------
(***************************************************************************)
(* The types: one lemma for each operation, with what else it does.        *)
(***************************************************************************)
LEMMA TypeInit == Init => TypeInv
<1> SUFFICES ASSUME Init PROVE TypeInv
  OBVIOUS
<1>1. row \in RowsType
  <2>1. PICK k \in 1 .. MaxId : row \in [1 .. k -> [dir : {"bookmarks", "folder"} \cap Dirs,
                                                    pos : 0 .. k - 1,
                                                    name : Names \cup {BadName}]]
    BY DEF Init
  <2>2. k \in Nat /\ 0 .. k - 1 \subseteq 0 .. MaxPos /\ 1 .. k \in SUBSET (1 .. MaxId)
    BY Bounds
  <2>3. ASSUME NEW i \in 1 .. k PROVE row[i] \in RowType
    <3>1. row[i] \in [dir : {"bookmarks", "folder"} \cap Dirs, pos : 0 .. k - 1,
                      name : Names \cup {BadName}]
      BY <2>1
    <3> QED
      BY <2>2, <3>1 DEF RowType
  <2>4. row \in [1 .. k -> RowType]
    BY <2>1, <2>3
  <2> QED
    BY <2>2, <2>4, RowsIn
<1>2. handle \in HandlesType
  BY DEF Init, HandlesType
<1>3. fh \in FhsType
  BY NoFhIn DEF Init, FhsType
<1>4. cache \in CachesType
  BY EmptyIn DEF Init, CachesType
<1> QED
  BY <1>1, <1>2, <1>3, <1>4 DEF TypeInv

LEMMA OpendirFacts ==
    ASSUME TypeInv, NEW h \in Handles, NEW d \in Dirs, Opendir(h, d)
    PROVE  /\ TypeInv' /\ UNCHANGED <<row, cache>>
           /\ handle[h].dir = "none"
           /\ handle'[h].dir = d /\ handle'[h].off = 0
           /\ \A k \in Handles : k # h => handle'[k] = handle[k]
           /\ FhStep(d, fh') /\ fh'[d].dirty = fh[d].dirty
           /\ fh'[d].refcount = fh[d].refcount + 1 /\ fh'[d].fsck = fh[d].fsck
<1> DEFINE c == [dir |-> d, map |-> NoMap, idx |-> 0, off |-> 0,
                 overtaken |-> FALSE]
<1>1. /\ handle[h] = Closed /\ handle' = [handle EXCEPT ![h] = c]
      /\ fh' = [fh EXCEPT ![d].refcount = @ + 1] /\ UNCHANGED <<row, cache>>
  BY DEF Opendir, IsOpen
<1>2. c \in OpenType
  <2>1. 0 \in 0 .. MaxPos + 1 /\ 0 \in 0 .. MaxId
    BY Bounds
  <2> QED
    BY <2>1, NoMapIn, Zenon DEF OpenType
<1>3. c.dir = d /\ c.off = 0
  OBVIOUS
<1> HIDE DEF c
<1>4. handle' \in HandlesType /\ handle'[h] = c
      /\ \A k \in Handles : k # h => handle'[k] = handle[k]
  BY <1>1, <1>2 DEF TypeInv, HandlesType
<1>5. fh[d] \in FhType /\ fh[d].refcount \in Nat /\ fh[d].refcount + 1 \in Nat
  BY FhFacts DEF TypeInv
<1>6. fh' \in FhsType
  BY <1>1, <1>5, Zenon DEF TypeInv, FhsType, FhType
<1>7. /\ \A e \in Dirs : e # d => fh'[e] = fh[e]
      /\ fh'[d].refcount = fh[d].refcount + 1 /\ fh'[d].fsck = fh[d].fsck
      /\ fh'[d].dirty = fh[d].dirty
  BY <1>1, <1>5 DEF TypeInv, FhsType, FhType
<1>8. handle[h].dir = "none"
  BY <1>1 DEF Closed
<1>9. TypeInv'
  BY <1>1, <1>4, <1>6 DEF TypeInv
<1> QED
  BY <1>1, <1>3, <1>4, <1>6, <1>7, <1>8, <1>9 DEF FhStep

LEMMA MapAtFacts ==
    ASSUME TypeInv, NEW h \in Handles, IsOpen(h)
    PROVE  MapAt(h) \in MapType
BY HandleFacts, NoMapIn DEF MapAt, TypeInv

LEMMA ReaddirFacts ==
    ASSUME TypeInv, NEW h \in Handles, Readdir(h)
    PROVE  LET d == handle[h].dir
               i == First(d, Shown(h))
           IN /\ TypeInv' /\ UNCHANGED <<row, fh>> /\ d \in Dirs /\ IsOpen(h)
              /\ Shown(h) # {} /\ ~cache[d].full
              /\ i \in Shown(h) /\ \A j \in Shown(h) : PosOf(d, i) <= PosOf(d, j)
              /\ Moved(h, handle') /\ handle'[h].off = PosOf(d, i) + 1
              /\ handle'[h].overtaken = (handle[h].overtaken /\ handle[h].off > 0)
              /\ d # "tag" => handle'[h].map = [m \in DOMAIN MapAt(h) \cup {row[i].name} |->
                                    IF m = row[i].name THEN i ELSE MapAt(h)[m]]
              /\ \A e \in Dirs : e # d => cache'[e] = cache[e]
              /\ ~(Kept(d) /\ handle[h].off = cache[d].pos) => cache'[d] = cache[d]
              /\ Kept(d) /\ handle[h].off = cache[d].pos =>
                    /\ cache'[d].list = Append(cache[d].list, row[i].name)
                    /\ cache'[d].pos = PosOf(d, i) + 1 /\ cache'[d].full = cache[d].full
                    /\ cache'[d].patchy = (cache[d].patchy \/ handle'[h].overtaken)
<1> DEFINE d == handle[h].dir
           i == First(d, Shown(h))
           n == row[i].name
           p == PosOf(d, i) + 1
           b == handle[h].overtaken /\ handle[h].off > 0
           w == [m \in DOMAIN MapAt(h) \cup {n} |-> IF m = n THEN i ELSE MapAt(h)[m]]
           v == IF ChecksName(d) THEN w ELSE MapAt(h)
<1>1. /\ IsOpen(h) /\ ~cache[d].full /\ Shown(h) # {} /\ UNCHANGED <<row, fh>>
      /\ handle' = [handle EXCEPT ![h].off = p, ![h].map = v, ![h].overtaken = b]
      /\ cache' = IF Kept(d) /\ handle[h].off = cache[d].pos
                  THEN Added(d, n, p, handle'[h].overtaken) ELSE cache
  BY DEF Readdir
<1>2. /\ handle \in HandlesType /\ handle[h] \in OpenType /\ d \in Dirs
      /\ MapAt(h) \in MapType /\ row \in RowsType /\ fh \in FhsType /\ cache \in CachesType
  BY <1>1, HandleFacts, MapAtFacts DEF TypeInv
<1>3. Shown(h) \in SUBSET DOMAIN row /\ \A j \in Shown(h) : Valid(j)
  BY DEF Shown, RowsOf
<1>4. i \in Shown(h) /\ i \in 1 .. MaxId /\ \A j \in Shown(h) : PosOf(d, i) <= PosOf(d, j)
  BY <1>1, <1>2, <1>3, FirstIn
<1> HIDE DEF i
<1>5. n \in Names /\ p \in 0 .. MaxPos + 1
  <2>1. i \in DOMAIN row /\ Valid(i)
    BY <1>3, <1>4
  <2>2. n \in Names \cup {BadName} /\ n # BadName
    BY <1>2, <2>1, RowFacts DEF Valid
  <2>3. PosOf(d, i) \in 0 .. MaxPos
    BY <1>2, <2>1, PosType
  <2> QED
    BY <2>2, <2>3, Bounds
<1>6. b \in BOOLEAN
  OBVIOUS
<1> HIDE DEF n, p, b
<1>7. w \in MapType
  <2>1. /\ DOMAIN MapAt(h) \in SUBSET Names
        /\ \A m \in DOMAIN MapAt(h) : MapAt(h)[m] \in 1 .. MaxId
    BY <1>2, MapFacts
  <2>2. w \in [DOMAIN MapAt(h) \cup {n} -> 1 .. MaxId]
    BY <1>4, <2>1
  <2> HIDE DEF w
  <2> QED
    BY <1>5, <2>1, <2>2, MapIn
<1>8. v \in MapType /\ (d # "tag" => v = w)
  BY <1>2, <1>7 DEF ChecksName
<1> HIDE DEF v, w
<1>9. handle' \in HandlesType
  BY <1>1, <1>2, <1>5, <1>6, <1>8, Zenon DEF HandlesType, OpenType
<1>10. /\ handle'[h].dir = d /\ handle'[h].off = p /\ handle'[h].map = v
       /\ \A k \in Handles : k # h => handle'[k] = handle[k]
  BY <1>1, <1>2 DEF HandlesType, OpenType
<1>11. handle'[h].overtaken = b
  BY <1>1, <1>2 DEF HandlesType, OpenType
<1>12. CASE Kept(d) /\ handle[h].off = cache[d].pos
  <2> DEFINE l == Append(cache[d].list, n)
             q == cache[d].patchy \/ b
  <2>1. cache' = [cache EXCEPT ![d].list = l, ![d].pos = p, ![d].patchy = q]
    BY <1>1, <1>11, <1>12 DEF Added
  <2>2. cache[d] \in CacheType /\ cache[d].list \in Seq(Names)
    BY <1>2, CacheFacts
  <2>3. l \in Seq(Names) /\ q \in BOOLEAN
    BY <1>5, <2>2
  <2> HIDE DEF l, q
  <2>4. cache' \in CachesType
    BY <1>2, <1>5, <2>1, <2>2, <2>3, Zenon DEF CachesType, CacheType
  <2>5. /\ \A e \in Dirs : e # d => cache'[e] = cache[e]
        /\ cache'[d].list = l /\ cache'[d].pos = p
    BY <1>2, <2>1, <2>2 DEF CachesType, CacheType
  <2>6. cache'[d].full = cache[d].full /\ cache'[d].patchy = q
    BY <1>2, <2>1, <2>2 DEF CachesType, CacheType
  <2>7. TypeInv'
    BY <1>1, <1>2, <1>9, <2>4 DEF TypeInv
  <2>8. cache'[d].patchy = (cache[d].patchy \/ handle'[h].overtaken)
    BY <1>11, <2>6, Zenon DEF q
  <2>9. /\ cache'[d].list = Append(cache[d].list, n) /\ cache'[d].pos = p
        /\ cache'[d].full = cache[d].full
    BY <2>5, <2>6 DEF l
  <2> QED
    BY <1>1, <1>2, <1>4, <1>8, <1>9, <1>10, <1>11, <1>12, <2>5, <2>7, <2>8, <2>9
       DEF Moved, i, n, p, b, w
<1>13. CASE ~(Kept(d) /\ handle[h].off = cache[d].pos)
  <2>1. cache' = cache
    BY <1>1, <1>13
  <2>2. TypeInv'
    BY <1>1, <1>2, <1>9, <2>1 DEF TypeInv
  <2> QED
    BY <1>1, <1>2, <1>4, <1>8, <1>9, <1>10, <1>11, <1>13, <2>1, <2>2
       DEF Moved, i, n, p, b, w
<1> QED
  BY <1>12, <1>13

LEMMA ReaddirEndFacts ==
    ASSUME TypeInv, NEW h \in Handles, NEW error \in BOOLEAN, ReaddirEnd(h, error)
    PROVE  LET d == handle[h].dir
           IN /\ TypeInv' /\ UNCHANGED <<row, fh>> /\ d \in Dirs /\ IsOpen(h)
              /\ Shown(h) = {} /\ Moved(h, handle')
              /\ handle'[h].off = handle[h].off /\ handle'[h].map = MapAt(h)
              /\ handle'[h].overtaken = handle[h].overtaken
              /\ \A e \in Dirs : e # d => cache'[e] = cache[e]
              /\ \/ cache'[d] = cache[d]
                 \/ /\ Kept(d) /\ handle[h].off = cache[d].pos
                    /\ cache'[d].list = cache[d].list /\ cache'[d].pos = cache[d].pos
                    /\ cache'[d].patchy = (cache[d].patchy \/ handle[h].overtaken)
<1> DEFINE d == handle[h].dir
           v == MapAt(h)
           q == cache[d].patchy \/ handle[h].overtaken
           full == ~error /\ Kept(d) /\ handle[h].off = cache[d].pos
<1>1. /\ IsOpen(h) /\ Shown(h) = {} /\ UNCHANGED <<row, fh>>
      /\ handle' = [handle EXCEPT ![h].map = v]
      /\ cache' = IF full THEN [cache EXCEPT ![d].full = TRUE, ![d].patchy = q] ELSE cache
  BY DEF ReaddirEnd
<1>2. /\ handle \in HandlesType /\ handle[h] \in OpenType /\ d \in Dirs
      /\ v \in MapType /\ row \in RowsType /\ fh \in FhsType /\ cache \in CachesType
      /\ cache[d] \in CacheType
  BY <1>1, HandleFacts, MapAtFacts, CacheFacts DEF TypeInv
<1>3. q \in BOOLEAN
  OBVIOUS
<1> HIDE DEF v, q
<1>4. handle' \in HandlesType
  BY <1>1, <1>2, Zenon DEF HandlesType, OpenType
<1>5. /\ handle'[h].dir = d /\ handle'[h].off = handle[h].off /\ handle'[h].map = v
      /\ \A k \in Handles : k # h => handle'[k] = handle[k]
  BY <1>1, <1>2 DEF HandlesType, OpenType
<1>6. handle'[h].overtaken = handle[h].overtaken
  BY <1>1, <1>2 DEF HandlesType, OpenType
<1>7. CASE full
  <2>1. cache' = [cache EXCEPT ![d].full = TRUE, ![d].patchy = q]
    BY <1>1, <1>7
  <2>2. cache' \in CachesType
    BY <1>2, <1>3, <2>1, Zenon DEF CachesType, CacheType
  <2>3. /\ \A e \in Dirs : e # d => cache'[e] = cache[e]
        /\ cache'[d].list = cache[d].list /\ cache'[d].pos = cache[d].pos
    BY <1>2, <2>1 DEF CachesType, CacheType
  <2>4. cache'[d].patchy = q
    BY <1>2, <2>1 DEF CachesType, CacheType
  <2>5. TypeInv'
    BY <1>1, <1>2, <1>4, <2>2 DEF TypeInv
  <2> QED
    BY <1>1, <1>2, <1>4, <1>5, <1>6, <1>7, <2>3, <2>4, <2>5 DEF Moved, v, q
<1>8. CASE ~full
  <2>1. cache' = cache
    BY <1>1, <1>8
  <2>2. TypeInv'
    BY <1>1, <1>2, <1>4, <2>1 DEF TypeInv
  <2> QED
    BY <1>1, <1>2, <1>4, <1>5, <1>6, <2>1, <2>2 DEF Moved, v
<1> QED
  BY <1>7, <1>8

LEMMA RewinddirFacts ==
    ASSUME TypeInv, NEW h \in Handles, Rewinddir(h)
    PROVE  /\ TypeInv' /\ UNCHANGED <<row, fh, cache>> /\ IsOpen(h)
           /\ Moved(h, handle') /\ handle'[h].off = 0
<1>1. /\ IsOpen(h) /\ handle' = [handle EXCEPT ![h].off = 0] /\ UNCHANGED <<row, fh, cache>>
  BY DEF Rewinddir
<1>2. handle \in HandlesType /\ handle[h] \in OpenType /\ 0 \in 0 .. MaxPos + 1
  BY <1>1, HandleFacts, Bounds DEF TypeInv
<1>3. handle' \in HandlesType
  BY <1>1, <1>2, Zenon DEF HandlesType, OpenType
<1>4. /\ handle'[h].dir = handle[h].dir /\ handle'[h].off = 0
      /\ \A k \in Handles : k # h => handle'[k] = handle[k]
  BY <1>1, <1>2 DEF HandlesType, OpenType
<1> QED
  BY <1>1, <1>3, <1>4 DEF TypeInv, Moved

LEMMA FsyncdirFacts ==
    ASSUME TypeInv, NEW h \in Handles, Fsyncdir(h)
    PROVE  LET d == handle[h].dir
           IN /\ TypeInv' /\ UNCHANGED <<row, handle>> /\ d \in Dirs
              /\ InvalDir(d, fh[d]) /\ fh[d] \in FhType
<1>1. IsOpen(h) /\ UNCHANGED <<row, handle>> /\ InvalDir(handle[h].dir, fh[handle[h].dir])
  BY DEF Fsyncdir
<1>2. handle[h].dir \in Dirs /\ fh \in FhsType /\ cache \in CachesType
  BY <1>1, HandleFacts DEF TypeInv
<1>3. fh[handle[h].dir] \in FhType
  BY <1>2, FhFacts
<1>4. fh' \in FhsType /\ cache' \in CachesType
  BY <1>1, <1>2, <1>3, InvalFacts DEF FhStep
<1> QED
  BY <1>1, <1>2, <1>3, <1>4 DEF TypeInv

LEMMA FreedirFacts ==
    ASSUME TypeInv, NEW h \in Handles, Freedir(h), fh[handle[h].dir].refcount > 0
    PROVE  LET d == handle[h].dir
           IN /\ TypeInv' /\ row' = row /\ d \in Dirs /\ IsOpen(h)
              /\ handle'[h].dir = "none"
              /\ \A k \in Handles : k # h => handle'[k] = handle[k]
              /\ FhStep(d, fh') /\ fh'[d].refcount = fh[d].refcount - 1
              /\ \/ fh'[d].fsck = "none"
                 \/ fh'[d].fsck = fh[d].fsck /\ fh[d].fsck # h
              /\ \/ fh'[d].dirty = fh[d].dirty /\ cache' = cache
                 \/ InvalDir(d, NoFh)
<1> DEFINE d == handle[h].dir
           x == Unlocked(h)
           y == fh[d].refcount - 1
           left == [fh[d] EXCEPT !.refcount = y, !.fsck = x]
<1>1. /\ IsOpen(h) /\ handle' = [handle EXCEPT ![h] = Closed] /\ row' = row
      /\ IF left.refcount > 0
         THEN fh' = [fh EXCEPT ![d] = left] /\ UNCHANGED cache
         ELSE InvalDir(d, NoFh)
  BY DEF Freedir
<1>2. /\ d \in Dirs /\ fh \in FhsType /\ cache \in CachesType /\ handle \in HandlesType
      /\ row \in RowsType
  BY <1>1, HandleFacts DEF TypeInv
<1>3. /\ handle' \in HandlesType /\ handle'[h].dir = "none"
      /\ \A k \in Handles : k # h => handle'[k] = handle[k]
  BY <1>1, <1>2 DEF HandlesType, Closed
<1>4. /\ fh[d] \in FhType /\ fh[d].refcount \in Nat
      /\ fh[d].fsck \in Handles \cup {"none"}
  BY <1>2, FhFacts
<1>5. /\ x \in Handles \cup {"none"} /\ (x = "none" \/ (x = fh[d].fsck /\ fh[d].fsck # h))
      /\ y \in Nat
  <2>1. x = IF fh[d].fsck = h THEN "none" ELSE fh[d].fsck
    BY DEF Unlocked
  <2>2. x \in Handles \cup {"none"} /\ (x = "none" \/ (x = fh[d].fsck /\ fh[d].fsck # h))
    <3> HIDE DEF x
    <3> QED
      BY <1>4, <2>1
  <2>3. y \in Nat
    BY <1>4
  <2> QED
    BY <2>2, <2>3
<1> HIDE DEF x, y
<1>6. left \in FhType
  BY <1>4, <1>5, Zenon DEF FhType
<1>7. left.refcount = y /\ left.fsck = x /\ left.dirty = fh[d].dirty
  BY <1>4 DEF FhType
<1> HIDE DEF left
<1>8. CASE left.refcount > 0
  <2>1. fh' = [fh EXCEPT ![d] = left] /\ cache' = cache
    BY <1>1, <1>8
  <2>2. fh' \in FhsType /\ fh'[d] = left /\ \A e \in Dirs : e # d => fh'[e] = fh[e]
    BY <1>2, <1>6, <2>1 DEF FhsType
  <2> QED
    BY <1>1, <1>2, <1>3, <1>5, <1>7, <2>1, <2>2 DEF TypeInv, FhStep, y
<1>9. CASE ~(left.refcount > 0)
  <2>1. InvalDir(d, NoFh)
    BY <1>1, <1>9
  <2>2. NoFh \in FhType /\ NoFh.refcount = 0 /\ NoFh.fsck = "none"
    BY NoFhIn
  <2>3. /\ FhStep(d, fh') /\ fh'[d].refcount = 0 /\ fh'[d].fsck = "none"
        /\ cache' \in CachesType
    BY <1>2, <2>1, <2>2, InvalFacts
  <2>4. fh[d].refcount - 1 = 0
    BY <1>4, <1>5, <1>7, <1>9 DEF y
  <2> QED
    BY <1>1, <1>2, <1>3, <2>1, <2>3, <2>4 DEF TypeInv, FhStep
<1> QED
  BY <1>8, <1>9

LEMMA FsckRewindFacts ==
    ASSUME TypeInv, NEW h \in Handles, FsckRewind(h)
    PROVE  LET d == handle[h].dir
           IN /\ TypeInv' /\ UNCHANGED <<row, cache>> /\ d \in Dirs /\ IsOpen(h)
              /\ Moved(h, handle') /\ handle'[h].off = handle[h].off
              /\ handle'[h].overtaken = (handle[h].off > 0)
              /\ FhStep(d, fh') /\ fh'[d].refcount = fh[d].refcount
              /\ fh'[d].dirty = fh[d].dirty /\ fh'[d].fsck = "none"
<1> DEFINE d == handle[h].dir
           b == handle[h].off > 0
<1>1. /\ IsOpen(h) /\ UNCHANGED <<row, cache>>
      /\ handle' = [handle EXCEPT ![h].map = NoMap, ![h].idx = 0,
                                  ![h].overtaken = b]
      /\ fh' = [fh EXCEPT ![d].fsck = "none"]
  BY DEF FsckRewind, HasIoctl
<1>2. /\ handle \in HandlesType /\ handle[h] \in OpenType /\ d \in Dirs
      /\ NoMap \in MapType /\ fh \in FhsType
      /\ 0 \in 0 .. MaxPos + 1 /\ 0 \in 0 .. MaxId
  BY <1>1, HandleFacts, NoMapIn, Bounds DEF TypeInv
<1>3. b \in BOOLEAN
  OBVIOUS
<1> HIDE DEF b
<1>4. handle' \in HandlesType
  BY <1>1, <1>2, <1>3, Zenon DEF HandlesType, OpenType
<1>5. /\ handle'[h].dir = d /\ handle'[h].off = handle[h].off
      /\ \A k \in Handles : k # h => handle'[k] = handle[k]
  BY <1>1, <1>2 DEF HandlesType, OpenType
<1>6. handle'[h].overtaken = b
  BY <1>1, <1>2 DEF HandlesType, OpenType
<1>7. /\ FhStep(d, fh') /\ fh'[d].refcount = fh[d].refcount
      /\ fh'[d].dirty = fh[d].dirty /\ fh'[d].fsck = "none"
  BY <1>1, <1>2, FsckSet
<1>8. TypeInv'
  BY <1>1, <1>4, <1>7 DEF TypeInv, FhStep
<1> QED
  BY <1>1, <1>2, <1>4, <1>5, <1>6, <1>7, <1>8 DEF Moved, b

LEMMA MappedType ==
    ASSUME TypeInv, NEW h \in Handles, IsOpen(h),
           NEW S \in SUBSET {i \in RowsOf(handle[h].dir) : row[i].pos >= handle[h].idx}
    PROVE  Mapped(h, S) \in MapType
<1> DEFINE d == handle[h].dir
           map == handle[h].map
           found == {row[i].name : i \in {j \in S : Valid(j)}}
<1>1. map \in MapType /\ row \in RowsType
  BY HandleFacts DEF TypeInv
<1>2. DOMAIN map \in SUBSET Names /\ \A n \in DOMAIN map : map[n] \in 1 .. MaxId
  BY <1>1, MapFacts
<1>3. S \subseteq RowsOf(d) /\ S \subseteq DOMAIN row
  BY DEF RowsOf
<1>4. found \in SUBSET Names
  <2>1. \A i \in DOMAIN row : row[i].name \in Names \cup {BadName}
    BY <1>1, RowFacts
  <2> QED
    BY <1>3, <2>1 DEF Valid
<1>5. ASSUME NEW n \in DOMAIN map \cup found PROVE Claimant(h, n) \in 1 .. MaxId
  <2>1. CASE n \in DOMAIN map
    BY <1>2, <2>1 DEF Claimant
  <2>2. CASE n \notin DOMAIN map
    <3> DEFINE T == {i \in RowsOf(d) : row[i].name = n /\ row[i].pos >= handle[h].idx}
    <3>1. Claimant(h, n) = First(d, T)
      BY <2>2 DEF Claimant
    <3>2. T # {}
      BY <2>2
    <3>3. T \in SUBSET DOMAIN row
      BY DEF RowsOf
    <3> HIDE DEF T
    <3>4. First(d, T) \in 1 .. MaxId
      BY <1>1, <3>2, <3>3, FirstIn
    <3> QED
      BY <3>1, <3>4
  <2> QED
    BY <2>1, <2>2
<1>6. CASE map = NoMap
  BY <1>6, NoMapIn DEF Mapped
<1>7. CASE map # NoMap
  <2> DEFINE w == [n \in DOMAIN map \cup found |-> Claimant(h, n)]
  <2>1. Mapped(h, S) = w
    BY <1>7 DEF Mapped
  <2> HIDE DEF map, found
  <2>2. w \in [DOMAIN map \cup found -> 1 .. MaxId]
    BY <1>5
  <2>3. DOMAIN map \cup found \in SUBSET Names
    BY <1>2, <1>4
  <2> HIDE DEF w
  <2>4. w \in MapType
    BY <2>2, <2>3, MapIn
  <2> QED
    BY <2>1, <2>4
<1> QED
  BY <1>6, <1>7

LEMMA FsckNextFacts ==
    ASSUME TypeInv, NEW h \in Handles, FsckNext(h)
    PROVE  LET d == handle[h].dir
           IN /\ TypeInv' /\ UNCHANGED <<row, cache>> /\ d \in Dirs /\ IsOpen(h)
              /\ Moved(h, handle') /\ handle'[h].off = handle[h].off
              /\ handle'[h].overtaken = (handle[h].off > 0)
              /\ FhStep(d, fh') /\ fh'[d].refcount = fh[d].refcount
              /\ fh'[d].dirty = fh[d].dirty /\ fh'[d].fsck \in {"none", h}
<1> DEFINE d == handle[h].dir
           b == handle[h].off > 0
           rest == {i \in RowsOf(d) : row[i].pos >= handle[h].idx}
           bad == Faulty(h)
           hit == First(d, bad)
<1>1. /\ IsOpen(h) /\ UNCHANGED <<row, cache>>
      /\ \E m, i :
            /\ handle' = [handle EXCEPT ![h].map = m, ![h].idx = i,
                                        ![h].overtaken = b]
            /\ \/ /\ bad = {} /\ m = Mapped(h, rest)
                  /\ i = IF rest = {} THEN handle[h].idx ELSE EndPos(d)
                  /\ fh' = [fh EXCEPT ![d].fsck = "none"]
               \/ /\ bad # {} /\ i = row[hit].pos + 1
                  /\ m = Mapped(h, {j \in rest : row[j].pos < row[hit].pos})
                  /\ fh' = [fh EXCEPT ![d].fsck = h]
  <2>1. IsOpen(h) /\ UNCHANGED <<row, cache>>
    BY DEF FsckNext, HasIoctl
  <2>2. CASE bad = {}
    <3>1. /\ fh' = [fh EXCEPT ![d].fsck = "none"]
          /\ handle' = [handle EXCEPT ![h].map = Mapped(h, rest),
                ![h].idx = IF rest = {} THEN @ ELSE EndPos(d),
                ![h].overtaken = b]
      BY <2>2 DEF FsckNext
    <3>2. handle[h] \in OpenType /\ handle \in HandlesType
      BY <2>1, HandleFacts DEF TypeInv
    <3>3. handle' = [handle EXCEPT ![h].map = Mapped(h, rest),
                        ![h].idx = IF rest = {} THEN handle[h].idx ELSE EndPos(d),
                        ![h].overtaken = b]
      <4> DEFINE m == Mapped(h, rest)
                 e == EndPos(d)
                 r == rest = {}
      <4>1. handle' = [handle EXCEPT ![h].map = m, ![h].idx = IF r THEN @ ELSE e,
                                     ![h].overtaken = b]
        BY <3>1
      <4> HIDE DEF m, e, r, b
      <4>2. handle' = [handle EXCEPT ![h].map = m, ![h].idx = IF r THEN handle[h].idx ELSE e,
                                     ![h].overtaken = b]
        BY <3>2, <4>1 DEF HandlesType, OpenType
      <4> QED
        BY <4>2 DEF m, e, r
    <3> QED
      BY <2>1, <2>2, <3>1, <3>3
  <2>3. CASE bad # {}
    <3>1. /\ fh' = [fh EXCEPT ![d].fsck = h]
          /\ handle' = [handle EXCEPT
                ![h].map = Mapped(h, {j \in rest : row[j].pos < row[hit].pos}),
                ![h].idx = row[hit].pos + 1, ![h].overtaken = b]
      BY <2>3 DEF FsckNext
    <3> QED
      BY <2>1, <2>3, <3>1
  <2> QED
    BY <2>2, <2>3
<1>2. /\ handle \in HandlesType /\ handle[h] \in OpenType /\ d \in Dirs
      /\ fh \in FhsType /\ row \in RowsType /\ handle[h].idx \in 0 .. MaxPos + 1
  BY <1>1, HandleFacts DEF TypeInv
<1>3. b \in BOOLEAN
  OBVIOUS
<1>4. PICK m, i :
            /\ handle' = [handle EXCEPT ![h].map = m, ![h].idx = i,
                                        ![h].overtaken = b]
            /\ \/ /\ bad = {} /\ m = Mapped(h, rest)
                  /\ i = IF rest = {} THEN handle[h].idx ELSE EndPos(d)
                  /\ fh' = [fh EXCEPT ![d].fsck = "none"]
               \/ /\ bad # {} /\ i = row[hit].pos + 1
                  /\ m = Mapped(h, {j \in rest : row[j].pos < row[hit].pos})
                  /\ fh' = [fh EXCEPT ![d].fsck = h]
  BY <1>1, Zenon
<1>5. /\ m \in MapType /\ i \in 0 .. MaxPos + 1
      /\ \E x \in {"none", h} : fh' = [fh EXCEPT ![d].fsck = x]
  <2>1. \A S \in SUBSET rest : Mapped(h, S) \in MapType
    BY <1>1, MappedType
  <2>2. CASE bad = {}
    <3>1. EndPos(d) \in 0 .. MaxPos + 1
      BY <1>2, EndPosType
    <3>2. m = Mapped(h, rest) /\ fh' = [fh EXCEPT ![d].fsck = "none"]
          /\ i = IF rest = {} THEN handle[h].idx ELSE EndPos(d)
      BY <1>4, <2>2
    <3> HIDE DEF rest
    <3> QED
      BY <1>2, <2>1, <3>1, <3>2, Bounds
  <2>3. CASE bad # {}
    <3>1. bad \in SUBSET DOMAIN row
      BY DEF Faulty, RowsOf
    <3> HIDE DEF bad
    <3>2. hit \in DOMAIN row /\ hit \in 1 .. MaxId
      BY <1>2, <2>3, <3>1, FirstIn
    <3> HIDE DEF hit
    <3>3. row[hit].pos \in 0 .. MaxPos
      BY <1>2, <3>2, RowFacts
    <3> DEFINE S == {j \in rest : row[j].pos < row[hit].pos}
    <3>4. S \in SUBSET rest
      OBVIOUS
    <3>5. m = Mapped(h, S) /\ fh' = [fh EXCEPT ![d].fsck = h]
          /\ i = row[hit].pos + 1
      BY <1>4, <2>3
    <3> HIDE DEF S, rest
    <3>6. m \in MapType
      BY <2>1, <3>4, <3>5
    <3>7. i \in 0 .. MaxPos + 1
      BY <3>2, <3>3, <3>5, Bounds
    <3> QED
      BY <3>5, <3>6, <3>7
  <2> QED
    BY <2>2, <2>3
<1>6. handle' = [handle EXCEPT ![h].map = m, ![h].idx = i, ![h].overtaken = b]
  BY <1>4
<1> HIDE DEF b, bad, rest, hit
<1>7. handle' \in HandlesType
  BY <1>2, <1>3, <1>5, <1>6, Zenon DEF HandlesType, OpenType
<1>8. /\ handle'[h].dir = d /\ handle'[h].off = handle[h].off
      /\ \A k \in Handles : k # h => handle'[k] = handle[k]
  BY <1>2, <1>6 DEF HandlesType, OpenType
<1>9. handle'[h].overtaken = b
  BY <1>2, <1>6 DEF HandlesType, OpenType
<1>10. /\ FhStep(d, fh') /\ fh'[d].refcount = fh[d].refcount
       /\ fh'[d].dirty = fh[d].dirty /\ fh'[d].fsck \in {"none", h}
  <2>1. PICK x \in {"none", h} : fh' = [fh EXCEPT ![d].fsck = x]
    BY <1>5, Zenon
  <2>2. x \in Handles \cup {"none"}
    BY Zenon
  <2> QED
    BY <1>2, <2>1, <2>2, FsckSet
<1>11. TypeInv'
  BY <1>1, <1>7, <1>10 DEF TypeInv, FhStep
<1> QED
  BY <1>1, <1>2, <1>7, <1>8, <1>9, <1>10, <1>11 DEF Moved, b

\* The cookies after a change of directory d.
Overtook(d, g) ==
    /\ g \in HandlesType
    /\ \A k \in Handles : /\ g[k].dir = handle[k].dir
                          /\ handle[k].dir # d => g[k] = handle[k]
                          /\ handle[k].dir = d =>
                                /\ g[k].off = handle[k].off
                                /\ g[k].overtaken = (handle[k].off > 0)

LEMMA FsckApplyFacts ==
    ASSUME TypeInv, NEW h \in Handles, NEW i \in 1 .. MaxId, NEW n \in Names,
           FsckApply(h, i, n)
    PROVE  LET d == handle[h].dir
           IN /\ TypeInv' /\ cache' = cache /\ d \in Dirs /\ IsOpen(h) /\ d # "tag"
              /\ i \in RowsOf(d) /\ row' = [row EXCEPT ![i].name = n]
              /\ Overtook(d, handle')
              /\ FhStep(d, fh') /\ fh'[d].refcount = fh[d].refcount
              /\ fh'[d].dirty = TRUE /\ fh'[d].fsck = fh[d].fsck
<1> DEFINE d == handle[h].dir
           o == Overtaken(d)
           w == [k \in DOMAIN o[h].map \cup {n} |-> IF k = n THEN i ELSE o[h].map[k]]
<1>1. /\ IsOpen(h) /\ d # "tag" /\ i \in RowsOf(d) /\ cache' = cache
      /\ row' = [row EXCEPT ![i].name = n] /\ fh' = Marked(d)
      /\ handle' = [o EXCEPT ![h].map = w]
  BY DEF FsckApply, HasIoctl
<1>2. /\ handle \in HandlesType /\ handle[h] \in OpenType /\ d \in Dirs
      /\ row \in RowsType /\ fh \in FhsType /\ cache \in CachesType
      /\ handle[h].map \in MapType /\ 0 \in 0 .. MaxId
  BY <1>1, HandleFacts, Bounds DEF TypeInv
<1>3. Overtook(d, o) /\ o[h].map = handle[h].map
  BY <1>2, OvertakenFacts DEF Overtook
<1>4. i \in DOMAIN row /\ i \in 1 .. MaxId
  BY <1>1, <1>2, RowFacts DEF RowsOf
<1> HIDE DEF o
<1>5. w \in MapType
  <2>1. /\ DOMAIN o[h].map \in SUBSET Names
        /\ \A m \in DOMAIN o[h].map : o[h].map[m] \in 1 .. MaxId
    BY <1>2, <1>3, MapFacts
  <2>2. w \in [DOMAIN o[h].map \cup {n} -> 1 .. MaxId]
    BY <1>4, <2>1
  <2> HIDE DEF w
  <2> QED
    BY <2>1, <2>2, MapIn
<1> HIDE DEF w
<1>6. o \in HandlesType /\ o[h].dir = d
  BY <1>3 DEF Overtook
<1>7. o[h] \in OpenType
  <2>1. o[h] \in {Closed} \cup OpenType
    BY <1>6 DEF HandlesType
  <2> QED
    BY <1>2, <1>6, <2>1, ClosedFacts
<1>8. handle' \in HandlesType
  BY <1>1, <1>2, <1>5, <1>6, <1>7, Zenon DEF HandlesType, OpenType
<1>9. /\ handle'[h].dir = d /\ handle'[h].off = o[h].off
      /\ \A k \in Handles : k # h => handle'[k] = o[k]
  BY <1>1, <1>6, <1>7 DEF HandlesType, OpenType
<1>10. handle'[h].overtaken = o[h].overtaken
  BY <1>1, <1>6, <1>7 DEF HandlesType, OpenType
<1>11. Overtook(d, handle')
  BY <1>3, <1>8, <1>9, <1>10 DEF Overtook
<1>12. row' \in RowsType
  <2> DEFINE S == DOMAIN row
  <2>1. S \in SUBSET (1 .. MaxId) /\ row \in [S -> RowType] /\ i \in S
    BY <1>2, <1>4, RowFacts
  <2>2. row' = [row EXCEPT ![i].name = n] /\ n \in Names \cup {BadName}
    BY <1>1
  <2> HIDE DEF S
  <2>3. row' \in [S -> RowType]
    BY <2>1, <2>2, Zenon DEF RowType
  <2> QED
    BY <2>1, <2>3, RowsIn
<1>13. /\ FhStep(d, fh') /\ fh'[d].refcount = fh[d].refcount
       /\ fh'[d].dirty = TRUE /\ fh'[d].fsck = fh[d].fsck
  BY <1>1, <1>2, MarkedFacts
<1>14. TypeInv'
  BY <1>1, <1>2, <1>8, <1>12, <1>13 DEF TypeInv, FhStep
<1> QED
  BY <1>1, <1>2, <1>11, <1>13, <1>14

LEMMA FsckApplyAgainFacts ==
    ASSUME TypeInv, NEW h \in Handles, NEW i \in 1 .. MaxId, FsckApplyAgain(h, i)
    PROVE  LET d == handle[h].dir
           IN /\ TypeInv' /\ UNCHANGED <<row, cache>> /\ d \in Dirs /\ IsOpen(h)
              /\ Moved(h, handle') /\ handle'[h].off = handle[h].off
              /\ handle'[h].overtaken = handle[h].overtaken
              /\ handle'[h].map = handle[h].map
              /\ FhStep(d, fh') /\ fh'[d].refcount = fh[d].refcount
              /\ fh'[d].dirty = TRUE /\ fh'[d].fsck = fh[d].fsck
<1> DEFINE d == handle[h].dir
<1>1. /\ IsOpen(h) /\ UNCHANGED <<row, cache>> /\ fh' = Marked(d)
      /\ handle' = handle
  BY DEF FsckApplyAgain, HasIoctl
<1>2. /\ handle \in HandlesType /\ handle[h] \in OpenType /\ d \in Dirs
      /\ row \in RowsType /\ fh \in FhsType /\ cache \in CachesType
      /\ 0 \in 0 .. MaxId
  BY <1>1, HandleFacts, Bounds DEF TypeInv
<1>3. handle' \in HandlesType
  BY <1>1, <1>2, Zenon DEF HandlesType, OpenType
<1>4. /\ handle'[h].dir = d /\ handle'[h].off = handle[h].off
      /\ handle'[h].map = handle[h].map
      /\ \A k \in Handles : k # h => handle'[k] = handle[k]
  BY <1>1, <1>2 DEF HandlesType, OpenType
<1>5. handle'[h].overtaken = handle[h].overtaken
  BY <1>1, <1>2 DEF HandlesType, OpenType
<1>6. /\ FhStep(d, fh') /\ fh'[d].refcount = fh[d].refcount
      /\ fh'[d].dirty = TRUE /\ fh'[d].fsck = fh[d].fsck
  BY <1>1, <1>2, MarkedFacts
<1>7. TypeInv'
  BY <1>1, <1>2, <1>3, <1>6 DEF TypeInv, FhStep
<1> QED
  BY <1>1, <1>2, <1>3, <1>4, <1>5, <1>6, <1>7 DEF Moved

\* mozbm_lookup() answers with a row of the folder.
LEMMA LookupFacts ==
    ASSUME row \in RowsType, NEW d, NEW n, Lookup(d, n) # 0
    PROVE  /\ Lookup(d, n) \in RowsOf(d) /\ Lookup(d, n) \in DOMAIN row
           /\ row[Lookup(d, n)].name = n
<1> DEFINE found == {i \in RowsOf(d) : row[i].name = n}
<1>1. found # {} /\ Lookup(d, n) = First(d, found)
  BY DEF Lookup
<1>2. found \in SUBSET DOMAIN row
  BY DEF RowsOf
<1>3. First(d, found) \in found
  <2> HIDE DEF found
  <2> QED
    BY <1>1, <1>2, FirstIn
<1> QED
  BY <1>1, <1>2, <1>3

\* Two rows have changed places.
Swapped(i, j) == row' = [row EXCEPT ![i].pos = row[j].pos, ![j].pos = row[i].pos]

LEMMA PermdFacts ==
    ASSUME TypeInv, NEW h \in Handles, NEW m \in Names, NEW n \in Names, Permd(h, m, n)
    PROVE  LET d == handle[h].dir
               i == Lookup(d, m)
               j == Lookup(d, n)
           IN /\ TypeInv' /\ cache' = cache /\ d \in Dirs /\ IsOpen(h) /\ d # "tag"
              /\ i \in RowsOf(d) /\ j \in RowsOf(d) /\ i # j
              /\ Swapped(i, j)
              /\ Overtook(d, handle')
              /\ FhStep(d, fh') /\ fh'[d].refcount = fh[d].refcount
              /\ fh'[d].dirty = TRUE /\ fh'[d].fsck = fh[d].fsck
<1> DEFINE d == handle[h].dir
           i == Lookup(d, m)
           j == Lookup(d, n)
<1>1. /\ IsOpen(h) /\ d # "tag" /\ m # n /\ i # 0 /\ j # 0 /\ cache' = cache
      /\ row' = [row EXCEPT ![i].pos = row[j].pos, ![j].pos = row[i].pos]
      /\ fh' = Marked(d) /\ handle' = Overtaken(d)
  BY DEF Permd, HasIoctl
<1>2. /\ handle \in HandlesType /\ handle[h] \in OpenType /\ d \in Dirs
      /\ row \in RowsType /\ fh \in FhsType /\ cache \in CachesType
  BY <1>1, HandleFacts DEF TypeInv
<1>3. /\ i \in RowsOf(d) /\ j \in RowsOf(d) /\ i \in DOMAIN row /\ j \in DOMAIN row
      /\ i # j
  <2>1. /\ i \in RowsOf(d) /\ i \in DOMAIN row /\ row[i].name = m
    BY <1>1, <1>2, LookupFacts
  <2>2. /\ j \in RowsOf(d) /\ j \in DOMAIN row /\ row[j].name = n
    BY <1>1, <1>2, LookupFacts
  <2> QED
    BY <1>1, <2>1, <2>2
<1> HIDE DEF i, j
<1>4. row' \in RowsType
  <2> DEFINE S == DOMAIN row
             p == row[i].pos
             q == row[j].pos
  <2>1. /\ S \in SUBSET (1 .. MaxId) /\ row \in [S -> RowType] /\ i \in S /\ j \in S
        /\ p \in 0 .. MaxPos /\ q \in 0 .. MaxPos
    BY <1>2, <1>3, RowFacts
  <2>2. row' = [row EXCEPT ![i].pos = q, ![j].pos = p]
    BY <1>1
  <2> HIDE DEF S, p, q
  <2>3. row' \in [S -> RowType]
    BY <2>1, <2>2, Zenon DEF RowType
  <2> QED
    BY <2>1, <2>3, RowsIn
<1>5. Overtook(d, handle')
  BY <1>1, <1>2, OvertakenFacts DEF Overtook
<1>6. /\ FhStep(d, fh') /\ fh'[d].refcount = fh[d].refcount
      /\ fh'[d].dirty = TRUE /\ fh'[d].fsck = fh[d].fsck
  BY <1>1, <1>2, MarkedFacts
<1>7. TypeInv'
  BY <1>1, <1>2, <1>4, <1>5, <1>6 DEF TypeInv, FhStep, Overtook
<1> QED
  BY <1>1, <1>2, <1>3, <1>5, <1>6, <1>7 DEF i, j, Swapped

\* A request by name in a directory that exists.
LEMMA ByNameFacts ==
    ASSUME TypeInv, NEW d \in Dirs, NEW r \in RowsType, ByName(d, r)
    PROVE  /\ TypeInv' /\ row' = r /\ fh' = fh /\ Overtook(d, handle')
           /\ cache'[d] = Empty /\ \A e \in Dirs : e # d => cache'[e] = cache[e]
<1>1. /\ row' = r /\ handle' = Overtaken(d) /\ fh' = fh
      /\ cache' = [e \in Dirs |-> IF e = d THEN Empty ELSE cache[e]]
  BY DEF ByName
<1>2. handle \in HandlesType /\ cache \in CachesType
  BY DEF TypeInv
<1>3. Overtook(d, handle')
  BY <1>1, <1>2, OvertakenFacts DEF Overtook
<1>4. cache' \in CachesType
  BY <1>1, <1>2, EmptyIn DEF CachesType
<1> QED
  BY <1>1, <1>3, <1>4 DEF TypeInv, Overtook

LEMMA CreateFacts ==
    ASSUME TypeInv, NEW n \in Names, Create(n)
    PROVE  LET i == NextId
           IN /\ TypeInv' /\ fh' = fh /\ Overtook("folder", handle')
              /\ cache'["folder"] = Empty
              /\ \A e \in Dirs : e # "folder" => cache'[e] = cache[e]
              /\ i \notin DOMAIN row /\ DOMAIN row' = DOMAIN row \cup {i}
              /\ row'[i] = [dir |-> "folder", pos |-> EndPos("folder"), name |-> n]
              /\ \A j \in DOMAIN row : row'[j] = row[j]
<1> DEFINE i == NextId
           e == [dir |-> "folder", pos |-> EndPos("folder"), name |-> n]
           r == [j \in DOMAIN row \cup {i} |-> IF j = i THEN e ELSE row[j]]
<1>1. i <= MaxId /\ EndPos("folder") <= MaxPos /\ ByName("folder", r)
  BY DEF Create
<1>2. row \in RowsType /\ "folder" \in Dirs
  BY DirAssumption DEF TypeInv
<1>3. i \in 1 .. MaxId /\ i \notin DOMAIN row
  BY <1>1, <1>2, NextIdType, Bounds
<1>4. EndPos("folder") \in 0 .. MaxPos
  BY <1>1, <1>2, EndPosType, Bounds
<1>5. e \in RowType
  BY <1>4 DEF RowType
<1> HIDE DEF i
<1>6. r \in RowsType
  <2> DEFINE S == DOMAIN row \cup {i}
  <2>1. S \in SUBSET (1 .. MaxId) /\ \A j \in DOMAIN row : row[j] \in RowType
    BY <1>2, <1>3, RowFacts
  <2>2. r \in [S -> RowType]
    <3> HIDE DEF e
    <3> QED
      BY <1>5, <2>1
  <2> HIDE DEF S, r
  <2> QED
    BY <2>1, <2>2, RowsIn
<1>7. /\ DOMAIN r = DOMAIN row \cup {i} /\ r[i] = e
      /\ \A j \in DOMAIN row : r[j] = row[j]
  BY <1>3
<1> HIDE DEF r
<1>8. /\ TypeInv' /\ row' = r /\ fh' = fh /\ Overtook("folder", handle')
      /\ cache'["folder"] = Empty /\ \A d \in Dirs : d # "folder" => cache'[d] = cache[d]
  BY <1>1, <1>2, <1>6, ByNameFacts
<1> QED
  BY <1>3, <1>7, <1>8 DEF i

LEMMA DeleteFacts ==
    ASSUME TypeInv, NEW n \in Names, Delete(n)
    PROVE  LET i == Lookup("folder", n)
           IN /\ TypeInv' /\ fh' = fh /\ Overtook("folder", handle')
              /\ cache'["folder"] = Empty
              /\ \A e \in Dirs : e # "folder" => cache'[e] = cache[e]
              /\ i \in RowsOf("folder") /\ DOMAIN row' = DOMAIN row \ {i}
              /\ \A j \in DOMAIN row' : row'[j] = row[j]
<1> DEFINE i == Lookup("folder", n)
           r == Restrict(row, DOMAIN row \ {i})
<1>1. i # 0 /\ ByName("folder", r)
  BY DEF Delete
<1>2. row \in RowsType /\ "folder" \in Dirs
  BY DirAssumption DEF TypeInv
<1>3. i \in RowsOf("folder")
  BY <1>1, <1>2, LookupFacts
<1> HIDE DEF i
<1>4. r = [j \in DOMAIN row \ {i} |-> row[j]]
  BY DEF Restrict
<1>5. DOMAIN r = DOMAIN row \ {i} /\ \A j \in DOMAIN row \ {i} : r[j] = row[j]
  BY <1>4
<1>6. r \in RowsType
  <2> DEFINE S == DOMAIN row \ {i}
  <2>1. S \in SUBSET (1 .. MaxId) /\ \A j \in S : row[j] \in RowType
    BY <1>2, RowFacts
  <2>2. r \in [S -> RowType]
    BY <1>4, <2>1
  <2> HIDE DEF S, r
  <2> QED
    BY <2>1, <2>2, RowsIn
<1> HIDE DEF r
<1>7. /\ TypeInv' /\ row' = r /\ fh' = fh /\ Overtook("folder", handle')
      /\ cache'["folder"] = Empty /\ \A d \in Dirs : d # "folder" => cache'[d] = cache[d]
  BY <1>1, <1>2, <1>6, ByNameFacts
<1> QED
  BY <1>3, <1>5, <1>7 DEF i

LEMMA RenameFacts ==
    ASSUME TypeInv, NEW m \in Names, NEW n \in Names, Rename(m, n)
    PROVE  LET i == Lookup("folder", m)
           IN /\ TypeInv' /\ fh' = fh /\ Overtook("folder", handle')
              /\ cache'["folder"] = Empty
              /\ \A e \in Dirs : e # "folder" => cache'[e] = cache[e]
              /\ i \in RowsOf("folder")
              /\ row' = [row EXCEPT ![i].name = n, ![i].pos = EndPos("folder")]
<1> DEFINE i == Lookup("folder", m)
           p == EndPos("folder")
           r == [row EXCEPT ![i].name = n, ![i].pos = p]
<1>1. i # 0 /\ p <= MaxPos /\ ByName("folder", r)
  BY DEF Rename
<1>2. row \in RowsType /\ "folder" \in Dirs
  BY DirAssumption DEF TypeInv
<1>3. i \in RowsOf("folder") /\ i \in DOMAIN row
  BY <1>1, <1>2, LookupFacts
<1>4. p \in 0 .. MaxPos
  BY <1>1, <1>2, EndPosType, Bounds
<1> HIDE DEF i, p
<1>5. r \in RowsType
  <2> DEFINE S == DOMAIN row
  <2>1. S \in SUBSET (1 .. MaxId) /\ row \in [S -> RowType] /\ i \in S
    BY <1>2, <1>3, RowFacts
  <2>2. n \in Names \cup {BadName}
    OBVIOUS
  <2> HIDE DEF S
  <2>3. r \in [S -> RowType]
    BY <1>4, <2>1, <2>2, Zenon DEF RowType
  <2> HIDE DEF r
  <2> QED
    BY <2>1, <2>3, RowsIn
<1>6. r = [row EXCEPT ![i].name = n, ![i].pos = p]
  OBVIOUS
<1> HIDE DEF r
<1>7. /\ TypeInv' /\ row' = r /\ fh' = fh /\ Overtook("folder", handle')
      /\ cache'["folder"] = Empty /\ \A d \in Dirs : d # "folder" => cache'[d] = cache[d]
  BY <1>1, <1>2, <1>5, ByNameFacts
<1> QED
  BY <1>3, <1>6, <1>7 DEF i, p
-----------------------------------------------------------------------------
(***************************************************************************)
(* Whose the fsck state is.  Nothing but opendir() and close() changes who *)
(* has a directory open, and nothing but FSCK_NEXT sets the owner.         *)
(***************************************************************************)
\* What the handle of directory d may have become, the open descriptions being
\* the same.
OwnedStep(d) ==
    /\ FhStep(d, fh') /\ fh'[d].refcount = fh[d].refcount
    /\ fh'[d].fsck \in {"none", fh[d].fsck} \cup OpenIn(d)

LEMMA SameDirs ==
    ASSUME StateHasOwner, NEW d \in Dirs, OwnedStep(d),
           \A k \in Handles : handle'[k].dir = handle[k].dir
    PROVE  StateHasOwner'
<1>1. \A e \in Dirs : OpenIn(e)' = OpenIn(e)
  BY DEF OpenIn
<1>2. ASSUME NEW e \in Dirs
      PROVE  /\ fh'[e].refcount = Cardinality(OpenIn(e))
             /\ fh'[e].fsck # "none" => fh'[e].fsck \in OpenIn(e)
  <2>1. CASE e = d
    BY <2>1 DEF StateHasOwner, OwnedStep
  <2>2. CASE e # d
    BY <2>2 DEF StateHasOwner, OwnedStep, FhStep
  <2> QED
    BY <2>1, <2>2
<1> QED
  BY <1>1, <1>2 DEF StateHasOwner

LEMMA SameFh ==
    ASSUME StateHasOwner, fh' = fh,
           \A k \in Handles : handle'[k].dir = handle[k].dir
    PROVE  StateHasOwner'
<1>1. \A e \in Dirs : OpenIn(e)' = OpenIn(e)
  BY DEF OpenIn
<1> QED
  BY <1>1 DEF StateHasOwner

LEMMA OpenFinite ==
    ASSUME NEW d
    PROVE  /\ IsFiniteSet(OpenIn(d)) /\ Cardinality(OpenIn(d)) \in Nat
           /\ Cardinality(OpenIn(d)) <= Cardinality(Handles)
           /\ IsFiniteSet(Handles) /\ Cardinality(Handles) \in Nat
<1>1. OpenIn(d) \in SUBSET Handles /\ IsFiniteSet(Handles)
  BY HandleAssumption DEF OpenIn
<1> QED
  BY <1>1, FS_Subset, FS_CardinalityType

OwnerInv == TypeInv /\ StateHasOwner

LEMMA OpendirOwner ==
    ASSUME OwnerInv, NEW h \in Handles, NEW d \in Dirs, Opendir(h, d)
    PROVE  StateHasOwner'
<1>1. /\ handle[h].dir = "none" /\ handle'[h].dir = d
      /\ \A k \in Handles : k # h => handle'[k] = handle[k]
      /\ FhStep(d, fh')
      /\ fh'[d].refcount = fh[d].refcount + 1 /\ fh'[d].fsck = fh[d].fsck
  BY OpendirFacts DEF OwnerInv
<1>2. "none" \notin Dirs
  BY DirAssumption
<1>3. h \notin OpenIn(d) /\ OpenIn(d)' = OpenIn(d) \cup {h}
  BY <1>1, <1>2 DEF OpenIn
<1>4. \A e \in Dirs : e # d => OpenIn(e)' = OpenIn(e)
  BY <1>1, <1>2 DEF OpenIn
<1>5. Cardinality(OpenIn(d) \cup {h}) = Cardinality(OpenIn(d)) + 1
  BY <1>3, OpenFinite, FS_AddElement
<1>6. ASSUME NEW e \in Dirs
      PROVE  /\ fh'[e].refcount = Cardinality(OpenIn(e)')
             /\ fh'[e].fsck # "none" => fh'[e].fsck \in OpenIn(e)'
  <2>1. CASE e = d
    BY <1>1, <1>3, <1>5, <2>1 DEF OwnerInv, StateHasOwner
  <2>2. CASE e # d
    BY <1>1, <1>4, <2>2 DEF OwnerInv, StateHasOwner, FhStep
  <2> QED
    BY <2>1, <2>2
<1> QED
  BY <1>6 DEF StateHasOwner

\* The last one out puts the handle away, and a description takes its own fsck
\* state with it.
LEMMA OwnedCount ==
    ASSUME OwnerInv, NEW h \in Handles, IsOpen(h)
    PROVE  fh[handle[h].dir].refcount > 0 /\ handle[h].dir \in Dirs
<1> DEFINE d == handle[h].dir
<1>1. d \in Dirs
  BY HandleFacts DEF OwnerInv, TypeInv
<1>2. h \in OpenIn(d)
  BY DEF OpenIn
<1>3. Cardinality(OpenIn(d)) # 0
  BY <1>2, OpenFinite, FS_EmptySet
<1> QED
  BY <1>1, <1>3, OpenFinite DEF OwnerInv, StateHasOwner

LEMMA FreedirOwner ==
    ASSUME OwnerInv, NEW h \in Handles, Freedir(h)
    PROVE  StateHasOwner'
<1>d. PICK d \in Dirs : d = handle[h].dir
  BY OwnedCount DEF Freedir
<1>0. fh[handle[h].dir].refcount > 0
  BY OwnedCount DEF Freedir
<1>1. /\ handle'[h].dir = "none"
      /\ \A k \in Handles : k # h => handle'[k] = handle[k]
      /\ FhStep(d, fh') /\ fh'[d].refcount = fh[d].refcount - 1
      /\ \/ fh'[d].fsck = "none"
         \/ fh'[d].fsck = fh[d].fsck /\ fh[d].fsck # h
  BY <1>0, <1>d, FreedirFacts DEF OwnerInv
<1>2. "none" \notin Dirs
  BY DirAssumption
<1>3. h \in OpenIn(d) /\ OpenIn(d)' = OpenIn(d) \ {h}
  BY <1>d, <1>1, <1>2 DEF OpenIn
<1>4. \A e \in Dirs : e # d => OpenIn(e)' = OpenIn(e)
  BY <1>d, <1>1, <1>2 DEF OpenIn
<1>5. Cardinality(OpenIn(d) \ {h}) = Cardinality(OpenIn(d)) - 1
  BY <1>3, OpenFinite, FS_RemoveElement
<1>6. ASSUME NEW e \in Dirs
      PROVE  /\ fh'[e].refcount = Cardinality(OpenIn(e)')
             /\ fh'[e].fsck # "none" => fh'[e].fsck \in OpenIn(e)'
  <2>1. CASE e = d
    BY <1>1, <1>3, <1>5, <2>1 DEF OwnerInv, StateHasOwner
  <2>2. CASE e # d
    BY <1>1, <1>4, <2>2 DEF OwnerInv, StateHasOwner, FhStep
  <2> QED
    BY <2>1, <2>2
<1> QED
  BY <1>6 DEF StateHasOwner

LEMMA OwnerInit == Init => OwnerInv
<1> SUFFICES ASSUME Init PROVE OwnerInv
  OBVIOUS
<1>1. TypeInv
  BY TypeInit
<1>2. handle = [h \in Handles |-> Closed] /\ fh = [d \in Dirs |-> NoFh]
  BY DEF Init
<1>3. \A d \in Dirs : OpenIn(d) = {}
  BY <1>2, DirAssumption DEF OpenIn, Closed
<1>4. StateHasOwner
  BY <1>2, <1>3, NoFhIn, FS_EmptySet DEF StateHasOwner
<1> QED
  BY <1>1, <1>4 DEF OwnerInv

LEMMA OwnerNext == OwnerInv /\ [Next]_vars => OwnerInv'
<1> SUFFICES ASSUME OwnerInv, [Next]_vars PROVE OwnerInv'
  OBVIOUS
<1>0. TypeInv /\ StateHasOwner
  BY DEF OwnerInv
<1>1. ASSUME NEW h \in Handles, NEW d \in Dirs, Opendir(h, d) PROVE OwnerInv'
  BY <1>0, <1>1, OpendirFacts, OpendirOwner DEF OwnerInv
<1>2. ASSUME NEW h \in Handles, Readdir(h) PROVE OwnerInv'
  <2>1. TypeInv' /\ fh' = fh /\ Moved(h, handle')
    BY <1>0, <1>2, ReaddirFacts
  <2> QED
    BY <1>0, <2>1, SameFh DEF OwnerInv, Moved
<1>3. ASSUME NEW h \in Handles, NEW error \in BOOLEAN, ReaddirEnd(h, error) PROVE OwnerInv'
  <2>1. TypeInv' /\ fh' = fh /\ Moved(h, handle')
    BY <1>0, <1>3, ReaddirEndFacts
  <2> QED
    BY <1>0, <2>1, SameFh DEF OwnerInv, Moved
<1>4. ASSUME NEW h \in Handles, Rewinddir(h) PROVE OwnerInv'
  <2>1. TypeInv' /\ fh' = fh /\ Moved(h, handle')
    BY <1>0, <1>4, RewinddirFacts
  <2> QED
    BY <1>0, <2>1, SameFh DEF OwnerInv, Moved
<1>5. ASSUME NEW h \in Handles, Fsyncdir(h) PROVE OwnerInv'
  <2> DEFINE d == handle[h].dir
  <2>1. /\ TypeInv' /\ handle' = handle /\ d \in Dirs
        /\ InvalDir(d, fh[d]) /\ fh[d] \in FhType
    BY <1>0, <1>5, FsyncdirFacts
  <2>2. OwnedStep(d)
    BY <1>0, <2>1, InvalFacts DEF TypeInv, OwnedStep
  <2> QED
    BY <1>0, <2>1, <2>2, SameDirs DEF OwnerInv
<1>6. ASSUME NEW h \in Handles, Freedir(h) PROVE OwnerInv'
  <2>1. fh[handle[h].dir].refcount > 0
    BY <1>6, OwnedCount DEF Freedir
  <2> QED
    BY <1>0, <1>6, <2>1, FreedirFacts, FreedirOwner DEF OwnerInv
<1>7. ASSUME NEW h \in Handles, FsckRewind(h) PROVE OwnerInv'
  <2> DEFINE d == handle[h].dir
  <2>1. /\ TypeInv' /\ d \in Dirs /\ Moved(h, handle') /\ FhStep(d, fh')
        /\ fh'[d].refcount = fh[d].refcount /\ fh'[d].fsck = "none"
    BY <1>0, <1>7, FsckRewindFacts
  <2>2. OwnedStep(d)
    BY <2>1 DEF OwnedStep
  <2> QED
    BY <1>0, <2>1, <2>2, SameDirs DEF OwnerInv, Moved
<1>8. ASSUME NEW h \in Handles, FsckNext(h) PROVE OwnerInv'
  <2> DEFINE d == handle[h].dir
  <2>1. /\ TypeInv' /\ d \in Dirs /\ Moved(h, handle') /\ FhStep(d, fh')
        /\ fh'[d].refcount = fh[d].refcount /\ fh'[d].fsck \in {"none", h}
    BY <1>0, <1>8, FsckNextFacts
  <2>2. h \in OpenIn(d)
    BY DEF OpenIn
  <2>3. OwnedStep(d)
    BY <2>1, <2>2 DEF OwnedStep
  <2> QED
    BY <1>0, <2>1, <2>3, SameDirs DEF OwnerInv, Moved
<1>9. ASSUME NEW h \in Handles, NEW i \in 1 .. MaxId, NEW n \in Names, FsckApply(h, i, n)
      PROVE  OwnerInv'
  <2> DEFINE d == handle[h].dir
  <2>1. /\ TypeInv' /\ d \in Dirs /\ Overtook(d, handle') /\ FhStep(d, fh')
        /\ fh'[d].refcount = fh[d].refcount /\ fh'[d].fsck = fh[d].fsck
    BY <1>0, <1>9, FsckApplyFacts
  <2>2. OwnedStep(d)
    BY <2>1 DEF OwnedStep
  <2> QED
    BY <1>0, <2>1, <2>2, SameDirs DEF OwnerInv, Overtook
<1>10. ASSUME NEW h \in Handles, NEW i \in 1 .. MaxId, FsckApplyAgain(h, i)
       PROVE  OwnerInv'
  <2> DEFINE d == handle[h].dir
  <2>1. /\ TypeInv' /\ d \in Dirs /\ Moved(h, handle') /\ FhStep(d, fh')
        /\ fh'[d].refcount = fh[d].refcount /\ fh'[d].fsck = fh[d].fsck
    BY <1>0, <1>10, FsckApplyAgainFacts
  <2>2. OwnedStep(d)
    BY <2>1 DEF OwnedStep
  <2> QED
    BY <1>0, <2>1, <2>2, SameDirs DEF OwnerInv, Moved
<1>11. ASSUME NEW h \in Handles, NEW m \in Names, NEW n \in Names, Permd(h, m, n)
       PROVE  OwnerInv'
  <2> DEFINE d == handle[h].dir
  <2>1. /\ TypeInv' /\ d \in Dirs /\ Overtook(d, handle') /\ FhStep(d, fh')
        /\ fh'[d].refcount = fh[d].refcount /\ fh'[d].fsck = fh[d].fsck
    BY <1>0, <1>11, PermdFacts
  <2>2. OwnedStep(d)
    BY <2>1 DEF OwnedStep
  <2> QED
    BY <1>0, <2>1, <2>2, SameDirs DEF OwnerInv, Overtook
<1>12. ASSUME NEW n \in Names, Create(n) PROVE OwnerInv'
  <2>1. TypeInv' /\ fh' = fh /\ Overtook("folder", handle')
    BY <1>0, <1>12, CreateFacts
  <2> QED
    BY <1>0, <2>1, SameFh DEF OwnerInv, Overtook
<1>13. ASSUME NEW n \in Names, Delete(n) PROVE OwnerInv'
  <2>1. TypeInv' /\ fh' = fh /\ Overtook("folder", handle')
    BY <1>0, <1>13, DeleteFacts
  <2> QED
    BY <1>0, <2>1, SameFh DEF OwnerInv, Overtook
<1>14. ASSUME NEW m \in Names, NEW n \in Names, Rename(m, n) PROVE OwnerInv'
  <2>1. TypeInv' /\ fh' = fh /\ Overtook("folder", handle')
    BY <1>0, <1>14, RenameFacts
  <2> QED
    BY <1>0, <2>1, SameFh DEF OwnerInv, Overtook
<1>15. ASSUME UNCHANGED vars PROVE OwnerInv'
  BY <1>15 DEF vars, OwnerInv, TypeInv, StateHasOwner, OpenIn
<1> QED
  BY <1>1, <1>2, <1>3, <1>4, <1>5, <1>6, <1>7, <1>8, <1>9, <1>10, <1>11, <1>12,
     <1>13, <1>14, <1>15 DEF Next

LEMMA OwnerAlways == Spec => []OwnerInv
BY OwnerInit, OwnerNext, PTL DEF Spec

\* Every variable keeps its type, whatever the requests; in particular, no more
\* references to a struct fs_file_handle are counted than descriptions are open.
THEOREM TypeCorrect == Spec => []TypeOK
<1>1. OwnerInv => TypeOK
  <2> SUFFICES ASSUME OwnerInv PROVE TypeOK
    OBVIOUS
  <2>0. /\ row \in RowsType /\ handle \in HandlesType /\ fh \in FhsType /\ StateHasOwner
    BY DEF OwnerInv, TypeInv
  <2>1. /\ DOMAIN row \subseteq 1 .. MaxId
        /\ \A i \in DOMAIN row : /\ row[i].dir \in {"bookmarks", "folder"}
                                 /\ row[i].pos \in 0 .. MaxPos
                                 /\ row[i].name \in Names \cup {BadName}
    BY <2>0, RowFacts
  <2>2. ASSUME NEW h \in Handles, IsOpen(h)
        PROVE  /\ handle[h].dir \in Dirs /\ DOMAIN handle[h].map \subseteq Names
               /\ handle[h].idx \in 0 .. MaxPos + 1 /\ handle[h].off \in 0 .. MaxPos + 1
    BY <2>0, <2>2, HandleFacts, MapFacts
  <2>3. ASSUME NEW d \in Dirs
        PROVE  /\ fh[d].refcount \in 0 .. Cardinality(Handles)
               /\ fh[d].fsck \in Handles \cup {"none"}
    BY <2>0, FhFacts, OpenFinite DEF StateHasOwner
  <2>4. ASSUME NEW d \in Dirs PROVE fh[d].dirty \in BOOLEAN
    BY <2>0, FhFacts
  <2> QED
    BY <2>1, <2>2, <2>3, <2>4 DEF TypeOK
<1> QED
  BY <1>1, OwnerAlways, PTL

\* A struct fs_file_handle lives as long as some description is open, and its fsck
\* state belongs to one of them: after the owner is closed, in whatever order with
\* the other requests, nobody is refused with EBUSY for good.
THEOREM FsckStateIsOwned == Spec => []StateHasOwner
<1>1. OwnerInv => StateHasOwner
  BY DEF OwnerInv
<1> QED
  BY <1>1, OwnerAlways, PTL
-----------------------------------------------------------------------------
(***************************************************************************)
(* What the kernel keeps of the folder.  A stream that was not overtaken   *)
(* knows the names of the rows that it has passed, and nothing else: then  *)
(* the next row that it shows is the next visible one.                     *)
(***************************************************************************)
FolderOf(r) == {i \in DOMAIN r : r[i].dir = "folder"}

Distinct(r) == \A i, j \in FolderOf(r) : r[i].pos = r[j].pos => i = j

\* Visible("folder"), without First.
VisOf(r) ==
    {i \in FolderOf(r) :
        /\ r[i].name # BadName
        /\ \A j \in FolderOf(r) : r[j].name = r[i].name => r[i].pos <= r[j].pos}

VisTo(r, p) == {i \in VisOf(r) : r[i].pos < p}

\* dentry_map map is that of a stream at offset off.
MapRight(r, map, off) ==
    /\ \A n \in DOMAIN map :
            map[n] \in VisOf(r) /\ r[map[n]].name = n /\ r[map[n]].pos < off
    /\ \A i \in FolderOf(r) :
            r[i].name # BadName /\ r[i].pos < off => r[i].name \in DOMAIN map

\* The names of the rows of V, in their order.
Rank(r, V, i) == Cardinality({j \in V : r[j].pos <= r[i].pos})

Nth(r, V, n) == CHOOSE m \in Names : \E i \in V : Rank(r, V, i) = n /\ r[i].name = m

ListOf(r, V) == [n \in 1 .. Cardinality(V) |-> Nth(r, V, n)]

StreamRight(r, c) ==
    c.dir = "folder" /\ c.off > 0 /\ ~c.overtaken => MapRight(r, c.map, c.off)

StreamInv == \A h \in Handles : StreamRight(row, handle[h])

CacheRight(r, c) ==
    /\ c.list = ListOf(r, VisTo(r, c.pos))
    /\ c.full => \A i \in VisOf(r) : r[i].pos < c.pos

CacheInv ==
    ~cache["folder"].patchy /\ ~fh["folder"].dirty => CacheRight(row, cache["folder"])

\* What is left to be flushed was changed through a mount that is not read-only,
\* and the entries of a tag are not kept.
DirtyInv == \A d \in Dirs : fh[d].dirty => ~Readonly

TagInv == "tag" \in Dirs => ~cache["tag"].full

FolderInv == Distinct(row) /\ StreamInv /\ CacheInv /\ DirtyInv /\ TagInv

KeptInv == OwnerInv /\ FolderInv

LEMMA FolderFacts ==
    ASSUME NEW r \in RowsType
    PROVE  /\ FolderOf(r) \in SUBSET DOMAIN r /\ VisOf(r) \in SUBSET FolderOf(r)
           /\ \A i \in FolderOf(r) : r[i].pos \in Nat
           /\ IsFiniteSet(FolderOf(r)) /\ IsFiniteSet(VisOf(r))
<1>1. FolderOf(r) \in SUBSET DOMAIN r /\ VisOf(r) \in SUBSET FolderOf(r)
  BY DEF FolderOf, VisOf
<1>2. DOMAIN r \in SUBSET (1 .. MaxId) /\ \A i \in DOMAIN r : r[i].pos \in Nat
  BY RowFacts
<1>3. IsFiniteSet(1 .. MaxId)
  BY Bounds, FS_Interval
<1>4. IsFiniteSet(FolderOf(r)) /\ IsFiniteSet(VisOf(r))
  BY <1>1, <1>2, <1>3, FS_Subset
<1> QED
  BY <1>1, <1>2, <1>4

LEMMA FolderIs == RowsOf("folder") = FolderOf(row)
BY DEF RowsOf, FolderOf

LEMMA PosIs ==
    ASSUME NEW i
    PROVE  PosOf("folder", i) = row[i].pos
BY DEF PosOf

\* With distinct positions, the first row of a name is the least one.
LEMMA VisibleIs ==
    ASSUME row \in RowsType, Distinct(row)
    PROVE  Visible("folder") = VisOf(row)
<1> DEFINE F == FolderOf(row)
<1>0. F \in SUBSET DOMAIN row /\ \A i \in F : row[i].pos \in Nat
  BY FolderFacts
<1>1. ASSUME NEW i \in F
      PROVE  (i = First("folder", {j \in F : row[j].name = row[i].name})) <=>
             (\A j \in F : row[j].name = row[i].name => row[i].pos <= row[j].pos)
  <2> DEFINE S == {j \in F : row[j].name = row[i].name}
             f == First("folder", S)
  <2>1. S \in SUBSET DOMAIN row /\ S # {}
    BY <1>0
  <2>2. f \in S /\ \A j \in S : PosOf("folder", f) <= PosOf("folder", j)
    <3> HIDE DEF S
    <3> QED
      BY <2>1, FirstIn
  <2>3. \A j \in S : row[f].pos <= row[j].pos
    BY <2>2, PosIs
  <2>4. f \in F /\ row[f].name = row[i].name
    BY <2>2
  <2> HIDE DEF f
  <2>5. ASSUME \A j \in F : row[j].name = row[i].name => row[i].pos <= row[j].pos
        PROVE  i = f
    <3>1. row[i].pos <= row[f].pos /\ row[f].pos <= row[i].pos
      BY <2>3, <2>4, <2>5
    <3>2. row[i].pos = row[f].pos
      BY <1>0, <2>4, <3>1
    <3> QED
      BY <2>4, <3>2 DEF Distinct
  <2>6. ASSUME i = f
        PROVE  \A j \in F : row[j].name = row[i].name => row[i].pos <= row[j].pos
    BY <2>3, <2>6
  <2> QED
    BY <2>5, <2>6 DEF f
<1>2. RowsOf("folder") = F
  BY FolderIs
<1>3. \A i : i \in Visible("folder") <=>
            /\ i \in F /\ row[i].name # BadName
            /\ i = First("folder", {j \in F : row[j].name = row[i].name})
  BY <1>2 DEF Visible, Valid, ChecksName
<1>4. \A i : i \in VisOf(row) <=>
            /\ i \in F /\ row[i].name # BadName
            /\ \A j \in F : row[j].name = row[i].name => row[i].pos <= row[j].pos
  BY DEF VisOf
<1>5. \A i : i \in Visible("folder") <=> i \in VisOf(row)
  <2> HIDE DEF F
  <2> QED
    BY <1>1, <1>3, <1>4
<1>6. Visible("folder") \subseteq VisOf(row) /\ VisOf(row) \subseteq Visible("folder")
  BY <1>5
<1> QED
  BY <1>6

LEMMA ListingIs ==
    ASSUME row \in RowsType, Distinct(row)
    PROVE  Listing("folder") = ListOf(row, VisOf(row))
<1> DEFINE V == VisOf(row)
           rank(i) == Cardinality({j \in V : PosOf("folder", j) <= PosOf("folder", i)})
<1>1. Visible("folder") = V
  BY VisibleIs
<1>2. Listing("folder") =
        [n \in 1 .. Cardinality(V) |->
            CHOOSE m \in Names : \E i \in V : row[i].name = m /\ rank(i) = n]
  BY <1>1 DEF Listing
<1>3. \A i : rank(i) = Rank(row, V, i)
  BY PosIs DEF Rank
<1> HIDE DEF rank, V
<1>4. \A n : (CHOOSE m \in Names : \E i \in V : row[i].name = m /\ rank(i) = n)
             = Nth(row, V, n)
  BY <1>3 DEF Nth
<1> QED
  BY <1>2, <1>4 DEF ListOf, V

\* A row after all of V comes last.
LEMMA ListAppend ==
    ASSUME NEW r \in RowsType, NEW V \in SUBSET FolderOf(r), NEW i \in FolderOf(r),
           \A j \in V : r[j].pos < r[i].pos, r[i].name \in Names,
           ListOf(r, V) \in Seq(Names)
    PROVE  ListOf(r, V \cup {i}) = Append(ListOf(r, V), r[i].name)
<1> DEFINE W == V \cup {i}
           c == Cardinality(V)
<1>0. /\ \A j \in W : r[j].pos \in Nat
      /\ IsFiniteSet(V) /\ IsFiniteSet(W) /\ c \in Nat
  BY FolderFacts, FS_Subset, FS_AddElement, FS_CardinalityType
<1>1. i \notin V
  BY <1>0
<1>2. Cardinality(W) = c + 1
  BY <1>0, <1>1, FS_AddElement
<1>3. ASSUME NEW k \in V
      PROVE  Rank(r, W, k) = Rank(r, V, k) /\ Rank(r, W, k) <= c /\ Rank(r, W, k) \in Nat
  <2> DEFINE S == {j \in V : r[j].pos <= r[k].pos}
             T == {j \in W : r[j].pos <= r[k].pos}
  <2>1. ~(r[i].pos <= r[k].pos)
    BY <1>0
  <2>2. S = T
    BY <2>1
  <2>3. S \in SUBSET V
    OBVIOUS
  <2>4. Cardinality(S) <= c /\ Cardinality(S) \in Nat
    <3> HIDE DEF S
    <3> QED
      BY <1>0, <2>3, FS_Subset, FS_CardinalityType
  <2>5. Rank(r, V, k) = Cardinality(S) /\ Rank(r, W, k) = Cardinality(T)
    BY DEF Rank
  <2> QED
    BY <2>2, <2>4, <2>5
<1>4. Rank(r, W, i) = c + 1
  <2>1. {j \in W : r[j].pos <= r[i].pos} = W
    BY <1>0
  <2> QED
    BY <1>2, <2>1 DEF Rank
<1>5. ASSUME NEW n \in 1 .. c PROVE Nth(r, W, n) = Nth(r, V, n)
  <2>1. n # c + 1
    BY <1>0
  <2>2. \A k : (k \in W /\ Rank(r, W, k) = n) <=> (k \in V /\ Rank(r, V, k) = n)
    BY <1>3, <1>4, <2>1
  <2> HIDE DEF W, c
  <2>3. \A m : (\E k \in W : Rank(r, W, k) = n /\ r[k].name = m) <=>
               (\E k \in V : Rank(r, V, k) = n /\ r[k].name = m)
    BY <2>2, Zenon
  <2> QED
    BY <2>3, Zenon DEF Nth
<1>6. Nth(r, W, c + 1) = r[i].name
  <2>1. ASSUME NEW k \in W PROVE Rank(r, W, k) = c + 1 <=> k = i
    <3>1. CASE k = i
      BY <1>4, <3>1
    <3>2. CASE k \in V
      <4>1. Rank(r, W, k) <= c /\ Rank(r, W, k) \in Nat /\ k # i
        BY <1>1, <1>3, <3>2
      <4> QED
        BY <1>0, <4>1
    <3> QED
      BY <3>1, <3>2
  <2>2. i \in W
    OBVIOUS
  <2> HIDE DEF W, c
  <2>3. \A m : (\E k \in W : Rank(r, W, k) = c + 1 /\ r[k].name = m) <=> m = r[i].name
    BY <2>1, <2>2
  <2>4. Nth(r, W, c + 1) = CHOOSE m \in Names : m = r[i].name
    BY <2>3, Zenon DEF Nth
  <2>5. (CHOOSE m \in Names : m = r[i].name) = r[i].name
    BY Zenon
  <2> QED
    BY <2>4, <2>5
<1> DEFINE L == ListOf(r, V)
           x == r[i].name
<1>7. DOMAIN L = 1 .. c /\ \A n \in 1 .. c : L[n] = Nth(r, V, n)
  BY DEF ListOf
<1>8. Len(L) = c
  BY <1>0, <1>7, LenProperties
<1>9. ListOf(r, W) = [n \in 1 .. c + 1 |-> Nth(r, W, n)]
  BY <1>2 DEF ListOf
<1> HIDE DEF L, x
<1>10. Append(L, x) = [n \in 1 .. c + 1 |-> IF n = c + 1 THEN x ELSE L[n]]
  BY <1>0, <1>8 DEF L, x
<1>11. ASSUME NEW n \in 1 .. c + 1
       PROVE  Nth(r, W, n) = IF n = c + 1 THEN x ELSE L[n]
  <2>1. CASE n = c + 1
    BY <1>6, <2>1 DEF x
  <2>2. CASE n # c + 1
    <3>1. n \in 1 .. c
      BY <1>0, <2>2
    <3> QED
      BY <1>5, <1>7, <2>2, <3>1
  <2> QED
    BY <2>1, <2>2
<1> HIDE DEF W, c
<1>12. ListOf(r, W) = Append(L, x)
  BY <1>9, <1>10, <1>11
<1> QED
  BY <1>12 DEF W, L, x

LEMMA ListEmpty ==
    ASSUME NEW r \in RowsType
    PROVE  ListOf(r, VisTo(r, 0)) = <<>>
<1>1. VisTo(r, 0) = {}
  BY FolderFacts DEF VisTo
<1> QED
  BY <1>1, FS_EmptySet DEF ListOf

\* What another folder contains makes no difference.
SameFolder(r, s) ==
    FolderOf(s) = FolderOf(r) /\ \A i \in FolderOf(r) : s[i] = r[i]

LEMMA SameFacts ==
    ASSUME NEW r, NEW s, SameFolder(r, s)
    PROVE  /\ Distinct(r) => Distinct(s)
           /\ VisOf(s) = VisOf(r)
           /\ \A p : VisTo(s, p) = VisTo(r, p)
           /\ \A i \in VisOf(r) : s[i] = r[i]
           /\ \A map, off : MapRight(r, map, off) => MapRight(s, map, off)
           /\ \A V \in SUBSET FolderOf(r) : ListOf(s, V) = ListOf(r, V)
<1> DEFINE F == FolderOf(r)
<1>1. FolderOf(s) = F /\ \A i \in F : s[i] = r[i]
  BY DEF SameFolder
<1> HIDE DEF F
<1>2. Distinct(r) => Distinct(s)
  BY <1>1 DEF Distinct, F
<1>3. VisOf(s) = VisOf(r)
  <2>1. VisOf(s) = {i \in F : /\ s[i].name # BadName
                              /\ \A j \in F : s[j].name = s[i].name => s[i].pos <= s[j].pos}
    BY <1>1 DEF VisOf
  <2>2. VisOf(r) = {i \in F : /\ r[i].name # BadName
                              /\ \A j \in F : r[j].name = r[i].name => r[i].pos <= r[j].pos}
    BY DEF VisOf, F
  <2>3. \A i : i \in VisOf(s) <=> i \in VisOf(r)
    BY <1>1, <2>1, <2>2
  <2> QED
    BY <2>3, Zenon
<1>4. VisOf(r) \subseteq F
  BY DEF VisOf, F
<1>5. \A p : VisTo(s, p) = VisTo(r, p)
  BY <1>1, <1>3, <1>4 DEF VisTo
<1>6. ASSUME NEW map, NEW off, MapRight(r, map, off) PROVE MapRight(s, map, off)
  <2>1. \A n \in DOMAIN map :
            map[n] \in VisOf(s) /\ s[map[n]].name = n /\ s[map[n]].pos < off
    BY <1>1, <1>3, <1>4, <1>6 DEF MapRight
  <2>2. \A i \in F : s[i].name # BadName /\ s[i].pos < off => s[i].name \in DOMAIN map
    BY <1>1, <1>6 DEF MapRight, F
  <2> QED
    BY <1>1, <2>1, <2>2 DEF MapRight
<1>7. ASSUME NEW V \in SUBSET F PROVE ListOf(s, V) = ListOf(r, V)
  <2>1. \A i \in V : s[i] = r[i]
    BY <1>1
  <2>2. ASSUME NEW i \in V PROVE Rank(s, V, i) = Rank(r, V, i)
    <3>1. {j \in V : s[j].pos <= s[i].pos} = {j \in V : r[j].pos <= r[i].pos}
      BY <2>1
    <3> QED
      BY <3>1 DEF Rank
  <2>3. ASSUME NEW n PROVE Nth(s, V, n) = Nth(r, V, n)
    <3>1. \A m : (\E i \in V : Rank(s, V, i) = n /\ s[i].name = m) <=>
                 (\E i \in V : Rank(r, V, i) = n /\ r[i].name = m)
      BY <2>1, <2>2
    <3> QED
      BY <3>1, Zenon DEF Nth
  <2> QED
    BY <2>3 DEF ListOf
<1> QED
  BY <1>1, <1>2, <1>3, <1>4, <1>5, <1>6, <1>7 DEF F

\* Rows that are added one after the other have distinct positions.
LEMMA DistinctInit ==
    ASSUME Init PROVE Distinct(row)
<1>1. row \in RowsType
  BY TypeInit DEF TypeInv
<1>2. \A i \in DOMAIN row : row[i].pos = Cardinality({j \in RowsOf(row[i].dir) : j < i})
  BY DEF Init
<1> DEFINE F == FolderOf(row)
           B(i) == {j \in F : j < i}
<1>3. F \in SUBSET (1 .. MaxId) /\ IsFiniteSet(F) /\ F \in SUBSET DOMAIN row
  BY <1>1, FolderFacts, RowFacts
<1>4. \A i \in F : row[i].pos = Cardinality(B(i))
  BY <1>2, FolderIs DEF FolderOf
<1>5. ASSUME NEW i \in F, NEW j \in F, i < j PROVE row[i].pos # row[j].pos
  <2>1. B(i) \in SUBSET B(j) /\ i \in B(j) /\ i \notin B(i)
    BY <1>3, <1>5, Bounds
  <2>2. IsFiniteSet(B(j))
    BY <1>3, FS_Subset
  <2>3. Cardinality(B(i)) < Cardinality(B(j))
    <3> DEFINE X == B(i)
               Y == B(j)
    <3>1. X \in SUBSET Y /\ X # Y /\ IsFiniteSet(Y)
      BY <2>1, <2>2
    <3> HIDE DEF X, Y
    <3>2. Cardinality(X) <= Cardinality(Y) /\ (Cardinality(X) = Cardinality(Y) => X = Y)
      BY <3>1, FS_Subset
    <3>3. Cardinality(X) \in Nat /\ Cardinality(Y) \in Nat
      BY <3>1, FS_Subset, FS_CardinalityType
    <3>4. Cardinality(X) < Cardinality(Y)
      BY <3>1, <3>2, <3>3
    <3> QED
      BY <3>4 DEF X, Y
  <2>4. Cardinality(B(j)) \in Nat
    BY <2>2, FS_CardinalityType
  <2>5. Cardinality(B(i)) \in Nat
    BY <2>1, <2>2, FS_Subset, FS_CardinalityType
  <2> HIDE DEF B
  <2> QED
    BY <1>4, <2>3, <2>4, <2>5
<1>6. ASSUME NEW i \in F, NEW j \in F, row[i].pos = row[j].pos PROVE i = j
  <2>1. i \in Nat /\ j \in Nat
    BY <1>3, Bounds
  <2> HIDE DEF F
  <2>2. ~(i < j) /\ ~(j < i)
    BY <1>5, <1>6
  <2> QED
    BY <2>1, <2>2
<1> QED
  BY <1>6 DEF Distinct

\* At the beginning nothing was passed; later on, an undisturbed stream knows what
\* it has passed.
LEMMA MapAtRight ==
    ASSUME TypeInv, StreamInv, NEW h \in Handles, IsOpen(h), handle[h].dir = "folder",
           handle[h].off > 0 => ~handle[h].overtaken
    PROVE  MapRight(row, MapAt(h), handle[h].off)
<1>1. handle[h].off \in Nat /\ row \in RowsType
  BY HandleFacts DEF TypeInv
<1>2. CASE handle[h].off = 0
  <2>1. MapAt(h) = NoMap
    BY <1>2 DEF MapAt
  <2>2. \A i \in FolderOf(row) : ~(row[i].pos < 0)
    BY <1>1, FolderFacts
  <2> QED
    BY <1>2, <2>1, <2>2, NoMapIn DEF MapRight
<1>3. CASE handle[h].off # 0
  <2>1. MapAt(h) = handle[h].map /\ handle[h].off > 0
    BY <1>1, <1>3 DEF MapAt
  <2> QED
    BY <2>1 DEF StreamInv, StreamRight
<1> QED
  BY <1>2, <1>3

\* Such a stream shows the rows with a new name, and so every visible row.
LEMMA ShownFacts ==
    ASSUME TypeInv, NEW h \in Handles, handle[h].dir = "folder",
           MapRight(row, MapAt(h), handle[h].off), handle[h].off \in Nat
    PROVE  /\ \A i : i \in Shown(h) <=>
                    /\ i \in FolderOf(row) /\ row[i].name # BadName
                    /\ row[i].pos >= handle[h].off
                    /\ row[i].name \notin DOMAIN MapAt(h)
           /\ \A i \in VisOf(row) : row[i].pos >= handle[h].off => i \in Shown(h)
<1> DEFINE off == handle[h].off
           map == MapAt(h)
<1>0. /\ \A i \in FolderOf(row) : row[i].pos \in Nat
      /\ VisOf(row) \in SUBSET FolderOf(row)
  BY FolderFacts DEF TypeInv
<1>1. \A i : i \in Shown(h) <=>
                /\ i \in FolderOf(row) /\ row[i].pos >= off /\ row[i].name # BadName
                /\ row[i].name \in DOMAIN map => map[row[i].name] = i
  <2>1. \A i : PosOf("folder", i) = row[i].pos
    BY PosIs
  <2> QED
    BY <2>1, FolderIs DEF Shown, Valid, ChecksName
<1> HIDE DEF off, map
<1>2. ASSUME NEW i \in FolderOf(row), row[i].pos >= off, row[i].name \in DOMAIN map
      PROVE  map[row[i].name] # i
  BY <1>0, <1>2 DEF MapRight, off, map
<1>3. \A i : i \in Shown(h) <=>
                /\ i \in FolderOf(row) /\ row[i].name # BadName /\ row[i].pos >= off
                /\ row[i].name \notin DOMAIN map
  BY <1>1, <1>2
<1>4. ASSUME NEW i \in VisOf(row), row[i].pos >= off PROVE row[i].name \notin DOMAIN map
  <2>1. SUFFICES ASSUME row[i].name \in DOMAIN map PROVE FALSE
    OBVIOUS
  <2> DEFINE j == map[row[i].name]
  <2>2. j \in VisOf(row) /\ row[j].name = row[i].name /\ row[j].pos < off
    BY <2>1 DEF MapRight, off, map
  <2>3. row[i].pos <= row[j].pos
    BY <1>0, <2>2 DEF VisOf
  <2>4. row[i].pos \in Nat /\ row[j].pos \in Nat /\ off \in Nat
    BY <1>0, <2>2 DEF off
  <2> QED
    BY <1>4, <2>2, <2>3, <2>4
<1>5. ASSUME NEW i \in VisOf(row), row[i].pos >= off PROVE i \in Shown(h)
  BY <1>0, <1>3, <1>4, <1>5 DEF VisOf
<1> QED
  BY <1>3, <1>5 DEF off, map

\* bookmark_list_cb() on the next row: it is the next visible one, and dentry_map
\* knows what was passed until then.
LEMMA NextShown ==
    ASSUME TypeInv, Distinct(row), NEW h \in Handles, handle[h].dir = "folder",
           MapRight(row, MapAt(h), handle[h].off), handle[h].off \in Nat,
           NEW i \in Shown(h), \A j \in Shown(h) : row[i].pos <= row[j].pos
    PROVE  /\ i \in FolderOf(row) /\ i \in VisOf(row) /\ row[i].name \in Names
           /\ i \notin VisTo(row, handle[h].off)
           /\ \A j \in VisTo(row, handle[h].off) : row[j].pos < row[i].pos
           /\ VisTo(row, row[i].pos + 1) = VisTo(row, handle[h].off) \cup {i}
           /\ MapRight(row, [m \in DOMAIN MapAt(h) \cup {row[i].name} |->
                                IF m = row[i].name THEN i ELSE MapAt(h)[m]],
                       row[i].pos + 1)
<1> DEFINE off == handle[h].off
           map == MapAt(h)
           F == FolderOf(row)
           V == VisOf(row)
           S == Shown(h)
           n == row[i].name
           p == row[i].pos
<1>0. /\ \A j \in F : row[j].pos \in Nat
      /\ V \in SUBSET F /\ off \in Nat
  BY FolderFacts DEF TypeInv
<1>1. \A j : j \in S <=> /\ j \in F /\ row[j].name # BadName /\ row[j].pos >= off
                         /\ row[j].name \notin DOMAIN map
  BY ShownFacts
<1>2. \A j \in V : row[j].pos >= off => j \in S
  BY ShownFacts
<1>3. /\ \A m \in DOMAIN map : map[m] \in V /\ row[map[m]].name = m /\ row[map[m]].pos < off
      /\ \A j \in F : row[j].name # BadName /\ row[j].pos < off => row[j].name \in DOMAIN map
  BY DEF MapRight
<1>4. \A j, k \in F : row[j].pos = row[k].pos => j = k
  BY DEF Distinct
<1>5. \A j : j \in V <=> /\ j \in F /\ row[j].name # BadName
                         /\ \A k \in F : row[k].name = row[j].name => row[j].pos <= row[k].pos
  BY DEF VisOf
<1>6. n \in Names
  <2>1. i \in DOMAIN row
    BY <1>1 DEF FolderOf
  <2>2. n \in Names \cup {BadName}
    BY <2>1, RowFacts DEF TypeInv
  <2> QED
    BY <1>1, <2>2
<1>7. \A q : VisTo(row, q) = {j \in V : row[j].pos < q}
  BY DEF VisTo
<1> HIDE DEF off, map, F, V, S
<1>8. i \in F /\ n # BadName /\ p >= off /\ n \notin DOMAIN map /\ p \in Nat
  BY <1>0, <1>1 DEF S
<1>9. \A j \in S : p <= row[j].pos
  BY DEF S
<1>10. ASSUME NEW j \in F, row[j].name = n PROVE p <= row[j].pos
  <2>1. CASE row[j].pos < off
    BY <1>3, <1>8, <1>10, <2>1
  <2>2. CASE row[j].pos >= off
    <3>1. j \in S
      BY <1>1, <1>8, <1>10, <2>2
    <3> QED
      BY <1>9, <3>1
  <2> QED
    BY <1>0, <2>1, <2>2
<1>11. i \in V
  BY <1>5, <1>8, <1>10
<1>12. \A j \in VisTo(row, off) : row[j].pos < p
  BY <1>0, <1>7, <1>8
<1>13. i \notin VisTo(row, off)
  BY <1>0, <1>7, <1>8
<1>14. VisTo(row, p + 1) = VisTo(row, off) \cup {i}
  <2>1. ASSUME NEW j \in V PROVE row[j].pos < p + 1 <=> (row[j].pos < off \/ j = i)
    <3>1. row[j].pos \in Nat /\ j \in F
      BY <1>0
    <3>2. CASE row[j].pos < off
      BY <1>0, <1>8, <3>1, <3>2
    <3>3. CASE row[j].pos >= off
      <4>1. p <= row[j].pos
        BY <1>2, <1>9, <3>3
      <4>2. row[j].pos < p + 1 => row[j].pos = p
        BY <1>8, <3>1, <4>1
      <4> QED
        BY <1>0, <1>4, <1>8, <3>1, <3>3, <4>2
    <3> QED
      BY <1>0, <3>1, <3>2, <3>3
  <2> HIDE DEF p
  <2>2. \A j : j \in VisTo(row, p + 1) <=> j \in VisTo(row, off) \cup {i}
    BY <1>7, <1>11, <2>1
  <2> QED
    BY <2>2, Zenon
<1> DEFINE w == [m \in DOMAIN map \cup {n} |-> IF m = n THEN i ELSE map[m]]
<1>15. DOMAIN w = DOMAIN map \cup {n} /\ w[n] = i /\ \A m \in DOMAIN map : w[m] = map[m]
  BY <1>8
<1> HIDE DEF w
<1>16. ASSUME NEW m \in DOMAIN w
       PROVE  w[m] \in V /\ row[w[m]].name = m /\ row[w[m]].pos < p + 1
  <2>1. CASE m = n
    BY <1>8, <1>11, <1>15, <2>1
  <2>2. CASE m \in DOMAIN map
    <3>1. map[m] \in V /\ row[map[m]].name = m /\ row[map[m]].pos < off
      BY <1>3, <2>2
    <3>2. row[map[m]].pos \in Nat
      BY <1>0, <3>1
    <3>3. row[map[m]].pos < p + 1
      BY <1>0, <1>8, <3>1, <3>2
    <3> QED
      BY <1>15, <2>2, <3>1, <3>3
  <2> QED
    BY <1>15, <2>1, <2>2
<1>17. ASSUME NEW j \in F, row[j].name # BadName, row[j].pos < p + 1
       PROVE  row[j].name \in DOMAIN w
  <2>1. CASE row[j].pos < off
    BY <1>3, <1>15, <1>17, <2>1
  <2>2. CASE row[j].pos >= off /\ row[j].name \notin DOMAIN map
    <3>1. j \in S
      BY <1>1, <1>17, <2>2
    <3>2. row[j].pos = p
      BY <1>0, <1>8, <1>9, <1>17, <3>1
    <3>3. j = i
      BY <1>4, <1>8, <3>2
    <3> QED
      BY <1>15, <3>3
  <2> QED
    BY <1>0, <1>15, <2>1, <2>2
<1>18. MapRight(row, w, p + 1)
  BY <1>16, <1>17 DEF MapRight, F, V
<1> QED
  BY <1>6, <1>8, <1>11, <1>12, <1>13, <1>14, <1>18 DEF off, map, F, V, w

LEMMA SameRefl ==
    ASSUME NEW r PROVE SameFolder(r, r)
BY DEF SameFolder

\* The parts of the invariant, one by one.
LEMMA StreamSame ==
    ASSUME NEW r, NEW s, SameFolder(r, s), NEW c, NEW e, StreamRight(r, c),
           e.dir = c.dir, e.off = c.off, e.map = c.map, e.overtaken <=> c.overtaken
    PROVE  StreamRight(s, e)
BY SameFacts DEF StreamRight

LEMMA StreamFree ==
    ASSUME NEW s, NEW e, e.dir # "folder" \/ e.off = 0 \/ (e.overtaken <=> e.off > 0)
    PROVE  StreamRight(s, e)
<1>1. CASE e.off = 0
  BY <1>1 DEF StreamRight
<1>2. CASE e.dir # "folder" \/ (e.overtaken <=> e.off > 0)
  BY <1>2, Zenon DEF StreamRight
<1> QED
  BY <1>1, <1>2

LEMMA StreamStep ==
    ASSUME StreamInv, NEW h \in Handles, SameFolder(row, row'),
           \A k \in Handles : k # h => handle'[k] = handle[k], StreamRight(row', handle'[h])
    PROVE  StreamInv'
<1>1. ASSUME NEW k \in Handles PROVE StreamRight(row', handle'[k])
  <2>1. CASE k = h
    BY <2>1
  <2>2. CASE k # h
    <3> DEFINE c == handle[k]
    <3>1. handle'[k] = c /\ StreamRight(row, c)
      BY <2>2 DEF StreamInv
    <3> HIDE DEF c
    <3>2. StreamRight(row', c)
      BY <3>1, StreamSame
    <3> QED
      BY <3>1, <3>2
  <2> QED
    BY <2>1, <2>2
<1> QED
  BY <1>1 DEF StreamInv

LEMMA StreamOvertook ==
    ASSUME StreamInv, NEW d, Overtook(d, handle'), d # "folder" => SameFolder(row, row')
    PROVE  StreamInv'
<1>1. ASSUME NEW k \in Handles PROVE StreamRight(row', handle'[k])
  <2> DEFINE c == handle[k]
             e == handle'[k]
  <2>0. StreamRight(row, c) /\ e.dir = c.dir
    BY DEF StreamInv, Overtook
  <2>1. CASE c.dir # "folder"
    <3>1. e.dir # "folder"
      BY <2>0, <2>1
    <3> HIDE DEF c, e
    <3> QED
      BY <3>1, StreamFree DEF e
  <2>2. CASE c.dir = d
    <3>1. e.overtaken = (e.off > 0)
      BY <2>2 DEF Overtook
    <3> HIDE DEF c, e
    <3>2. e.overtaken <=> e.off > 0
      BY <3>1
    <3> QED
      BY <3>2, StreamFree DEF e
  <2>3. CASE c.dir # d /\ d # "folder"
    <3>1. e = c
      BY <2>3 DEF Overtook
    <3> HIDE DEF c
    <3>2. StreamRight(row', c)
      BY <2>0, <2>3, StreamSame
    <3> QED
      BY <3>1, <3>2
  <2> QED
    BY <2>1, <2>2, <2>3
<1> QED
  BY <1>1 DEF StreamInv

LEMMA CacheSame ==
    ASSUME CacheInv, row \in RowsType, SameFolder(row, row'),
           cache'["folder"] = cache["folder"], fh["folder"].dirty => fh'["folder"].dirty
    PROVE  CacheInv'
<1> DEFINE c == cache["folder"]
<1>1. SUFFICES ASSUME ~c.patchy, ~fh'["folder"].dirty PROVE CacheRight(row', c)
  BY DEF CacheInv
<1>2. CacheRight(row, c)
  BY <1>1 DEF CacheInv
<1> HIDE DEF c
<1> DEFINE V == VisTo(row, c.pos)
<1>3. V \in SUBSET FolderOf(row)
  BY DEF VisTo, VisOf
<1>4. /\ VisTo(row', c.pos) = V /\ VisOf(row') = VisOf(row)
      /\ \A i \in VisOf(row) : row'[i] = row[i]
  <2> DEFINE s == row'
             q == c.pos
  <2>1. SameFolder(row, s)
    OBVIOUS
  <2> HIDE DEF s, q
  <2>2. /\ VisTo(s, q) = VisTo(row, q) /\ VisOf(s) = VisOf(row)
        /\ \A i \in VisOf(row) : s[i] = row[i]
    BY <2>1, SameFacts
  <2> QED
    BY <2>2 DEF s, q
<1>5. ListOf(row', V) = ListOf(row, V)
  <2> HIDE DEF V
  <2> QED
    BY <1>3, SameFacts
<1> QED
  BY <1>2, <1>4, <1>5 DEF CacheRight

LEMMA EmptyRight ==
    ASSUME NEW r \in RowsType
    PROVE  CacheRight(r, Empty)
<1>1. Empty.list = <<>> /\ Empty.pos = 0 /\ ~Empty.full
  BY DEF Empty
<1> QED
  BY <1>1, ListEmpty DEF CacheRight

LEMMA CacheEmpty ==
    ASSUME TypeInv', cache'["folder"] = Empty
    PROVE  CacheInv'
<1>1. row' \in RowsType
  BY DEF TypeInv
<1>2. CacheRight(row', Empty)
  BY <1>1, EmptyRight
<1> QED
  BY <1>2 DEF CacheInv

LEMMA CacheDirty ==
    ASSUME fh'["folder"].dirty PROVE CacheInv'
BY DEF CacheInv

LEMMA TagStep ==
    ASSUME TagInv,
           "tag" \in Dirs => cache'["tag"] = cache["tag"] \/ cache'["tag"] = Empty
    PROVE  TagInv'
<1>1. ~Empty.full
  BY DEF Empty
<1> QED
  BY <1>1 DEF TagInv

LEMMA DirtyStep ==
    ASSUME DirtyInv, NEW d \in Dirs, FhStep(d, fh'),
           fh'[d].dirty => fh[d].dirty \/ ~Readonly
    PROVE  DirtyInv'
<1>1. ASSUME NEW e \in Dirs, fh'[e].dirty PROVE ~Readonly
  <2>1. CASE e = d
    BY <1>1, <2>1 DEF DirtyInv
  <2>2. CASE e # d
    BY <1>1, <2>2 DEF DirtyInv, FhStep
  <2> QED
    BY <2>1, <2>2
<1> QED
  BY <1>1 DEF DirtyInv

\* Positions.
LEMMA DistinctSame ==
    ASSUME Distinct(row), SameFolder(row, row')
    PROVE  Distinct(row')
BY SameFacts

LEMMA ApplyRows ==
    ASSUME row \in RowsType, NEW d \in {"bookmarks", "folder"}, NEW i \in RowsOf(d),
           NEW n, row' = [row EXCEPT ![i].name = n], Distinct(row)
    PROVE  Distinct(row') /\ (d # "folder" => SameFolder(row, row'))
<1>1. i \in DOMAIN row /\ row[i].dir = d
  BY DEF RowsOf
<1>2. row[i] \in RowType
  BY <1>1, RowFacts
<1>3. /\ DOMAIN row' = DOMAIN row /\ \A j \in DOMAIN row : j # i => row'[j] = row[j]
      /\ row'[i].dir = row[i].dir /\ row'[i].pos = row[i].pos
  BY <1>1, <1>2 DEF RowType
<1>4. FolderOf(row') = FolderOf(row) /\ \A j \in DOMAIN row : row'[j].pos = row[j].pos
  BY <1>3 DEF FolderOf
<1>5. Distinct(row')
  BY <1>4 DEF Distinct, FolderOf
<1>6. ASSUME d # "folder" PROVE SameFolder(row, row')
  <2>1. i \notin FolderOf(row)
    BY <1>1, <1>6 DEF FolderOf
  <2> QED
    BY <1>3, <1>4, <2>1 DEF SameFolder, FolderOf
<1> QED
  BY <1>5, <1>6

LEMMA PermdRows ==
    ASSUME row \in RowsType, NEW d \in {"bookmarks", "folder"}, NEW i \in RowsOf(d),
           NEW j \in RowsOf(d), i # j, Distinct(row), Swapped(i, j)
    PROVE  Distinct(row') /\ (d # "folder" => SameFolder(row, row'))
<1>1. i \in DOMAIN row /\ row[i].dir = d /\ j \in DOMAIN row /\ row[j].dir = d
  BY DEF RowsOf
<1>2. row[i] \in RowType /\ row[j] \in RowType
  BY <1>1, RowFacts
<1>3. /\ DOMAIN row' = DOMAIN row
      /\ \A k \in DOMAIN row : k # i /\ k # j => row'[k] = row[k]
      /\ row'[i].dir = row[i].dir /\ row'[i].pos = row[j].pos
      /\ row'[j].dir = row[j].dir /\ row'[j].pos = row[i].pos
  BY <1>1, <1>2 DEF RowType, Swapped
<1>4. FolderOf(row') = FolderOf(row)
  BY <1>3 DEF FolderOf
<1>5. ASSUME d # "folder" PROVE SameFolder(row, row')
  <2>1. i \notin FolderOf(row) /\ j \notin FolderOf(row)
    BY <1>1, <1>5 DEF FolderOf
  <2> QED
    BY <1>3, <1>4, <2>1 DEF SameFolder, FolderOf
<1>6. ASSUME d = "folder" PROVE Distinct(row')
  <2> DEFINE F == FolderOf(row)
  <2>1. i \in F /\ j \in F /\ F \subseteq DOMAIN row
    BY <1>1, <1>6 DEF FolderOf
  <2>2. \A a, b \in F : row[a].pos = row[b].pos => a = b
    BY DEF Distinct
  <2> HIDE DEF F
  <2>3. \A a, b \in F : row'[a].pos = row'[b].pos => a = b
    BY <1>3, <2>1, <2>2
  <2> QED
    BY <1>4, <2>3 DEF Distinct, F
<1> QED
  BY <1>5, <1>6, DistinctSame

LEMMA CreateRows ==
    ASSUME row \in RowsType, Distinct(row), NEW i, i \notin DOMAIN row, NEW n,
           DOMAIN row' = DOMAIN row \cup {i},
           row'[i] = [dir |-> "folder", pos |-> EndPos("folder"), name |-> n],
           \A j \in DOMAIN row : row'[j] = row[j]
    PROVE  Distinct(row')
<1>1. FolderOf(row') = FolderOf(row) \cup {i}
  BY DEF FolderOf
<1>2. \A j \in FolderOf(row) : row[j].pos < EndPos("folder") /\ row[j].pos \in Nat
  BY EndPosType, FolderIs, FolderFacts
<1>3. EndPos("folder") \in Nat
  BY EndPosType, Bounds
<1>4. row'[i].pos = EndPos("folder") /\ \A j \in FolderOf(row) : row'[j].pos = row[j].pos
  BY DEF FolderOf
<1>5. \A j \in FolderOf(row) : row'[j].pos # row'[i].pos
  BY <1>2, <1>3, <1>4
<1> QED
  BY <1>1, <1>4, <1>5 DEF Distinct

LEMMA DeleteRows ==
    ASSUME Distinct(row), NEW i, DOMAIN row' = DOMAIN row \ {i},
           \A j \in DOMAIN row' : row'[j] = row[j]
    PROVE  Distinct(row')
<1>1. FolderOf(row') \subseteq FolderOf(row)
  BY DEF FolderOf
<1>2. \A j \in FolderOf(row') : row'[j].pos = row[j].pos
  BY DEF FolderOf
<1> QED
  BY <1>1, <1>2 DEF Distinct

LEMMA RenameRows ==
    ASSUME row \in RowsType, Distinct(row), NEW i \in RowsOf("folder"), NEW n,
           row' = [row EXCEPT ![i].name = n, ![i].pos = EndPos("folder")]
    PROVE  Distinct(row')
<1>1. i \in DOMAIN row /\ row[i].dir = "folder" /\ row[i] \in RowType
  BY RowFacts DEF RowsOf
<1>2. /\ DOMAIN row' = DOMAIN row /\ \A k \in DOMAIN row : k # i => row'[k] = row[k]
      /\ row'[i].dir = row[i].dir /\ row'[i].pos = EndPos("folder")
  BY <1>1 DEF RowType
<1>3. FolderOf(row') = FolderOf(row)
  BY <1>2 DEF FolderOf
<1>4. \A j \in FolderOf(row) : row[j].pos < EndPos("folder") /\ row[j].pos \in Nat
  BY EndPosType, FolderIs, FolderFacts
<1>5. EndPos("folder") \in Nat
  BY EndPosType, Bounds
<1>6. \A j \in FolderOf(row) : j # i => row'[j].pos = row[j].pos /\ row'[j].pos # row'[i].pos
  BY <1>2, <1>4, <1>5 DEF FolderOf
<1> QED
  BY <1>3, <1>6 DEF Distinct

\* readdir(): what the kernel adds is the next visible row.
LEMMA ReaddirKept ==
    ASSUME KeptInv, NEW h \in Handles, Readdir(h)
    PROVE  FolderInv'
<1> DEFINE d == handle[h].dir
           i == First(d, Shown(h))
           adds == Kept(d) /\ handle[h].off = cache[d].pos
<1>0. TypeInv /\ Distinct(row) /\ StreamInv /\ CacheInv /\ DirtyInv /\ TagInv
  BY DEF KeptInv, OwnerInv, FolderInv
<1>1. /\ TypeInv' /\ row' = row /\ fh' = fh /\ d \in Dirs /\ IsOpen(h) /\ Shown(h) # {}
      /\ i \in Shown(h) /\ \A j \in Shown(h) : PosOf(d, i) <= PosOf(d, j)
      /\ handle'[h].dir = d /\ \A k \in Handles : k # h => handle'[k] = handle[k]
      /\ handle'[h].off = PosOf(d, i) + 1
      /\ handle'[h].overtaken = (handle[h].overtaken /\ handle[h].off > 0)
      /\ d # "tag" => handle'[h].map = [m \in DOMAIN MapAt(h) \cup {row[i].name} |->
                            IF m = row[i].name THEN i ELSE MapAt(h)[m]]
      /\ \A e \in Dirs : e # d => cache'[e] = cache[e]
      /\ ~adds => cache'[d] = cache[d]
      /\ ~cache[d].full
  BY <1>0, ReaddirFacts DEF Moved
<1>2. adds => /\ cache'[d].list = Append(cache[d].list, row[i].name)
              /\ cache'[d].pos = PosOf(d, i) + 1 /\ cache'[d].full = cache[d].full
              /\ cache'[d].patchy = (cache[d].patchy \/ handle'[h].overtaken)
  BY <1>0, ReaddirFacts
<1>3. SameFolder(row, row')
  BY <1>1, SameRefl
<1> HIDE DEF i, adds
<1>4. Distinct(row') /\ DirtyInv'
  BY <1>0, <1>1 DEF DirtyInv
<1>5. TagInv'
  <2>1. ASSUME "tag" \in Dirs PROVE cache'["tag"] = cache["tag"]
    <3>1. CASE d = "tag"
      BY <1>1, <3>1 DEF adds, Kept
    <3>2. CASE d # "tag"
      BY <1>1, <2>1, <3>2
    <3> QED
      BY <3>1, <3>2
  <2> QED
    BY <1>0, <2>1, TagStep
<1>6. CASE d # "folder"
  <2>1. StreamRight(row', handle'[h])
    BY <1>1, <1>6, StreamFree
  <2>2. StreamInv'
    BY <1>0, <1>1, <1>3, <2>1, StreamStep
  <2>3. cache'["folder"] = cache["folder"] /\ row \in RowsType
    BY <1>0, <1>1, <1>6, DirAssumption DEF TypeInv
  <2>4. CacheInv'
    BY <1>0, <1>1, <1>3, <2>3, CacheSame
  <2> QED
    BY <1>4, <1>5, <2>2, <2>4 DEF FolderInv
<1>7. CASE d = "folder"
  <2> DEFINE w == [m \in DOMAIN MapAt(h) \cup {row[i].name} |->
                        IF m = row[i].name THEN i ELSE MapAt(h)[m]]
             p == row[i].pos + 1
             off == handle[h].off
  <2>0. /\ row \in RowsType /\ off \in Nat /\ handle[h].overtaken \in BOOLEAN
        /\ cache \in CachesType /\ "folder" \in Dirs
    BY <1>0, <1>1, HandleFacts, DirAssumption DEF TypeInv
  <2>1. /\ handle'[h].map = w /\ handle'[h].off = p
        /\ \A j \in Shown(h) : row[i].pos <= row[j].pos
    BY <1>1, <1>7, PosIs
  <2>2. ASSUME ~handle'[h].overtaken
        PROVE  /\ i \in FolderOf(row) /\ i \in VisOf(row) /\ row[i].name \in Names
               /\ \A j \in VisTo(row, off) : row[j].pos < row[i].pos
               /\ VisTo(row, p) = VisTo(row, off) \cup {i} /\ MapRight(row, w, p)
    <3>1. off > 0 => ~handle[h].overtaken
      BY <1>1, <2>2, Zenon
    <3>2. MapRight(row, MapAt(h), off)
      BY <1>0, <1>1, <1>7, <3>1, MapAtRight
    <3> QED
      BY <1>0, <1>1, <1>7, <2>0, <2>1, <3>2, NextShown
  <2> HIDE DEF w, p, off
  <2>3. StreamRight(row', handle'[h])
    BY <1>1, <2>1, <2>2 DEF StreamRight
  <2>4. StreamInv'
    BY <1>0, <1>1, <1>3, <2>3, StreamStep
  <2>5. CASE ~adds
    <3>1. cache'["folder"] = cache["folder"]
      BY <1>1, <1>7, <2>5
    <3>2. CacheInv'
      BY <1>0, <1>1, <1>3, <2>0, <3>1, CacheSame
    <3> QED
      BY <1>4, <1>5, <2>4, <3>2 DEF FolderInv
  <2>6. CASE adds
    <3> DEFINE c == cache["folder"]
               e == cache'["folder"]
    <3>1. /\ e.list = Append(c.list, row[i].name) /\ e.pos = p /\ off = c.pos
      BY <1>2, <1>7, <2>6, PosIs DEF adds, p, off
    <3>2. e.full = c.full /\ ~c.full
      BY <1>1, <1>2, <1>7, <2>6
    <3>3. e.patchy = (c.patchy \/ handle'[h].overtaken)
      BY <1>2, <1>7, <2>6
    <3>4. ASSUME ~e.patchy, ~fh'["folder"].dirty PROVE CacheRight(row', e)
      <4>1. ~c.patchy /\ ~handle'[h].overtaken /\ ~fh["folder"].dirty
        BY <1>1, <3>3, <3>4
      <4>2. CacheRight(row, c)
        BY <1>0, <4>1 DEF CacheInv
      <4> DEFINE V == VisTo(row, off)
      <4>3. c.list = ListOf(row, V) /\ c.list \in Seq(Names)
        BY <2>0, <3>1, <4>2, CacheFacts DEF CacheRight
      <4>4. V \in SUBSET FolderOf(row)
        BY DEF VisTo, VisOf
      <4>5. /\ i \in FolderOf(row) /\ row[i].name \in Names
            /\ \A j \in V : row[j].pos < row[i].pos
        BY <2>2, <4>1
      <4>9. VisTo(row, p) = V \cup {i}
        BY <2>2, <4>1
      <4> HIDE DEF V
      <4>6. ListOf(row, V \cup {i}) = Append(ListOf(row, V), row[i].name)
        BY <2>0, <4>3, <4>4, <4>5, ListAppend
      <4> HIDE DEF c, e
      <4>7. e.list = ListOf(row, VisTo(row, e.pos))
        BY <3>1, <4>3, <4>9, <4>6
      <4>8. ~e.full
        BY <3>2
      <4> QED
        BY <1>1, <4>7, <4>8 DEF CacheRight
    <3>5. CacheInv'
      BY <3>4 DEF CacheInv
    <3> QED
      BY <1>4, <1>5, <2>4, <3>5 DEF FolderInv
  <2> QED
    BY <2>5, <2>6
<1> QED
  BY <1>6, <1>7

\* The end of the stream: no visible row is left.
LEMMA ReaddirEndKept ==
    ASSUME KeptInv, NEW h \in Handles, NEW error \in BOOLEAN, ReaddirEnd(h, error)
    PROVE  FolderInv'
<1> DEFINE d == handle[h].dir
<1>0. TypeInv /\ Distinct(row) /\ StreamInv /\ CacheInv /\ DirtyInv /\ TagInv
  BY DEF KeptInv, OwnerInv, FolderInv
<1>1. /\ row' = row /\ fh' = fh /\ d \in Dirs /\ IsOpen(h) /\ Shown(h) = {}
      /\ handle'[h].dir = d /\ \A k \in Handles : k # h => handle'[k] = handle[k]
      /\ handle'[h].off = handle[h].off /\ handle'[h].map = MapAt(h)
      /\ handle'[h].overtaken = handle[h].overtaken
      /\ \A e \in Dirs : e # d => cache'[e] = cache[e]
  BY <1>0, ReaddirEndFacts DEF Moved
<1>2. \/ cache'[d] = cache[d]
      \/ /\ Kept(d) /\ handle[h].off = cache[d].pos
         /\ cache'[d].list = cache[d].list /\ cache'[d].pos = cache[d].pos
         /\ cache'[d].patchy = (cache[d].patchy \/ handle[h].overtaken)
  BY <1>0, ReaddirEndFacts
<1>3. SameFolder(row, row')
  BY <1>1, SameRefl
<1>4. Distinct(row') /\ DirtyInv'
  BY <1>0, <1>1 DEF DirtyInv
<1>5. TagInv'
  <2>1. ASSUME "tag" \in Dirs PROVE cache'["tag"] = cache["tag"]
    <3>1. CASE d = "tag"
      BY <1>2, <3>1 DEF Kept
    <3>2. CASE d # "tag"
      BY <1>1, <2>1, <3>2
    <3> QED
      BY <3>1, <3>2
  <2> QED
    BY <1>0, <2>1, TagStep
<1>6. StreamInv'
  <2>1. handle[h].off \in Nat /\ StreamRight(row, handle[h])
    BY <1>0, <1>1, HandleFacts DEF TypeInv, StreamInv
  <2>2. CASE handle[h].off = 0
    <3>1. StreamRight(row', handle'[h])
      BY <1>1, <2>2, StreamFree
    <3> QED
      BY <1>0, <1>1, <1>3, <3>1, StreamStep
  <2>3. CASE handle[h].off # 0
    <3>1. handle'[h].map = handle[h].map
      BY <1>1, <2>3 DEF MapAt
    <3>2. StreamRight(row', handle'[h])
      BY <1>1, <1>3, <2>1, <3>1, StreamSame
    <3> QED
      BY <1>0, <1>1, <1>3, <3>2, StreamStep
  <2> QED
    BY <2>2, <2>3
<1>7. CASE cache'["folder"] = cache["folder"]
  <2>1. CacheInv'
    BY <1>0, <1>1, <1>3, <1>7, CacheSame DEF TypeInv
  <2> QED
    BY <1>4, <1>5, <1>6, <2>1 DEF FolderInv
<1>8. CASE cache'["folder"] # cache["folder"]
  <2> DEFINE c == cache["folder"]
             e == cache'["folder"]
  <2>1. d = "folder"
    BY <1>1, <1>8, DirAssumption
  <2>2. /\ handle[h].off = c.pos /\ e.list = c.list /\ e.pos = c.pos
        /\ e.patchy = (c.patchy \/ handle[h].overtaken)
    BY <1>2, <1>8, <2>1
  <2>3. ASSUME ~e.patchy, ~fh'["folder"].dirty PROVE CacheRight(row', e)
    <3>1. ~c.patchy /\ ~handle[h].overtaken /\ ~fh["folder"].dirty
      BY <1>1, <2>2, <2>3
    <3>2. CacheRight(row, c)
      BY <1>0, <3>1 DEF CacheInv
    <3>3. MapRight(row, MapAt(h), handle[h].off)
      BY <1>0, <1>1, <2>1, <3>1, MapAtRight
    <3>4. handle[h].off \in Nat
      BY <1>0, <1>1, HandleFacts DEF TypeInv
    <3>5. \A i \in VisOf(row) : row[i].pos >= handle[h].off => i \in Shown(h)
      BY <1>0, <2>1, <3>3, <3>4, ShownFacts
    <3>6. \A i \in VisOf(row) : row[i].pos \in Nat
      BY <1>0, FolderFacts DEF TypeInv
    <3>7. \A i \in VisOf(row) : row[i].pos < handle[h].off
      BY <1>1, <3>4, <3>5, <3>6
    <3> HIDE DEF c, e
    <3> QED
      BY <1>1, <2>2, <3>2, <3>7 DEF CacheRight
  <2>4. CacheInv'
    BY <2>3 DEF CacheInv
  <2> QED
    BY <1>4, <1>5, <1>6, <2>4 DEF FolderInv
<1> QED
  BY <1>7, <1>8

\* inval_dir(): in exclusive mode, what was changed behind the kernel's back is
\* dropped before it is forgotten that it was changed.
LEMMA InvalKept ==
    ASSUME Exclusive, TypeInv, CacheInv, DirtyInv, TagInv, TypeInv', row' = row,
           NEW d \in Dirs, NEW left \in FhType, left \in {fh[d], NoFh}, InvalDir(d, left)
    PROVE  CacheInv' /\ DirtyInv' /\ TagInv'
<1>1. /\ FhStep(d, fh') /\ (fh'[d].dirty => left.dirty /\ ~Flush(d))
      /\ \A e \in Dirs : cache'[e] = cache[e] \/ cache'[e] = Empty
      /\ Flush(d) /\ d # "bookmarks" => cache'[d] = Empty
      /\ \A e \in Dirs : e # d => cache'[e] = cache[e]
      /\ ~Flush(d) => fh'[d].dirty = left.dirty
  BY InvalFacts DEF TypeInv
<1>2. left.dirty => fh[d].dirty
  BY DEF NoFh
<1>3. DirtyInv' /\ TagInv'
  BY <1>1, <1>2, DirtyStep, TagStep
<1>4. "folder" \in Dirs /\ row \in RowsType /\ SameFolder(row, row')
  BY DirAssumption, SameRefl DEF TypeInv
<1>5. CASE d # "folder"
  <2>1. cache'["folder"] = cache["folder"] /\ fh'["folder"] = fh["folder"]
    BY <1>1, <1>4, <1>5 DEF FhStep
  <2> QED
    BY <1>3, <1>4, <2>1, CacheSame
<1>6. CASE d = "folder" /\ Flush(d)
  <2>1. cache'["folder"] = Empty
    BY <1>1, <1>6
  <2> QED
    BY <1>3, <2>1, CacheEmpty
<1>7. CASE d = "folder" /\ ~Flush(d)
  <2>1. ~fh["folder"].dirty
    BY <1>4, <1>7 DEF Flush, DirtyInv
  <2>2. CASE cache'["folder"] = cache["folder"]
    BY <1>3, <1>4, <2>1, <2>2, CacheSame
  <2>3. CASE cache'["folder"] = Empty
    BY <1>3, <2>3, CacheEmpty
  <2> QED
    BY <1>1, <1>4, <2>2, <2>3
<1> QED
  BY <1>5, <1>6, <1>7

LEMMA KeptInit == Init => KeptInv
<1> SUFFICES ASSUME Init PROVE KeptInv
  OBVIOUS
<1>1. OwnerInv /\ TypeInv /\ Distinct(row)
  BY OwnerInit, TypeInit, DistinctInit
<1>2. /\ handle = [h \in Handles |-> Closed] /\ fh = [d \in Dirs |-> NoFh]
      /\ cache = [d \in Dirs |-> Empty] /\ "folder" \in Dirs
  BY DirAssumption DEF Init
<1>3. StreamInv
  <2>1. \A h \in Handles : handle[h].dir # "folder"
    BY <1>2 DEF Closed
  <2> QED
    BY <2>1, StreamFree DEF StreamInv
<1>4. CacheInv
  <2>1. cache["folder"] = Empty /\ row \in RowsType
    BY <1>1, <1>2 DEF TypeInv
  <2>2. CacheRight(row, Empty)
    BY <2>1, EmptyRight
  <2> QED
    BY <2>1, <2>2 DEF CacheInv
<1>5. DirtyInv /\ TagInv
  BY <1>2 DEF DirtyInv, TagInv, NoFh, Empty
<1> QED
  BY <1>1, <1>3, <1>4, <1>5 DEF KeptInv, FolderInv

LEMMA KeptNext ==
    ASSUME Exclusive
    PROVE  KeptInv /\ [Next]_vars => KeptInv'
<1> SUFFICES ASSUME KeptInv, [Next]_vars PROVE FolderInv'
  BY OwnerNext DEF KeptInv
<1>0. /\ OwnerInv /\ TypeInv /\ Distinct(row) /\ StreamInv /\ CacheInv /\ DirtyInv
      /\ TagInv /\ row \in RowsType /\ "folder" \in Dirs
  BY DirAssumption DEF KeptInv, OwnerInv, FolderInv, TypeInv
<1>1. ASSUME NEW h \in Handles, NEW d \in Dirs, Opendir(h, d) PROVE FolderInv'
  <2>1. /\ row' = row /\ cache' = cache /\ handle'[h].off = 0
        /\ \A k \in Handles : k # h => handle'[k] = handle[k]
        /\ FhStep(d, fh') /\ fh'[d].dirty = fh[d].dirty
    BY <1>0, <1>1, OpendirFacts
  <2>2. SameFolder(row, row')
    BY <2>1, SameRefl
  <2>3. StreamInv'
    BY <1>0, <2>1, <2>2, StreamFree, StreamStep
  <2>4. CacheInv'
    BY <1>0, <2>1, <2>2, CacheSame DEF FhStep
  <2> QED
    BY <1>0, <2>1, <2>2, <2>3, <2>4, DistinctSame, DirtyStep, TagStep DEF FolderInv
<1>2. ASSUME NEW h \in Handles, Readdir(h) PROVE FolderInv'
  BY <1>2, ReaddirKept
<1>3. ASSUME NEW h \in Handles, NEW error \in BOOLEAN, ReaddirEnd(h, error) PROVE FolderInv'
  BY <1>3, ReaddirEndKept
<1>4. ASSUME NEW h \in Handles, Rewinddir(h) PROVE FolderInv'
  <2>1. /\ row' = row /\ fh' = fh /\ cache' = cache /\ handle'[h].off = 0
        /\ \A k \in Handles : k # h => handle'[k] = handle[k]
    BY <1>0, <1>4, RewinddirFacts DEF Moved
  <2>2. SameFolder(row, row')
    BY <2>1, SameRefl
  <2>3. StreamInv'
    BY <1>0, <2>1, <2>2, StreamFree, StreamStep
  <2>4. CacheInv'
    BY <1>0, <2>1, <2>2, CacheSame
  <2> QED
    BY <1>0, <2>1, <2>3, <2>4 DEF FolderInv, DirtyInv, TagInv
<1>5. ASSUME NEW h \in Handles, Fsyncdir(h) PROVE FolderInv'
  <2> DEFINE d == handle[h].dir
  <2>1. /\ TypeInv' /\ row' = row /\ handle' = handle /\ d \in Dirs
        /\ InvalDir(d, fh[d]) /\ fh[d] \in FhType
    BY <1>0, <1>5, FsyncdirFacts
  <2>2. CacheInv' /\ DirtyInv' /\ TagInv'
    BY <1>0, <2>1, InvalKept
  <2> QED
    BY <1>0, <2>1, <2>2 DEF FolderInv, StreamInv
<1>6. ASSUME NEW h \in Handles, Freedir(h) PROVE FolderInv'
  <2> DEFINE d == handle[h].dir
  <2>0. fh[d].refcount > 0
    BY <1>0, <1>6, OwnedCount DEF Freedir
  <2>1. /\ TypeInv' /\ row' = row /\ d \in Dirs /\ handle'[h].dir = "none"
        /\ \A k \in Handles : k # h => handle'[k] = handle[k]
        /\ FhStep(d, fh')
    BY <1>0, <1>6, <2>0, FreedirFacts
  <2>2. \/ fh'[d].dirty = fh[d].dirty /\ cache' = cache
        \/ InvalDir(d, NoFh)
    BY <1>0, <1>6, <2>0, FreedirFacts
  <2>3. SameFolder(row, row')
    BY <2>1, SameRefl
  <2>4. StreamInv'
    BY <1>0, <2>1, <2>3, StreamFree, StreamStep
  <2>5. CASE fh'[d].dirty = fh[d].dirty /\ cache' = cache
    <3>1. CacheInv'
      BY <1>0, <2>1, <2>3, <2>5, CacheSame DEF FhStep
    <3> QED
      BY <1>0, <2>1, <2>3, <2>4, <2>5, <3>1, DistinctSame, DirtyStep, TagStep DEF FolderInv
  <2>6. CASE InvalDir(d, NoFh)
    <3>1. CacheInv' /\ DirtyInv' /\ TagInv'
      BY <1>0, <2>1, <2>6, NoFhIn, InvalKept
    <3> QED
      BY <1>0, <2>1, <2>3, <2>4, <3>1, DistinctSame DEF FolderInv
  <2> QED
    BY <2>2, <2>5, <2>6
<1>7. ASSUME NEW h \in Handles, FsckRewind(h) \/ FsckNext(h) PROVE FolderInv'
  <2> DEFINE d == handle[h].dir
  <2>1. /\ row' = row /\ cache' = cache /\ d \in Dirs
        /\ \A k \in Handles : k # h => handle'[k] = handle[k]
        /\ handle'[h].off = handle[h].off
        /\ handle'[h].overtaken = (handle[h].off > 0)
        /\ FhStep(d, fh') /\ fh'[d].dirty = fh[d].dirty
    BY <1>0, <1>7, FsckRewindFacts, FsckNextFacts DEF Moved
  <2>2. SameFolder(row, row')
    BY <2>1, SameRefl
  <2>3. StreamRight(row', handle'[h])
    BY <2>1, StreamFree
  <2>4. StreamInv'
    BY <1>0, <2>1, <2>2, <2>3, StreamStep
  <2>5. CacheInv'
    BY <1>0, <2>1, <2>2, CacheSame DEF FhStep
  <2> QED
    BY <1>0, <2>1, <2>2, <2>4, <2>5, DistinctSame, DirtyStep, TagStep DEF FolderInv
<1>8. ASSUME NEW h \in Handles, NEW i \in 1 .. MaxId, NEW n \in Names, FsckApply(h, i, n)
      PROVE  FolderInv'
  <2> DEFINE d == handle[h].dir
  <2>1. /\ cache' = cache /\ d \in Dirs /\ d # "tag" /\ i \in RowsOf(d)
        /\ row' = [row EXCEPT ![i].name = n] /\ Overtook(d, handle')
        /\ FhStep(d, fh') /\ fh'[d].dirty = TRUE /\ ~Readonly
    BY <1>0, <1>8, FsckApplyFacts DEF FsckApply
  <2>2. d \in {"bookmarks", "folder"}
    BY <2>1, DirAssumption
  <2>3. Distinct(row') /\ (d # "folder" => SameFolder(row, row'))
    BY <1>0, <2>1, <2>2, ApplyRows
  <2>4. StreamInv'
    BY <1>0, <2>1, <2>3, StreamOvertook
  <2>5. CacheInv'
    <3>1. CASE d = "folder"
      BY <2>1, <3>1, CacheDirty
    <3>2. CASE d # "folder"
      BY <1>0, <2>1, <2>3, <3>2, CacheSame DEF FhStep
    <3> QED
      BY <3>1, <3>2
  <2> QED
    BY <1>0, <2>1, <2>3, <2>4, <2>5, DirtyStep, TagStep DEF FolderInv
<1>9. ASSUME NEW h \in Handles, NEW i \in 1 .. MaxId, FsckApplyAgain(h, i)
      PROVE  FolderInv'
  <2> DEFINE d == handle[h].dir
  <2>1. /\ row' = row /\ cache' = cache /\ d \in Dirs
        /\ \A k \in Handles : k # h => handle'[k] = handle[k]
        /\ handle'[h].dir = handle[h].dir /\ handle'[h].off = handle[h].off
        /\ handle'[h].overtaken = handle[h].overtaken
        /\ handle'[h].map = handle[h].map
        /\ FhStep(d, fh') /\ fh'[d].dirty = TRUE /\ ~Readonly
    BY <1>0, <1>9, FsckApplyAgainFacts DEF Moved, FsckApplyAgain
  <2>2. SameFolder(row, row')
    BY <2>1, SameRefl
  <2>3. StreamRight(row', handle'[h])
    BY <1>0, <2>1, <2>2, StreamSame DEF StreamInv
  <2>4. StreamInv'
    BY <1>0, <2>1, <2>2, <2>3, StreamStep
  <2>5. CacheInv'
    <3>1. CASE d = "folder"
      BY <2>1, <3>1, CacheDirty
    <3>2. CASE d # "folder"
      BY <1>0, <2>1, <2>2, <3>2, CacheSame DEF FhStep
    <3> QED
      BY <3>1, <3>2
  <2> QED
    BY <1>0, <2>1, <2>2, <2>4, <2>5, DistinctSame, DirtyStep, TagStep DEF FolderInv
<1>10. ASSUME NEW h \in Handles, NEW m \in Names, NEW n \in Names, Permd(h, m, n)
       PROVE  FolderInv'
  <2> DEFINE d == handle[h].dir
             i == Lookup(d, m)
             j == Lookup(d, n)
  <2>1. /\ cache' = cache /\ d \in Dirs /\ d # "tag" /\ i \in RowsOf(d)
        /\ j \in RowsOf(d) /\ i # j
        /\ Swapped(i, j) /\ Overtook(d, handle')
        /\ FhStep(d, fh') /\ fh'[d].dirty = TRUE
    BY <1>0, <1>10, PermdFacts
  <2>6. ~Readonly
    BY <1>10 DEF Permd
  <2>2. d \in {"bookmarks", "folder"}
    BY <2>1, DirAssumption
  <2>3. Distinct(row') /\ (d # "folder" => SameFolder(row, row'))
    BY <1>0, <2>1, <2>2, PermdRows
  <2>4. StreamInv'
    BY <1>0, <2>1, <2>3, StreamOvertook
  <2>5. CacheInv'
    <3>1. CASE d = "folder"
      BY <2>1, <3>1, CacheDirty
    <3>2. CASE d # "folder"
      BY <1>0, <2>1, <2>3, <3>2, CacheSame DEF FhStep
    <3> QED
      BY <3>1, <3>2
  <2> QED
    BY <1>0, <2>1, <2>3, <2>4, <2>5, <2>6, DirtyStep, TagStep DEF FolderInv
<1>11. ASSUME NEW n \in Names, Create(n) PROVE FolderInv'
  <2>1. /\ TypeInv' /\ fh' = fh /\ Overtook("folder", handle') /\ cache'["folder"] = Empty
        /\ \A e \in Dirs : e # "folder" => cache'[e] = cache[e]
    BY <1>0, <1>11, CreateFacts
  <2>2. Distinct(row')
    BY <1>0, <1>11, CreateFacts, CreateRows
  <2> QED
    BY <1>0, <2>1, <2>2, StreamOvertook, CacheEmpty, TagStep DEF FolderInv, DirtyInv
<1>12. ASSUME NEW n \in Names, Delete(n) PROVE FolderInv'
  <2>1. /\ TypeInv' /\ fh' = fh /\ Overtook("folder", handle') /\ cache'["folder"] = Empty
        /\ \A e \in Dirs : e # "folder" => cache'[e] = cache[e]
    BY <1>0, <1>12, DeleteFacts
  <2>2. Distinct(row')
    BY <1>0, <1>12, DeleteFacts, DeleteRows
  <2> QED
    BY <1>0, <2>1, <2>2, StreamOvertook, CacheEmpty, TagStep DEF FolderInv, DirtyInv
<1>13. ASSUME NEW m \in Names, NEW n \in Names, Rename(m, n) PROVE FolderInv'
  <2>1. /\ TypeInv' /\ fh' = fh /\ Overtook("folder", handle') /\ cache'["folder"] = Empty
        /\ \A e \in Dirs : e # "folder" => cache'[e] = cache[e]
    BY <1>0, <1>13, RenameFacts
  <2>2. Distinct(row')
    BY <1>0, <1>13, RenameFacts, RenameRows
  <2> QED
    BY <1>0, <2>1, <2>2, StreamOvertook, CacheEmpty, TagStep DEF FolderInv, DirtyInv
<1>14. ASSUME UNCHANGED vars PROVE FolderInv'
  BY <1>0, <1>14 DEF vars, FolderInv, StreamInv, CacheInv, DirtyInv, TagInv
<1> QED
  BY <1>1, <1>2, <1>3, <1>4, <1>5, <1>6, <1>7, <1>8, <1>9, <1>10, <1>11, <1>12,
     <1>13, <1>14 DEF Next

LEMMA CurrentImplied == KeptInv => KeptIsCurrent
<1> SUFFICES ASSUME KeptInv, NEW d \in Dirs \ {"bookmarks"}, cache[d].full,
                    ~cache[d].patchy, ~fh[d].dirty
             PROVE  cache[d].list = Listing(d)
  BY DEF KeptIsCurrent
<1>1. d = "folder"
  BY DirAssumption DEF KeptInv, FolderInv, TagInv
<1>2. row \in RowsType /\ Distinct(row) /\ CacheRight(row, cache["folder"])
  BY <1>1 DEF KeptInv, OwnerInv, TypeInv, FolderInv, CacheInv
<1>3. VisTo(row, cache["folder"].pos) = VisOf(row)
  BY <1>1, <1>2 DEF CacheRight, VisTo
<1>4. Listing("folder") = ListOf(row, VisOf(row))
  BY <1>2, ListingIs
<1> QED
  BY <1>1, <1>2, <1>3, <1>4 DEF CacheRight

\* In exclusive mode, what the kernel keeps of a directory are its entries, in their
\* order, whatever the number of rows, of open descriptions and of changes, unless
\* a permutation or a repair is still to be flushed (inval_dir()).
THEOREM KeptEntriesAreCurrent ==
    ASSUME Exclusive
    PROVE  Spec => []KeptIsCurrent
BY KeptInit, KeptNext, CurrentImplied, PTL DEF Spec
=============================================================================
