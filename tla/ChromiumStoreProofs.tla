------------------------- MODULE ChromiumStoreProofs --------------------------
(***************************************************************************)
(* Proofs about ChromiumStore, for every number of ids, names and GUIDs:   *)
(* the document is a tree, the three maps are what it says, and a stream   *)
(* returns each entry once.                                                *)
(***************************************************************************)
EXTENDS ChromiumStore, Integers, FiniteSetTheorems, SequenceTheorems, TLAPS

Titles == Names \cup {BadName, NoName, "bar", "other"}

GuidType == Guids \cup {NoGuid, "bar", "other"}

NodesOf(K) == UNION {K[p] : p \in Ids}

\* What a folder has in a document.
KidsOf(ch) == [p \in Ids |-> ToSet(ch[p])]
-----------------------------------------------------------------------------
(***************************************************************************)
(* The inductive invariant.                                                *)
(***************************************************************************)
\* The document: every node is in one folder, the root in none, and no set of
\* nodes keeps to itself.
Tree(K) ==
    /\ K \in [Ids -> SUBSET (Ids \ {Root})]
    /\ \A p, q \in Ids : \A i \in K[p] \cap K[q] : p = q
    /\ \A S \in SUBSET NodesOf(K) : S # {} => \E p \in Ids \ S : K[p] \cap S # {}

DocInv ==
    /\ children \in [Ids -> Seq(Ids)]
    /\ \A p \in Ids : IsInjective(children[p])
    /\ Tree(KidsOf(children))
    /\ title \in [Ids -> Titles] /\ guid \in [Ids -> GuidType] /\ folders \subseteq Ids

\* id_map: its entries are nodes, in their folders.  It lacks the nodes that a
\* rename has replaced, and these are empty.  No node has an id that is still to
\* be given away.
MapInv ==
    /\ maxId \in Ids /\ NodesOf(KidsOf(children)) \subseteq 1 .. maxId
    /\ parent \in [DOMAIN parent -> Ids]
    /\ DOMAIN parent \subseteq {Root} \cup NodesOf(KidsOf(children))
    /\ Root \in DOMAIN parent /\ parent[Root] = Root
    /\ \A i \in DOMAIN parent \ {Root} : i \in KidsOf(children)[parent[i]]
    /\ \A p \in Ids : children[p] # <<>> => p \in folders \cap DOMAIN parent
    /\ Root \in shown /\ shown \subseteq DOMAIN parent
    /\ \A i \in shown \ {Root} : parent[i] \in shown

\* assoc_map: what has a name can be found by it, and by nothing else, but for
\* the names that fsck_apply() has given.
Hashed(i) == <<parent[i], title[i], i>>

AssocInv ==
    /\ repaired \subseteq Ids \X Names
    /\ \A i \in shown \ {Root} : title[i] # BadName
    /\ assoc \subseteq Ids \X Titles \X (shown \ {Root})
    /\ \A t \in assoc : t = Hashed(t[3]) \/ <<parent[t[3]], title[t[3]]>> \in repaired
    /\ \A i \in shown \ {Root} :
            Hashed(i) \in assoc \/ <<parent[i], title[i]>> \in repaired
    /\ \A i, j \in shown \ {Root} :
            parent[i] = parent[j] /\ title[i] = title[j] =>
                i = j \/ <<parent[i], title[i]>> \in repaired

\* guid_map.
GuidInv ==
    /\ guids = {<<guid[i], i>> : i \in DOMAIN parent \ {Root}}
    /\ \A i, j \in DOMAIN parent \ {Root} : guid[i] = guid[j] => i = j

\* The stream: what stays in its directory is in the copy of its children, once.
StreamInv ==
    /\ stream.snap \in Seq(Ids) /\ stream.off \in 0 .. Len(stream.snap)
    /\ stream = [dir |-> stream.dir, snap |-> stream.snap, off |-> stream.off]
    /\ DOMAIN stay \subseteq shown \ {Root}
    /\ \A i \in DOMAIN stay :
            /\ parent[i] = stream.dir
            /\ \E k \in DOMAIN stream.snap :
                    /\ \A l \in DOMAIN stream.snap : stream.snap[l] = i <=> l = k
                    /\ stay[i] = IF k <= stream.off THEN 1 ELSE 0

StoreInv == DocInv /\ MapInv /\ AssocInv /\ GuidInv /\ StreamInv /\ FoldersStamped
-----------------------------------------------------------------------------
(***************************************************************************)
(* Sets of ids that can be reached.  The recursive functions of Below and  *)
(* ShownIn exist, and their last value is closed: as long as a value is    *)
(* not, the next one is larger, and there are no more values than ids.     *)
(***************************************************************************)
\* A set of naturals has a least element.
LEMMA NatMin ==
    ASSUME NEW T, T \subseteq Nat, T # {}
    PROVE  \E x \in T : \A y \in T : x <= y
<1>1. IsWellFoundedOn(OpToRel(<, Nat), Nat)
  BY NatLessThanWellFounded
<1>2. PICK x \in T : \A y \in T : ~(<<y, x>> \in OpToRel(<, Nat))
  BY <1>1, WFMin
<1>3. \A y \in T : ~(y < x)
  BY <1>2 DEF OpToRel
<1> QED
  BY <1>3

\* R are the edges.
After(R, A) == A \cup {y \in Ids : \E x \in A : <<x, y>> \in R}

IsReach(R, i, f, N) ==
    f = [n \in 0 .. N |-> IF n = 0 THEN {i} ELSE After(R, f[n - 1])]

LEMMA ReachExists ==
    ASSUME NEW R, NEW i, NEW N \in Nat
    PROVE  \E f : IsReach(R, i, f, N)
<1> DEFINE T == {n \in Nat : ~\E f : IsReach(R, i, f, n)}
<1> SUFFICES ASSUME T # {} PROVE FALSE
  OBVIOUS
<1>1. PICK n \in T : \A m \in T : n <= m
  BY NatMin
<1>2. n # 0
  <2>1. IsReach(R, i, [m \in 0 .. 0 |-> {i}], 0)
    BY DEF IsReach
  <2> QED
    BY <1>1, <2>1
<1>3. n - 1 \in Nat /\ n - 1 \notin T
  BY <1>1, <1>2
<1>4. PICK f : IsReach(R, i, f, n - 1)
  BY <1>3
<1> DEFINE g == [m \in 0 .. n |-> IF m = n THEN After(R, f[n - 1]) ELSE f[m]]
<1>5. IsReach(R, i, g, n)
  <2>1. \A m \in 0 .. n - 1 : f[m] = IF m = 0 THEN {i} ELSE After(R, f[m - 1])
    BY <1>4 DEF IsReach
  <2>2. ASSUME NEW m \in 0 .. n
        PROVE  g[m] = IF m = 0 THEN {i} ELSE After(R, g[m - 1])
    <3>1. CASE m = n
      <4>1. g[n] = After(R, f[n - 1]) /\ g[n - 1] = f[n - 1]
        BY <1>2, <1>3
      <4> QED
        BY <1>2, <3>1, <4>1
    <3>2. CASE m # n
      <4>1. m \in 0 .. n - 1 /\ g[m] = f[m]
        BY <3>2
      <4>2. m # 0 => g[m - 1] = f[m - 1]
        BY <3>2
      <4> HIDE DEF g
      <4> QED
        BY <2>1, <4>1, <4>2
    <3> QED
      BY <3>1, <3>2
  <2> QED
    BY <2>2 DEF IsReach
<1> QED
  BY <1>1, <1>5

Closed(R, A) == \A x \in A, y \in Ids : <<x, y>> \in R => y \in A

LEMMA IdsFinite ==
    /\ MaxId \in Nat /\ MaxId >= 4
    /\ IsFiniteSet(Ids) /\ Cardinality(Ids) = MaxId + 1
<1>1. MaxId \in Nat /\ MaxId >= 4
  BY IdAssumption
<1>2. IsFiniteSet(0 .. MaxId) /\ Cardinality(0 .. MaxId) = MaxId - 0 + 1
  BY <1>1, FS_Interval
<1> QED
  BY <1>1, <1>2 DEF Ids

\* What can be reached in MaxId steps is the smallest closed set.
LEMMA ReachClosed ==
    ASSUME NEW R, NEW i \in Ids, NEW f, IsReach(R, i, f, MaxId)
    PROVE  /\ i \in f[MaxId] /\ \A n \in 0 .. MaxId : f[n] \subseteq Ids
           /\ Closed(R, f[MaxId])
           /\ \A C : i \in C /\ Closed(R, C) => f[MaxId] \subseteq C
<1>1. f[0] = {i} /\ \A n \in 1 .. MaxId : f[n] = After(R, f[n - 1])
  <2>1. \A n \in 0 .. MaxId : f[n] = IF n = 0 THEN {i} ELSE After(R, f[n - 1])
    BY DEF IsReach
  <2> QED
    BY <2>1, IdsFinite
<1> DEFINE P(n) == /\ i \in f[n] /\ f[n] \subseteq Ids
                   /\ Closed(R, f[n]) \/ Cardinality(f[n]) >= n + 1
<1>2. P(0)
  <2>1. Cardinality({i}) = 1
    BY FS_Singleton
  <2> QED
    BY <1>1, <2>1
<1>3. ASSUME NEW n \in 1 .. MaxId, P(n - 1) PROVE P(n)
  <2>1. f[n] = After(R, f[n - 1])
    BY <1>1
  <2>2. i \in f[n] /\ f[n - 1] \subseteq f[n] /\ f[n] \subseteq Ids
    BY <1>3, <2>1 DEF After
  <2>3. CASE Closed(R, f[n - 1])
    <3>1. f[n] = f[n - 1]
      BY <1>3, <2>1, <2>3 DEF After, Closed
    <3>2. Closed(R, f[n])
      BY <2>3, <3>1
    <3> QED
      BY <2>2, <3>2
  <2>4. CASE ~Closed(R, f[n - 1])
    <3>1. PICK x \in f[n - 1], y \in Ids : <<x, y>> \in R /\ y \notin f[n - 1]
      BY <2>4 DEF Closed
    <3>2. y \in f[n]
      BY <2>1, <3>1 DEF After
    <3>3. IsFiniteSet(f[n]) /\ IsFiniteSet(f[n - 1])
      BY <1>3, <2>2, IdsFinite, FS_Subset
    <3>4. f[n - 1] # f[n]
      BY <3>1, <3>2
    <3>6. Cardinality(f[n - 1]) \in Nat /\ Cardinality(f[n]) \in Nat
      BY <3>3, FS_CardinalityType
    <3>5. Cardinality(f[n - 1]) < Cardinality(f[n])
      <4>1. f[n - 1] \in SUBSET f[n]
        BY <2>2
      <4>2. /\ Cardinality(f[n - 1]) <= Cardinality(f[n])
            /\ Cardinality(f[n - 1]) # Cardinality(f[n])
        BY <3>3, <3>4, <4>1, FS_Subset
      <4> QED
        BY <3>6, <4>2
    <3>7. Cardinality(f[n - 1]) >= n - 1 + 1
      BY <1>3, <2>4
    <3> QED
      BY <2>2, <3>5, <3>6, <3>7
  <2> QED
    BY <2>3, <2>4
<1> HIDE DEF P
<1>4. \A n \in 0 .. MaxId : P(n)
  <2> DEFINE T == {n \in 0 .. MaxId : ~P(n)}
  <2> SUFFICES ASSUME T # {} PROVE FALSE
    OBVIOUS
  <2>1. T \subseteq Nat
    BY IdsFinite
  <2>2. PICK n \in T : \A m \in T : n <= m
    BY <2>1, NatMin
  <2>3. n \in 0 .. MaxId /\ n # 0
    BY <1>2, <2>2
  <2>4. n - 1 \in 0 .. MaxId /\ n - 1 \notin T /\ n \in 1 .. MaxId
    BY <2>2, <2>3, IdsFinite
  <2> QED
    BY <1>3, <2>2, <2>4
<1>5. MaxId \in 0 .. MaxId
  BY IdsFinite
<1>6. i \in f[MaxId] /\ f[MaxId] \subseteq Ids
  BY <1>4, <1>5 DEF P
<1>7. Closed(R, f[MaxId])
  <2>0. Closed(R, Ids)
    BY DEF Closed
  <2> SUFFICES ASSUME Cardinality(f[MaxId]) >= MaxId + 1 PROVE f[MaxId] = Ids
    BY <1>4, <1>5, <2>0 DEF P
  <2> SUFFICES ASSUME f[MaxId] # Ids PROVE FALSE
    OBVIOUS
  <2>2. Cardinality(f[MaxId]) \in Nat
    BY <1>6, IdsFinite, FS_Subset, FS_CardinalityType
  <2>1. Cardinality(f[MaxId]) < Cardinality(Ids)
    <3>1. f[MaxId] \in SUBSET Ids
      BY <1>6
    <3>2. /\ Cardinality(f[MaxId]) <= Cardinality(Ids)
          /\ Cardinality(f[MaxId]) # Cardinality(Ids)
      BY <3>1, IdsFinite, FS_Subset
    <3> QED
      BY <2>2, <3>2, IdsFinite
  <2> QED
    BY <2>1, <2>2, IdsFinite
<1>8. ASSUME NEW C, i \in C, Closed(R, C) PROVE f[MaxId] \subseteq C
  <2> DEFINE T == {n \in 0 .. MaxId : ~(f[n] \subseteq C)}
  <2> SUFFICES ASSUME T # {} PROVE FALSE
    BY <1>5
  <2>1. T \subseteq Nat
    BY IdsFinite
  <2>2. PICK n \in T : \A m \in T : n <= m
    BY <2>1, NatMin
  <2>3. n \in 0 .. MaxId /\ n # 0
    <3>1. f[0] \subseteq C
      BY <1>1, <1>8
    <3> QED
      BY <2>2, <3>1
  <2>4. n - 1 \in 0 .. MaxId /\ n - 1 \notin T /\ n \in 1 .. MaxId
    BY <2>2, <2>3, IdsFinite
  <2>5. f[n - 1] \subseteq C
    BY <2>4
  <2>6. f[n] \subseteq C
    BY <1>1, <1>8, <2>4, <2>5 DEF After, Closed
  <2> QED
    BY <2>2, <2>6
<1>9. \A n \in 0 .. MaxId : f[n] \subseteq Ids
  BY <1>4 DEF P
<1> QED
  BY <1>6, <1>7, <1>8, <1>9

\* The edges of a document, and those that lead to what gets a name.
Edges(ch) == {e \in Ids \X Ids : e[2] \in ToSet(ch[e[1]])}

NamedIn(ch, nm, p) == {ch[p][k] : k \in {k \in DOMAIN ch[p] : Nameable(ch[p], nm, k)}}

NamedEdges(ch, nm) == {e \in Ids \X Ids : e[2] \in NamedIn(ch, nm, e[1])}

\* A recursive function whose step adds E[p] for each p is that of the edges.
Grows(E, i, f) ==
    f = [n \in 0 .. MaxId |-> IF n = 0 THEN {i}
                              ELSE f[n - 1] \cup UNION {E[p] : p \in f[n - 1]}]

LEMMA GrowthIsReach ==
    ASSUME NEW E, \A p \in Ids : E[p] \subseteq Ids, NEW i \in Ids,
           NEW R, R = {e \in Ids \X Ids : e[2] \in E[e[1]]}
    PROVE  /\ \E f : Grows(E, i, f)
           /\ \A f : Grows(E, i, f) => IsReach(R, i, f, MaxId)
<1>1. ASSUME NEW A, A \subseteq Ids
      PROVE  After(R, A) = A \cup UNION {E[p] : p \in A} /\ After(R, A) \subseteq Ids
  <2>1. \A x, y \in Ids : <<x, y>> \in R <=> y \in E[x]
    OBVIOUS
  <2>2. After(R, A) \subseteq Ids
    BY <1>1 DEF After
  <2>3. \A y : y \in After(R, A) <=> y \in A \/ \E x \in A : y \in E[x]
    BY <1>1, <2>1 DEF After
  <2> QED
    BY <2>2, <2>3
<1>2. \E f : Grows(E, i, f)
  <2>1. PICK f : IsReach(R, i, f, MaxId)
    BY ReachExists, IdsFinite
  <2>2. \A n \in 0 .. MaxId : f[n] \subseteq Ids
    BY <2>1, ReachClosed
  <2>3. \A n \in 0 .. MaxId : f[n] = IF n = 0 THEN {i} ELSE After(R, f[n - 1])
    BY <2>1 DEF IsReach
  <2>4. \A n \in 0 .. MaxId :
          f[n] = IF n = 0 THEN {i} ELSE f[n - 1] \cup UNION {E[p] : p \in f[n - 1]}
    <3> TAKE n \in 0 .. MaxId
    <3>1. n # 0 => n - 1 \in 0 .. MaxId
      BY IdsFinite
    <3> QED
      BY <1>1, <2>2, <2>3, <3>1
  <2>5. DOMAIN f = 0 .. MaxId /\ f = [n \in DOMAIN f |-> f[n]]
    BY <2>1 DEF IsReach
  <2>6. Grows(E, i, f)
    BY <2>4, <2>5 DEF Grows
  <2> QED
    BY <2>6
<1>3. ASSUME NEW f, Grows(E, i, f) PROVE IsReach(R, i, f, MaxId)
  <2>1. \A n \in 0 .. MaxId :
          f[n] = IF n = 0 THEN {i} ELSE f[n - 1] \cup UNION {E[p] : p \in f[n - 1]}
    BY <1>3 DEF Grows
  <2>2. \A n \in 0 .. MaxId : f[n] \subseteq Ids
    <3> DEFINE T == {n \in 0 .. MaxId : ~(f[n] \subseteq Ids)}
    <3> SUFFICES ASSUME T # {} PROVE FALSE
      OBVIOUS
    <3>1. T \subseteq Nat
      BY IdsFinite
    <3>2. PICK n \in T : \A m \in T : n <= m
      BY <3>1, NatMin
    <3>3. n \in 0 .. MaxId /\ n # 0
      <4>1. 0 \in 0 .. MaxId
        BY IdsFinite
      <4>2. f[0] = {i}
        BY <2>1, <4>1
      <4> QED
        BY <3>2, <4>2
    <3>4. n - 1 \in 0 .. MaxId /\ n - 1 \notin T
      BY <3>2, <3>3, IdsFinite
    <3>5. f[n] = f[n - 1] \cup UNION {E[p] : p \in f[n - 1]}
      BY <2>1, <3>3
    <3>6. f[n] \subseteq Ids
      BY <3>4, <3>5
    <3> QED
      BY <3>2, <3>6
  <2>3. \A n \in 0 .. MaxId : f[n] = IF n = 0 THEN {i} ELSE After(R, f[n - 1])
    <3> TAKE n \in 0 .. MaxId
    <3>1. n # 0 => n - 1 \in 0 .. MaxId
      BY IdsFinite
    <3> QED
      BY <1>1, <2>1, <2>2, <3>1
  <2>4. DOMAIN f = 0 .. MaxId /\ f = [n \in DOMAIN f |-> f[n]]
    BY <1>3 DEF Grows
  <2> QED
    BY <2>3, <2>4 DEF IsReach
<1> QED
  BY <1>2, <1>3

\* Two functions that agree at 0, and at each number if at the one before it.
LEMMA SameValues ==
    ASSUME NEW f, NEW g, f[0] = g[0],
           \A n \in 1 .. MaxId : f[n - 1] = g[n - 1] => f[n] = g[n]
    PROVE  f[MaxId] = g[MaxId]
<1> DEFINE T == {n \in 0 .. MaxId : f[n] # g[n]}
<1> SUFFICES ASSUME T # {} PROVE FALSE
  BY IdsFinite
<1>1. T \subseteq Nat
  BY IdsFinite
<1>2. PICK n \in T : \A m \in T : n <= m
  BY <1>1, NatMin
<1>3. n \in 1 .. MaxId
  BY <1>2, IdsFinite
<1>4. n - 1 \in 0 .. MaxId /\ n - 1 \notin T
  BY <1>2, <1>3, IdsFinite
<1> QED
  BY <1>2, <1>3, <1>4

LEMMA BelowIsReach ==
    ASSUME children \in [Ids -> Seq(Ids)], NEW i \in Ids
    PROVE  \E f : IsReach(Edges(children), i, f, MaxId) /\ Below(i) = f[MaxId]
<1> DEFINE E == [p \in Ids |-> ToSet(children[p])]
<1> DEFINE below[d \in 0 .. MaxId] ==
            IF d = 0 THEN {i}
            ELSE LET up == below[d - 1]
                 IN  up \cup UNION {ToSet(children[p]) : p \in up}
<1>0. \A p \in Ids : E[p] = ToSet(children[p]) /\ E[p] \subseteq Ids
  BY DEF ToSet
<1>1. Edges(children) = {e \in Ids \X Ids : e[2] \in E[e[1]]}
  BY DEF Edges
<1> HIDE DEF E
<1>2. /\ \E f : Grows(E, i, f)
      /\ \A f : Grows(E, i, f) => IsReach(Edges(children), i, f, MaxId)
  BY <1>0, <1>1, GrowthIsReach
<1>3. PICK f : Grows(E, i, f)
  BY <1>2
<1>4. IsReach(Edges(children), i, f, MaxId)
  BY <1>2, <1>3
<1>5. \A n \in 0 .. MaxId : f[n] \subseteq Ids
  BY <1>4, ReachClosed
<1>6. \A n \in 0 .. MaxId :
        f[n] = IF n = 0 THEN {i}
               ELSE f[n - 1] \cup UNION {ToSet(children[p]) : p \in f[n - 1]}
  <2> TAKE n \in 0 .. MaxId
  <2>1. n # 0 => n - 1 \in 0 .. MaxId
    BY IdsFinite
  <2>2. f[n] = IF n = 0 THEN {i} ELSE f[n - 1] \cup UNION {E[p] : p \in f[n - 1]}
    BY <1>3 DEF Grows
  <2> QED
    BY <1>0, <1>5, <2>1, <2>2
<1>7. DOMAIN f = 0 .. MaxId /\ f = [n \in DOMAIN f |-> f[n]]
  BY <1>3 DEF Grows
<1>8. f = [d \in 0 .. MaxId |->
             IF d = 0 THEN {i}
             ELSE LET up == f[d - 1]
                  IN  up \cup UNION {ToSet(children[p]) : p \in up}]
  BY <1>6, <1>7
<1>9. below = [d \in 0 .. MaxId |->
             IF d = 0 THEN {i}
             ELSE LET up == below[d - 1]
                  IN  up \cup UNION {ToSet(children[p]) : p \in up}]
  BY <1>8
<1>10. Below(i) = below[MaxId]
  BY DEF Below
<1> HIDE DEF below
<1>11. below[MaxId] = f[MaxId]
  <2>1. below[0] = f[0]
    BY <1>8, <1>9, IdsFinite
  <2>2. ASSUME NEW n \in 1 .. MaxId, below[n - 1] = f[n - 1] PROVE below[n] = f[n]
    <3>1. n \in 0 .. MaxId /\ n # 0
      BY IdsFinite
    <3>2. f[n] = f[n - 1] \cup UNION {ToSet(children[p]) : p \in f[n - 1]}
      BY <1>6, <3>1
    <3>3. below[n] = below[n - 1] \cup UNION {ToSet(children[p]) : p \in below[n - 1]}
      BY <1>9, <3>1
    <3> QED
      BY <2>2, <3>2, <3>3
  <2> QED
    BY <2>1, <2>2, SameValues
<1> QED
  BY <1>4, <1>10, <1>11

LEMMA ShownIsReach ==
    ASSUME NEW ch \in [Ids -> Seq(Ids)], NEW nm
    PROVE  \E f : IsReach(NamedEdges(ch, nm), Root, f, MaxId) /\ ShownIn(ch, nm) = f[MaxId]
<1> DEFINE E == [p \in Ids |-> NamedIn(ch, nm, p)]
<1> DEFINE level[d \in 0 .. MaxId] ==
            IF d = 0 THEN {Root}
            ELSE LET up == level[d - 1]
                 IN  up \cup UNION {{ch[p][k] : k \in {k \in DOMAIN ch[p] :
                                                       Nameable(ch[p], nm, k)}}
                                    : p \in up}
<1>0. \A p \in Ids : E[p] = NamedIn(ch, nm, p) /\ E[p] \subseteq Ids
  BY DEF NamedIn
<1>1. NamedEdges(ch, nm) = {e \in Ids \X Ids : e[2] \in E[e[1]]}
  BY DEF NamedEdges
<1> HIDE DEF E
<1>2. /\ \E f : Grows(E, Root, f)
      /\ \A f : Grows(E, Root, f) => IsReach(NamedEdges(ch, nm), Root, f, MaxId)
  <2>1. Root \in Ids
    BY IdsFinite DEF Root, Ids
  <2> QED
    BY <1>0, <1>1, <2>1, GrowthIsReach
<1>3. PICK f : Grows(E, Root, f)
  BY <1>2
<1>4. IsReach(NamedEdges(ch, nm), Root, f, MaxId)
  BY <1>2, <1>3
<1>5. \A n \in 0 .. MaxId : f[n] \subseteq Ids
  <2>1. Root \in Ids
    BY IdsFinite DEF Root, Ids
  <2> QED
    BY <1>4, <2>1, ReachClosed
<1>6. \A n \in 0 .. MaxId :
        f[n] = IF n = 0 THEN {Root}
               ELSE f[n - 1] \cup UNION {NamedIn(ch, nm, p) : p \in f[n - 1]}
  <2> TAKE n \in 0 .. MaxId
  <2>1. n # 0 => n - 1 \in 0 .. MaxId
    BY IdsFinite
  <2>2. f[n] = IF n = 0 THEN {Root} ELSE f[n - 1] \cup UNION {E[p] : p \in f[n - 1]}
    BY <1>3 DEF Grows
  <2> QED
    BY <1>0, <1>5, <2>1, <2>2
<1>7. DOMAIN f = 0 .. MaxId /\ f = [n \in DOMAIN f |-> f[n]]
  BY <1>3 DEF Grows
<1>8. f = [d \in 0 .. MaxId |->
             IF d = 0 THEN {Root}
             ELSE LET up == f[d - 1]
                  IN  up \cup UNION {{ch[p][k] : k \in {k \in DOMAIN ch[p] :
                                                        Nameable(ch[p], nm, k)}}
                                     : p \in up}]
  BY <1>6, <1>7 DEF NamedIn
<1>9. level = [d \in 0 .. MaxId |->
             IF d = 0 THEN {Root}
             ELSE LET up == level[d - 1]
                  IN  up \cup UNION {{ch[p][k] : k \in {k \in DOMAIN ch[p] :
                                                        Nameable(ch[p], nm, k)}}
                                     : p \in up}]
  BY <1>8
<1>10. ShownIn(ch, nm) = level[MaxId]
  BY DEF ShownIn
<1> HIDE DEF level
<1>11. level[MaxId] = f[MaxId]
  <2>1. level[0] = f[0]
    BY <1>8, <1>9, IdsFinite
  <2>2. ASSUME NEW n \in 1 .. MaxId, level[n - 1] = f[n - 1] PROVE level[n] = f[n]
    <3>1. n \in 0 .. MaxId /\ n # 0
      BY IdsFinite
    <3>2. f[n] = f[n - 1] \cup UNION {NamedIn(ch, nm, p) : p \in f[n - 1]}
      BY <1>6, <3>1
    <3>3. level[n] = level[n - 1] \cup UNION {NamedIn(ch, nm, p) : p \in level[n - 1]}
      BY <1>9, <3>1 DEF NamedIn
    <3> QED
      BY <2>2, <3>2, <3>3
  <2> QED
    BY <2>1, <2>2, SameValues
<1> QED
  BY <1>4, <1>10, <1>11

\* What is below an entry is a closed set.
LEMMA BelowClosed ==
    ASSUME children \in [Ids -> Seq(Ids)], NEW i \in Ids
    PROVE  /\ i \in Below(i) /\ Below(i) \subseteq Ids
           /\ \A p \in Below(i) : KidsOf(children)[p] \subseteq Below(i)
<1>1. PICK f : IsReach(Edges(children), i, f, MaxId) /\ Below(i) = f[MaxId]
  BY BelowIsReach
<1>2. MaxId \in 0 .. MaxId
  BY IdsFinite
<1>3. i \in Below(i) /\ Below(i) \subseteq Ids /\ Closed(Edges(children), Below(i))
  BY <1>1, <1>2, ReachClosed
<1>4. ASSUME NEW p \in Below(i), NEW x \in KidsOf(children)[p] PROVE x \in Below(i)
  <2>1. p \in Ids /\ x \in ToSet(children[p]) /\ x \in Ids
    BY <1>3, <1>4 DEF KidsOf, ToSet
  <2>2. <<p, x>> \in Edges(children)
    BY <2>1 DEF Edges
  <2> QED
    BY <1>3, <2>1, <2>2 DEF Closed
<1> QED
  BY <1>3, <1>4

\* What build_maps() gives a name is the smallest set with the root in it, and
\* with the children of its folders that can have one.
LEMMA ShownFacts ==
    ASSUME NEW ch \in [Ids -> Seq(Ids)], NEW nm
    PROVE  /\ Root \in ShownIn(ch, nm) /\ ShownIn(ch, nm) \subseteq Ids
           /\ \A p \in ShownIn(ch, nm) : NamedIn(ch, nm, p) \subseteq ShownIn(ch, nm)
           /\ \A x \in ShownIn(ch, nm) \ {Root} :
                \E p \in ShownIn(ch, nm) : x \in NamedIn(ch, nm, p)
           /\ \A C : Root \in C /\ (\A p \in C \cap Ids : NamedIn(ch, nm, p) \subseteq C)
                     => ShownIn(ch, nm) \subseteq C
<1> DEFINE R == NamedEdges(ch, nm)
           Z == ShownIn(ch, nm)
<1>0. Root \in Ids
  BY IdsFinite DEF Root, Ids
<1>1. PICK f : IsReach(R, Root, f, MaxId) /\ Z = f[MaxId]
  BY ShownIsReach
<1>2. MaxId \in 0 .. MaxId
  BY IdsFinite
<1>3. /\ Root \in Z /\ Z \subseteq Ids /\ Closed(R, Z)
      /\ \A C : Root \in C /\ Closed(R, C) => Z \subseteq C
  <2> HIDE DEF R, Z
  <2>1. /\ Root \in f[MaxId] /\ \A n \in 0 .. MaxId : f[n] \subseteq Ids
        /\ Closed(R, f[MaxId])
        /\ \A C : Root \in C /\ Closed(R, C) => f[MaxId] \subseteq C
    BY <1>0, <1>1, ReachClosed
  <2> QED
    BY <1>1, <1>2, <2>1
<1>4. \A x, y \in Ids : <<x, y>> \in R <=> y \in NamedIn(ch, nm, x)
  <2> DEFINE E == [p \in Ids |-> NamedIn(ch, nm, p)]
  <2>1. \A p \in Ids : E[p] = NamedIn(ch, nm, p)
    OBVIOUS
  <2>2. R = {e \in Ids \X Ids : e[2] \in E[e[1]]}
    BY DEF NamedEdges
  <2> HIDE DEF E, R
  <2> QED
    BY <2>1, <2>2
<1>5. \A p \in Ids : NamedIn(ch, nm, p) \subseteq Ids
  BY DEF NamedIn
<1> HIDE DEF R, Z
<1>6. \A p \in Z : NamedIn(ch, nm, p) \subseteq Z
  BY <1>3, <1>4, <1>5 DEF Closed
<1>7. ASSUME NEW C, Root \in C, \A p \in C \cap Ids : NamedIn(ch, nm, p) \subseteq C
      PROVE  Z \subseteq C
  <2>1. Closed(R, C \cap Ids)
    BY <1>4, <1>7 DEF Closed
  <2> QED
    BY <1>0, <1>3, <1>7, <2>1
<1>8. \A x \in Z \ {Root} : \E p \in Z : x \in NamedIn(ch, nm, p)
  <2> TAKE x \in Z \ {Root}
  <2> DEFINE C == {Root} \cup {y \in Z : \E p \in Z : y \in NamedIn(ch, nm, p)}
  <2>1. C \subseteq Z
    BY <1>3
  <2>2. \A p \in C \cap Ids : NamedIn(ch, nm, p) \subseteq C
    BY <1>6, <2>1
  <2>3. Z \subseteq C
    BY <1>7, <2>2
  <2> QED
    BY <2>3
<1> QED
  BY <1>3, <1>6, <1>7, <1>8 DEF Z
-----------------------------------------------------------------------------
(***************************************************************************)
(* What build_maps() makes of a tree.                                      *)
(***************************************************************************)
LEMMA KidsFacts ==
    ASSUME NEW ch \in [Ids -> Seq(Ids)]
    PROVE  /\ \A p \in Ids : KidsOf(ch)[p] = ToSet(ch[p]) /\ KidsOf(ch)[p] \subseteq Ids
           /\ \A p \in Ids : ch[p] = <<>> <=> KidsOf(ch)[p] = {}
           /\ NodesOf(KidsOf(ch)) = UNION {ToSet(ch[p]) : p \in Ids}
<1>1. \A p \in Ids : KidsOf(ch)[p] = ToSet(ch[p]) /\ KidsOf(ch)[p] \subseteq Ids
  BY DEF KidsOf, ToSet
<1>2. ASSUME NEW p \in Ids PROVE ch[p] = <<>> <=> KidsOf(ch)[p] = {}
  <2>1. ch[p] \in Seq(Ids)
    OBVIOUS
  <2> DEFINE c == ch[p]
  <2>2. c # <<>> => 1 \in DOMAIN c
    BY <2>1
  <2>3. c = <<>> => DOMAIN c = {}
    OBVIOUS
  <2>4. KidsOf(ch)[p] = {c[k] : k \in DOMAIN c}
    BY <1>1 DEF ToSet
  <2> HIDE DEF c
  <2>5. c = <<>> <=> KidsOf(ch)[p] = {}
    BY <2>2, <2>3, <2>4
  <2> QED
    BY <2>5 DEF c
<1> QED
  BY <1>1, <1>2 DEF NodesOf

LEMMA ParentInFacts ==
    ASSUME NEW ch \in [Ids -> Seq(Ids)], Tree(KidsOf(ch))
    PROVE  /\ ParentIn(ch) \in [DOMAIN ParentIn(ch) -> Ids]
           /\ DOMAIN ParentIn(ch) = {Root} \cup NodesOf(KidsOf(ch))
           /\ Root \notin NodesOf(KidsOf(ch)) /\ ParentIn(ch)[Root] = Root
           /\ NodesOf(KidsOf(ch)) \subseteq Ids
           /\ \A i \in NodesOf(KidsOf(ch)) : i \in KidsOf(ch)[ParentIn(ch)[i]]
           /\ \A i \in NodesOf(KidsOf(ch)), p \in Ids :
                i \in KidsOf(ch)[p] => p = ParentIn(ch)[i]
<1> DEFINE N == NodesOf(KidsOf(ch))
           up == ParentIn(ch)
<1>0. Root \in Ids
  BY IdsFinite DEF Root, Ids
<1>1. /\ \A p \in Ids : KidsOf(ch)[p] = ToSet(ch[p]) /\ KidsOf(ch)[p] \subseteq Ids
      /\ N = UNION {ToSet(ch[p]) : p \in Ids}
  BY KidsFacts
<1>2. up = [i \in N \cup {Root} |->
              IF i = Root THEN Root ELSE CHOOSE p \in Ids : i \in ToSet(ch[p])]
  BY <1>1 DEF ParentIn
<1>3. Root \notin N /\ N \subseteq Ids
  BY <1>1 DEF Tree, NodesOf
<1>4. ASSUME NEW i \in N PROVE up[i] \in Ids /\ i \in KidsOf(ch)[up[i]]
  <2>1. \E p \in Ids : i \in ToSet(ch[p])
    BY <1>1, <1>4
  <2>2. up[i] = CHOOSE p \in Ids : i \in ToSet(ch[p])
    BY <1>2, <1>3, <1>4
  <2>3. up[i] \in Ids /\ i \in ToSet(ch[up[i]])
    BY <2>1, <2>2
  <2> QED
    BY <1>1, <2>3
<1>5. DOMAIN up = {Root} \cup N /\ up[Root] = Root
  BY <1>2
<1>6. \A i \in N, p \in Ids : i \in KidsOf(ch)[p] => p = up[i]
  BY <1>4 DEF Tree
<1>7. up \in [DOMAIN up -> Ids]
  <2>1. \A i \in DOMAIN up : up[i] \in Ids
    BY <1>0, <1>4, <1>5
  <2>2. up = [i \in DOMAIN up |-> up[i]]
    BY <1>2
  <2> HIDE DEF up
  <2> QED
    BY <2>1, <2>2
<1> HIDE DEF up
<1> QED
  BY <1>3, <1>4, <1>5, <1>6, <1>7 DEF up

\* What gets a name has a valid one, that no other entry of its folder gets,
\* and is in a folder that gets one.
LEMMA ShownHaveNames ==
    ASSUME NEW ch \in [Ids -> Seq(Ids)], Tree(KidsOf(ch)), NEW nm
    PROVE  /\ ShownIn(ch, nm) \subseteq DOMAIN ParentIn(ch)
           /\ \A i \in ShownIn(ch, nm) \ {Root} :
                /\ ParentIn(ch)[i] \in ShownIn(ch, nm)
                /\ i \in NamedIn(ch, nm, ParentIn(ch)[i])
                /\ nm[i] # BadName
           /\ \A i, j \in ShownIn(ch, nm) \ {Root} :
                ParentIn(ch)[i] = ParentIn(ch)[j] /\ nm[i] = nm[j] => i = j
<1> DEFINE N == NodesOf(KidsOf(ch))
           up == ParentIn(ch)
           Z == ShownIn(ch, nm)
<1>1. Z \subseteq Ids /\ \A i \in Z \ {Root} : \E p \in Z : i \in NamedIn(ch, nm, p)
  BY ShownFacts
<1>2. /\ DOMAIN up = {Root} \cup N
      /\ \A i \in N, p \in Ids : i \in KidsOf(ch)[p] => p = up[i]
  BY ParentInFacts
<1>3. \A p \in Ids : NamedIn(ch, nm, p) \subseteq KidsOf(ch)[p]
  BY KidsFacts DEF NamedIn, ToSet
<1> HIDE DEF N, up, Z
<1>4. ASSUME NEW i \in Z \ {Root}
      PROVE  i \in N /\ up[i] \in Z /\ i \in NamedIn(ch, nm, up[i])
  <2>1. PICK p \in Z : i \in NamedIn(ch, nm, p)
    BY <1>1, <1>4
  <2>2. p \in Ids /\ i \in KidsOf(ch)[p]
    BY <1>1, <1>3, <2>1
  <2>3. i \in N
    BY <2>2 DEF N, NodesOf
  <2> QED
    BY <1>2, <2>1, <2>2, <2>3
<1>5. ASSUME NEW i \in Z \ {Root}, NEW j \in Z \ {Root}, up[i] = up[j]
      PROVE  nm[i] # BadName /\ (nm[i] = nm[j] => i = j)
  <2> DEFINE s == ch[up[i]]
  <2>1. PICK k \in DOMAIN s : s[k] = i /\ Nameable(s, nm, k)
    BY <1>4 DEF NamedIn
  <2>2. PICK l \in DOMAIN s : s[l] = j /\ Nameable(s, nm, l)
    BY <1>4, <1>5 DEF NamedIn
  <2>3. k \in Nat /\ l \in Nat /\ k >= 1 /\ l >= 1
    <3>1. s \in Seq(Ids)
      BY <1>1, <1>4
    <3> QED
      BY <2>1, <2>2, <3>1
  <2> HIDE DEF s
  <2>4. nm[i] # BadName
    BY <2>1 DEF Nameable
  <2>5. k < l => nm[i] # nm[j]
    BY <2>1, <2>2, <2>3 DEF Nameable
  <2>6. l < k => nm[i] # nm[j]
    BY <2>1, <2>2, <2>3 DEF Nameable
  <2> QED
    BY <2>1, <2>2, <2>3, <2>4, <2>5, <2>6
<1> QED
  BY <1>1, <1>2, <1>4, <1>5 DEF Z, up
-----------------------------------------------------------------------------
(***************************************************************************)
(* Changes of a tree.                                                      *)
(***************************************************************************)
\* Node i is put into q, from wherever it was; or it is taken out.
Put(K, L, q, i) ==
    L \in [Ids -> SUBSET Ids] /\ \A r \in Ids : L[r] = IF r = q THEN K[r] \cup {i} ELSE K[r] \ {i}

Dropped(K, L, i) == L \in [Ids -> SUBSET Ids] /\ \A r \in Ids : L[r] = K[r] \ {i}

Shut(K, B) == \A x \in B : K[x] \subseteq B

LEMMA TreePut ==
    ASSUME NEW K, Tree(K), NEW q \in Ids, NEW i \in Ids \ {Root}, NEW L, Put(K, L, q, i),
           NEW B, i \in B, q \notin B, Shut(K, B)
    PROVE  Tree(L) /\ NodesOf(L) = NodesOf(K) \cup {i}
<1>1. /\ K \in [Ids -> SUBSET (Ids \ {Root})]
      /\ \A r, s \in Ids : \A x \in K[r] \cap K[s] : r = s
      /\ \A S \in SUBSET NodesOf(K) : S # {} => \E r \in Ids \ S : K[r] \cap S # {}
  BY DEF Tree
<1>2. /\ L \in [Ids -> SUBSET Ids]
      /\ \A r \in Ids : L[r] = IF r = q THEN K[r] \cup {i} ELSE K[r] \ {i}
  BY DEF Put
<1>3. L \in [Ids -> SUBSET (Ids \ {Root})]
  <2>1. \A r \in Ids : L[r] \in SUBSET (Ids \ {Root})
    BY <1>1, <1>2
  <2> QED
    BY <1>2, <2>1
<1>4. NodesOf(L) = NodesOf(K) \cup {i}
  BY <1>2 DEF NodesOf
<1>5. \A r, s \in Ids : \A x \in L[r] \cap L[s] : r = s
  BY <1>1, <1>2
<1>6. ASSUME NEW S \in SUBSET NodesOf(L), S # {}
      PROVE  \E r \in Ids \ S : L[r] \cap S # {}
  <2>1. CASE i \notin S
    <3>1. PICK r \in Ids \ S : K[r] \cap S # {}
      BY <1>1, <1>4, <1>6, <2>1
    <3> QED
      BY <1>2, <2>1, <3>1
  <2>2. CASE i \in S /\ q \notin S
    BY <1>2, <2>2
  <2>3. CASE i \in S /\ q \in S
    <3>1. S \ B \in SUBSET NodesOf(K) /\ S \ B # {}
      BY <1>4, <2>3
    <3>2. PICK r \in Ids \ (S \ B) : K[r] \cap (S \ B) # {}
      BY <1>1, <3>1
    <3>3. r \notin B
      BY <3>2 DEF Shut
    <3> QED
      BY <1>2, <3>2, <3>3
  <2> QED
    BY <2>1, <2>2, <2>3
<1>7. Tree(L)
  BY <1>3, <1>5, <1>6 DEF Tree
<1> QED
  BY <1>4, <1>7

LEMMA TreeDrop ==
    ASSUME NEW K, Tree(K), NEW i, NEW L, Dropped(K, L, i)
    PROVE  Tree(L) /\ NodesOf(L) = NodesOf(K) \ {i}
<1>1. /\ K \in [Ids -> SUBSET (Ids \ {Root})]
      /\ \A r, q \in Ids : \A x \in K[r] \cap K[q] : r = q
      /\ \A S \in SUBSET NodesOf(K) : S # {} => \E r \in Ids \ S : K[r] \cap S # {}
  BY DEF Tree
<1>2. L \in [Ids -> SUBSET Ids] /\ \A r \in Ids : L[r] = K[r] \ {i}
  BY DEF Dropped
<1>3. L \in [Ids -> SUBSET (Ids \ {Root})]
  <2>1. \A r \in Ids : L[r] \in SUBSET (Ids \ {Root})
    BY <1>1, <1>2
  <2> QED
    BY <1>2, <2>1
<1>4. NodesOf(L) = NodesOf(K) \ {i}
  BY <1>2 DEF NodesOf
<1>5. \A r, q \in Ids : \A x \in L[r] \cap L[q] : r = q
  BY <1>1, <1>2
<1>6. ASSUME NEW S \in SUBSET NodesOf(L), S # {}
      PROVE  \E r \in Ids \ S : L[r] \cap S # {}
  <2>1. S \in SUBSET NodesOf(K) /\ i \notin S
    BY <1>4
  <2>2. PICK r \in Ids \ S : K[r] \cap S # {}
    BY <1>1, <1>6, <2>1
  <2> QED
    BY <1>2, <2>1, <2>2
<1>7. Tree(L)
  BY <1>3, <1>5, <1>6 DEF Tree
<1> QED
  BY <1>4, <1>7
-----------------------------------------------------------------------------
(***************************************************************************)
(* Changes of the children of a folder: lists in which no id is twice.     *)
(***************************************************************************)
Lists == {s \in Seq(Ids) : IsInjective(s)}

LEMMA AppendList ==
    ASSUME NEW s \in Lists, NEW i \in Ids, i \notin ToSet(s)
    PROVE  Append(s, i) \in Lists /\ ToSet(Append(s, i)) = ToSet(s) \cup {i}
<1>1. s \in Seq(Ids) /\ Len(s) \in Nat /\ DOMAIN s = 1 .. Len(s) /\ IsInjective(s)
  BY DEF Lists
<1> DEFINE r == Append(s, i)
<1>2. /\ r \in Seq(Ids) /\ DOMAIN r = 1 .. Len(s) + 1
      /\ \A k \in 1 .. Len(s) : r[k] = s[k]
      /\ r[Len(s) + 1] = i
  BY <1>1
<1>3. \A k \in 1 .. Len(s) : s[k] # i
  BY <1>1 DEF ToSet
<1> HIDE DEF r
<1>4. IsInjective(r)
  BY <1>1, <1>2, <1>3 DEF IsInjective
<1>5. ToSet(r) = ToSet(s) \cup {i}
  <2>1. \A k \in DOMAIN r : k \in 1 .. Len(s) \/ k = Len(s) + 1
    BY <1>1, <1>2
  <2>2. ToSet(r) \subseteq ToSet(s) \cup {i}
    BY <1>1, <1>2, <2>1 DEF ToSet
  <2>3. \A k \in 1 .. Len(s) : k \in DOMAIN r
    BY <1>1, <1>2
  <2>4. Len(s) + 1 \in DOMAIN r
    BY <1>1, <1>2
  <2> QED
    BY <1>1, <1>2, <2>2, <2>3, <2>4 DEF ToSet
<1> QED
  BY <1>2, <1>4, <1>5 DEF Lists, r

\* The elements of a list without one, and of a list with one more.
LEMMA Removal ==
    ASSUME NEW s \in Seq(Ids), NEW j \in 1 .. Len(s)
    PROVE  /\ RemoveAt(s, j) \in Seq(Ids) /\ Len(RemoveAt(s, j)) = Len(s) - 1
           /\ \A k \in 1 .. Len(s) - 1 :
                RemoveAt(s, j)[k] = IF k < j THEN s[k] ELSE s[k + 1]
<1>1. Len(s) \in Nat /\ j \in Nat /\ j >= 1 /\ j <= Len(s)
  OBVIOUS
<1> DEFINE a == SubSeq(s, 1, j - 1)
           b == SubSeq(s, j + 1, Len(s))
<1>2. a \in Seq(Ids) /\ Len(a) = j - 1 /\ \A k \in 1 .. j - 1 : a[k] = s[k]
  BY <1>1
<1>3. /\ b \in Seq(Ids) /\ Len(b) = Len(s) - j
      /\ \A k \in 1 .. Len(s) - j : b[k] = s[k + j]
  BY <1>1
<1> HIDE DEF a, b
<1>4. /\ a \o b \in Seq(Ids) /\ Len(a \o b) = Len(s) - 1
      /\ \A k \in 1 .. Len(s) - 1 :
            (a \o b)[k] = IF k < j THEN a[k] ELSE b[k - (j - 1)]
  <2>1. a \o b \in Seq(Ids) /\ Len(a \o b) = Len(a) + Len(b)
    BY <1>2, <1>3, ConcatProperties
  <2>2. \A k \in 1 .. Len(a) + Len(b) :
            (a \o b)[k] = IF k <= Len(a) THEN a[k] ELSE b[k - Len(a)]
    BY <1>2, <1>3, ConcatProperties
  <2>3. Len(a) + Len(b) = Len(s) - 1
    BY <1>1, <1>2, <1>3
  <2>4. \A k \in 1 .. Len(s) - 1 : k <= Len(a) <=> k < j
    BY <1>1, <1>2
  <2> QED
    BY <1>2, <2>1, <2>2, <2>3, <2>4
<1>5. ASSUME NEW k \in 1 .. Len(s) - 1
      PROVE  (a \o b)[k] = IF k < j THEN s[k] ELSE s[k + 1]
  <2>1. CASE k < j
    BY <1>1, <1>2, <1>4, <2>1
  <2>2. CASE ~(k < j)
    <3>1. k - (j - 1) \in 1 .. Len(s) - j /\ k - (j - 1) + j = k + 1
      BY <1>1, <2>2
    <3>2. b[k - (j - 1)] = s[k - (j - 1) + j]
      BY <1>3, <3>1
    <3> QED
      BY <1>4, <2>2, <3>1, <3>2
  <2> QED
    BY <2>1, <2>2
<1> QED
  BY <1>4, <1>5 DEF RemoveAt, a, b

LEMMA Insertion ==
    ASSUME NEW s \in Seq(Ids), NEW j \in 1 .. Len(s) + 1, NEW e \in Ids
    PROVE  /\ InsertAt(s, j, e) \in Seq(Ids) /\ Len(InsertAt(s, j, e)) = Len(s) + 1
           /\ \A k \in 1 .. Len(s) + 1 :
                InsertAt(s, j, e)[k] = IF k < j THEN s[k]
                                       ELSE IF k = j THEN e ELSE s[k - 1]
<1>1. Len(s) \in Nat /\ j \in Nat /\ j >= 1 /\ j <= Len(s) + 1
  OBVIOUS
<1> DEFINE a == SubSeq(s, 1, j - 1)
           b == SubSeq(s, j, Len(s))
           c == a \o <<e>>
<1>2. a \in Seq(Ids) /\ Len(a) = j - 1 /\ \A k \in 1 .. j - 1 : a[k] = s[k]
  BY <1>1
<1>3. /\ b \in Seq(Ids) /\ Len(b) = Len(s) - j + 1
      /\ \A k \in 1 .. Len(s) - j + 1 : b[k] = s[k + j - 1]
  BY <1>1
<1> HIDE DEF a, b
<1>4. /\ c \in Seq(Ids) /\ Len(c) = j
      /\ \A k \in 1 .. j : c[k] = IF k < j THEN s[k] ELSE e
  BY <1>1, <1>2
<1> HIDE DEF c
<1>5. /\ c \o b \in Seq(Ids) /\ Len(c \o b) = Len(s) + 1
      /\ \A k \in 1 .. Len(s) + 1 :
            (c \o b)[k] = IF k <= j THEN c[k] ELSE b[k - j]
  BY <1>1, <1>3, <1>4
<1>6. ASSUME NEW k \in 1 .. Len(s) + 1
      PROVE  (c \o b)[k] = IF k < j THEN s[k] ELSE IF k = j THEN e ELSE s[k - 1]
  <2>1. CASE k <= j
    BY <1>1, <1>4, <1>5, <2>1
  <2>2. CASE ~(k <= j)
    <3>1. k - j \in 1 .. Len(s) - j + 1 /\ k - j + j - 1 = k - 1
      BY <1>1, <2>2
    <3>2. b[k - j] = s[k - j + j - 1]
      BY <1>3, <3>1
    <3>3. k # j /\ ~(k < j)
      BY <1>1, <2>2
    <3> QED
      BY <1>5, <2>2, <3>1, <3>2, <3>3
  <2> QED
    BY <2>1, <2>2
<1> QED
  BY <1>5, <1>6 DEF InsertAt, a, b, c

\* A list of the elements of another one, each from a place of its own, except i.
PicksFrom(s, r, f, i) ==
    /\ f \in [DOMAIN r -> DOMAIN s]
    /\ \A k, l \in DOMAIN r : f[k] = f[l] => k = l
    /\ \A k \in DOMAIN r : r[k] = s[f[k]]
    /\ \A l \in DOMAIN s : (\E k \in DOMAIN r : f[k] = l) <=> s[l] # i

LEMMA PickedList ==
    ASSUME NEW s \in Lists, NEW r \in Seq(Ids), NEW f, NEW i, PicksFrom(s, r, f, i)
    PROVE  r \in Lists /\ ToSet(r) = ToSet(s) \ {i}
<1>1. \A k, l \in DOMAIN s : s[k] = s[l] => k = l
  BY DEF Lists, IsInjective
<1>2. IsInjective(r)
  BY <1>1 DEF IsInjective, PicksFrom
<1>3. ToSet(r) \subseteq ToSet(s) \ {i}
  BY DEF ToSet, PicksFrom
<1>4. ToSet(s) \ {i} \subseteq ToSet(r)
  BY DEF ToSet, PicksFrom
<1> QED
  BY <1>2, <1>3, <1>4 DEF Lists

LEMMA TakenList ==
    ASSUME NEW s \in Lists, NEW i \in ToSet(s)
    PROVE  Taken(s, i) \in Lists /\ ToSet(Taken(s, i)) = ToSet(s) \ {i}
<1> DEFINE j == CHOOSE j \in DOMAIN s : s[j] = i
<1>1. /\ s \in Seq(Ids) /\ Len(s) \in Nat /\ DOMAIN s = 1 .. Len(s)
      /\ \A k, l \in DOMAIN s : s[k] = s[l] => k = l
  BY DEF Lists, IsInjective
<1>2. j \in 1 .. Len(s) /\ s[j] = i
  BY <1>1 DEF ToSet
<1> DEFINE r == RemoveAt(s, j)
<1>3. Taken(s, i) = r
  BY DEF Taken
<1> HIDE DEF j
<1>4. /\ r \in Seq(Ids) /\ Len(r) = Len(s) - 1 /\ DOMAIN r = 1 .. Len(s) - 1
      /\ \A k \in 1 .. Len(s) - 1 : r[k] = IF k < j THEN s[k] ELSE s[k + 1]
  <2>1. /\ r \in Seq(Ids) /\ Len(r) = Len(s) - 1
        /\ \A k \in 1 .. Len(s) - 1 : r[k] = IF k < j THEN s[k] ELSE s[k + 1]
    BY <1>1, <1>2, Removal
  <2> HIDE DEF r
  <2> QED
    BY <2>1
<1> HIDE DEF r
<1> DEFINE f == [k \in DOMAIN r |-> IF k < j THEN k ELSE k + 1]
<1>5. f \in [DOMAIN r -> DOMAIN s]
  BY <1>1, <1>2, <1>4
<1>6. \A k, l \in DOMAIN r : f[k] = f[l] => k = l
  BY <1>1, <1>2, <1>4
<1>7. \A k \in DOMAIN r : r[k] = s[f[k]]
  BY <1>1, <1>2, <1>4
<1>8. ASSUME NEW l \in DOMAIN s PROVE (\E k \in DOMAIN r : f[k] = l) <=> s[l] # i
  <2>1. s[l] # i <=> l # j
    BY <1>1, <1>2
  <2>2. \A k \in DOMAIN r : f[k] # j
    BY <1>1, <1>2, <1>4
  <2>3. l < j => l \in DOMAIN r /\ f[l] = l
    BY <1>1, <1>2, <1>4
  <2>4. l > j => l - 1 \in DOMAIN r /\ f[l - 1] = l
    BY <1>1, <1>2, <1>4
  <2>5. l \in Nat /\ j \in Nat
    BY <1>1, <1>2
  <2> HIDE DEF f
  <2> QED
    BY <2>1, <2>2, <2>3, <2>4, <2>5
<1> HIDE DEF f
<1>9. PicksFrom(s, r, f, i)
  BY <1>5, <1>6, <1>7, <1>8 DEF PicksFrom
<1>10. r \in Lists /\ ToSet(r) = ToSet(s) \ {i}
  BY <1>4, <1>9, PickedList
<1> QED
  BY <1>3, <1>10

LEMMA ReplacedList ==
    ASSUME NEW s \in Lists, NEW t \in ToSet(s), NEW i \in Ids, i \notin ToSet(s)
    PROVE  /\ ReplaceAll(s, t, i) \in Lists
           /\ ToSet(ReplaceAll(s, t, i)) = (ToSet(s) \ {t}) \cup {i}
<1> DEFINE r == ReplaceAll(s, t, i)
<1>1. /\ s \in Seq(Ids) /\ Len(s) \in Nat /\ DOMAIN s = 1 .. Len(s)
      /\ \A k, l \in DOMAIN s : s[k] = s[l] => k = l
      /\ \A k \in DOMAIN s : s[k] \in Ids /\ s[k] # i
  BY DEF Lists, IsInjective, ToSet
<1>2. r = [k \in 1 .. Len(s) |-> IF s[k] = t THEN i ELSE s[k]]
  BY DEF ReplaceAll
<1>3. /\ r \in Seq(Ids) /\ DOMAIN r = DOMAIN s
      /\ \A k \in DOMAIN s : r[k] = IF s[k] = t THEN i ELSE s[k]
  BY <1>1, <1>2
<1> HIDE DEF r
<1>4. IsInjective(r)
  BY <1>1, <1>3 DEF IsInjective
<1>5. \A x : x \in ToSet(r) <=> \E k \in DOMAIN s : x = r[k]
  BY <1>3 DEF ToSet
<1>6. \A x : x \in ToSet(s) <=> \E k \in DOMAIN s : x = s[k]
  BY DEF ToSet
<1>7. ToSet(r) = (ToSet(s) \ {t}) \cup {i}
  <2>1. ToSet(r) \subseteq (ToSet(s) \ {t}) \cup {i}
    BY <1>3, <1>5, <1>6
  <2>2. \A x \in ToSet(s) \ {t} : x \in ToSet(r)
    BY <1>3, <1>5, <1>6
  <2>3. i \in ToSet(r)
    BY <1>3, <1>5, <1>6
  <2> QED
    BY <2>1, <2>2, <2>3
<1> QED
  BY <1>3, <1>4, <1>7 DEF Lists, r

LEMMA PermutedList ==
    ASSUME NEW s \in Lists, NEW op \in Ops, NEW j \in DOMAIN s, NEW k \in DOMAIN s,
           j # k, ~(op = "MOVE_AFTER" /\ j = k + 1)
    PROVE  Permuted(s, op, j, k) \in Lists /\ ToSet(Permuted(s, op, j, k)) = ToSet(s)
<1> DEFINE r == Permuted(s, op, j, k)
           n == Len(s)
           to == IF op = "MOVE_AFTER" THEN k + 1 ELSE k
<1>1. /\ s \in Seq(Ids) /\ n \in Nat /\ DOMAIN s = 1 .. n
      /\ \A x, l \in DOMAIN s : s[x] = s[l] => x = l
  BY DEF Lists, IsInjective
<1>2. j \in 1 .. n /\ k \in 1 .. n /\ s[j] \in Ids /\ s[k] \in Ids
  BY <1>1
<1>3. to \in 1 .. n + 1 /\ (op # "SWAP" => to # j)
  BY <1>1, <1>2
<1>4. r = IF op = "SWAP" THEN [s EXCEPT ![j] = s[k], ![k] = s[j]]
          ELSE IF j > to THEN InsertAt(RemoveAt(s, j), to, s[j])
          ELSE RemoveAt(InsertAt(s, to, s[j]), j)
  BY DEF Permuted
<1> HIDE DEF to, n, r
<1> DEFINE f(x) == IF op = "SWAP" THEN IF x = j THEN k ELSE IF x = k THEN j ELSE x
                   ELSE IF j > to THEN IF x < to \/ x > j THEN x
                                       ELSE IF x = to THEN j ELSE x - 1
                   ELSE IF x < j \/ x >= to THEN x
                        ELSE IF x + 1 = to THEN j ELSE x + 1
<1>5. r \in Seq(Ids) /\ Len(r) = n /\ \A x \in 1 .. n : r[x] = s[f(x)]
  <2>1. CASE op = "SWAP"
    <3>1. r = [s EXCEPT ![j] = s[k], ![k] = s[j]]
      BY <1>4, <2>1
    <3>2. \A x \in 1 .. n : r[x] = s[f(x)]
      BY <1>1, <1>2, <2>1, <3>1
    <3>3. r \in Seq(Ids) /\ Len(r) = n
      BY <1>1, <1>2, <3>1 DEF n
    <3> QED
      BY <3>2, <3>3
  <2>2. CASE op # "SWAP" /\ j > to
    <3> DEFINE a == RemoveAt(s, j)
    <3>1. /\ a \in Seq(Ids) /\ Len(a) = n - 1
          /\ \A x \in 1 .. n - 1 : a[x] = IF x < j THEN s[x] ELSE s[x + 1]
      BY <1>1, <1>2, Removal DEF n
    <3>2. r = InsertAt(a, to, s[j])
      BY <1>4, <2>2
    <3> HIDE DEF a
    <3>3. to \in 1 .. Len(a) + 1 /\ Len(a) + 1 = n
      BY <1>1, <1>2, <1>3, <2>2, <3>1
    <3>4. /\ r \in Seq(Ids) /\ Len(r) = n
          /\ \A x \in 1 .. n : r[x] = IF x < to THEN a[x]
                                      ELSE IF x = to THEN s[j] ELSE a[x - 1]
      <4> HIDE DEF f
      <4> DEFINE e == s[j]
      <4>1. e \in Ids /\ r = InsertAt(a, to, e)
        BY <1>2, <3>2
      <4> HIDE DEF e
      <4>2. /\ r \in Seq(Ids) /\ Len(r) = Len(a) + 1
            /\ \A x \in 1 .. Len(a) + 1 :
                  r[x] = IF x < to THEN a[x] ELSE IF x = to THEN e ELSE a[x - 1]
        <5> DEFINE v == InsertAt(a, to, e)
        <5>1. /\ v \in Seq(Ids) /\ Len(v) = Len(a) + 1
              /\ \A x \in 1 .. Len(a) + 1 :
                    v[x] = IF x < to THEN a[x] ELSE IF x = to THEN e ELSE a[x - 1]
          BY <3>1, <3>3, <4>1, Insertion, ZenonT(40)
        <5>2. r = v
          BY <4>1
        <5> HIDE DEF v
        <5> QED
          BY <5>1, <5>2
      <4> QED
        BY <3>3, <4>2 DEF e
    <3>5. ASSUME NEW x \in 1 .. n PROVE r[x] = s[f(x)]
      <4>1. CASE x < to
        <5>1. r[x] = a[x] /\ x \in 1 .. n - 1 /\ x < j
          BY <1>1, <1>2, <1>3, <2>2, <3>4, <4>1
        <5>2. a[x] = s[x]
          BY <3>1, <5>1
        <5> QED
          BY <2>2, <4>1, <5>1, <5>2
      <4>2. CASE x = to
        BY <1>1, <1>2, <1>3, <2>2, <3>4, <4>2
      <4>3. CASE x > to
        <5>1. r[x] = a[x - 1] /\ x - 1 \in 1 .. n - 1
          BY <1>1, <1>2, <1>3, <3>4, <4>3
        <5>2. a[x - 1] = IF x - 1 < j THEN s[x - 1] ELSE s[x]
          BY <1>1, <3>1, <5>1
        <5> QED
          BY <1>1, <1>2, <1>3, <2>2, <4>3, <5>1, <5>2
      <4> QED
        BY <1>3, <4>1, <4>2, <4>3
    <3> QED
      BY <3>4, <3>5
  <2>3. CASE op # "SWAP" /\ ~(j > to)
    <3> DEFINE a == InsertAt(s, to, s[j])
    <3>1. /\ a \in Seq(Ids) /\ Len(a) = n + 1
          /\ \A x \in 1 .. n + 1 : a[x] = IF x < to THEN s[x]
                                          ELSE IF x = to THEN s[j] ELSE s[x - 1]
      <4> HIDE DEF f
      <4> DEFINE e == s[j]
      <4>1. e \in Ids /\ a = InsertAt(s, to, e)
        BY <1>2
      <4> HIDE DEF e, a
      <4>2. /\ a \in Seq(Ids) /\ Len(a) = n + 1
            /\ \A x \in 1 .. n + 1 :
                  a[x] = IF x < to THEN s[x] ELSE IF x = to THEN e ELSE s[x - 1]
        <5> DEFINE v == InsertAt(s, to, e)
        <5>0. s \in Seq(Ids) /\ to \in 1 .. Len(s) + 1 /\ e \in Ids
          BY <1>1, <1>3, <4>1 DEF n
        <5>1. /\ v \in Seq(Ids) /\ Len(v) = Len(s) + 1
              /\ \A x \in 1 .. Len(s) + 1 :
                    v[x] = IF x < to THEN s[x] ELSE IF x = to THEN e ELSE s[x - 1]
          BY <5>0, Insertion
        <5>2. a = v
          BY <4>1
        <5> HIDE DEF v
        <5> QED
          BY <5>1, <5>2 DEF n
      <4> QED
        BY <4>2 DEF e
    <3>2. r = RemoveAt(a, j)
      BY <1>4, <2>3
    <3> HIDE DEF a
    <3>3. j \in 1 .. Len(a) /\ Len(a) - 1 = n
      BY <1>1, <1>2, <3>1
    <3>4. /\ r \in Seq(Ids) /\ Len(r) = n
          /\ \A x \in 1 .. n : r[x] = IF x < j THEN a[x] ELSE a[x + 1]
      BY <3>1, <3>2, <3>3, Removal
    <3>5. ASSUME NEW x \in 1 .. n PROVE r[x] = s[f(x)]
      <4>0. j < to
        BY <1>2, <1>3, <2>3
      <4>1. CASE x < j
        BY <1>1, <1>2, <1>3, <2>3, <3>1, <3>4, <4>0, <4>1
      <4>2. CASE x >= j
        <5>1. r[x] = a[x + 1] /\ x + 1 \in 1 .. n + 1
          BY <1>1, <1>2, <3>4, <4>2
        <5>2. a[x + 1] = IF x + 1 < to THEN s[x + 1]
                         ELSE IF x + 1 = to THEN s[j] ELSE s[x]
          BY <1>1, <3>1, <5>1
        <5> QED
          BY <1>1, <1>2, <1>3, <2>3, <4>0, <4>2, <5>1, <5>2
      <4> QED
        BY <1>2, <4>1, <4>2
    <3> QED
      BY <3>4, <3>5
  <2> QED
    BY <2>1, <2>2, <2>3
<1>6. \A x \in 1 .. n : f(x) \in 1 .. n
  BY <1>1, <1>2, <1>3
<1>7. \A x, y \in 1 .. n : f(x) = f(y) => x = y
  BY <1>1, <1>2, <1>3
<1>8. \A y \in 1 .. n : \E x \in 1 .. n : f(x) = y
  <2> DEFINE g(y) == IF op = "SWAP" THEN IF y = j THEN k ELSE IF y = k THEN j ELSE y
                     ELSE IF j > to THEN IF y < to \/ y > j THEN y
                                         ELSE IF y = j THEN to ELSE y + 1
                     ELSE IF y < j \/ y >= to THEN y
                          ELSE IF y = j THEN to - 1 ELSE y - 1
  <2>1. ASSUME NEW y \in 1 .. n PROVE g(y) \in 1 .. n /\ f(g(y)) = y
    <3>1. CASE op = "SWAP"
      BY <1>1, <1>2, <3>1
    <3>2. CASE op # "SWAP" /\ j > to
      BY <1>1, <1>2, <1>3, <3>2
    <3>3. CASE op # "SWAP" /\ ~(j > to)
      BY <1>1, <1>2, <1>3, <3>3
    <3> QED
      BY <3>1, <3>2, <3>3
  <2> QED
    BY <2>1
<1> DEFINE h == [x \in DOMAIN r |-> f(x)]
<1>9. DOMAIN r = 1 .. n
  BY <1>1, <1>5
<1>10. /\ h \in [DOMAIN r -> DOMAIN s]
       /\ \A x, l \in DOMAIN r : h[x] = h[l] => x = l
       /\ \A x \in DOMAIN r : r[x] = s[h[x]]
       /\ \A l \in DOMAIN s : \E x \in DOMAIN r : h[x] = l
  <2> HIDE DEF f
  <2> QED
    BY <1>1, <1>5, <1>6, <1>7, <1>8, <1>9
<1> HIDE DEF h
<1>11. PICK z : z \notin Ids
  <2> DEFINE z == {x \in Ids : x \notin x}
  <2>1. z \in Ids => (z \in z <=> z \notin z)
    OBVIOUS
  <2> QED
    BY <2>1
<1>12. \A l \in DOMAIN s : s[l] # z
  BY <1>1, <1>11
<1>13. PicksFrom(s, r, h, z)
  BY <1>10, <1>12 DEF PicksFrom
<1>14. r \in Lists /\ ToSet(r) = ToSet(s) \ {z}
  BY <1>5, <1>13, PickedList
<1> QED
  BY <1>12, <1>14 DEF ToSet, r
-----------------------------------------------------------------------------
(***************************************************************************)
(* What the requests have in common.                                       *)
(***************************************************************************)
LEMMA KidsChange ==
    ASSUME NEW ch \in [Ids -> Seq(Ids)]
    PROVE  KidsOf(ch) \in [Ids -> SUBSET Ids] /\ \A p \in Ids : KidsOf(ch)[p] = ToSet(ch[p])
BY DEF KidsOf, ToSet

\* An entry that is looked up in a folder is in it.
LEMMA LookupFinds ==
    ASSUME StoreInv, NEW p, Writable(p), NEW n, NEW i \in Lookup(p, n)
    PROVE  /\ p \in Ids /\ p # Root /\ p \in shown /\ p \in DOMAIN parent /\ p \in folders
           /\ i \in Ids /\ i # Root /\ i \in shown /\ i \in DOMAIN parent
           /\ parent[i] = p /\ title[i] = n /\ i \in KidsOf(children)[p]
           /\ i \in ToSet(children[p]) /\ i \in NodesOf(KidsOf(children))
<1>1. /\ p # Root /\ p \in shown /\ p \in folders
      /\ i \in shown /\ parent[i] = p /\ title[i] = n
  BY DEF Writable, Live, Lookup
<1>2. /\ shown \subseteq DOMAIN parent /\ folders \subseteq Ids
      /\ parent[Root] = Root /\ NodesOf(KidsOf(children)) \subseteq Ids
      /\ \A x \in DOMAIN parent \ {Root} : x \in KidsOf(children)[parent[x]]
  BY IdsFinite DEF StoreInv, MapInv, DocInv, Ids
<1>3. i # Root
  BY <1>1, <1>2
<1>4. i \in KidsOf(children)[p] /\ p \in Ids
  BY <1>1, <1>2, <1>3
<1>5. i \in NodesOf(KidsOf(children))
  BY <1>4 DEF NodesOf
<1>6. i \in ToSet(children[p])
  BY <1>4 DEF KidsOf
<1> QED
  BY <1>1, <1>2, <1>3, <1>4, <1>5, <1>6

\* A name that is not found is that of no other entry, but for a name that
\* fsck_apply() has given.
LEMMA LookupMisses ==
    ASSUME AssocInv, NEW p, NEW n, Lookup(p, n) = {},
           NEW j \in shown \ {Root}, parent[j] = p, title[j] = n
    PROVE  <<p, n>> \in repaired
<1>1. Hashed(j) \notin assoc
  BY DEF Lookup, Hashed
<1> QED
  BY <1>1 DEF AssocInv

LEMMA WithoutAssoc ==
    ASSUME AssocInv, NEW i, NEW t
    PROVE  /\ WithoutId(assoc, i) = {u \in assoc : u[3] \notin {i}}
           /\ WithoutId(WithoutId(assoc, t), i) = {u \in assoc : u[3] \notin {i, t}}
<1>1. ASSUME NEW u \in assoc PROVE Len(u) = 3
  <2>1. u \in Ids \X Titles \X (shown \ {Root})
    BY DEF AssocInv
  <2>2. PICK a \in Ids, b \in Titles, c \in shown \ {Root} : u = <<a, b, c>>
    BY <2>1
  <2> QED
    BY <2>2
<1>2. \A x : WithoutId(assoc, x) = {u \in assoc : u[3] # x}
  BY <1>1 DEF WithoutId
<1>3. \A u \in WithoutId(assoc, t) : u \in assoc /\ Len(u) = 3 /\ u[3] # t
  BY <1>1, <1>2
<1>4. WithoutId(WithoutId(assoc, t), i) = {u \in WithoutId(assoc, t) : u[3] # i}
  BY <1>3 DEF WithoutId
<1> QED
  BY <1>2, <1>4

\* guid_map is the "guid" of each entry; without an entry it is that of the rest.
LEMMA WithoutGuid ==
    ASSUME GuidInv, NEW i
    PROVE  WithoutId(guids, i) = {<<guid[j], j>> : j \in DOMAIN parent \ {Root, i}}
<1>1. guids = {<<guid[j], j>> : j \in DOMAIN parent \ {Root}}
  BY DEF GuidInv
<1>2. \A u \in guids : \E j \in DOMAIN parent \ {Root} : u = <<guid[j], j>>
  BY <1>1
<1>3. \A j : Len(<<guid[j], j>>) = 2 /\ <<guid[j], j>>[2] = j
  OBVIOUS
<1>4. \A j : <<guid[j], j>>[Len(<<guid[j], j>>)] = j
  BY <1>3
<1>5. \A u \in WithoutId(guids, i) :
        \E j \in DOMAIN parent \ {Root, i} : u = <<guid[j], j>>
  BY <1>2, <1>4 DEF WithoutId
<1>6. \A j \in DOMAIN parent \ {Root, i} : <<guid[j], j>> \in WithoutId(guids, i)
  BY <1>1, <1>4 DEF WithoutId
<1> QED
  BY <1>5, <1>6

\* A request has stamped every folder it has changed: those of X are the only
\* entries that have come, gone, moved or got a new name.
LEMMA DoneStamps ==
    ASSUME FoldersStamped, NEW S, Done(S), NEW X,
           \A p \in Ids \ S : children'[p] = children[p],
           \A i \in shown \cap X : parent[i] \in S,
           \A i \in shown' \cap X : parent'[i] \in S,
           shown \ X = shown' \ X,
           \A i \in shown \ X : parent'[i] = parent[i] /\ title'[i] = title[i]
    PROVE  FoldersStamped'
<1>1. ASSUME NEW p \in Ids \ S PROVE Entries(p)' = Entries(p)
  <2>1. \A i : i \in shown /\ parent[i] = p <=> i \in shown' /\ parent'[i] = p
    BY <1>1
  <2>2. \A i : i \in shown /\ parent[i] = p => title'[i] = title[i]
    BY <1>1
  <2>3. {<<i, title'[i]>> : i \in {i \in shown' : parent'[i] = p}}
            = {<<i, title[i]>> : i \in {i \in shown : parent[i] = p}}
    BY <2>1, <2>2
  <2> QED
    BY <2>3 DEF Entries
<1>2. Changed \subseteq S
  BY <1>1 DEF Changed
<1>3. outdated' = {o \in outdated \cup (Changed \X {"request"}) : o[1] \notin S}
  BY DEF Done, Stamp
<1>4. \A o \in Changed \X {"request"} : o[1] \in S
  BY <1>2
<1>5. outdated' \subseteq outdated
  BY <1>3, <1>4
<1> QED
  BY <1>5 DEF FoldersStamped

\* What a request does to the entries that stay, and to the repaired names.
LEMMA DoneStays ==
    ASSUME NEW S, Done(S)
    PROVE  /\ DOMAIN stay' \subseteq DOMAIN stay \cap shown'
           /\ \A i \in DOMAIN stay' : parent'[i] = stream.dir /\ stay'[i] = stay[i]
           /\ repaired' = repaired \cap {<<parent'[i], title'[i]>> : i \in shown'}
BY DEF Done

LEMMA DoneStream ==
    ASSUME StreamInv, NEW S, Done(S), stream' = stream
    PROVE  StreamInv'
<1>1. /\ DOMAIN stay' \subseteq DOMAIN stay \cap shown'
      /\ \A i \in DOMAIN stay' : parent'[i] = stream.dir /\ stay'[i] = stay[i]
  BY DoneStays
<1> QED
  BY <1>1 DEF StreamInv

\* assoc_map when the entries of X have been taken out, those of W been put in,
\* and perhaps all others been hashed again.
AssocChange(X, W) ==
    /\ \E A \in Resized({t \in assoc : t[3] \notin X}) : assoc' = A \cup W
    /\ Root \notin X /\ Root \in shown' /\ shown \ X = shown' \ X
    /\ \A i \in shown \ X : parent'[i] = parent[i] /\ title'[i] = title[i]
    /\ repaired' \subseteq Ids \X Names
    /\ repaired \cap {<<parent'[i], title'[i]>> : i \in shown'} \subseteq repaired'
    /\ \A i \in X \cap shown' :
            /\ title'[i] # BadName
            /\ \/ <<parent'[i], title'[i], i>> \in W
               \/ <<parent'[i], title'[i]>> \in repaired'
    /\ W \subseteq Ids \X Titles \X (X \cap shown')
    /\ \A t \in W : \/ t = <<parent'[t[3]], title'[t[3]], t[3]>>
                    \/ <<parent'[t[3]], title'[t[3]]>> \in repaired'
    /\ \A i \in X \cap shown', j \in shown' \ {Root} :
            parent'[i] = parent'[j] /\ title'[i] = title'[j] =>
                i = j \/ <<parent'[i], title'[i]>> \in repaired'

LEMMA AssocNext ==
    ASSUME DocInv, MapInv, AssocInv, NEW X, NEW W, AssocChange(X, W)
    PROVE  AssocInv'
<1> DEFINE A0 == {t \in assoc : t[3] \notin X}
           pair(i) == <<parent'[i], title'[i]>>
<1>0. PICK A \in Resized(A0) : assoc' = A \cup W
  BY DEF AssocChange
<1>1. /\ assoc \subseteq Ids \X Titles \X (shown \ {Root})
      /\ \A t \in assoc : t = Hashed(t[3]) \/ <<parent[t[3]], title[t[3]]>> \in repaired
      /\ \A i \in shown \ {Root} :
            Hashed(i) \in assoc \/ <<parent[i], title[i]>> \in repaired
      /\ \A i, j \in shown \ {Root} :
            parent[i] = parent[j] /\ title[i] = title[j] =>
                i = j \/ <<parent[i], title[i]>> \in repaired
      /\ \A i \in shown \ {Root} : title[i] # BadName
  BY DEF AssocInv
<1>2. shown \subseteq Ids /\ \A i \in shown : parent[i] \in Ids /\ title[i] \in Titles
  <2>1. NodesOf(KidsOf(children)) \subseteq Ids /\ Root \in Ids
    BY IdsFinite DEF MapInv, Root, Ids
  <2> QED
    BY <2>1 DEF MapInv, DocInv
<1>3. \A i \in shown \ X : <<parent[i], title[i]>> \in repaired => pair(i) \in repaired'
  BY DEF AssocChange
<1>4. /\ A \subseteq Ids \X Titles \X (shown \ (X \cup {Root}))
      /\ \A t \in A : t = <<parent[t[3]], title[t[3]], t[3]>>
                      \/ <<parent[t[3]], title[t[3]]>> \in repaired
      /\ \A i \in shown \ (X \cup {Root}) :
            <<parent[i], title[i], i>> \in A \/ <<parent[i], title[i]>> \in repaired
  <2>1. \A t \in A0 : t \in assoc /\ t[3] \in shown \ (X \cup {Root})
    BY <1>1
  <2>2. \A i \in shown \ (X \cup {Root}) : Hashed(i) \in assoc => Hashed(i) \in A0
    BY DEF Hashed
  <2>3. CASE A = A0
    <3>1. A \subseteq Ids \X Titles \X (shown \ (X \cup {Root}))
      BY <1>1, <2>1, <2>3
    <3> HIDE DEF A0
    <3> QED
      BY <1>1, <2>1, <2>2, <2>3, <3>1 DEF Hashed
  <2>4. CASE A = {<<parent[t[3]], title[t[3]], t[3]>> : t \in A0}
    <3>1. A \subseteq Ids \X Titles \X (shown \ (X \cup {Root}))
      BY <1>2, <2>1, <2>4
    <3>2. \A t \in A : t = <<parent[t[3]], title[t[3]], t[3]>>
      BY <2>4
    <3>3. \A i \in shown \ (X \cup {Root}) :
            Hashed(i) \in A0 => <<parent[i], title[i], i>> \in A
      <4> TAKE i \in shown \ (X \cup {Root})
      <4>1. Hashed(i)[3] = i
        BY DEF Hashed
      <4> HIDE DEF A0
      <4> QED
        BY <2>4, <4>1
    <3> HIDE DEF A0
    <3> QED
      BY <1>1, <2>2, <3>1, <3>2, <3>3
  <2> QED
    BY <1>0, <2>3, <2>4 DEF Resized
<1>5. \A i \in shown' \ {Root} : title'[i] # BadName
  BY <1>1 DEF AssocChange
<1>6. assoc' \subseteq Ids \X Titles \X (shown' \ {Root})
  <2>1. shown \ (X \cup {Root}) \subseteq shown' \ {Root}
    BY DEF AssocChange
  <2>2. X \cap shown' \subseteq shown' \ {Root} /\ W \subseteq Ids \X Titles \X (X \cap shown')
    BY DEF AssocChange
  <2>3. A \subseteq Ids \X Titles \X (shown' \ {Root})
    BY <1>4, <2>1
  <2>4. W \subseteq Ids \X Titles \X (shown' \ {Root})
    BY <2>2
  <2> QED
    BY <1>0, <2>3, <2>4
<1>7. \A t \in assoc' : t = <<parent'[t[3]], title'[t[3]], t[3]>> \/ pair(t[3]) \in repaired'
  <2>1. \A t \in A : t[3] \in shown \ X
    BY <1>4
  <2>2. \A t \in A : t = <<parent'[t[3]], title'[t[3]], t[3]>> \/ pair(t[3]) \in repaired'
    BY <1>3, <1>4, <2>1 DEF AssocChange
  <2> QED
    BY <1>0, <2>2 DEF AssocChange
<1>8. \A i \in shown' \ {Root} : <<parent'[i], title'[i], i>> \in assoc' \/ pair(i) \in repaired'
  BY <1>0, <1>3, <1>4 DEF AssocChange
<1>9. \A i, j \in shown' \ {Root} :
        parent'[i] = parent'[j] /\ title'[i] = title'[j] => i = j \/ pair(i) \in repaired'
  <2> TAKE i, j \in shown' \ {Root}
  <2>1. CASE i \in X
    BY <2>1 DEF AssocChange
  <2>2. CASE j \in X
    BY <2>2 DEF AssocChange
  <2>3. CASE i \notin X /\ j \notin X
    BY <1>1, <1>3, <2>3 DEF AssocChange
  <2> QED
    BY <2>1, <2>2, <2>3
<1>10. repaired' \subseteq Ids \X Names
  BY DEF AssocChange
<1> QED
  BY <1>5, <1>6, <1>7, <1>8, <1>9, <1>10 DEF AssocInv, Hashed
-----------------------------------------------------------------------------
(***************************************************************************)
(* Each request keeps the invariant.                                       *)
(***************************************************************************)
LEMMA InvTypes ==
    ASSUME StoreInv
    PROVE  /\ Root \in Ids /\ NodesOf(KidsOf(children)) \subseteq Ids \ {Root}
           /\ \A p \in Ids : /\ children[p] \in Lists
                             /\ KidsOf(children)[p] = ToSet(children[p])
                             /\ children[p] = <<>> <=> KidsOf(children)[p] = {}
                             /\ KidsOf(children)[p] \subseteq NodesOf(KidsOf(children))
           /\ KidsOf(children) \in [Ids -> SUBSET (Ids \ {Root})]
           /\ DOMAIN parent \subseteq Ids /\ shown \subseteq Ids
           /\ \A i \in DOMAIN parent, q \in Ids : i \in KidsOf(children)[q] => q = parent[i]
<1>1. /\ children \in [Ids -> Seq(Ids)] /\ \A p \in Ids : IsInjective(children[p])
      /\ Tree(KidsOf(children))
  BY DEF StoreInv, DocInv
<1>2. /\ \A p \in Ids : KidsOf(children)[p] = ToSet(children[p])
      /\ \A p \in Ids : children[p] = <<>> <=> KidsOf(children)[p] = {}
  BY <1>1, KidsFacts
<1>3. /\ DOMAIN parent \subseteq {Root} \cup NodesOf(KidsOf(children))
      /\ \A i \in DOMAIN parent \ {Root} : i \in KidsOf(children)[parent[i]]
      /\ shown \subseteq DOMAIN parent /\ parent \in [DOMAIN parent -> Ids]
  BY DEF StoreInv, MapInv
<1>4. /\ KidsOf(children) \in [Ids -> SUBSET (Ids \ {Root})]
      /\ \A p, q \in Ids : \A i \in KidsOf(children)[p] \cap KidsOf(children)[q] : p = q
  BY <1>1 DEF Tree
<1>5. Root \in Ids
  BY IdsFinite DEF Root, Ids
<1>6. /\ NodesOf(KidsOf(children)) \subseteq Ids \ {Root}
      /\ \A p \in Ids : KidsOf(children)[p] \subseteq NodesOf(KidsOf(children))
  BY <1>4 DEF NodesOf
<1>7. \A p \in Ids : children[p] \in Lists
  BY <1>1 DEF Lists
<1>8. \A i \in DOMAIN parent, q \in Ids : i \in KidsOf(children)[q] => q = parent[i]
  BY <1>3, <1>4
<1> QED
  BY <1>2, <1>3, <1>4, <1>5, <1>6, <1>7, <1>8

LEMMA CreateStep ==
    ASSUME StoreInv, NEW p \in Ids, NEW n \in Names, NEW d \in BOOLEAN, Create(p, n, d)
    PROVE  StoreInv'
<1> DEFINE i == NewId
           K == KidsOf(children)
           N == NodesOf(K)
           L == KidsOf(children')
<1>1. /\ p # Root /\ p \in shown /\ p \in folders /\ Lookup(p, n) = {}
      /\ stream' = stream /\ Done({p})
  BY DEF Create, Writable, Live
<1>2. /\ children' = [children EXCEPT ![p] = Append(@, i)]
      /\ title' = [title EXCEPT ![i] = n]
      /\ folders' = IF d THEN folders \cup {i} ELSE folders
      /\ parent' = [j \in DOMAIN parent \cup {i} |-> IF j = i THEN p ELSE parent[j]]
      /\ shown' = shown \cup {i} /\ maxId' = i
  BY DEF Create
<1>3. PICK g \in FreshGuids : guid' = [guid EXCEPT ![i] = g] /\ guids' = guids \cup {<<g, i>>}
  BY DEF Create
<1>4. PICK A \in Resized(assoc) : assoc' = A \cup {<<p, n, i>>}
  BY DEF Create
<1>5. DocInv /\ MapInv /\ AssocInv /\ GuidInv /\ StreamInv /\ FoldersStamped
  BY DEF StoreInv
<1>6. /\ Root \in Ids /\ N \subseteq Ids \ {Root}
      /\ \A q \in Ids : /\ children[q] \in Lists /\ K[q] = ToSet(children[q])
                        /\ children[q] = <<>> <=> K[q] = {}
                        /\ K[q] \subseteq N
      /\ K \in [Ids -> SUBSET (Ids \ {Root})]
      /\ DOMAIN parent \subseteq Ids /\ shown \subseteq Ids
  BY InvTypes
<1>7. /\ maxId \in Ids /\ N \subseteq 1 .. maxId /\ DOMAIN parent \subseteq {Root} \cup N
      /\ parent \in [DOMAIN parent -> Ids] /\ Root \in DOMAIN parent /\ parent[Root] = Root
      /\ \A x \in DOMAIN parent \ {Root} : x \in K[parent[x]]
      /\ \A q \in Ids : children[q] # <<>> => q \in folders \cap DOMAIN parent
      /\ Root \in shown /\ shown \subseteq DOMAIN parent
      /\ \A x \in shown \ {Root} : parent[x] \in shown
  BY <1>5 DEF MapInv
<1>8. i \in Ids /\ i = maxId + 1 /\ i # Root
  <2>1. i = maxId + 1 /\ (i <= MaxId \/ i <= MaxStreamId)
    BY DEF Create, NewId
  <2>2. MaxStreamId \in 0 .. MaxId /\ maxId \in 0 .. MaxId /\ MaxId \in Nat
    BY <1>7, ListedAssumption, IdsFinite DEF Ids
  <2> HIDE DEF i
  <2> QED
    BY <2>1, <2>2 DEF Ids, Root
<1> HIDE DEF i
<1>9. i \notin N /\ i \notin DOMAIN parent /\ i \notin shown /\ p # i
  BY <1>1, <1>6, <1>7, <1>8 DEF Root, Ids
<1>10. K[i] = {} /\ children[i] = <<>>
  BY <1>6, <1>7, <1>8, <1>9
<1>11. Append(children[p], i) \in Lists /\ ToSet(Append(children[p], i)) = K[p] \cup {i}
  <2>1. i \notin ToSet(children[p])
    BY <1>6, <1>9
  <2> QED
    BY <1>6, <1>8, <2>1, AppendList
<1>12. /\ children' \in [Ids -> Seq(Ids)] /\ children'[p] = Append(children[p], i)
       /\ \A q \in Ids \ {p} : children'[q] = children[q]
  BY <1>2, <1>5, <1>11 DEF DocInv, Lists
<1>13. Put(K, L, p, i) /\ \A q \in Ids : L[q] = IF q = p THEN K[q] \cup {i} ELSE K[q]
  <2>1. L \in [Ids -> SUBSET Ids] /\ \A q \in Ids : L[q] = ToSet(children'[q])
    BY <1>12, KidsChange
  <2>2. \A q \in Ids : L[q] = IF q = p THEN K[q] \cup {i} ELSE K[q]
    BY <1>6, <1>11, <1>12, <2>1
  <2> HIDE DEF L, K
  <2> QED
    BY <1>6, <1>9, <2>1, <2>2 DEF Put
<1>14. Tree(L) /\ NodesOf(L) = N \cup {i}
  <2>1. Tree(K)
    BY <1>5 DEF DocInv
  <2> HIDE DEF L, K
  <2>2. Shut(K, {i})
    BY <1>10 DEF Shut
  <2> QED
    BY <1>8, <1>9, <1>13, <2>1, <2>2, TreePut
<1> HIDE DEF L, K, N
<1>15. DocInv'
  <2>1. children' \in [Ids -> Seq(Ids)] /\ \A q \in Ids : IsInjective(children'[q])
    BY <1>5, <1>6, <1>11, <1>12 DEF DocInv, Lists
  <2>2. title' \in [Ids -> Titles]
    BY <1>2, <1>5 DEF DocInv, Titles
  <2>3. guid' \in [Ids -> GuidType]
    BY <1>3, <1>5 DEF DocInv, GuidType, FreshGuids
  <2>4. folders' \subseteq Ids
    BY <1>2, <1>5, <1>8 DEF DocInv
  <2> QED
    BY <1>14, <2>1, <2>2, <2>3, <2>4 DEF DocInv, L
<1>16. /\ DOMAIN parent' = DOMAIN parent \cup {i} /\ parent'[i] = p
       /\ \A x \in DOMAIN parent : parent'[x] = parent[x]
       /\ parent' \in [DOMAIN parent' -> Ids]
  BY <1>2, <1>7, <1>9
<1>17. MapInv'
  <2>1. maxId' \in Ids /\ NodesOf(L) \subseteq 1 .. maxId'
    BY <1>2, <1>7, <1>8, <1>14 DEF Ids
  <2>2. DOMAIN parent' \subseteq {Root} \cup NodesOf(L)
    BY <1>7, <1>14, <1>16
  <2>3. \A x \in DOMAIN parent' \ {Root} : x \in L[parent'[x]]
    BY <1>7, <1>13, <1>16
  <2>4. \A q \in Ids : children'[q] # <<>> => q \in folders' \cap DOMAIN parent'
    <3>1. p \in folders' \cap DOMAIN parent'
      BY <1>1, <1>2, <1>7, <1>16
    <3>3. folders \subseteq folders'
      BY <1>2
    <3> QED
      BY <1>7, <1>12, <1>16, <3>1, <3>3
  <2>5. \A x \in shown' \ {Root} : parent'[x] \in shown'
    BY <1>1, <1>2, <1>7, <1>16
  <2>6. Root \in shown' /\ shown' \subseteq DOMAIN parent'
    BY <1>2, <1>7, <1>16
  <2> QED
    BY <1>7, <1>16, <2>1, <2>2, <2>3, <2>4, <2>5, <2>6 DEF MapInv, L
<1>18. repaired' = repaired \cap {<<parent'[x], title'[x]>> : x \in shown'}
  BY <1>1, DoneStays
<1>19. title'[i] = n /\ \A x \in Ids \ {i} : title'[x] = title[x]
  BY <1>2, <1>5, <1>8 DEF DocInv
<1>20. AssocInv'
  <2>1. {t \in assoc : t[3] \notin {i}} = assoc
    BY <1>5, <1>9 DEF AssocInv
  <2>2. A \in Resized({t \in assoc : t[3] \notin {i}})
    BY <1>4, <2>1
  <2>3. shown \ {i} = shown' \ {i} /\ {i} \cap shown' = {i}
    BY <1>2
  <2>4. \A x \in shown \ {i} : parent'[x] = parent[x] /\ title'[x] = title[x]
    BY <1>6, <1>7, <1>16, <1>19
  <2>5. repaired' \subseteq Ids \X Names
    BY <1>5, <1>18 DEF AssocInv
  <2>6. \A x \in shown' \ {Root} : p = parent'[x] /\ n = title'[x] =>
            i = x \/ <<p, n>> \in repaired'
    <3> SUFFICES ASSUME NEW x \in shown' \ {Root}, x # i, p = parent'[x], n = title'[x]
                 PROVE  <<p, n>> \in repaired'
      OBVIOUS
    <3>1. x \in shown \ {Root} /\ parent[x] = p /\ title[x] = n
      BY <2>3, <2>4
    <3>2. <<p, n>> \in repaired
      BY <1>1, <1>5, <3>1, LookupMisses
    <3> QED
      BY <1>18, <3>2
  <2>7. {<<p, n, i>>} \subseteq Ids \X Titles \X ({i} \cap shown')
    BY <2>3 DEF Titles
  <2>8. n # BadName
    BY NameAssumption
  <2>9. Root \notin {i} /\ Root \in shown'
    BY <1>2, <1>7, <1>8
  <2> QED
    <3>1. AssocChange({i}, {<<p, n, i>>})
      BY <1>4, <1>16, <1>18, <1>19, <2>2, <2>3, <2>4, <2>5, <2>6, <2>7, <2>8, <2>9
      DEF AssocChange
    <3> QED
      BY <1>5, <3>1, AssocNext
<1>21. GuidInv'
  <2>1. guid'[i] = g /\ \A x \in Ids \ {i} : guid'[x] = guid[x]
    BY <1>3, <1>5, <1>8 DEF DocInv
  <2>2. \A x \in Ids : guid[x] # g
    BY <1>3 DEF FreshGuids
  <2>3. DOMAIN parent' \ {Root} = (DOMAIN parent \ {Root}) \cup {i}
    BY <1>8, <1>16
  <2>4. \A x \in DOMAIN parent \ {Root} : guid'[x] = guid[x]
    BY <1>6, <1>9, <2>1
  <2>5. guids' = {<<guid'[x], x>> : x \in DOMAIN parent' \ {Root}}
    BY <1>3, <1>5, <2>1, <2>3, <2>4 DEF GuidInv
  <2>6. \A x, y \in DOMAIN parent' \ {Root} : guid'[x] = guid'[y] => x = y
    BY <1>5, <1>6, <2>1, <2>2, <2>3, <2>4 DEF GuidInv
  <2> QED
    BY <2>5, <2>6 DEF GuidInv
<1>22. StreamInv'
  BY <1>1, <1>5, DoneStream
<1>23. FoldersStamped'
  <2>1. \A q \in Ids \ {p} : children'[q] = children[q]
    BY <1>12
  <2>2. \A x \in shown \cap {i} : parent[x] \in {p}
    BY <1>9
  <2>3. \A x \in shown' \cap {i} : parent'[x] \in {p}
    BY <1>16
  <2>4. shown \ {i} = shown' \ {i}
    BY <1>2
  <2>5. \A x \in shown \ {i} : parent'[x] = parent[x] /\ title'[x] = title[x]
    BY <1>6, <1>7, <1>16, <1>19
  <2> QED
    BY <1>1, <1>5, <2>1, <2>2, <2>3, <2>4, <2>5, DoneStamps
<1> QED
  BY <1>15, <1>17, <1>20, <1>21, <1>22, <1>23 DEF StoreInv

LEMMA DeleteStep ==
    ASSUME StoreInv, NEW p \in Ids, NEW n \in Names, NEW d \in BOOLEAN, Delete(p, n, d)
    PROVE  StoreInv'
<1> DEFINE K == KidsOf(children)
           N == NodesOf(K)
           L == KidsOf(children')
<1>1. Writable(p) /\ maxId' = maxId /\ stream' = stream /\ Done({p})
  BY DEF Delete
<1>2. PICK i \in Lookup(p, n) :
        /\ children[i] = <<>> /\ children' = [children EXCEPT ![p] = Taken(@, i)]
        /\ FreeNode(i) /\ parent' = WithoutKey(parent, i) /\ shown' = shown \ {i}
        /\ assoc' \in Resized(WithoutId(assoc, i)) /\ guids' = WithoutId(guids, i)
  BY DEF Delete
<1>3. /\ p # Root /\ p \in shown /\ p \in DOMAIN parent /\ p \in folders
      /\ i \in Ids /\ i # Root /\ i \in shown /\ i \in DOMAIN parent
      /\ parent[i] = p /\ i \in K[p] /\ i \in ToSet(children[p]) /\ i \in N
  BY <1>1, LookupFinds
<1>4. DocInv /\ MapInv /\ AssocInv /\ GuidInv /\ StreamInv /\ FoldersStamped
  BY DEF StoreInv
<1>5. /\ Root \in Ids /\ N \subseteq Ids \ {Root}
      /\ \A q \in Ids : /\ children[q] \in Lists /\ K[q] = ToSet(children[q])
                        /\ children[q] = <<>> <=> K[q] = {}
      /\ K \in [Ids -> SUBSET (Ids \ {Root})]
      /\ DOMAIN parent \subseteq Ids /\ shown \subseteq Ids
      /\ \A x \in DOMAIN parent, q \in Ids : x \in K[q] => q = parent[x]
  BY InvTypes
<1>6. /\ maxId \in Ids /\ N \subseteq 1 .. maxId /\ DOMAIN parent \subseteq {Root} \cup N
      /\ parent \in [DOMAIN parent -> Ids] /\ Root \in DOMAIN parent /\ parent[Root] = Root
      /\ \A x \in DOMAIN parent \ {Root} : x \in K[parent[x]]
      /\ \A q \in Ids : children[q] # <<>> => q \in folders \cap DOMAIN parent
      /\ Root \in shown /\ shown \subseteq DOMAIN parent
      /\ \A x \in shown \ {Root} : parent[x] \in shown
  BY <1>4 DEF MapInv
<1>7. /\ title' = [title EXCEPT ![i] = NoName] /\ folders' = folders \ {i}
      /\ guid' = [guid EXCEPT ![i] = NoGuid]
      /\ DOMAIN parent' = DOMAIN parent \ {i}
      /\ \A x \in DOMAIN parent \ {i} : parent'[x] = parent[x]
      /\ parent' \in [DOMAIN parent' -> Ids]
  BY <1>2, <1>6 DEF FreeNode, WithoutKey
<1>8. Taken(children[p], i) \in Lists /\ ToSet(Taken(children[p], i)) = K[p] \ {i}
  BY <1>3, <1>5, TakenList
<1>9. /\ children' \in [Ids -> Seq(Ids)] /\ children'[p] = Taken(children[p], i)
      /\ \A q \in Ids \ {p} : children'[q] = children[q]
  BY <1>2, <1>4, <1>8 DEF DocInv, Lists
<1>10. Dropped(K, L, i)
  <2>1. L \in [Ids -> SUBSET Ids] /\ \A q \in Ids : L[q] = ToSet(children'[q])
    BY <1>9, KidsChange
  <2>2. \A q \in Ids \ {p} : i \notin K[q]
    BY <1>3, <1>5
  <2> HIDE DEF L, K
  <2>3. L[p] = K[p] \ {i}
    BY <1>8, <1>9, <2>1
  <2>4. \A q \in Ids \ {p} : L[q] = K[q]
    BY <1>5, <1>9, <2>1
  <2> QED
    BY <2>1, <2>2, <2>3, <2>4 DEF Dropped
<1>11. Tree(L) /\ NodesOf(L) = N \ {i} /\ \A q \in Ids : L[q] = K[q] \ {i}
  <2>1. Tree(K)
    BY <1>4 DEF DocInv
  <2> HIDE DEF L, K
  <2> QED
    BY <1>10, <2>1, TreeDrop DEF Dropped
<1>12. p # i /\ K[i] = {}
  BY <1>2, <1>3, <1>5
<1> HIDE DEF L, K, N
<1>13. DocInv'
  <2>1. \A q \in Ids : IsInjective(children'[q])
    BY <1>4, <1>8, <1>9 DEF DocInv, Lists
  <2>2. title' \in [Ids -> Titles] /\ guid' \in [Ids -> GuidType] /\ folders' \subseteq Ids
    BY <1>4, <1>7 DEF DocInv, Titles, GuidType
  <2> QED
    BY <1>9, <1>11, <2>1, <2>2 DEF DocInv, L
<1>14. MapInv'
  <2>1. maxId' \in Ids /\ NodesOf(L) \subseteq 1 .. maxId'
    BY <1>1, <1>6, <1>11
  <2>2. DOMAIN parent' \subseteq {Root} \cup NodesOf(L)
    BY <1>6, <1>7, <1>11
  <2>3. \A x \in DOMAIN parent' \ {Root} : x \in L[parent'[x]]
    BY <1>6, <1>7, <1>11
  <2>4. \A q \in Ids : children'[q] # <<>> => q \in folders' \cap DOMAIN parent'
    BY <1>2, <1>3, <1>6, <1>7, <1>9, <1>12
  <2>5. \A x \in shown' \ {Root} : parent'[x] \in shown'
    BY <1>2, <1>6, <1>7, <1>12
  <2>6. Root \in shown' /\ shown' \subseteq DOMAIN parent' /\ Root \in DOMAIN parent'
        /\ parent'[Root] = Root
    BY <1>2, <1>3, <1>6, <1>7
  <2> QED
    BY <1>7, <2>1, <2>2, <2>3, <2>4, <2>5, <2>6 DEF MapInv, L
<1>15. shown \ {i} = shown' \ {i} /\ {i} \cap shown' = {}
  BY <1>2
<1>16. \A x \in shown \ {i} : parent'[x] = parent[x] /\ title'[x] = title[x]
  BY <1>4, <1>5, <1>6, <1>7 DEF DocInv
<1>17. AssocInv'
  <2>1. repaired' = repaired \cap {<<parent'[x], title'[x]>> : x \in shown'}
    BY <1>1, DoneStays
  <2>2. repaired' \subseteq Ids \X Names
    BY <1>4, <2>1 DEF AssocInv
  <2>3. WithoutId(assoc, i) = {t \in assoc : t[3] \notin {i}}
    BY <1>4, WithoutAssoc
  <2>4. assoc' \in Resized({t \in assoc : t[3] \notin {i}}) /\ assoc' = assoc' \cup {}
    BY <1>2, <2>3
  <2>5. Root \notin {i} /\ Root \in shown'
    BY <1>2, <1>3, <1>6
  <2>6. AssocChange({i}, {})
    BY <1>15, <1>16, <2>1, <2>2, <2>4, <2>5 DEF AssocChange
  <2> QED
    BY <1>4, <2>6, AssocNext
<1>18. GuidInv'
  <2>1. guids' = {<<guid[x], x>> : x \in DOMAIN parent \ {Root, i}}
    BY <1>2, <1>4, WithoutGuid
  <2>2. \A x \in DOMAIN parent \ {Root, i} : guid'[x] = guid[x]
    BY <1>4, <1>5, <1>7 DEF DocInv
  <2>3. DOMAIN parent' \ {Root} = DOMAIN parent \ {Root, i}
    BY <1>7
  <2>4. guids' = {<<guid'[x], x>> : x \in DOMAIN parent' \ {Root}}
    BY <2>1, <2>2, <2>3
  <2> QED
    BY <1>4, <2>2, <2>3, <2>4 DEF GuidInv
<1>19. StreamInv'
  BY <1>1, <1>4, DoneStream
<1>20. FoldersStamped'
  <2>1. \A q \in Ids \ {p} : children'[q] = children[q]
    BY <1>9
  <2>2. \A x \in shown \cap {i} : parent[x] \in {p}
    BY <1>3
  <2>3. \A x \in shown' \cap {i} : parent'[x] \in {p}
    BY <1>15
  <2> QED
    BY <1>1, <1>4, <1>15, <1>16, <2>1, <2>2, <2>3, DoneStamps
<1> QED
  BY <1>13, <1>14, <1>17, <1>18, <1>19, <1>20 DEF StoreInv

LEMMA PermuteStep ==
    ASSUME StoreInv, NEW p \in Ids, NEW op \in Ops, NEW n1 \in Names, NEW n2 \in Names,
           Permute(p, op, n1, n2)
    PROVE  StoreInv'
<1> DEFINE K == KidsOf(children)
           L == KidsOf(children')
<1>1. /\ Writable(p) /\ Done({p}) /\ stream' = stream
      /\ title' = title /\ folders' = folders /\ guid' = guid
      /\ parent' = parent /\ shown' = shown /\ assoc' = assoc /\ guids' = guids
      /\ maxId' = maxId
  BY DEF Permute, maps
<1>2. PICK i1 \in Lookup(p, n1), i2 \in Lookup(p, n2) :
        /\ i1 # i2
        /\ LET s == children[p]
               j == CHOOSE j \in DOMAIN s : s[j] = i1
               k == CHOOSE k \in DOMAIN s : s[k] = i2
           IN  /\ ~(op = "MOVE_AFTER" /\ j = k + 1)
               /\ children' = [children EXCEPT ![p] = Permuted(s, op, j, k)]
  BY DEF Permute
<1> DEFINE s == children[p]
           j == CHOOSE j \in DOMAIN s : s[j] = i1
           k == CHOOSE k \in DOMAIN s : s[k] = i2
           r == Permuted(s, op, j, k)
<1>3. ~(op = "MOVE_AFTER" /\ j = k + 1) /\ children' = [children EXCEPT ![p] = r]
  BY <1>2
<1>4. /\ p \in folders /\ p \in DOMAIN parent
      /\ i1 \in ToSet(children[p]) /\ i2 \in ToSet(children[p])
  BY <1>1, LookupFinds
<1>5. j \in DOMAIN s /\ s[j] = i1 /\ k \in DOMAIN s /\ s[k] = i2
  BY <1>4 DEF ToSet
<1>6. DocInv /\ MapInv /\ AssocInv /\ GuidInv /\ StreamInv /\ FoldersStamped
  BY DEF StoreInv
<1>7. \A q \in Ids : children[q] \in Lists
  BY InvTypes
<1>8. r \in Lists /\ ToSet(r) = ToSet(s)
  <2> HIDE DEF j, k
  <2>1. s \in Lists /\ j # k
    BY <1>2, <1>5, <1>7
  <2> HIDE DEF s
  <2> QED
    BY <1>3, <1>5, <2>1, PermutedList
<1> HIDE DEF r
<1>9. /\ children' \in [Ids -> Seq(Ids)] /\ children'[p] = r
      /\ \A q \in Ids \ {p} : children'[q] = children[q]
  BY <1>3, <1>6, <1>8 DEF DocInv, Lists
<1>10. L = K
  <2>1. L \in [Ids -> SUBSET Ids] /\ \A q \in Ids : L[q] = ToSet(children'[q])
    BY <1>9, KidsChange
  <2>2. K \in [Ids -> SUBSET Ids] /\ \A q \in Ids : K[q] = ToSet(children[q])
    BY <1>6, KidsChange DEF DocInv
  <2>3. \A q \in Ids : L[q] = K[q]
    BY <1>8, <1>9, <2>1, <2>2
  <2> HIDE DEF L, K
  <2> QED
    BY <2>1, <2>2, <2>3
<1>11. DocInv'
  <2>1. \A q \in Ids : IsInjective(children'[q])
    BY <1>6, <1>8, <1>9 DEF DocInv, Lists
  <2> QED
    BY <1>1, <1>6, <1>9, <1>10, <2>1 DEF DocInv
<1>12. MapInv'
  <2>1. \A q \in Ids : children'[q] # <<>> => q \in folders' \cap DOMAIN parent'
    BY <1>1, <1>4, <1>6, <1>9 DEF MapInv
  <2>2. NodesOf(L) = NodesOf(K)
    BY <1>10
  <2> QED
    BY <1>1, <1>6, <1>10, <2>1, <2>2 DEF MapInv
<1>13. AssocInv'
  <2>1. repaired' = repaired \cap {<<parent'[x], title'[x]>> : x \in shown'}
    BY <1>1, DoneStays
  <2>2. repaired' \subseteq Ids \X Names
    BY <1>6, <2>1 DEF AssocInv
  <2>3. assoc \in Resized({t \in assoc : t[3] \notin {}}) /\ assoc' = assoc \cup {}
    BY <1>1 DEF Resized
  <2>4. Root \in shown
    BY <1>6 DEF MapInv
  <2>5. AssocChange({}, {})
    BY <1>1, <2>1, <2>2, <2>3, <2>4 DEF AssocChange
  <2> QED
    BY <1>6, <2>5, AssocNext
<1>14. GuidInv'
  BY <1>1, <1>6 DEF GuidInv
<1>15. StreamInv'
  BY <1>1, <1>6, DoneStream
<1>16. FoldersStamped'
  <2>1. \A q \in Ids \ {p} : children'[q] = children[q]
    BY <1>9
  <2>2. /\ shown \ {} = shown' \ {} /\ shown \cap {} = {} /\ shown' \cap {} = {}
        /\ \A x \in shown \ {} : parent'[x] = parent[x] /\ title'[x] = title[x]
    BY <1>1
  <2>3. \A x \in shown \cap {} : parent[x] \in {p}
    BY <2>2
  <2>4. \A x \in shown' \cap {} : parent'[x] \in {p}
    BY <2>2
  <2> QED
    BY <1>1, <1>6, <2>1, <2>2, <2>3, <2>4, DoneStamps
<1> QED
  BY <1>11, <1>12, <1>13, <1>14, <1>15, <1>16 DEF StoreInv

\* assoc_map when entry i is named m in folder q, and the other entries of X are gone.
NamedChange(X, i, q, m) ==
    /\ \E A \in Resized({t \in assoc : t[3] \notin X}) : assoc' = A \cup {<<q, m, i>>}
    /\ X \cap shown' = {i} /\ Root \notin X /\ shown \ X = shown' \ X
    /\ \A x \in shown \ X : parent'[x] = parent[x] /\ title'[x] = title[x]
    /\ parent'[i] = q /\ title'[i] = m
    /\ repaired' = repaired \cap {<<parent'[x], title'[x]>> : x \in shown'}
    /\ \A x \in shown \ X : x # Root /\ parent[x] = q /\ title[x] = m
                            => <<q, m>> \in repaired

LEMMA NamedAssoc ==
    ASSUME DocInv, MapInv, AssocInv, NEW X, NEW i \in Ids, NEW q \in Ids, NEW m \in Names,
           NamedChange(X, i, q, m)
    PROVE  AssocInv'
<1>1. Root \in shown' /\ i \in shown'
  BY DEF MapInv, NamedChange
<1>2. repaired' \subseteq Ids \X Names
  BY DEF AssocInv, NamedChange
<1>3. m # BadName
  BY NameAssumption
<1>4. {<<q, m, i>>} \subseteq Ids \X Titles \X (X \cap shown')
  BY DEF Titles, NamedChange
<1>5. \A x \in X \cap shown' : x = i
  BY DEF NamedChange
<1>6. \A x \in X \cap shown', j \in shown' \ {Root} :
        parent'[x] = parent'[j] /\ title'[x] = title'[j] =>
            x = j \/ <<parent'[x], title'[x]>> \in repaired'
  <2> SUFFICES ASSUME NEW j \in shown' \ {Root}, q = parent'[j], m = title'[j], j # i
               PROVE  <<q, m>> \in repaired'
    BY <1>5 DEF NamedChange
  <2>1. j \in shown \ X
    BY DEF NamedChange
  <2>2. <<q, m>> \in repaired
    BY <2>1 DEF NamedChange
  <2> QED
    BY <1>1, <2>2 DEF NamedChange
<1>7. AssocChange(X, {<<q, m, i>>})
  BY <1>1, <1>2, <1>3, <1>4, <1>5, <1>6 DEF AssocChange, NamedChange
<1> QED
  BY <1>7, AssocNext

LEMMA RenameFreeStep ==
    ASSUME StoreInv, NEW p \in Ids, NEW n \in Names, NEW q \in Ids, NEW m \in Names,
           RenameFree(p, n, q, m)
    PROVE  StoreInv'
<1> DEFINE K == KidsOf(children)
           N == NodesOf(K)
           L == KidsOf(children')
<1>1. /\ Writable(p) /\ Writable(q) /\ Lookup(q, m) = {} /\ Done({p, q})
      /\ folders' = folders /\ guid' = guid /\ shown' = shown /\ guids' = guids
      /\ maxId' = maxId /\ stream' = stream
  BY DEF RenameFree
<1>2. PICK i \in Lookup(p, n) :
        /\ q \notin Below(i)
        /\ title' = [title EXCEPT ![i] = m] /\ parent' = [parent EXCEPT ![i] = q]
        /\ children' = IF p = q THEN children
                       ELSE [children EXCEPT ![p] = Taken(@, i), ![q] = Append(@, i)]
        /\ \E A \in Resized(WithoutId(assoc, i)) : assoc' = A \cup {<<q, m, i>>}
  BY DEF RenameFree
<1>3. PICK A \in Resized(WithoutId(assoc, i)) : assoc' = A \cup {<<q, m, i>>}
  BY <1>2
<1>4. DocInv /\ MapInv /\ AssocInv /\ GuidInv /\ StreamInv /\ FoldersStamped
  BY DEF StoreInv
<1>5. /\ Root \in Ids /\ N \subseteq Ids \ {Root}
      /\ \A r \in Ids : children[r] \in Lists /\ K[r] = ToSet(children[r])
      /\ K \in [Ids -> SUBSET (Ids \ {Root})]
      /\ DOMAIN parent \subseteq Ids /\ shown \subseteq Ids
      /\ \A x \in DOMAIN parent, r \in Ids : x \in K[r] => r = parent[x]
  BY InvTypes
<1>6. /\ maxId \in Ids /\ N \subseteq 1 .. maxId /\ DOMAIN parent \subseteq {Root} \cup N
      /\ parent \in [DOMAIN parent -> Ids] /\ Root \in DOMAIN parent /\ parent[Root] = Root
      /\ \A x \in DOMAIN parent \ {Root} : x \in K[parent[x]]
      /\ \A r \in Ids : children[r] # <<>> => r \in folders \cap DOMAIN parent
      /\ Root \in shown /\ shown \subseteq DOMAIN parent
      /\ \A x \in shown \ {Root} : parent[x] \in shown
  BY <1>4 DEF MapInv
<1>7. /\ p \in folders /\ p \in DOMAIN parent /\ i \in Ids /\ i # Root /\ i \in shown
      /\ i \in DOMAIN parent /\ parent[i] = p /\ i \in K[p] /\ i \in N
  BY <1>1, LookupFinds
<1>8. q # Root /\ q \in shown /\ q \in folders /\ q \in DOMAIN parent
  BY <1>1, <1>6 DEF Writable, Live
<1>9. \A r \in Ids \ {p} : i \notin K[r]
  BY <1>5, <1>7
<1>10. /\ children' \in [Ids -> Seq(Ids)]
       /\ \A r \in Ids \ {p, q} : children'[r] = children[r]
       /\ \A r \in Ids : children'[r] \in Lists
       /\ Put(K, L, q, i)
  <2>1. CASE p = q
    <3>1. children' = children
      BY <1>2, <2>1
    <3>2. L = K
      BY <3>1
    <3>3. \A r \in Ids : K[r] = IF r = q THEN K[r] \cup {i} ELSE K[r] \ {i}
      BY <1>7, <1>9, <2>1
    <3> HIDE DEF L, K
    <3> QED
      BY <1>4, <1>5, <3>1, <3>2, <3>3 DEF Put, DocInv
  <2>2. CASE p # q
    <3>1. children' = [children EXCEPT ![p] = Taken(@, i), ![q] = Append(@, i)]
      BY <1>2, <2>2
    <3>2. Taken(children[p], i) \in Lists /\ ToSet(Taken(children[p], i)) = K[p] \ {i}
      BY <1>5, <1>7, TakenList
    <3>3. Append(children[q], i) \in Lists /\ ToSet(Append(children[q], i)) = K[q] \cup {i}
      BY <1>5, <1>7, <1>9, <2>2, AppendList
    <3>4. /\ children' \in [Ids -> Seq(Ids)]
          /\ children'[p] = Taken(children[p], i) /\ children'[q] = Append(children[q], i)
          /\ \A r \in Ids \ {p, q} : children'[r] = children[r]
      BY <1>4, <2>2, <3>1, <3>2, <3>3 DEF DocInv, Lists
    <3>5. L \in [Ids -> SUBSET Ids] /\ \A r \in Ids : L[r] = ToSet(children'[r])
      BY <3>4, KidsChange
    <3> HIDE DEF L, K
    <3>6. L[p] = K[p] \ {i} /\ L[q] = K[q] \cup {i}
      BY <3>2, <3>3, <3>4, <3>5
    <3>7. \A r \in Ids \ {p, q} : L[r] = K[r]
      BY <1>5, <3>4, <3>5
    <3>8. \A r \in Ids : L[r] = IF r = q THEN K[r] \cup {i} ELSE K[r] \ {i}
      BY <1>9, <3>6, <3>7
    <3>9. Put(K, L, q, i)
      BY <3>5, <3>8 DEF Put
    <3> QED
      BY <1>5, <3>2, <3>3, <3>4, <3>9
  <2> QED
    BY <2>1, <2>2
<1>11. Tree(L) /\ NodesOf(L) = N
  <2>1. i \in Below(i) /\ \A x \in Below(i) : K[x] \subseteq Below(i)
    BY <1>4, <1>7, BelowClosed DEF DocInv
  <2>2. Tree(K)
    BY <1>4 DEF DocInv
  <2> HIDE DEF K, L
  <2>3. Shut(K, Below(i))
    BY <2>1 DEF Shut
  <2>4. Tree(L) /\ NodesOf(L) = NodesOf(K) \cup {i}
    BY <1>2, <1>7, <1>10, <2>1, <2>2, <2>3, TreePut
  <2> QED
    BY <1>7, <2>4
<1> HIDE DEF L, K, N
<1>12. \A r \in Ids : L[r] = IF r = q THEN K[r] \cup {i} ELSE K[r] \ {i}
  BY <1>10 DEF Put
<1>13. /\ DOMAIN parent' = DOMAIN parent /\ parent'[i] = q
       /\ \A x \in DOMAIN parent \ {i} : parent'[x] = parent[x]
       /\ parent' \in [DOMAIN parent' -> Ids]
  BY <1>2, <1>6, <1>7
<1>14. title'[i] = m /\ \A x \in shown \ {i} : title'[x] = title[x]
  BY <1>2, <1>4, <1>5, <1>7 DEF DocInv
<1>15. DocInv'
  <2>1. \A r \in Ids : IsInjective(children'[r])
    BY <1>10 DEF Lists
  <2>2. title' \in [Ids -> Titles]
    BY <1>2, <1>4 DEF DocInv, Titles
  <2> QED
    BY <1>1, <1>4, <1>10, <1>11, <2>1, <2>2 DEF DocInv, L
<1>16. MapInv'
  <2>1. \A x \in DOMAIN parent' \ {Root} : x \in L[parent'[x]]
    BY <1>6, <1>12, <1>13
  <2>2. \A r \in Ids : children'[r] # <<>> => r \in folders' \cap DOMAIN parent'
    BY <1>1, <1>6, <1>7, <1>8, <1>10, <1>13
  <2>3. \A x \in shown' \ {Root} : parent'[x] \in shown'
    BY <1>1, <1>6, <1>8, <1>13
  <2>4. Root \in DOMAIN parent' /\ parent'[Root] = Root
    BY <1>6, <1>7, <1>13
  <2> QED
    BY <1>1, <1>6, <1>11, <1>13, <2>1, <2>2, <2>3, <2>4 DEF MapInv, L
<1>17. shown \ {i} = shown' \ {i} /\ {i} \cap shown' = {i}
  BY <1>1, <1>7
<1>18. \A x \in shown \ {i} : parent'[x] = parent[x] /\ title'[x] = title[x]
  BY <1>6, <1>13, <1>14
<1>19. AssocInv'
  <2>1. repaired' = repaired \cap {<<parent'[x], title'[x]>> : x \in shown'}
    BY <1>1, DoneStays
  <2>2. A \in Resized({t \in assoc : t[3] \notin {i}})
    BY <1>4, WithoutAssoc
  <2>3. \A x \in shown \ {i} : x # Root /\ parent[x] = q /\ title[x] = m
                               => <<q, m>> \in repaired
    BY <1>1, <1>4, LookupMisses
  <2>4. NamedChange({i}, i, q, m)
    BY <1>3, <1>7, <1>13, <1>14, <1>17, <1>18, <2>1, <2>2, <2>3 DEF NamedChange
  <2> QED
    BY <1>4, <1>7, <2>4, NamedAssoc
<1>20. GuidInv'
  BY <1>1, <1>4, <1>13 DEF GuidInv
<1>21. StreamInv'
  BY <1>1, <1>4, DoneStream
<1>22. FoldersStamped'
  <2>1. \A r \in Ids \ {p, q} : children'[r] = children[r]
    BY <1>10
  <2>2. \A x \in shown \cap {i} : parent[x] \in {p, q}
    BY <1>7
  <2>3. \A x \in shown' \cap {i} : parent'[x] \in {p, q}
    BY <1>13
  <2> QED
    BY <1>1, <1>4, <1>17, <1>18, <2>1, <2>2, <2>3, DoneStamps
<1> QED
  BY <1>15, <1>16, <1>19, <1>20, <1>21, <1>22 DEF StoreInv

LEMMA RenameReplaceStep ==
    ASSUME StoreInv, NEW p \in Ids, NEW n \in Names, NEW m \in Names, RenameReplace(p, n, m)
    PROVE  StoreInv'
<1> DEFINE K == KidsOf(children)
<1>1. /\ Writable(p) /\ Done({p}) /\ children' = children /\ folders' = folders
      /\ guid' = guid /\ maxId' = maxId /\ stream' = stream
  BY DEF RenameReplace
<1>2. PICK i \in Lookup(p, n), t \in Lookup(p, m) :
        /\ i # t /\ children[t] = <<>> /\ title' = [title EXCEPT ![i] = m]
        /\ parent' = WithoutKey(parent, t) /\ shown' = shown \ {t}
        /\ \E A \in Resized(WithoutId(WithoutId(assoc, t), i)) :
               assoc' = A \cup {<<p, m, i>>}
        /\ guids' = WithoutId(guids, t)
  BY DEF RenameReplace
<1>3. PICK A \in Resized(WithoutId(WithoutId(assoc, t), i)) : assoc' = A \cup {<<p, m, i>>}
  BY <1>2
<1>4. DocInv /\ MapInv /\ AssocInv /\ GuidInv /\ StreamInv /\ FoldersStamped
  BY DEF StoreInv
<1>5. /\ DOMAIN parent \subseteq Ids /\ shown \subseteq Ids
      /\ \A r \in Ids : children[r] = <<>> <=> K[r] = {}
  BY InvTypes
<1>6. /\ DOMAIN parent \subseteq {Root} \cup NodesOf(K)
      /\ parent \in [DOMAIN parent -> Ids] /\ Root \in DOMAIN parent /\ parent[Root] = Root
      /\ \A x \in DOMAIN parent \ {Root} : x \in K[parent[x]]
      /\ \A r \in Ids : children[r] # <<>> => r \in folders \cap DOMAIN parent
      /\ Root \in shown /\ shown \subseteq DOMAIN parent
      /\ \A x \in shown \ {Root} : parent[x] \in shown
  BY <1>4 DEF MapInv
<1>7. /\ i \in Ids /\ i # Root /\ i \in shown /\ i \in DOMAIN parent /\ parent[i] = p
      /\ t \in Ids /\ t # Root /\ t \in shown /\ t \in DOMAIN parent /\ parent[t] = p
      /\ title[t] = m
  BY <1>1, LookupFinds
<1>8. K[t] = {}
  BY <1>2, <1>5, <1>7
<1> HIDE DEF K
<1>9. /\ DOMAIN parent' = DOMAIN parent \ {t}
      /\ \A x \in DOMAIN parent \ {t} : parent'[x] = parent[x]
      /\ parent' \in [DOMAIN parent' -> Ids]
  BY <1>2, <1>6 DEF WithoutKey
<1>10. title'[i] = m /\ \A x \in shown \ {i} : title'[x] = title[x]
  BY <1>2, <1>4, <1>5, <1>7 DEF DocInv
<1>11. DocInv'
  BY <1>1, <1>2, <1>4 DEF DocInv, Titles
<1>12. MapInv'
  <2>1. \A x \in DOMAIN parent' \ {Root} : x \in K[parent'[x]]
    BY <1>6, <1>9
  <2>2. \A r \in Ids : children'[r] # <<>> => r \in folders' \cap DOMAIN parent'
    BY <1>1, <1>2, <1>6, <1>9
  <2>3. \A x \in shown' \ {Root} : parent'[x] \in shown'
    BY <1>2, <1>6, <1>8, <1>9
  <2>4. /\ Root \in DOMAIN parent' /\ parent'[Root] = Root
        /\ Root \in shown' /\ shown' \subseteq DOMAIN parent'
    BY <1>2, <1>6, <1>7, <1>9
  <2> QED
    BY <1>1, <1>4, <1>6, <1>9, <2>1, <2>2, <2>3, <2>4 DEF MapInv, K
<1>13. shown \ {i, t} = shown' \ {i, t} /\ {i, t} \cap shown' = {i}
  BY <1>2, <1>7
<1>14. \A x \in shown \ {i, t} : parent'[x] = parent[x] /\ title'[x] = title[x]
  BY <1>6, <1>9, <1>10
<1>15. AssocInv'
  <2>1. repaired' = repaired \cap {<<parent'[x], title'[x]>> : x \in shown'}
    BY <1>1, DoneStays
  <2>2. A \in Resized({u \in assoc : u[3] \notin {i, t}})
    <3>1. WithoutId(WithoutId(assoc, t), i) = {u \in assoc : u[3] \notin {i, t}}
      BY <1>4, WithoutAssoc
    <3> QED
      BY <3>1
  <2>3. \A x \in shown \ {i, t} : x # Root /\ parent[x] = p /\ title[x] = m
                                  => <<p, m>> \in repaired
    BY <1>4, <1>7 DEF AssocInv
  <2>4. NamedChange({i, t}, i, p, m)
    BY <1>2, <1>3, <1>7, <1>9, <1>10, <1>13, <1>14, <2>1, <2>2, <2>3 DEF NamedChange
  <2> QED
    BY <1>4, <1>7, <2>4, NamedAssoc
<1>16. GuidInv'
  <2>1. guids' = {<<guid[x], x>> : x \in DOMAIN parent \ {Root, t}}
    BY <1>2, <1>4, WithoutGuid
  <2>2. DOMAIN parent' \ {Root} = DOMAIN parent \ {Root, t}
    BY <1>9
  <2> QED
    BY <1>1, <1>4, <2>1, <2>2 DEF GuidInv
<1>17. StreamInv'
  BY <1>1, <1>4, DoneStream
<1>18. FoldersStamped'
  <2>1. \A r \in Ids \ {p} : children'[r] = children[r]
    BY <1>1
  <2>2. \A x \in shown \cap {i, t} : parent[x] \in {p}
    BY <1>7
  <2>3. \A x \in shown' \cap {i, t} : parent'[x] \in {p}
    BY <1>2, <1>7, <1>9, <1>13
  <2> QED
    BY <1>1, <1>4, <1>13, <1>14, <2>1, <2>2, <2>3, DoneStamps
<1> QED
  BY <1>11, <1>12, <1>15, <1>16, <1>17, <1>18 DEF StoreInv

LEMMA RenameReplaceIntoStep ==
    ASSUME StoreInv, NEW p \in Ids, NEW n \in Names, NEW q \in Ids, NEW m \in Names,
           RenameReplaceInto(p, n, q, m)
    PROVE  StoreInv'
<1> DEFINE K == KidsOf(children)
           N == NodesOf(K)
           L == KidsOf(children')
<1>1. Writable(p) /\ Writable(q) /\ p # q /\ Done({p, q}) /\ maxId' = maxId
  BY DEF RenameReplaceInto
<1>2. PICK i \in Lookup(p, n), t \in Lookup(q, m) :
        /\ q \notin Below(i) /\ children[t] = <<>>
        /\ children' = [children EXCEPT ![p] = Taken(@, i), ![q] = ReplaceAll(@, t, i)]
        /\ title' = [title EXCEPT ![i] = m, ![t] = NoName]
        /\ folders' = folders \ {t} /\ guid' = [guid EXCEPT ![t] = NoGuid]
        /\ parent' = [WithoutKey(parent, t) EXCEPT ![i] = q] /\ shown' = shown \ {t}
        /\ \E A \in Resized(WithoutId(WithoutId(assoc, t), i)) :
               assoc' = A \cup {<<q, m, i>>}
        /\ guids' = WithoutId(guids, t)
        /\ stream' = [stream EXCEPT !.snap = ReplaceAll(@, t, i)]
  BY DEF RenameReplaceInto
<1>3. PICK A \in Resized(WithoutId(WithoutId(assoc, t), i)) : assoc' = A \cup {<<q, m, i>>}
  BY <1>2
<1>4. DocInv /\ MapInv /\ AssocInv /\ GuidInv /\ StreamInv /\ FoldersStamped
  BY DEF StoreInv
<1>5. /\ Root \in Ids /\ N \subseteq Ids \ {Root}
      /\ \A r \in Ids : /\ children[r] \in Lists /\ K[r] = ToSet(children[r])
                        /\ children[r] = <<>> <=> K[r] = {}
      /\ K \in [Ids -> SUBSET (Ids \ {Root})]
      /\ DOMAIN parent \subseteq Ids /\ shown \subseteq Ids
      /\ \A x \in DOMAIN parent, r \in Ids : x \in K[r] => r = parent[x]
  BY InvTypes
<1>6. /\ maxId \in Ids /\ N \subseteq 1 .. maxId /\ DOMAIN parent \subseteq {Root} \cup N
      /\ parent \in [DOMAIN parent -> Ids] /\ Root \in DOMAIN parent /\ parent[Root] = Root
      /\ \A x \in DOMAIN parent \ {Root} : x \in K[parent[x]]
      /\ \A r \in Ids : children[r] # <<>> => r \in folders \cap DOMAIN parent
      /\ Root \in shown /\ shown \subseteq DOMAIN parent
      /\ \A x \in shown \ {Root} : parent[x] \in shown
  BY <1>4 DEF MapInv
<1>7. /\ p \in folders /\ p \in DOMAIN parent /\ i \in Ids /\ i # Root /\ i \in shown
      /\ i \in DOMAIN parent /\ parent[i] = p /\ i \in K[p] /\ i \in N
  BY <1>1, LookupFinds
<1>8. /\ q \in folders /\ q \in shown /\ t \in Ids /\ t # Root /\ t \in shown
      /\ t \in DOMAIN parent /\ parent[t] = q /\ title[t] = m /\ t \in K[q] /\ t \in N
  BY <1>1, LookupFinds
<1>9. i # t /\ K[t] = {} /\ t # p /\ t # q
  BY <1>1, <1>2, <1>5, <1>7, <1>8
<1>10. /\ \A r \in Ids \ {p} : i \notin K[r]
       /\ \A r \in Ids \ {q} : t \notin K[r]
  BY <1>5, <1>7, <1>8
<1>11. Taken(children[p], i) \in Lists /\ ToSet(Taken(children[p], i)) = K[p] \ {i}
  BY <1>5, <1>7, TakenList
<1>12. /\ ReplaceAll(children[q], t, i) \in Lists
       /\ ToSet(ReplaceAll(children[q], t, i)) = (K[q] \ {t}) \cup {i}
  BY <1>1, <1>5, <1>7, <1>8, <1>10, ReplacedList
<1>13. /\ children' \in [Ids -> Seq(Ids)]
       /\ children'[p] = Taken(children[p], i)
       /\ children'[q] = ReplaceAll(children[q], t, i)
       /\ \A r \in Ids \ {p, q} : children'[r] = children[r]
  BY <1>1, <1>2, <1>4, <1>11, <1>12 DEF DocInv, Lists
<1>14. /\ L \in [Ids -> SUBSET Ids]
       /\ \A r \in Ids : L[r] = IF r = q THEN (K[r] \ {t}) \cup {i} ELSE K[r] \ {t, i}
  <2>1. L \in [Ids -> SUBSET Ids] /\ \A r \in Ids : L[r] = ToSet(children'[r])
    BY <1>13, KidsChange
  <2> HIDE DEF L, K
  <2>2. L[p] = K[p] \ {i} /\ L[q] = (K[q] \ {t}) \cup {i}
    BY <1>11, <1>12, <1>13, <2>1
  <2>3. \A r \in Ids \ {p, q} : L[r] = K[r]
    BY <1>5, <1>13, <2>1
  <2> QED
    BY <1>1, <1>10, <2>1, <2>2, <2>3
<1>15. Tree(L) /\ NodesOf(L) = N \ {t}
  <2> DEFINE M == [r \in Ids |-> K[r] \ {t}]
  <2>1. i \in Below(i) /\ \A x \in Below(i) : K[x] \subseteq Below(i) /\ x \in Ids
    BY <1>4, <1>7, BelowClosed DEF DocInv
  <2>2. Tree(K)
    BY <1>4 DEF DocInv
  <2> HIDE DEF K, L
  <2>3. Dropped(K, M, t)
    BY <1>5 DEF Dropped
  <2>4. \A r \in Ids : M[r] = K[r] \ {t}
    OBVIOUS
  <2> HIDE DEF M
  <2>5. Tree(M) /\ NodesOf(M) = NodesOf(K) \ {t}
    BY <2>2, <2>3, TreeDrop
  <2>6. \A r \in Ids : L[r] = IF r = q THEN M[r] \cup {i} ELSE M[r] \ {i}
    BY <1>14, <2>4
  <2>7. Put(M, L, q, i)
    BY <1>14, <2>6 DEF Put
  <2>8. Shut(M, Below(i))
    BY <2>1, <2>4 DEF Shut
  <2>9. Tree(L) /\ NodesOf(L) = NodesOf(M) \cup {i}
    BY <1>2, <1>7, <2>1, <2>5, <2>7, <2>8, TreePut
  <2> QED
    BY <1>7, <1>9, <2>5, <2>9
<1> HIDE DEF L, K, N
<1>16. /\ DOMAIN parent' = DOMAIN parent \ {t} /\ parent'[i] = q
       /\ \A x \in DOMAIN parent \ {i, t} : parent'[x] = parent[x]
       /\ parent' \in [DOMAIN parent' -> Ids]
  <2> DEFINE f == WithoutKey(parent, t)
  <2>1. DOMAIN f = DOMAIN parent \ {t} /\ \A x \in DOMAIN parent \ {t} : f[x] = parent[x]
    BY DEF WithoutKey
  <2>2. f \in [DOMAIN f -> Ids]
    BY <1>6 DEF WithoutKey
  <2>3. parent' = [f EXCEPT ![i] = q]
    BY <1>2
  <2> HIDE DEF f
  <2> QED
    BY <1>7, <1>9, <2>1, <2>2, <2>3
<1>17. title'[i] = m /\ \A x \in shown \ {i, t} : title'[x] = title[x]
  BY <1>2, <1>4, <1>5, <1>7, <1>9 DEF DocInv
<1>18. DocInv'
  <2>1. \A r \in Ids : IsInjective(children'[r])
    BY <1>5, <1>11, <1>12, <1>13 DEF Lists
  <2>2. title' \in [Ids -> Titles]
    BY <1>2, <1>4 DEF DocInv, Titles
  <2>3. guid' \in [Ids -> GuidType] /\ folders' \subseteq Ids
    BY <1>2, <1>4 DEF DocInv, GuidType
  <2> QED
    BY <1>13, <1>15, <2>1, <2>2, <2>3 DEF DocInv, L
<1>19. MapInv'
  <2>1. NodesOf(L) \subseteq 1 .. maxId' /\ maxId' \in Ids
    BY <1>1, <1>6, <1>15
  <2>2. DOMAIN parent' \subseteq {Root} \cup NodesOf(L)
    BY <1>6, <1>15, <1>16
  <2>3. \A x \in DOMAIN parent' \ {Root} : x \in L[parent'[x]]
    BY <1>6, <1>14, <1>16
  <2>4. \A r \in Ids : children'[r] # <<>> => r \in folders' \cap DOMAIN parent'
    <3>1. p \in folders' \cap DOMAIN parent' /\ q \in folders' \cap DOMAIN parent'
      BY <1>2, <1>6, <1>7, <1>8, <1>9, <1>16
    <3> QED
      BY <1>2, <1>6, <1>13, <1>16, <3>1
  <2>5. \A x \in shown' \ {Root} : parent'[x] \in shown'
    BY <1>2, <1>6, <1>8, <1>9, <1>16
  <2>6. /\ Root \in DOMAIN parent' /\ parent'[Root] = Root
        /\ Root \in shown' /\ shown' \subseteq DOMAIN parent'
    BY <1>2, <1>6, <1>7, <1>8, <1>16
  <2> QED
    BY <1>16, <2>1, <2>2, <2>3, <2>4, <2>5, <2>6 DEF MapInv, L
<1>20. shown \ {i, t} = shown' \ {i, t} /\ {i, t} \cap shown' = {i}
  BY <1>2, <1>7, <1>9
<1>21. \A x \in shown \ {i, t} : parent'[x] = parent[x] /\ title'[x] = title[x]
  BY <1>6, <1>16, <1>17
<1>22. AssocInv'
  <2>1. repaired' = repaired \cap {<<parent'[x], title'[x]>> : x \in shown'}
    BY <1>1, DoneStays
  <2>2. A \in Resized({u \in assoc : u[3] \notin {i, t}})
    <3>1. WithoutId(WithoutId(assoc, t), i) = {u \in assoc : u[3] \notin {i, t}}
      BY <1>4, WithoutAssoc
    <3> QED
      BY <3>1
  <2>3. \A x \in shown \ {i, t} : x # Root /\ parent[x] = q /\ title[x] = m
                                  => <<q, m>> \in repaired
    BY <1>4, <1>8 DEF AssocInv
  <2>4. NamedChange({i, t}, i, q, m)
    BY <1>3, <1>7, <1>8, <1>16, <1>17, <1>20, <1>21, <2>1, <2>2, <2>3 DEF NamedChange
  <2> QED
    BY <1>4, <1>7, <2>4, NamedAssoc
<1>23. GuidInv'
  <2>1. guids' = {<<guid[x], x>> : x \in DOMAIN parent \ {Root, t}}
    BY <1>2, <1>4, WithoutGuid
  <2>2. \A x \in DOMAIN parent \ {Root, t} : guid'[x] = guid[x]
    BY <1>2, <1>4, <1>5 DEF DocInv
  <2>3. DOMAIN parent' \ {Root} = DOMAIN parent \ {Root, t}
    BY <1>16
  <2>4. guids' = {<<guid'[x], x>> : x \in DOMAIN parent' \ {Root}}
    BY <2>1, <2>2, <2>3
  <2> QED
    BY <1>4, <2>2, <2>3, <2>4 DEF GuidInv
<1>24. StreamInv'
  <2> DEFINE s == stream.snap
             r == ReplaceAll(s, t, i)
  <2>1. /\ s \in Seq(Ids) /\ stream.off \in 0 .. Len(s)
        /\ stream = [dir |-> stream.dir, snap |-> s, off |-> stream.off]
    BY <1>4 DEF StreamInv
  <2>2. /\ r \in Seq(Ids) /\ Len(r) = Len(s) /\ DOMAIN r = DOMAIN s
        /\ \A k \in DOMAIN s : r[k] = IF s[k] = t THEN i ELSE s[k]
    <3>1. r = [k \in 1 .. Len(s) |-> IF s[k] = t THEN i ELSE s[k]]
      BY DEF ReplaceAll
    <3>2. Len(s) \in Nat /\ DOMAIN s = 1 .. Len(s) /\ \A k \in 1 .. Len(s) : s[k] \in Ids
      BY <2>1
    <3> HIDE DEF s, r
    <3>3. r \in [1 .. Len(s) -> Ids]
      BY <1>7, <3>1, <3>2
    <3> QED
      BY <3>1, <3>2, <3>3
  <2>3. stream'.dir = stream.dir /\ stream'.snap = r /\ stream'.off = stream.off
        /\ stream' = [dir |-> stream.dir, snap |-> r, off |-> stream.off]
    BY <1>2, <2>1
  <2>4. /\ DOMAIN stay' \subseteq DOMAIN stay \cap shown'
        /\ \A x \in DOMAIN stay' : parent'[x] = stream.dir /\ stay'[x] = stay[x]
    BY <1>1, DoneStays
  <2>5. \A x \in DOMAIN stay : parent[x] = stream.dir
    BY <1>4 DEF StreamInv
  <2>6. \A x \in DOMAIN stay' : x # i /\ x # t
    BY <1>1, <1>2, <1>7, <1>16, <2>4, <2>5
  <2>7. ASSUME NEW x \in DOMAIN stay'
        PROVE  \E k \in DOMAIN r : /\ \A l \in DOMAIN r : r[l] = x <=> l = k
                                   /\ stay'[x] = IF k <= stream.off THEN 1 ELSE 0
    <3>1. PICK k \in DOMAIN s : /\ \A l \in DOMAIN s : s[l] = x <=> l = k
                                /\ stay[x] = IF k <= stream.off THEN 1 ELSE 0
      BY <1>4, <2>4 DEF StreamInv
    <3>2. \A l \in DOMAIN s : r[l] = x <=> s[l] = x
      BY <2>2, <2>6
    <3> HIDE DEF r, s
    <3> QED
      BY <2>2, <2>4, <3>1, <3>2
  <2>8. DOMAIN stay' \subseteq shown' \ {Root}
    BY <1>4, <2>4 DEF StreamInv
  <2> HIDE DEF r, s
  <2> QED
    BY <2>1, <2>2, <2>3, <2>4, <2>7, <2>8 DEF StreamInv
<1>25. FoldersStamped'
  <2>1. \A r \in Ids \ {p, q} : children'[r] = children[r]
    BY <1>13
  <2>2. \A x \in shown \cap {i, t} : parent[x] \in {p, q}
    BY <1>7, <1>8
  <2>3. \A x \in shown' \cap {i, t} : parent'[x] \in {p, q}
    BY <1>16, <1>20
  <2> QED
    BY <1>1, <1>4, <1>20, <1>21, <2>1, <2>2, <2>3, DoneStamps
<1> QED
  BY <1>18, <1>19, <1>22, <1>23, <1>24, <1>25 DEF StoreInv

LEMMA SetGuidStep ==
    ASSUME StoreInv, NEW i \in Ids, NEW g \in Guids, SetGuid(i, g)
    PROVE  StoreInv'
<1>1. /\ i \in shown /\ parent[i] # Root /\ \A t \in guids : t[1] # g
      /\ guid' = [guid EXCEPT ![i] = g] /\ guids' = WithoutId(guids, i) \cup {<<g, i>>}
      /\ children' = children /\ title' = title /\ folders' = folders /\ parent' = parent
      /\ shown' = shown /\ assoc' = assoc /\ maxId' = maxId /\ stream' = stream
      /\ stay' = stay /\ outdated' = outdated /\ repaired' = repaired
  BY DEF SetGuid, Live
<1>2. DocInv /\ MapInv /\ AssocInv /\ GuidInv /\ StreamInv /\ FoldersStamped
  BY DEF StoreInv
<1>3. DocInv'
  BY <1>1, <1>2 DEF DocInv, GuidType
<1>4. MapInv'
  BY <1>1, <1>2 DEF MapInv
<1>5. AssocInv'
  BY <1>1, <1>2 DEF AssocInv, Hashed
<1>6. GuidInv'
  <2>1. i \in DOMAIN parent \ {Root} /\ DOMAIN parent \subseteq Ids
    BY <1>1, <1>2, InvTypes DEF MapInv
  <2>2. guid'[i] = g /\ \A x \in DOMAIN parent \ {i} : guid'[x] = guid[x]
    BY <1>1, <1>2, <2>1 DEF DocInv
  <2>3. guids' = {<<guid[x], x>> : x \in DOMAIN parent \ {Root, i}} \cup {<<g, i>>}
    BY <1>1, <1>2, WithoutGuid
  <2>4. guids' = {<<guid'[x], x>> : x \in DOMAIN parent' \ {Root}}
    BY <1>1, <2>1, <2>2, <2>3
  <2>5. \A x \in DOMAIN parent \ {Root} : guid[x] # g
    <3> TAKE x \in DOMAIN parent \ {Root}
    <3>1. <<guid[x], x>> \in guids /\ <<guid[x], x>>[1] = guid[x]
      BY <1>2 DEF GuidInv
    <3> QED
      BY <1>1, <3>1
  <2>6. \A x, y \in DOMAIN parent' \ {Root} : guid'[x] = guid'[y] => x = y
    BY <1>1, <1>2, <2>2, <2>5 DEF GuidInv
  <2> QED
    BY <2>4, <2>6 DEF GuidInv
<1>7. StreamInv'
  BY <1>1, <1>2 DEF StreamInv
<1> QED
  BY <1>1, <1>2, <1>3, <1>4, <1>5, <1>6, <1>7 DEF StoreInv, FoldersStamped

LEMMA FsckApplyStep ==
    ASSUME StoreInv, NEW p \in Ids, NEW i \in Ids, NEW n \in Names, FsckApply(p, i, n)
    PROVE  StoreInv'
<1>1. /\ p \in shown /\ i \in DOMAIN parent \ shown /\ parent[i] = p
      /\ title' = [title EXCEPT ![i] = n] /\ shown' = shown \cup {i}
      /\ repaired' = repaired \cup {<<p, n>>}
      /\ children' = children /\ folders' = folders /\ guid' = guid /\ parent' = parent
      /\ guids' = guids /\ maxId' = maxId /\ stream' = stream /\ stay' = stay
      /\ outdated' \subseteq outdated \cup (Changed \X {"fsck_apply"})
  BY DEF FsckApply, Live, Stamp
<1>2. PICK A \in Resized(assoc) : assoc' = A \cup {<<i, n, i>>}
  BY DEF FsckApply
<1>3. DocInv /\ MapInv /\ AssocInv /\ GuidInv /\ StreamInv /\ FoldersStamped
  BY DEF StoreInv
<1>4. i # Root /\ Root \in shown /\ shown \subseteq Ids
  BY <1>1, <1>3, InvTypes DEF MapInv
<1>5. title'[i] = n /\ \A x \in shown \ {i} : title'[x] = title[x]
  BY <1>1, <1>3, <1>4 DEF DocInv
<1>6. DocInv'
  BY <1>1, <1>3 DEF DocInv, Titles
<1>7. MapInv'
  BY <1>1, <1>3 DEF MapInv
<1>8. AssocInv'
  <2>1. {t \in assoc : t[3] \notin {i}} = assoc
    BY <1>1, <1>3 DEF AssocInv
  <2>2. \E B \in Resized({t \in assoc : t[3] \notin {i}}) : assoc' = B \cup {<<i, n, i>>}
    BY <1>2, <2>1
  <2>3. Root \notin {i} /\ Root \in shown' /\ shown \ {i} = shown' \ {i}
        /\ {i} \cap shown' = {i}
    BY <1>1, <1>4
  <2>4. \A x \in shown \ {i} : parent'[x] = parent[x] /\ title'[x] = title[x]
    BY <1>1, <1>5
  <2>5. repaired' \subseteq Ids \X Names /\ <<parent'[i], title'[i]>> \in repaired'
        /\ repaired \subseteq repaired'
    BY <1>1, <1>3, <1>5 DEF AssocInv
  <2>6. {<<i, n, i>>} \subseteq Ids \X Titles \X ({i} \cap shown')
    BY <2>3 DEF Titles
  <2>7. n # BadName
    BY NameAssumption
  <2>8. AssocChange({i}, {<<i, n, i>>})
    BY <1>5, <2>2, <2>3, <2>4, <2>5, <2>6, <2>7 DEF AssocChange
  <2> QED
    BY <1>3, <2>8, AssocNext
<1>9. GuidInv'
  BY <1>1, <1>3 DEF GuidInv
<1>10. StreamInv'
  BY <1>1, <1>3 DEF StreamInv
<1>11. FoldersStamped'
  BY <1>1, <1>3 DEF FoldersStamped, Changed
<1> QED
  BY <1>1, <1>3, <1>6, <1>7, <1>8, <1>9, <1>10, <1>11 DEF StoreInv

\* The maps that are built afresh.
LEMMA BuiltNames ==
    ASSUME NEW ch \in [Ids -> Seq(Ids)], Tree(KidsOf(ch)), NEW nm \in [Ids -> Titles]
    PROVE  /\ AssocIn(ch, nm) \subseteq Ids \X Titles \X (ShownIn(ch, nm) \ {Root})
           /\ \A t \in AssocIn(ch, nm) : t = <<ParentIn(ch)[t[3]], nm[t[3]], t[3]>>
           /\ \A i \in ShownIn(ch, nm) \ {Root} :
                <<ParentIn(ch)[i], nm[i], i>> \in AssocIn(ch, nm)
<1> DEFINE up == ParentIn(ch)
           Z == ShownIn(ch, nm)
<1>1. AssocIn(ch, nm) = {<<up[i], nm[i], i>> : i \in Z \ {Root}}
  BY DEF AssocIn
<1>2. Z \subseteq DOMAIN up
  BY ShownHaveNames
<1>3. Z \subseteq Ids
  BY ShownFacts
<1>4. up \in [DOMAIN up -> Ids]
  BY ParentInFacts
<1> HIDE DEF up, Z
<1>5. \A i \in Z : up[i] \in Ids /\ nm[i] \in Titles
  BY <1>2, <1>3, <1>4
<1> QED
  BY <1>1, <1>5 DEF up, Z

LEMMA MaxIsIn ==
    ASSUME NEW S \in SUBSET Ids, S # {}
    PROVE  Max(S) \in S /\ \A x \in S : x <= Max(S)
<1> DEFINE T == {n \in 0 .. MaxId : MaxId - n \in S}
<1>1. MaxId \in Nat /\ \A x \in S : x \in Nat /\ x <= MaxId
  BY IdsFinite DEF Ids
<1>2. T \subseteq Nat /\ T # {}
  <2>1. PICK x \in S : TRUE
    OBVIOUS
  <2>2. MaxId - x \in 0 .. MaxId /\ MaxId - (MaxId - x) = x
    BY <1>1
  <2>3. MaxId - x \in T
    BY <2>1, <2>2
  <2> QED
    BY <1>1, <2>3
<1>3. PICK n \in T : \A m \in T : n <= m
  BY <1>2, NatMin
<1>4. \A x \in S : MaxId - x \in T
  BY <1>1
<1>5. MaxId - n \in S /\ \A x \in S : MaxId - n >= x
  BY <1>1, <1>3, <1>4
<1>6. \E y \in S : \A x \in S : y >= x
  BY <1>5
<1>7. Max(S) = CHOOSE y \in S : \A x \in S : y >= x
  BY DEF Max
<1>8. Max(S) \in S /\ \A x \in S : Max(S) >= x
  BY <1>6, <1>7
<1> QED
  BY <1>1, <1>8

LEMMA ReloadStep ==
    ASSUME StoreInv, Reload
    PROVE  StoreInv'
<1> DEFINE K == KidsOf(children)
           up == ParentIn(children)
           Z == ShownIn(children, title)
<1>1. /\ Loadable /\ repaired' = {} /\ outdated' = outdated
      /\ stay' = [i \in {i \in DOMAIN stay : i \in shown'} |-> stay[i]]
      /\ children' = children /\ title' = title /\ folders' = folders /\ guid' = guid
      /\ stream' = stream
      /\ parent' = up /\ shown' = Z /\ assoc' = AssocIn(children, title)
      /\ guids' = {<<guid[i], i>> : i \in DOMAIN up \ {Root}}
      /\ maxId' = Max(DOMAIN up)
  BY DEF Reload, BuildMaps, document
<1>2. DocInv /\ MapInv /\ AssocInv /\ GuidInv /\ StreamInv /\ FoldersStamped
  BY DEF StoreInv
<1>3. children \in [Ids -> Seq(Ids)] /\ Tree(K) /\ title \in [Ids -> Titles]
  BY <1>2 DEF DocInv
<1>4. /\ up \in [DOMAIN up -> Ids] /\ DOMAIN up = {Root} \cup NodesOf(K)
      /\ Root \notin NodesOf(K) /\ up[Root] = Root /\ NodesOf(K) \subseteq Ids
      /\ \A i \in NodesOf(K) : i \in K[up[i]]
      /\ \A i \in NodesOf(K), p \in Ids : i \in K[p] => p = up[i]
  BY <1>3, ParentInFacts
<1>5. /\ Z \subseteq DOMAIN up /\ \A i \in Z \ {Root} : up[i] \in Z /\ title[i] # BadName
      /\ \A i, j \in Z \ {Root} : up[i] = up[j] /\ title[i] = title[j] => i = j
  BY <1>3, ShownHaveNames
<1>6. Root \in Z
  BY <1>3, ShownFacts
<1>7. /\ AssocIn(children, title) \subseteq Ids \X Titles \X (Z \ {Root})
      /\ \A t \in AssocIn(children, title) : t = <<up[t[3]], title[t[3]], t[3]>>
      /\ \A i \in Z \ {Root} : <<up[i], title[i], i>> \in AssocIn(children, title)
  BY <1>3, BuiltNames
<1> HIDE DEF K, up, Z
<1>8. DocInv'
  BY <1>1, <1>2 DEF DocInv
<1>9. MapInv'
  <2>1. Root \in Ids
    BY IdsFinite DEF Root, Ids
  <2>2. Max(DOMAIN up) \in DOMAIN up /\ \A x \in DOMAIN up : x <= Max(DOMAIN up)
    BY <1>4, <2>1, MaxIsIn
  <2>3. maxId' \in Ids /\ NodesOf(K) \subseteq 1 .. maxId'
    <3> DEFINE m == Max(DOMAIN up)
    <3>1. m \in Ids /\ \A x \in NodesOf(K) : x <= m /\ x \in Ids /\ x # Root
      BY <1>4, <2>1, <2>2
    <3>2. maxId' = m
      BY <1>1
    <3> HIDE DEF m
    <3> QED
      BY <3>1, <3>2, IdsFinite DEF Ids, Root
  <2>4. \A q \in Ids : children'[q] # <<>> => q \in folders' \cap DOMAIN parent'
    BY <1>1, <1>2, <1>4 DEF MapInv, K
  <2>5. \A i \in DOMAIN parent' \ {Root} : i \in K[parent'[i]]
    BY <1>1, <1>4
  <2> QED
    BY <1>1, <1>4, <1>5, <1>6, <2>3, <2>4, <2>5 DEF MapInv, K
<1>10. AssocInv'
  BY <1>1, <1>5, <1>7 DEF AssocInv, Hashed
<1>11. GuidInv'
  BY <1>1 DEF GuidInv, Loadable, up
<1>12. StreamInv'
  <2>1. DOMAIN stay' = {i \in DOMAIN stay : i \in shown'} /\ \A i \in DOMAIN stay' : stay'[i] = stay[i]
    BY <1>1
  <2>2. \A i \in DOMAIN stay : i \in DOMAIN parent \ {Root} /\ parent[i] = stream.dir
    BY <1>2 DEF StreamInv, MapInv
  <2>3. \A i \in DOMAIN parent \ {Root} : i \in NodesOf(K) /\ parent[i] \in Ids /\ i \in K[parent[i]]
    BY <1>2 DEF MapInv, K
  <2>4. \A i \in DOMAIN stay : up[i] = stream.dir
    BY <1>4, <2>2, <2>3
  <2>5. DOMAIN stay' \subseteq shown' \ {Root}
    BY <2>1, <2>2
  <2>6. \A i \in DOMAIN stay' : parent'[i] = stream'.dir
    BY <1>1, <2>1, <2>4
  <2> QED
    BY <1>1, <1>2, <2>1, <2>5, <2>6 DEF StreamInv
<1> QED
  BY <1>1, <1>2, <1>8, <1>9, <1>10, <1>11, <1>12 DEF StoreInv, FoldersStamped

LEMMA ListOpenStep ==
    ASSUME StoreInv, NEW p \in Listed, ListOpen(p)
    PROVE  StoreInv'
<1>1. /\ p \in shown
      /\ stream' = [dir |-> p, snap |-> children[p], off |-> 0]
      /\ stay' = [i \in {i \in shown : parent[i] = p /\ i # Root} |-> 0]
      /\ children' = children /\ title' = title /\ folders' = folders /\ guid' = guid
      /\ parent' = parent /\ shown' = shown /\ assoc' = assoc /\ guids' = guids
      /\ maxId' = maxId /\ outdated' = outdated /\ repaired' = repaired
  BY DEF ListOpen, Live, document, maps
<1>2. DocInv /\ MapInv /\ AssocInv /\ GuidInv /\ FoldersStamped
  BY DEF StoreInv
<1>3. p \in Ids
  BY ListedAssumption
<1>4. StreamInv'
  <2> DEFINE s == children[p]
  <2>1. s \in Seq(Ids) /\ \A k, l \in DOMAIN s : s[k] = s[l] => k = l
    BY <1>2, <1>3 DEF DocInv, IsInjective
  <2>2. DOMAIN stay' = {i \in shown : parent[i] = p /\ i # Root} /\ \A i \in DOMAIN stay' : stay'[i] = 0
    BY <1>1
  <2>3. ASSUME NEW i \in DOMAIN stay'
        PROVE  \E k \in DOMAIN s : /\ \A l \in DOMAIN s : s[l] = i <=> l = k
                                   /\ stay'[i] = IF k <= 0 THEN 1 ELSE 0
    <3>1. i \in KidsOf(children)[p]
      BY <1>2, <2>2 DEF MapInv
    <3>2. i \in ToSet(s)
      BY <1>3, <3>1 DEF KidsOf
    <3>3. PICK k \in DOMAIN s : s[k] = i
      BY <3>2 DEF ToSet
    <3>4. ~(k <= 0)
      BY <2>1
    <3> HIDE DEF s
    <3> QED
      BY <2>1, <2>2, <3>3, <3>4
  <2>4. stream'.snap = s /\ stream'.off = 0 /\ stream'.dir = p
    BY <1>1
  <2>5. 0 \in 0 .. Len(s)
    BY <2>1
  <2> HIDE DEF s
  <2> QED
    BY <1>1, <2>1, <2>2, <2>3, <2>4, <2>5 DEF StreamInv, s
<1>5. DocInv' /\ GuidInv'
  BY <1>1, <1>2 DEF DocInv, GuidInv
<1>6. MapInv'
  BY <1>1, <1>2 DEF MapInv
<1>7. AssocInv'
  BY <1>1, <1>2 DEF AssocInv, Hashed
<1> QED
  BY <1>1, <1>2, <1>4, <1>5, <1>6, <1>7 DEF StoreInv, FoldersStamped

LEMMA ListNextStep ==
    ASSUME StoreInv, ListNext
    PROVE  StoreInv'
<1> DEFINE s == stream.snap
           j == s[stream.off + 1]
<1>1. /\ stream.off < Len(s)
      /\ stay' = IF j \in shown \cap DOMAIN stay THEN [stay EXCEPT ![j] = @ + 1] ELSE stay
      /\ stream' = [stream EXCEPT !.off = @ + 1]
      /\ children' = children /\ title' = title /\ folders' = folders /\ guid' = guid
      /\ parent' = parent /\ shown' = shown /\ assoc' = assoc /\ guids' = guids
      /\ maxId' = maxId /\ outdated' = outdated /\ repaired' = repaired
  BY DEF ListNext, Return, document, maps
<1>2. DocInv /\ MapInv /\ AssocInv /\ GuidInv /\ StreamInv /\ FoldersStamped
  BY DEF StoreInv
<1>3. StreamInv'
  <2>1. /\ s \in Seq(Ids) /\ stream.off \in 0 .. Len(s) /\ Len(s) \in Nat
        /\ DOMAIN s = 1 .. Len(s)
        /\ stream = [dir |-> stream.dir, snap |-> s, off |-> stream.off]
        /\ DOMAIN stay \subseteq shown \ {Root}
    BY <1>2 DEF StreamInv
  <2>2. /\ stream' = [dir |-> stream.dir, snap |-> s, off |-> stream.off + 1]
        /\ stream.off + 1 \in 1 .. Len(s)
    BY <1>1, <2>1
  <2>3. stream'.dir = stream.dir /\ stream'.snap = s /\ stream'.off = stream.off + 1
    BY <2>2
  <2>4. /\ DOMAIN stay' = DOMAIN stay
        /\ \A i \in DOMAIN stay : stay'[i] = IF i = j THEN stay[i] + 1 ELSE stay[i]
    BY <1>1, <2>1
  <2>5. ASSUME NEW i \in DOMAIN stay
        PROVE  \E k \in DOMAIN s : /\ \A l \in DOMAIN s : s[l] = i <=> l = k
                                   /\ stay'[i] = IF k <= stream.off + 1 THEN 1 ELSE 0
    <3>1. PICK k \in DOMAIN s : /\ \A l \in DOMAIN s : s[l] = i <=> l = k
                                /\ stay[i] = IF k <= stream.off THEN 1 ELSE 0
      BY <1>2 DEF StreamInv
    <3>2. i = j <=> k = stream.off + 1
      BY <2>1, <2>2, <3>1
    <3>3. k \in Nat /\ stream.off \in Nat
      BY <2>1
    <3> HIDE DEF s, j
    <3>4. stay'[i] = IF k <= stream.off + 1 THEN 1 ELSE 0
      BY <2>4, <3>1, <3>2, <3>3
    <3> QED
      BY <3>1, <3>4
  <2>6. \A i \in DOMAIN stay : parent[i] = stream.dir
    BY <1>2 DEF StreamInv
  <2> HIDE DEF s, j
  <2> QED
    BY <1>1, <2>1, <2>2, <2>3, <2>4, <2>5, <2>6 DEF StreamInv
<1>5. DocInv' /\ GuidInv'
  BY <1>1, <1>2 DEF DocInv, GuidInv
<1>6. MapInv'
  BY <1>1, <1>2 DEF MapInv
<1>7. AssocInv'
  BY <1>1, <1>2 DEF AssocInv, Hashed
<1> QED
  BY <1>1, <1>2, <1>3, <1>5, <1>6, <1>7 DEF StoreInv, FoldersStamped
-----------------------------------------------------------------------------
LEMMA InitTree ==
    ASSUME Init
    PROVE  /\ children \in [Ids -> Seq(Ids)] /\ \A p \in Ids : IsInjective(children[p])
           /\ Tree(KidsOf(children)) /\ NodesOf(KidsOf(children)) = 1 .. 4
           /\ \A p \in Ids : children[p] # <<>> => p \in {0, 1}
<1> DEFINE K == KidsOf(children)
<1>1. /\ MaxId \in Nat /\ MaxId >= 4 /\ 0 .. 4 \subseteq Ids
  BY IdsFinite DEF Ids
<1>2. children = [i \in Ids |-> IF i = 0 THEN <<1, 2>> ELSE IF i = 1 THEN <<3, 4>> ELSE <<>>]
  BY DEF Init, Root
<1>3. \A p \in Ids : children[p] = IF p = 0 THEN <<1, 2>> ELSE IF p = 1 THEN <<3, 4>> ELSE <<>>
  BY <1>2
<1>4. <<1, 2>> \in Seq(Ids) /\ <<3, 4>> \in Seq(Ids) /\ <<>> \in Seq(Ids)
  <2>1. 1 \in Ids /\ 2 \in Ids /\ 3 \in Ids /\ 4 \in Ids
    BY <1>1
  <2> QED
    BY <2>1
<1>5. children \in [Ids -> Seq(Ids)]
  BY <1>2, <1>4
<1>6. \A p \in Ids : IsInjective(children[p])
  <2>1. IsInjective(<<1, 2>>) /\ IsInjective(<<3, 4>>) /\ IsInjective(<<>>)
    BY DEF IsInjective
  <2> QED
    BY <1>3, <2>1
<1>7. \A p \in Ids : K[p] = IF p = 0 THEN {1, 2} ELSE IF p = 1 THEN {3, 4} ELSE {}
  <2>1. ToSet(<<1, 2>>) = {1, 2} /\ ToSet(<<3, 4>>) = {3, 4} /\ ToSet(<<>>) = {}
    BY DEF ToSet
  <2>2. \A p \in Ids : K[p] = ToSet(children[p])
    BY DEF KidsOf
  <2> HIDE DEF K
  <2> QED
    BY <1>3, <2>1, <2>2
<1>8. K \in [Ids -> SUBSET Ids] /\ 0 \in Ids /\ 1 \in Ids
  BY <1>1, <1>5, KidsChange
<1> HIDE DEF K
<1>9. NodesOf(K) = 1 .. 4
  <2>1. \A x : x \in NodesOf(K) <=> x \in {1, 2, 3, 4}
    BY <1>7, <1>8 DEF NodesOf
  <2> QED
    BY <2>1
<1>10. Tree(K)
  <2>1. K \in [Ids -> SUBSET (Ids \ {Root})]
    <3>1. \A p \in Ids : K[p] \in SUBSET (Ids \ {Root})
      BY <1>1, <1>7, <1>8 DEF Root
    <3> QED
      BY <1>8, <3>1
  <2>2. \A p, q \in Ids : \A i \in K[p] \cap K[q] : p = q
    BY <1>7
  <2>3. ASSUME NEW S \in SUBSET NodesOf(K), S # {}
        PROVE  \E p \in Ids \ S : K[p] \cap S # {}
    <3>1. 0 \notin S
      BY <1>9
    <3>2. CASE 1 \in S \/ 2 \in S
      BY <1>7, <1>8, <3>1, <3>2
    <3>3. CASE 1 \notin S /\ 2 \notin S
      <4>1. 3 \in S \/ 4 \in S
        BY <1>9, <2>3, <3>3
      <4> QED
        BY <1>7, <1>8, <3>3, <4>1
    <3> QED
      BY <3>2, <3>3
  <2> QED
    BY <2>1, <2>2, <2>3 DEF Tree
<1>11. \A p \in Ids : children[p] # <<>> => p \in {0, 1}
  BY <1>3
<1> QED
  BY <1>5, <1>6, <1>9, <1>10, <1>11 DEF K

LEMMA StoreInvInit == Init => StoreInv
<1> SUFFICES ASSUME Init PROVE StoreInv
  OBVIOUS
<1> DEFINE K == KidsOf(children)
           up == ParentIn(children)
           Z == ShownIn(children, title)
<1>1. PICK a \in Names \cup {BadName}, b \in Names \cup {BadName} :
        title = [i \in Ids |-> CASE i = 1 -> "bar" [] i = 2 -> "other"
                                 [] i = 3 -> a [] i = 4 -> b [] OTHER -> NoName]
  BY DEF Init
<1>2. PICK D \in SUBSET {3, 4} : folders = {Root} \cup Tops \cup D
  BY DEF Init
<1>3. PICK g \in Guids, h \in Guids :
        /\ g # h
        /\ guid = [i \in Ids |-> CASE i = 1 -> "bar" [] i = 2 -> "other"
                                   [] i = 3 -> g [] i = 4 -> h [] OTHER -> NoGuid]
  BY DEF Init
<1>4. /\ parent = up /\ shown = Z /\ assoc = AssocIn(children, title)
      /\ guids = {<<guid[i], i>> : i \in 1 .. 4} /\ maxId = 4
      /\ stream = NoStream /\ stay = << >> /\ outdated = {} /\ repaired = {}
  BY DEF Init
<1>5. /\ MaxId \in Nat /\ MaxId >= 4
      /\ 0 \in Ids /\ 1 \in Ids /\ 2 \in Ids /\ 3 \in Ids /\ 4 \in Ids
  BY IdsFinite DEF Ids
<1>6. /\ children \in [Ids -> Seq(Ids)] /\ \A p \in Ids : IsInjective(children[p])
      /\ Tree(K) /\ NodesOf(K) = 1 .. 4
      /\ \A p \in Ids : children[p] # <<>> => p \in {0, 1}
  BY InitTree
<1>7. title \in [Ids -> Titles]
  <2>1. \A i \in Ids : title[i] \in Titles
    BY <1>1 DEF Titles
  <2>2. title = [i \in Ids |-> title[i]]
    BY <1>1
  <2> QED
    BY <2>1, <2>2
<1>8. guid \in [Ids -> GuidType]
  <2>1. \A i \in Ids : guid[i] \in GuidType
    BY <1>3 DEF GuidType
  <2>2. guid = [i \in Ids |-> guid[i]]
    BY <1>3
  <2> QED
    BY <2>1, <2>2
<1>9. DocInv
  BY <1>2, <1>5, <1>6, <1>7, <1>8 DEF DocInv, Root, Tops
<1>10. /\ up \in [DOMAIN up -> Ids] /\ DOMAIN up = {Root} \cup NodesOf(K)
       /\ Root \notin NodesOf(K) /\ up[Root] = Root
       /\ \A i \in NodesOf(K) : i \in K[up[i]]
  BY <1>6, ParentInFacts
<1>11. /\ Z \subseteq DOMAIN up /\ \A i \in Z \ {Root} : up[i] \in Z /\ title[i] # BadName
       /\ \A i, j \in Z \ {Root} : up[i] = up[j] /\ title[i] = title[j] => i = j
  BY <1>6, ShownHaveNames
<1>12. Root \in Z
  BY <1>6, ShownFacts
<1>13. /\ AssocIn(children, title) \subseteq Ids \X Titles \X (Z \ {Root})
       /\ \A t \in AssocIn(children, title) : t = <<up[t[3]], title[t[3]], t[3]>>
       /\ \A i \in Z \ {Root} : <<up[i], title[i], i>> \in AssocIn(children, title)
  BY <1>6, <1>7, BuiltNames
<1> HIDE DEF K, up, Z
<1>14. MapInv
  <2>1. \A q \in Ids : children[q] # <<>> => q \in folders \cap DOMAIN parent
    BY <1>2, <1>4, <1>6, <1>10 DEF Root, Tops
  <2> QED
    BY <1>4, <1>5, <1>6, <1>10, <1>11, <1>12, <2>1 DEF MapInv, K
<1>15. AssocInv
  BY <1>4, <1>11, <1>13 DEF AssocInv, Hashed
<1>16. GuidInv
  <2>1. DOMAIN parent \ {Root} = 1 .. 4
    BY <1>4, <1>6, <1>10 DEF Root
  <2>2. guid[1] = "bar" /\ guid[2] = "other" /\ guid[3] = g /\ guid[4] = h
    BY <1>3, <1>5
  <2>3. g # "bar" /\ g # "other" /\ h # "bar" /\ h # "other"
    BY GuidAssumption
  <2>4. \A i \in 1 .. 4 : i = 1 \/ i = 2 \/ i = 3 \/ i = 4
    OBVIOUS
  <2>5. \A i, j \in 1 .. 4 : guid[i] = guid[j] => i = j
    BY <1>3, <2>2, <2>3, <2>4
  <2> QED
    BY <1>4, <2>1, <2>5 DEF GuidInv
<1>17. StreamInv
  BY <1>4 DEF StreamInv, NoStream
<1> QED
  BY <1>4, <1>9, <1>14, <1>15, <1>16, <1>17 DEF StoreInv, FoldersStamped

LEMMA StoreInvStep == StoreInv /\ [Next]_vars => StoreInv'
<1> SUFFICES ASSUME StoreInv, [Next]_vars PROVE StoreInv'
  OBVIOUS
<1>1. ASSUME NEW p \in Ids, NEW n \in Names, NEW d \in BOOLEAN,
             Create(p, n, d) \/ Delete(p, n, d)
      PROVE  StoreInv'
  BY <1>1, CreateStep, DeleteStep
<1>2. ASSUME NEW p \in Ids, NEW op \in Ops, NEW n1 \in Names, NEW n2 \in Names,
             Permute(p, op, n1, n2)
      PROVE  StoreInv'
  BY <1>2, PermuteStep
<1>3. ASSUME NEW p \in Ids, NEW q \in Ids, NEW n \in Names, NEW m \in Names,
             RenameFree(p, n, q, m)
      PROVE  StoreInv'
  BY <1>3, RenameFreeStep
<1>4. ASSUME NEW p \in Ids, NEW n \in Names, NEW m \in Names, RenameReplace(p, n, m)
      PROVE  StoreInv'
  BY <1>4, RenameReplaceStep
<1>5. ASSUME NEW p \in Ids, NEW q \in Ids, NEW n \in Names, NEW m \in Names,
             RenameReplaceInto(p, n, q, m)
      PROVE  StoreInv'
  BY <1>5, RenameReplaceIntoStep
<1>6. ASSUME NEW i \in Ids, NEW g \in Guids, SetGuid(i, g) PROVE StoreInv'
  BY <1>6, SetGuidStep
<1>7. ASSUME NEW p \in Ids, NEW i \in Ids, NEW n \in Names, FsckApply(p, i, n)
      PROVE  StoreInv'
  BY <1>7, FsckApplyStep
<1>8. CASE Reload
  BY <1>8, ReloadStep
<1>9. ASSUME NEW p \in Listed, ListOpen(p) PROVE StoreInv'
  BY <1>9, ListOpenStep
<1>10. CASE ListNext
  BY <1>10, ListNextStep
<1>11. CASE UNCHANGED vars
  <2>1. /\ children' = children /\ title' = title /\ folders' = folders /\ guid' = guid
        /\ parent' = parent /\ shown' = shown /\ assoc' = assoc /\ guids' = guids
        /\ maxId' = maxId /\ stream' = stream /\ stay' = stay /\ outdated' = outdated
        /\ repaired' = repaired
    BY <1>11 DEF vars, document, maps
  <2> QED
    BY <2>1 DEF StoreInv, DocInv, MapInv, AssocInv, GuidInv, StreamInv, Hashed,
               FoldersStamped
<1> QED
  BY <1>1, <1>2, <1>3, <1>4, <1>5, <1>6, <1>7, <1>8, <1>9, <1>10, <1>11 DEF Next

LEMMA StoreInvHolds == Spec => []StoreInv
BY StoreInvInit, StoreInvStep, PTL DEF Spec
-----------------------------------------------------------------------------
(***************************************************************************)
(* What the invariant says of the properties.                              *)
(***************************************************************************)
LEMMA InvTypeOK == StoreInv => TypeOK
<1> SUFFICES ASSUME StoreInv PROVE TypeOK
  OBVIOUS
<1>1. DOMAIN parent \subseteq 0 .. maxId
  BY DEF StoreInv, MapInv, Root, Ids
<1> QED
  BY <1>1 DEF StoreInv, DocInv, MapInv, AssocInv, TypeOK, Titles, GuidType

LEMMA InvMaps == StoreInv => MapsMatchTree
<1> SUFFICES ASSUME StoreInv PROVE MapsMatchTree
  OBVIOUS
<1> DEFINE K == KidsOf(children)
           N == NodesOf(K)
           B == Below(Root)
<1>1. DocInv /\ MapInv /\ AssocInv /\ GuidInv
  BY DEF StoreInv
<1>2. /\ Root \in Ids /\ N \subseteq Ids \ {Root}
      /\ \A p \in Ids : /\ K[p] = ToSet(children[p])
                        /\ children[p] = <<>> <=> K[p] = {}
      /\ DOMAIN parent \subseteq Ids
      /\ \A i \in DOMAIN parent, q \in Ids : i \in K[q] => q = parent[i]
  BY InvTypes
<1>3. /\ parent \in [DOMAIN parent -> Ids] /\ DOMAIN parent \subseteq {Root} \cup N
      /\ \A i \in DOMAIN parent \ {Root} : i \in K[parent[i]]
      /\ \A p \in Ids : children[p] # <<>> => p \in folders \cap DOMAIN parent
  BY <1>1 DEF MapInv
<1>4. \A i \in DOMAIN parent \ {Root} : {p \in Ids : i \in ToSet(children[p])} = {parent[i]}
  BY <1>2, <1>3
<1>5. DOMAIN parent \subseteq B
  <2>1. Root \in B /\ \A p \in B : K[p] \subseteq B
    BY <1>1, <1>2, BelowClosed DEF DocInv
  <2>2. \A S \in SUBSET N : S # {} => \E p \in Ids \ S : K[p] \cap S # {}
    BY <1>1 DEF DocInv, Tree
  <2> DEFINE S == N \ B
  <2>3. ASSUME S # {} PROVE FALSE
    <3>1. PICK p \in Ids \ S : K[p] \cap S # {}
      BY <2>2, <2>3
    <3>2. p \notin B
      BY <2>1, <3>1
    <3>3. p \in DOMAIN parent
      BY <1>2, <1>3, <3>1
    <3> QED
      BY <1>3, <2>1, <3>1, <3>2, <3>3
  <2> QED
    BY <1>3, <2>1, <2>3
<1>6. \A t \in assoc : t[3] \in shown
  BY <1>1 DEF AssocInv
<1>7. \A t \in guids : t[2] \in DOMAIN parent
  BY <1>1 DEF GuidInv
<1>8. \A p \in Ids : IsInjective(children[p])
  BY <1>1 DEF DocInv
<1> HIDE DEF K, N
<1> QED
  BY <1>3, <1>4, <1>5, <1>6, <1>7, <1>8 DEF MapsMatchTree

LEMMA InvLookup == StoreInv => LookupMatchesList
<1> SUFFICES ASSUME StoreInv, NEW i \in shown \ {Root}
             PROVE  /\ parent[i] \in shown \cap folders
                    /\ <<parent[i], title[i]>> \notin repaired =>
                           Lookup(parent[i], title[i]) = {i}
  BY DEF LookupMatchesList
<1>1. MapInv /\ AssocInv
  BY DEF StoreInv
<1>2. i \in DOMAIN parent /\ parent[i] \in shown /\ parent[i] \in Ids
      /\ i \in KidsOf(children)[parent[i]]
  BY <1>1 DEF MapInv
<1>3. parent[i] \in folders
  <2>1. children[parent[i]] # <<>>
    BY <1>2, InvTypes
  <2> QED
    BY <1>1, <1>2, <2>1 DEF MapInv
<1>4. ASSUME <<parent[i], title[i]>> \notin repaired
      PROVE  Lookup(parent[i], title[i]) = {i}
  <2>1. i \in Lookup(parent[i], title[i])
    BY <1>1, <1>4 DEF AssocInv, Lookup, Hashed
  <2>2. ASSUME NEW j \in Lookup(parent[i], title[i]) PROVE j = i
    <3>1. /\ j \in shown /\ parent[j] = parent[i] /\ title[j] = title[i]
          /\ <<parent[i], title[i], j>> \in assoc
      BY DEF Lookup
    <3>2. j # Root
      BY <1>1, <3>1 DEF AssocInv
    <3> QED
      BY <1>1, <1>4, <3>1, <3>2 DEF AssocInv
  <2> QED
    BY <2>1, <2>2
<1> QED
  BY <1>2, <1>3, <1>4

LEMMA InvReload == StoreInv => SameAfterReload
<1> SUFFICES ASSUME StoreInv, Nodes \subseteq DOMAIN parent, repaired = {},
                    \A i \in DOMAIN parent \ shown :
                        title[i] = BadName \/ parent[i] \notin shown
             PROVE  /\ Loadable
                    /\ parent = ParentIn(children)
                    /\ shown = ShownIn(children, title)
                    /\ assoc = AssocIn(children, title)
                    /\ guids = {<<guid[i], i>> : i \in Nodes}
  BY DEF SameAfterReload
<1> DEFINE K == KidsOf(children)
           N == NodesOf(K)
           up == ParentIn(children)
           Z == ShownIn(children, title)
<1>1. DocInv /\ MapInv /\ AssocInv /\ GuidInv
  BY DEF StoreInv
<1>2. children \in [Ids -> Seq(Ids)] /\ Tree(K) /\ title \in [Ids -> Titles]
  BY <1>1 DEF DocInv
<1>3. /\ Root \in Ids /\ N \subseteq Ids \ {Root}
      /\ \A p \in Ids : /\ K[p] = ToSet(children[p]) /\ K[p] \subseteq N
                        /\ children[p] \in Lists
      /\ DOMAIN parent \subseteq Ids /\ shown \subseteq Ids
      /\ \A i \in DOMAIN parent, q \in Ids : i \in K[q] => q = parent[i]
  BY InvTypes
<1>4. /\ parent \in [DOMAIN parent -> Ids] /\ DOMAIN parent \subseteq {Root} \cup N
      /\ Root \in DOMAIN parent /\ parent[Root] = Root
      /\ \A i \in DOMAIN parent \ {Root} : i \in K[parent[i]]
      /\ Root \in shown /\ shown \subseteq DOMAIN parent
      /\ \A i \in shown \ {Root} : parent[i] \in shown
  BY <1>1 DEF MapInv
<1>5. N = Nodes
  BY <1>2, KidsFacts DEF Nodes
<1>6. /\ up \in [DOMAIN up -> Ids] /\ DOMAIN up = {Root} \cup N /\ up[Root] = Root
      /\ \A i \in N, p \in Ids : i \in K[p] => p = up[i]
  BY <1>2, ParentInFacts
<1>7. /\ Root \in Z /\ \A p \in Z : NamedIn(children, title, p) \subseteq Z
      /\ \A C : Root \in C /\ (\A p \in C \cap Ids : NamedIn(children, title, p) \subseteq C)
                => Z \subseteq C
  BY <1>2, ShownFacts
<1>8. AssocIn(children, title) = {<<up[i], title[i], i>> : i \in Z \ {Root}}
  BY DEF AssocIn
<1>9. \A S \in SUBSET N : S # {} => \E p \in Ids \ S : K[p] \cap S # {}
  BY <1>2 DEF Tree
<1> HIDE DEF K, N, Z
<1>10. parent = up
  <2> HIDE DEF up
  <2>1. DOMAIN parent = DOMAIN up
    BY <1>4, <1>5, <1>6
  <2>2. \A i \in DOMAIN parent : parent[i] = up[i]
    BY <1>3, <1>4, <1>6
  <2> QED
    BY <1>4, <1>6, <2>1, <2>2
<1>11. Z \subseteq shown
  <2>1. ASSUME NEW p \in shown \cap Ids, NEW x \in NamedIn(children, title, p)
        PROVE  x \in shown
    <3>1. PICK k \in DOMAIN children[p] : children[p][k] = x /\ Nameable(children[p], title, k)
      BY DEF NamedIn
    <3>2. x \in K[p] /\ title[x] # BadName
      BY <1>3, <3>1 DEF ToSet, Nameable
    <3>3. x \in DOMAIN parent /\ parent[x] = p
      BY <1>3, <1>5, <3>2
    <3> QED
      BY <3>2, <3>3
  <2> QED
    BY <1>4, <1>7, <2>1
<1>12. shown \subseteq Z
  <2> DEFINE S == shown \ Z
  <2> SUFFICES ASSUME S # {} PROVE FALSE
    OBVIOUS
  <2>1. S \in SUBSET N
    BY <1>4, <1>7
  <2>2. PICK r \in Ids \ S : K[r] \cap S # {}
    BY <1>9, <2>1
  <2>3. PICK x \in K[r] : x \in shown /\ x \notin Z
    BY <2>2
  <2>4. x # Root /\ x \in DOMAIN parent /\ parent[x] = r /\ r \in shown /\ r \in Z
    BY <1>3, <1>4, <1>7, <2>2, <2>3
  <2> DEFINE s == children[r]
  <2>5. s \in Seq(Ids) /\ \A j, k \in DOMAIN s : s[j] = s[k] => j = k
    BY <1>3 DEF Lists, IsInjective
  <2>6. PICK k \in DOMAIN s : s[k] = x
    BY <1>3, <2>3 DEF ToSet
  <2>7. title[x] # BadName
    BY <1>1, <2>3, <2>4 DEF AssocInv
  <2>8. ASSUME NEW j \in 1 .. k - 1, title[s[j]] = title[x] PROVE FALSE
    <3>1. j \in DOMAIN s /\ j # k
      BY <2>5, <2>6
    <3>2. s[j] # x /\ s[j] \in K[r]
      BY <1>3, <2>5, <2>6, <3>1 DEF ToSet
    <3>3. s[j] \in DOMAIN parent /\ parent[s[j]] = r /\ s[j] # Root
      BY <1>3, <1>5, <3>2
    <3> HIDE DEF s
    <3>4. s[j] \in shown
      BY <2>4, <2>7, <2>8, <3>3
    <3> QED
      BY <1>1, <2>3, <2>4, <2>8, <3>2, <3>3, <3>4 DEF AssocInv
  <2>9. Nameable(s, title, k)
    BY <2>6, <2>7, <2>8 DEF Nameable
  <2>10. x \in NamedIn(children, title, r)
    BY <2>6, <2>9 DEF NamedIn
  <2> QED
    BY <1>7, <2>3, <2>4, <2>10
<1>13. shown = Z
  BY <1>11, <1>12
<1>14. assoc = AssocIn(children, title)
  <2>1. \A t \in assoc : t[3] \in shown \ {Root} /\ t = <<parent[t[3]], title[t[3]], t[3]>>
    BY <1>1 DEF AssocInv, Hashed
  <2>2. \A i \in shown \ {Root} : <<parent[i], title[i], i>> \in assoc
    BY <1>1 DEF AssocInv, Hashed
  <2> HIDE DEF up
  <2> QED
    BY <1>8, <1>10, <1>13, <2>1, <2>2
<1>15. DOMAIN parent \ {Root} = N
  BY <1>3, <1>4, <1>5
<1>16. guids = {<<guid[i], i>> : i \in Nodes}
  BY <1>1, <1>5, <1>15 DEF GuidInv
<1>17. Loadable
  BY <1>1, <1>10 DEF GuidInv, Loadable
<1> QED
  BY <1>10, <1>13, <1>14, <1>16, <1>17 DEF Z

LEMMA InvReadOnce == StoreInv => ReadOnce
<1> SUFFICES ASSUME StoreInv, stream.off = Len(stream.snap), NEW i \in DOMAIN stay
             PROVE  stay[i] = 1
  BY DEF ReadOnce
<1>1. stream.snap \in Seq(Ids)
  BY DEF StoreInv, StreamInv
<1>2. PICK k \in DOMAIN stream.snap : stay[i] = IF k <= stream.off THEN 1 ELSE 0
  BY DEF StoreInv, StreamInv
<1>3. k <= stream.off
  BY <1>1
<1> QED
  BY <1>2, <1>3
-----------------------------------------------------------------------------
(***************************************************************************)
(* The theorems.                                                           *)
(***************************************************************************)
\* The document and the maps have their types in every state; no id in use is
\* above max_id, which build_node_id() counts up.
THEOREM TypeCorrect == Spec => []TypeOK
BY StoreInvHolds, InvTypeOK, PTL

\* id_map and the document stay the same tree, and no request leaves an entry of
\* assoc_map or guid_map behind.
THEOREM MapsAreTheTree == Spec => []MapsMatchTree
BY StoreInvHolds, InvMaps, PTL

\* What bookmark_list() shows, bookmark_lookup() finds, and nothing else by that
\* name.
THEOREM ListedIsFound == Spec => []LookupMatchesList
BY StoreInvHolds, InvLookup, PTL

\* The maps that store_load() builds from the document are the ones there were,
\* but for names that came later than build_maps() or that it hides.
THEOREM ReloadChangesNothing == Spec => []SameAfterReload
BY StoreInvHolds, InvReload, PTL

\* Requests stamp every folder they change, old and new; whatever they are mixed
\* with, only a folder in which fsck_apply() has named an entry is ever older
\* than its entries.
THEOREM FoldersAreStamped == Spec => []FoldersStamped
<1>1. StoreInv => FoldersStamped
  BY DEF StoreInv
<1> QED
  BY <1>1, StoreInvHolds, PTL

\* A stream returns what was in its directory all the time once, whatever other
\* requests, repairs and reloads there are meanwhile.
THEOREM EntriesAreReadOnce == Spec => []ReadOnce
BY StoreInvHolds, InvReadOnce, PTL
=============================================================================
