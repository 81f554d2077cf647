------------------------------ MODULE FsckProofs ------------------------------
(***************************************************************************)
(* Proofs about Fsck, for every tree of directories, both walks and any    *)
(* sequence of commands: the stack of open directories, the buffer that    *)
(* they share, and what the walk has behind it.                            *)
(***************************************************************************)
EXTENDS Fsck, FiniteSetTheorems, SequenceTheorems, TLAPS

FrameType == [id : Dirs, done : BOOLEAN, idx : Nat, read : Nat, start : Nat,
              pos : Nat]

EntryType == [id : Items \cup {Root}, faults : 0 .. MaxFaults]

HandlerType == [has : BOOLEAN, expect : BOOLEAN, inhibit : BOOLEAN,
                data : EntryType]
-----------------------------------------------------------------------------
(***************************************************************************)
(* Naturals.                                                               *)
(***************************************************************************)
\* A set of naturals has a least element.
LEMMA NatMin ==
    ASSUME NEW T, T \subseteq Nat, T # {}
    PROVE  \E x \in T : \A y \in T : x <= y
<1>1. IsWellFoundedOn(OpToRel(<, Nat), Nat)
  BY NatLessThanWellFounded
<1>2. PICK x \in T : \A y \in T : ~(<<y, x>> \in OpToRel(<, Nat))
  BY <1>1, WFMin
<1>3. \A y \in T : ~(y < x)
  BY <1>2 DEF OpToRel
<1> QED
  BY <1>3

\* A bounded set of naturals has a largest element.
LEMMA NatMax ==
    ASSUME NEW T, NEW n \in Nat, T \subseteq 0 .. n, T # {}
    PROVE  \E x \in T : \A y \in T : y <= x
<1> DEFINE U == {n - x : x \in T}
<1>1. \A x \in T : n - x \in Nat
  OBVIOUS
<1>2. U \subseteq Nat /\ U # {}
  BY <1>1
<1>3. PICK u \in U : \A v \in U : u <= v
  BY <1>2, NatMin
<1>4. PICK x \in T : u = n - x
  BY <1>3
<1>5. \A y \in T : n - x <= n - y
  BY <1>3, <1>4
<1> QED
  BY <1>4, <1>5

LEMMA LeastIn ==
    ASSUME NEW S, S \subseteq Nat, S # {}
    PROVE  Least(S) \in S /\ \A j \in S : Least(S) <= j
BY NatMin DEF Least

\* The elements of a finite set of naturals can be counted off in their order:
\* the n-th one exists, and the last one is the largest.
Rank(S, k) == Cardinality({j \in S : j <= k})

LEMMA RankExists ==
    ASSUME NEW m \in Nat, NEW S \in SUBSET (1 .. m), NEW n \in 1 .. Cardinality(S)
    PROVE  \E k \in S : Rank(S, k) = n
<1>0. \A T \in SUBSET S : IsFiniteSet(T) /\ Cardinality(T) \in Nat
  <2>1. IsFiniteSet(1 .. m)
    BY FS_Interval
  <2> QED
    BY <2>1, FS_Subset, FS_CardinalityType
<1>1. IsFiniteSet(S) /\ Cardinality(S) \in Nat /\ S # {}
  BY <1>0, FS_EmptySet
<1>2. \A k \in S : Rank(S, k) \in Nat
  BY <1>0 DEF Rank
<1> DEFINE T == {k \in S : Rank(S, k) >= n}
<1>3. T # {}
  <2>1. S \subseteq 0 .. m
    OBVIOUS
  <2>2. PICK x \in S : \A y \in S : y <= x
    BY <1>1, <2>1, NatMax
  <2>3. {j \in S : j <= x} = S
    BY <2>2
  <2> QED
    BY <2>3 DEF Rank
<1>N. \A x \in S : x \in Nat /\ x \in 0 .. m
  OBVIOUS
<1>4. T \subseteq Nat
  <2> HIDE DEF Rank
  <2>1. \A x \in T : x \in S
    OBVIOUS
  <2> QED
    BY <1>N, <2>1
<1>5. PICK k \in T : \A j \in T : k <= j
  BY <1>3, <1>4, NatMin
<1>6. Rank(S, k) <= n
  <2> SUFFICES ASSUME Rank(S, k) > n PROVE FALSE
    BY <1>2
  <2> DEFINE B == {j \in S : j < k}
             A == {j \in S : j <= k}
  <2>0. k \in S /\ k \in Nat
    BY <1>5, <1>N
  <2>a. \A j \in S : j \in Nat
    BY <1>N
  <2>1. A = B \cup {k} /\ k \notin B /\ A \in SUBSET S /\ B \in SUBSET S
    <3>1. \A j \in S : (j <= k <=> j < k \/ j = k) /\ ~(k < k)
      BY <2>0, <2>a
    <3> QED
      BY <2>0, <3>1, Zenon
  <2>2. Cardinality(A) = Cardinality(B) + 1 /\ Cardinality(B) \in Nat
    BY <1>0, <2>1, FS_AddElement
  <2>3. Cardinality(B) >= n
    BY <2>2 DEF Rank
  <2>4. B # {} /\ B \subseteq 0 .. m
    <3>1. B # {}
      BY <2>3, FS_EmptySet
    <3>2. \A x \in B : x \in S
      OBVIOUS
    <3> QED
      BY <1>N, <3>1, <3>2
  <2>5. PICK x \in B : \A y \in B : y <= x
    BY <2>4, NatMax
  <2>6. {j \in S : j <= x} = B
    <3>1. \A j \in S : j <= x <=> j < k
      BY <2>0, <2>a, <2>5
    <3> QED
      BY <3>1, Zenon
  <2>7. x \in T /\ x < k
    BY <2>3, <2>5, <2>6 DEF Rank
  <2> QED
    BY <1>5, <2>7
<1> QED
  BY <1>2, <1>5, <1>6

LEMMA LastRank ==
    ASSUME NEW m \in Nat, NEW S \in SUBSET (1 .. m), NEW k \in S,
           Rank(S, k) = Cardinality(S)
    PROVE  \A j \in S : j <= k
<1>1. IsFiniteSet(1 .. m)
  BY FS_Interval
<1>2. IsFiniteSet(S)
  BY <1>1, FS_Subset
<1>3. {j \in S : j <= k} = S
  BY <1>2, FS_Subset DEF Rank
<1> QED
  BY <1>3

LEMMA RankUp ==
    ASSUME NEW m \in Nat, NEW S \in SUBSET (1 .. m), NEW j \in S, NEW k \in S
    PROVE  /\ Rank(S, k) \in 1 .. Cardinality(S)
           /\ j < k => Rank(S, j) < Rank(S, k)
<1> DEFINE A == {y \in S : y <= k}
           B == {y \in S : y <= j}
<1>1. IsFiniteSet(1 .. m)
  BY FS_Interval
<1>2. IsFiniteSet(S) /\ Cardinality(S) \in Nat
  BY <1>1, FS_Subset, FS_CardinalityType
<1>0. \A x \in S : x \in Nat
  OBVIOUS
<1>3. /\ A \in SUBSET S /\ k \in A /\ B \in SUBSET S
      /\ j < k => B \in SUBSET A /\ k \notin B
  <2>1. A \in SUBSET S /\ B \in SUBSET S
    OBVIOUS
  <2>2. k \in A
    BY <1>0
  <2>3. ASSUME j < k, NEW y \in B PROVE y \in A /\ y # k
    BY <1>0, <2>3
  <2> HIDE DEF A, B
  <2> QED
    BY <2>1, <2>2, <2>3
<1>4. /\ IsFiniteSet(A) /\ Cardinality(A) \in Nat
      /\ Cardinality(A) <= Cardinality(S) /\ IsFiniteSet(B)
      /\ Cardinality(B) \in Nat
  <2> HIDE DEF A, B
  <2> QED
    BY <1>2, <1>3, FS_Subset, FS_CardinalityType
<1>5. Cardinality(A) # 0
  <2> HIDE DEF A, B
  <2> QED
    BY <1>3, <1>4, FS_EmptySet
<1>6. j < k => Cardinality(B) < Cardinality(A)
  <2> HIDE DEF A, B
  <2> SUFFICES ASSUME j < k PROVE Cardinality(B) < Cardinality(A)
    OBVIOUS
  <2>1. Cardinality(B) <= Cardinality(A) /\ Cardinality(A) # Cardinality(B)
    BY <1>3, <1>4, FS_Subset
  <2> QED
    BY <1>4, <2>1
<1> QED
  BY <1>2, <1>4, <1>5, <1>6 DEF Rank
-----------------------------------------------------------------------------
(***************************************************************************)
(* The tree and the stack.                                                 *)
(***************************************************************************)
LEMMA TreeType ==
    ASSUME NEW d \in Dirs
    PROVE  /\ Len(Tree[d]) \in Nat /\ DOMAIN Tree[d] = 1 .. Len(Tree[d])
           /\ \A k \in 1 .. Len(Tree[d]) : /\ Tree[d][k] \in Items
                                           /\ Tree[d][k] \in Range(Tree[d])
<1>1. Tree[d] \in Seq(Range(Tree[d]))
  BY TreeAssumption
<1>2. Len(Tree[d]) \in Nat /\ DOMAIN Tree[d] = 1 .. Len(Tree[d])
  BY <1>1, LenProperties
<1>3. \A k \in 1 .. Len(Tree[d]) : Tree[d][k] \in Range(Tree[d])
  BY <1>2 DEF Range
<1> QED
  BY <1>2, <1>3 DEF Items

LEMMA FrameFields ==
    ASSUME NEW s \in Seq(FrameType), NEW n \in 1 .. Len(s)
    PROVE  /\ s[n] \in FrameType /\ s[n].id \in Dirs /\ s[n].idx \in Nat
           /\ s[n].read \in Nat /\ s[n].start \in Nat /\ s[n].pos \in Nat
<1>1. s[n] \in FrameType
  OBVIOUS
<1> QED
  BY <1>1 DEF FrameType

LEMMA FrameOK ==
    ASSUME NEW d \in Dirs, NEW n \in Nat
    PROVE  /\ Frame(d, n) \in FrameType /\ Frame(d, n).id = d
           /\ Frame(d, n).start = n /\ Frame(d, n).pos = n /\ Frame(d, n).read = 0
BY DEF Frame, FrameType

LEMMA PushEffect ==
    ASSUME NEW s \in Seq(FrameType), NEW n \in 1 .. Len(s), NEW f \in FrameType
    PROVE  LET t == Append(SubSeq(s, 1, n), f)
           IN /\ t \in Seq(FrameType) /\ Len(t) = n + 1 /\ t[n + 1] = f
              /\ \A k \in 1 .. n : t[k] = s[k]
<1> DEFINE u == SubSeq(s, 1, n)
<1>1. \A k \in 1 .. n : s[k] \in FrameType
  OBVIOUS
<1>2. u \in Seq(FrameType) /\ Len(u) = n /\ \A k \in 1 .. n : u[k] = s[k]
  <2>1. n \in Int /\ 1 \in Int
    OBVIOUS
  <2>2. /\ u \in Seq(FrameType) /\ Len(u) = (IF 1 <= n THEN n - 1 + 1 ELSE 0)
        /\ \A k \in 1 .. n - 1 + 1 : u[k] = s[1 + k - 1]
    BY <1>1, <2>1, SubSeqProperties
  <2> QED
    BY <2>2
<1> HIDE DEF u
<1> QED
  BY <1>2 DEF u
-----------------------------------------------------------------------------
(***************************************************************************)
(* What holds of a stack with l frames in use, of the part u of the buffer *)
(* b that is used, and of the number of times that directories are open.   *)
(***************************************************************************)
\* A path from the top.  Since a directory has one parent, no directory is on
\* it twice.
PathOf(s, l) ==
    /\ s[1].id = Root
    /\ \A n \in 1 .. l - 1 : s[n + 1].id \in Range(Tree[s[n].id])
    /\ \A m, n \in 1 .. l : s[m].id = s[n].id => m = n

Limit(s, l, u, n) == IF n < l THEN s[n + 1].start ELSE u

\* Entry k of the buffer was read from the directory of frame f.
ReadBy(f, x) == \E m \in 1 .. f.read : x = Tree[f.id][m]

BufOf(s, l, u, b) ==
    /\ \A n \in 1 .. l : /\ s[n].read <= Len(Tree[s[n].id])
                         /\ s[n].start <= s[n].pos /\ s[n].pos <= Limit(s, l, u, n)
                         /\ \A k \in s[n].pos + 1 .. Limit(s, l, u, n) : ReadBy(s[n], b[k])
    /\ \A m, n \in 1 .. l : m <= n => s[m].start <= s[n].start

OpenOf(s, l, o) ==
    \A d \in Dirs : o[d] = IF d \in {s[n].id : n \in 1 .. l} THEN 1 ELSE 0

LEMMA PushKeeps ==
    ASSUME NEW s \in Seq(FrameType), NEW l \in 1 .. Len(s), NEW t \in Seq(FrameType),
           NEW u \in Nat, NEW b, NEW o \in [Dirs -> Int], NEW sub \in Dirs,
           sub \in Range(Tree[s[l].id]),
           PathOf(s, l), BufOf(s, l, u, b), OpenOf(s, l, o),
           \A k \in 1 .. l : t[k] = s[k], t[l + 1] = Frame(sub, u), Len(t) = l + 1
    PROVE  /\ PathOf(t, l + 1) /\ BufOf(t, l + 1, u, b)
           /\ OpenOf(t, l + 1, [o EXCEPT ![sub] = @ + 1])
<1>0. l \in Nat /\ l >= 1 /\ l <= Len(s) /\ Len(s) \in Nat
  OBVIOUS
<1>1. \A k \in 1 .. l : /\ s[k].id \in Dirs /\ s[k].read \in Nat /\ s[k].start \in Nat
                        /\ s[k].pos \in Nat
  <2> SUFFICES ASSUME NEW k \in 1 .. l
               PROVE  /\ s[k].id \in Dirs /\ s[k].read \in Nat /\ s[k].start \in Nat
                      /\ s[k].pos \in Nat
    OBVIOUS
  <2>1. k \in 1 .. Len(s)
    BY <1>0
  <2> QED
    BY <2>1, FrameFields
<1>2. /\ t[l + 1].id = sub /\ t[l + 1].start = u /\ t[l + 1].pos = u
      /\ t[l + 1].read = 0
  BY FrameOK
<1>3. \A n \in 1 .. l : s[n].id # sub
  <2> SUFFICES ASSUME NEW n \in 1 .. l, s[n].id = sub PROVE FALSE
    OBVIOUS
  <2>1. n # 1
    BY TreeAssumption, <1>0, <1>1, SMTT(30) DEF PathOf, Items
  <2>2. n - 1 \in 1 .. l - 1 /\ n - 1 \in 1 .. l /\ (n - 1) + 1 = n
    BY <1>0, <2>1
  <2>3. s[n].id \in Range(Tree[s[n - 1].id])
    BY <2>2 DEF PathOf
  <2>4. s[n - 1].id \in Dirs /\ s[l].id \in Dirs
    BY <1>0, <1>1, <2>2
  <2>5. s[n - 1].id = s[l].id
    BY <2>3, <2>4, TreeAssumption
  <2> QED
    BY <1>0, <2>2, <2>5 DEF PathOf
<1>4. PathOf(t, l + 1)
  <2>1. t[1].id = Root
    BY <1>0 DEF PathOf
  <2>2. ASSUME NEW n \in 1 .. (l + 1) - 1 PROVE t[n + 1].id \in Range(Tree[t[n].id])
    <3>1. CASE n = l
      BY <1>0, <1>2, <3>1
    <3>2. CASE n # l
      <4>1. n \in 1 .. l - 1 /\ n \in 1 .. l /\ n + 1 \in 1 .. l
        BY <1>0, <3>2
      <4> QED
        BY <4>1 DEF PathOf
    <3> QED
      BY <3>1, <3>2
  <2>3. ASSUME NEW m \in 1 .. l + 1, NEW n \in 1 .. l + 1, t[m].id = t[n].id
        PROVE  m = n
    BY <1>0, <1>2, <1>3, <2>3 DEF PathOf
  <2> QED
    BY <2>1, <2>2, <2>3 DEF PathOf
<1>5. BufOf(t, l + 1, u, b)
  <2>1. ASSUME NEW n \in 1 .. l + 1
        PROVE  /\ t[n].read <= Len(Tree[t[n].id])
               /\ t[n].start <= t[n].pos /\ t[n].pos <= Limit(t, l + 1, u, n)
               /\ \A k \in t[n].pos + 1 .. Limit(t, l + 1, u, n) : ReadBy(t[n], b[k])
    <3>1. CASE n = l + 1
      BY <1>0, <1>2, <3>1, TreeType DEF Limit
    <3>2. CASE n \in 1 .. l
      <4>1. Limit(t, l + 1, u, n) = Limit(s, l, u, n)
        BY <1>0, <1>2, <3>2 DEF Limit
      <4> QED
        BY <3>2, <4>1 DEF BufOf
    <3> QED
      BY <1>0, <3>1, <3>2
  <2>2. \A n \in 1 .. l : s[n].start <= u
    <3>1. \A n \in 1 .. l : s[n].start <= s[l].start /\ s[n].start \in Nat /\ s[n].pos \in Nat
      BY <1>0, <1>1 DEF BufOf
    <3>2. s[l].start <= s[l].pos /\ s[l].pos <= u
      BY <1>0 DEF BufOf, Limit
    <3>3. s[l].start \in Nat /\ s[l].pos \in Nat
      BY <1>0, <1>1
    <3> QED
      BY <3>1, <3>2, <3>3
  <2>3. ASSUME NEW m \in 1 .. l + 1, NEW n \in 1 .. l + 1, m <= n
        PROVE  t[m].start <= t[n].start
    <3>1. CASE n \in 1 .. l
      <4>1. m \in 1 .. l /\ t[m] = s[m] /\ t[n] = s[n]
        BY <1>0, <2>3, <3>1
      <4> QED
        BY <2>3, <3>1, <4>1 DEF BufOf
    <3>2. CASE n = l + 1 /\ m \in 1 .. l
      <4>1. t[n].start = u /\ t[m] = s[m]
        BY <1>2, <3>2 DEF Frame
      <4> QED
        BY <2>2, <3>2, <4>1
    <3>3. CASE n = l + 1 /\ m = l + 1
      <4>1. t[n].start = u
        BY <1>2, <3>3
      <4> QED
        BY <3>3, <4>1
    <3> QED
      BY <1>0, <2>3, <3>1, <3>2, <3>3
  <2> QED
    BY <2>1, <2>3 DEF BufOf
<1>6. OpenOf(t, l + 1, [o EXCEPT ![sub] = @ + 1])
  <2>1. {t[n].id : n \in 1 .. l + 1} = {s[n].id : n \in 1 .. l} \cup {sub}
    BY <1>0, <1>2
  <2>2. sub \notin {s[n].id : n \in 1 .. l}
    BY <1>3
  <2> SUFFICES ASSUME NEW d \in Dirs
               PROVE  [o EXCEPT ![sub] = @ + 1][d] =
                        IF d \in {s[n].id : n \in 1 .. l} \cup {sub} THEN 1 ELSE 0
    BY <2>1 DEF OpenOf
  <2>3. o[d] = IF d \in {s[n].id : n \in 1 .. l} THEN 1 ELSE 0
    BY DEF OpenOf
  <2> QED
    BY <2>2, <2>3, SMTT(30)
<1> QED
  BY <1>4, <1>5, <1>6

LEMMA PopKeeps ==
    ASSUME NEW s \in Seq(FrameType), NEW l \in 2 .. Len(s), NEW u \in Nat, NEW b,
           NEW o \in [Dirs -> Int], PathOf(s, l), BufOf(s, l, u, b), OpenOf(s, l, o)
    PROVE  /\ PathOf(s, l - 1) /\ BufOf(s, l - 1, s[l].start, b)
           /\ OpenOf(s, l - 1, [o EXCEPT ![s[l].id] = @ - 1])
           /\ s[l].start <= u
<1>0. l \in Nat /\ l >= 2 /\ Len(s) \in Nat /\ l <= Len(s) /\ 1 .. l - 1 \subseteq 1 .. l
  OBVIOUS
<1>1. \A k \in 1 .. l : /\ s[k].id \in Dirs /\ s[k].read \in Nat /\ s[k].start \in Nat
                        /\ s[k].pos \in Nat
  <2> SUFFICES ASSUME NEW k \in 1 .. l
               PROVE  /\ s[k].id \in Dirs /\ s[k].read \in Nat /\ s[k].start \in Nat
                      /\ s[k].pos \in Nat
    OBVIOUS
  <2>1. k \in 1 .. Len(s)
    BY <1>0
  <2> QED
    BY <2>1, FrameFields
<1>2. PathOf(s, l - 1)
  BY <1>0 DEF PathOf
<1>3. BufOf(s, l - 1, s[l].start, b)
  <2>1. \A n \in 1 .. l - 1 : Limit(s, l - 1, s[l].start, n) = Limit(s, l, u, n)
    BY <1>0 DEF Limit
  <2> QED
    BY <1>0, <2>1 DEF BufOf
<1>4. OpenOf(s, l - 1, [o EXCEPT ![s[l].id] = @ - 1])
  <2>1. {s[n].id : n \in 1 .. l} = {s[n].id : n \in 1 .. l - 1} \cup {s[l].id}
    BY <1>0
  <2>2. s[l].id \notin {s[n].id : n \in 1 .. l - 1}
    <3> SUFFICES ASSUME NEW n \in 1 .. l - 1, s[n].id = s[l].id PROVE FALSE
      OBVIOUS
    <3>1. n \in 1 .. l /\ l \in 1 .. l /\ n # l
      BY <1>0
    <3> QED
      BY <3>1 DEF PathOf
  <2> SUFFICES ASSUME NEW d \in Dirs
               PROVE  [o EXCEPT ![s[l].id] = @ - 1][d] =
                        IF d \in {s[n].id : n \in 1 .. l - 1} THEN 1 ELSE 0
    BY DEF OpenOf
  <2>3. o[d] = IF d \in {s[n].id : n \in 1 .. l - 1} \cup {s[l].id} THEN 1 ELSE 0
    BY <2>1 DEF OpenOf
  <2> QED
    BY <2>2, <2>3
<1>5. s[l].start <= u
  <2>1. s[l].start <= s[l].pos /\ s[l].pos <= u
    BY <1>0 DEF BufOf, Limit
  <2>2. s[l].start \in Nat /\ s[l].pos \in Nat
    BY <1>0, <1>1
  <2> QED
    BY <2>1, <2>2
<1> QED
  BY <1>2, <1>3, <1>4, <1>5

\* The frame on the top goes on within its directory, with another part of the
\* buffer behind those of the directories below it.
TopMoves(s, l, b, t, v, c) ==
    /\ \A n \in 1 .. l : n # l => t[n] = s[n]
    /\ t[l].id = s[l].id /\ t[l].start = s[l].start
    /\ t[l].read <= Len(Tree[s[l].id])
    /\ \A k \in 1 .. s[l].start : c[k] = b[k]
    /\ s[l].start <= t[l].pos /\ t[l].pos <= v
    /\ \A k \in t[l].pos + 1 .. v : ReadBy(t[l], c[k])

LEMMA TopKeeps ==
    ASSUME NEW s \in Seq(FrameType), NEW l \in 1 .. Len(s), NEW u \in Nat, NEW b, NEW o,
           PathOf(s, l), BufOf(s, l, u, b), OpenOf(s, l, o),
           NEW t \in Seq(FrameType), Len(t) = Len(s), NEW v \in Nat, NEW c,
           TopMoves(s, l, b, t, v, c)
    PROVE  PathOf(t, l) /\ BufOf(t, l, v, c) /\ OpenOf(t, l, o)
<1> USE DEF TopMoves
<1>0. l \in Nat /\ l >= 1 /\ l <= Len(s) /\ Len(s) \in Nat
  OBVIOUS
<1>1. \A k \in 1 .. l : s[k].start \in Nat /\ s[k].pos \in Nat
  <2> SUFFICES ASSUME NEW k \in 1 .. l PROVE s[k].start \in Nat /\ s[k].pos \in Nat
    OBVIOUS
  <2>1. k \in 1 .. Len(s)
    BY <1>0
  <2> QED
    BY <2>1, FrameFields
<1>2. \A n \in 1 .. l : t[n].id = s[n].id /\ t[n].start = s[n].start
  OBVIOUS
<1>3. PathOf(t, l)
  <2>1. t[1].id = Root
    BY <1>0, <1>2 DEF PathOf
  <2>2. ASSUME NEW n \in 1 .. l - 1 PROVE t[n + 1].id \in Range(Tree[t[n].id])
    <3>1. n \in 1 .. l /\ n + 1 \in 1 .. l
      BY <1>0
    <3> QED
      BY <1>2, <3>1 DEF PathOf
  <2> QED
    BY <1>2, <2>1, <2>2 DEF PathOf
<1>4. BufOf(t, l, v, c)
  <2>1. ASSUME NEW n \in 1 .. l
        PROVE  /\ t[n].read <= Len(Tree[t[n].id])
               /\ t[n].start <= t[n].pos /\ t[n].pos <= Limit(t, l, v, n)
               /\ \A k \in t[n].pos + 1 .. Limit(t, l, v, n) : ReadBy(t[n], c[k])
    <3>1. CASE n # l
      <4>1. n + 1 \in 1 .. l /\ n < l /\ l \in 1 .. l
        BY <1>0, <3>1
      <4>2. /\ Limit(t, l, v, n) = s[n + 1].start /\ Limit(s, l, u, n) = s[n + 1].start
            /\ t[n] = s[n]
        BY <1>2, <3>1, <4>1 DEF Limit
      <4>3. s[n + 1].start <= s[l].start /\ s[n + 1].start \in Nat /\ s[l].start \in Nat
        <5>1. n + 1 <= l
          BY <4>1
        <5>2. s[n + 1].start <= s[l].start
          BY <4>1, <5>1 DEF BufOf
        <5> QED
          BY <1>1, <4>1, <5>2
      <4>4. /\ s[n].read <= Len(Tree[s[n].id])
            /\ s[n].start <= s[n].pos /\ s[n].pos <= s[n + 1].start
            /\ \A k \in s[n].pos + 1 .. s[n + 1].start : ReadBy(s[n], b[k])
        BY <4>2 DEF BufOf
      <4>5. \A k \in s[n].pos + 1 .. s[n + 1].start : c[k] = b[k]
        <5> SUFFICES ASSUME NEW k \in s[n].pos + 1 .. s[n + 1].start PROVE c[k] = b[k]
          OBVIOUS
        <5>1. k \in 1 .. s[l].start
          BY <1>1, <4>3
        <5> QED
          BY <5>1
      <4> QED
        BY <4>2, <4>4, <4>5
    <3>2. CASE n = l
      BY <1>0, <3>2 DEF Limit
    <3> QED
      BY <3>1, <3>2
  <2> QED
    BY <1>2, <2>1 DEF BufOf
<1>5. OpenOf(t, l, o)
  <2>1. {t[n].id : n \in 1 .. l} = {s[n].id : n \in 1 .. l}
    BY <1>2
  <2> QED
    BY <2>1 DEF OpenOf
<1> QED
  BY <1>3, <1>4, <1>5

LEMMA AdvanceKeeps ==
    ASSUME NEW s \in Seq(FrameType), NEW l \in 1 .. Len(s), NEW u \in Nat, NEW b, NEW o,
           PathOf(s, l), BufOf(s, l, u, b), OpenOf(s, l, o),
           NEW t \in Seq(FrameType), Len(t) = Len(s),
           \A n \in 1 .. Len(s) : n # l => t[n] = s[n],
           t[l].id = s[l].id, t[l].start = s[l].start,
           s[l].read <= t[l].read, t[l].read <= Len(Tree[s[l].id]),
           s[l].pos <= t[l].pos, t[l].pos <= u
    PROVE  PathOf(t, l) /\ BufOf(t, l, u, b) /\ OpenOf(t, l, o)
<1>1. l \in 1 .. Len(s) /\ l \in 1 .. Len(t) /\ l \in 1 .. l /\ 1 .. l \subseteq 1 .. Len(s)
  OBVIOUS
<1>2. /\ s[l].pos \in Nat /\ t[l].pos \in Nat /\ s[l].read \in Nat
      /\ t[l].read \in Nat /\ s[l].start \in Nat
  BY <1>1, FrameFields
<1>3. /\ s[l].start <= s[l].pos
      /\ \A k \in s[l].pos + 1 .. u : ReadBy(s[l], b[k])
  BY <1>1 DEF BufOf, Limit
<1>4. ASSUME NEW k \in t[l].pos + 1 .. u PROVE ReadBy(t[l], b[k])
  <2>1. k \in s[l].pos + 1 .. u
    BY <1>2
  <2>2. ReadBy(s[l], b[k])
    BY <1>3, <2>1
  <2> QED
    BY <1>2, <2>2 DEF ReadBy
<1>5. s[l].start <= t[l].pos
  BY <1>2, <1>3
<1>6. \A n \in 1 .. l : n # l => t[n] = s[n]
  BY <1>1
<1>7. TopMoves(s, l, b, t, u, b)
  BY <1>4, <1>5, <1>6 DEF TopMoves
<1> QED
  BY <1>7, TopKeeps

\* Frames with other fields.
Updated(s, n, t) ==
    /\ t \in Seq(FrameType) /\ Len(t) = Len(s)
    /\ \A k \in 1 .. Len(s) : k # n => t[k] = s[k]
    /\ t[n].id = s[n].id /\ t[n].start = s[n].start

LEMMA SetRead ==
    ASSUME NEW s \in Seq(FrameType), NEW n \in 1 .. Len(s), NEW x \in Nat
    PROVE  LET t == [s EXCEPT ![n].read = x]
           IN /\ Updated(s, n, t) /\ t[n].read = x /\ t[n].pos = s[n].pos
              /\ t[n].done = s[n].done /\ t[n].idx = s[n].idx
<1>1. s[n] \in FrameType
  OBVIOUS
<1> DEFINE f == [s[n] EXCEPT !.read = x]
<1>2. /\ f \in FrameType /\ f.id = s[n].id /\ f.start = s[n].start /\ f.read = x
      /\ f.pos = s[n].pos /\ f.done = s[n].done /\ f.idx = s[n].idx
  BY <1>1 DEF FrameType
<1>3. [s EXCEPT ![n].read = x] = [s EXCEPT ![n] = f]
  OBVIOUS
<1> HIDE DEF f
<1> QED
  BY <1>2, <1>3, ExceptSeq DEF Updated

LEMMA SetPos ==
    ASSUME NEW s \in Seq(FrameType), NEW n \in 1 .. Len(s), NEW x \in Nat
    PROVE  LET t == [s EXCEPT ![n].pos = x]
           IN /\ Updated(s, n, t) /\ t[n].read = s[n].read /\ t[n].pos = x
              /\ t[n].done = s[n].done /\ t[n].idx = s[n].idx
<1>1. s[n] \in FrameType
  OBVIOUS
<1> DEFINE f == [s[n] EXCEPT !.pos = x]
<1>2. /\ f \in FrameType /\ f.id = s[n].id /\ f.start = s[n].start /\ f.pos = x
      /\ f.read = s[n].read /\ f.done = s[n].done /\ f.idx = s[n].idx
  BY <1>1 DEF FrameType
<1>3. [s EXCEPT ![n].pos = x] = [s EXCEPT ![n] = f]
  OBVIOUS
<1> HIDE DEF f
<1> QED
  BY <1>2, <1>3, ExceptSeq DEF Updated

LEMMA SetIdx ==
    ASSUME NEW s \in Seq(FrameType), NEW n \in 1 .. Len(s), NEW x \in Nat
    PROVE  LET t == [s EXCEPT ![n].idx = x]
           IN /\ Updated(s, n, t) /\ t[n].read = s[n].read /\ t[n].pos = s[n].pos
              /\ t[n].done = s[n].done /\ t[n].idx = x
<1>1. s[n] \in FrameType
  OBVIOUS
<1> DEFINE f == [s[n] EXCEPT !.idx = x]
<1>2. /\ f \in FrameType /\ f.id = s[n].id /\ f.start = s[n].start
      /\ f.pos = s[n].pos /\ f.read = s[n].read /\ f.done = s[n].done /\ f.idx = x
  BY <1>1 DEF FrameType
<1>3. [s EXCEPT ![n].idx = x] = [s EXCEPT ![n] = f]
  OBVIOUS
<1> HIDE DEF f
<1> QED
  BY <1>2, <1>3, ExceptSeq DEF Updated

LEMMA SetDone ==
    ASSUME NEW s \in Seq(FrameType), NEW n \in 1 .. Len(s), NEW b \in BOOLEAN
    PROVE  LET t == [s EXCEPT ![n].done = b]
           IN /\ Updated(s, n, t) /\ t[n].read = s[n].read /\ t[n].pos = s[n].pos
              /\ t[n].done = b /\ t[n].idx = s[n].idx
<1>1. s[n] \in FrameType
  OBVIOUS
<1> DEFINE f == [s[n] EXCEPT !.done = b]
<1>2. f \in FrameType
  BY <1>1, Zenon DEF FrameType
<1>3. /\ f.id = s[n].id /\ f.start = s[n].start
      /\ f.pos = s[n].pos /\ f.read = s[n].read /\ f.done = b /\ f.idx = s[n].idx
  BY <1>1 DEF FrameType
<1>4. [s EXCEPT ![n].done = b] = [s EXCEPT ![n] = f]
  OBVIOUS
<1> HIDE DEF f
<1> QED
  BY <1>2, <1>3, <1>4, ExceptSeq DEF Updated
-----------------------------------------------------------------------------
(***************************************************************************)
(* The invariant.                                                          *)
(***************************************************************************)
\* The walk: the frames in use are a path that fits into dir_stack, its
\* directories are the open ones, and the buffer has what they have read.
WalkInv ==
    /\ stack \in Seq(FrameType) /\ size \in Nat /\ Len(stack) <= size
    /\ opt.recursive => size >= 2
    /\ top \in Nat /\ dir \in Nat /\ Last \in 1 .. Len(stack)
    /\ ~opt.recursive => top = 1 /\ dir = 1
    /\ buf \in Seq(Items) /\ used \in 0 .. Len(buf)
    /\ ~opt.online => used = 0
    /\ open \in [Dirs -> Int]
    /\ PathOf(stack, Last) /\ BufOf(stack, Last, used, buf)
    /\ IF pc = "ended" THEN \A d \in Dirs : open[d] = 0
                       ELSE OpenOf(stack, Last, open)

\* The main loop and the handler: a name that is shown has a fault.
LoopInv ==
    /\ name \in [Items -> 0 .. MaxFaults]
    /\ allDone \in BOOLEAN
    /\ pc \in {"next", "walk", "handler", "apply", "input", "end", "failed",
               "stopped", "ended"}
    /\ why \in Int
    /\ entry \in EntryType
    /\ handler \in HandlerType
    /\ (pc = "input") = handler.expect \/ pc \in {"stopped", "ended"}
    /\ pc = "handler" /\ why > 0 => entry.faults > 0

LEMMA WalkSame ==
    ASSUME WalkInv, UNCHANGED <<opt, stack, size, buf, used, open>>,
           Last' = Last, top' \in Nat, dir' \in Nat,
           ~opt.recursive => top' = 1 /\ dir' = 1,
           pc # "ended", pc' # "ended"
    PROVE  WalkInv'
<1>1. Last' \in 1 .. Len(stack') /\ PathOf(stack, Last)' /\ BufOf(stack, Last, used, buf)'
      /\ OpenOf(stack, Last, open)'
  BY DEF WalkInv, PathOf, BufOf, OpenOf, Limit
<1> QED
  BY <1>1 DEF WalkInv

\* The frame on the top has changed, and nothing else.
LEMMA WalkAdvances ==
    ASSUME WalkInv, UNCHANGED <<opt, size, buf, used, open>>,
           Last' = Last, top' \in Nat, dir' \in Nat,
           ~opt.recursive => top' = 1 /\ dir' = 1,
           pc # "ended", pc' # "ended",
           NEW t, stack' = t, Updated(stack, Last, t),
           stack[Last].read <= t[Last].read,
           t[Last].read <= Len(Tree[stack[Last].id]),
           stack[Last].pos <= t[Last].pos, t[Last].pos <= used
    PROVE  WalkInv'
<1> DEFINE l == Last
<1>1. PathOf(t, l) /\ BufOf(t, l, used, buf) /\ OpenOf(t, l, open)
  <2>1. l \in 1 .. Len(stack) /\ stack \in Seq(FrameType) /\ used \in Nat
        /\ PathOf(stack, l) /\ BufOf(stack, l, used, buf) /\ OpenOf(stack, l, open)
    BY DEF WalkInv
  <2> HIDE DEF l
  <2> QED
    BY <2>1, AdvanceKeeps DEF Updated, l
<1>2. PathOf(stack, Last)' /\ BufOf(stack, Last, used, buf)' /\ OpenOf(stack, Last, open)'
  BY <1>1 DEF PathOf, BufOf, OpenOf, Limit
<1>3. t \in Seq(FrameType) /\ Len(t) = Len(stack)
  BY DEF Updated
<1> QED
  BY <1>2, <1>3 DEF WalkInv

LEMMA InvInit == Init => WalkInv /\ LoopInv
<1> SUFFICES ASSUME Init PROVE WalkInv /\ LoopInv
  OBVIOUS
<1>1. /\ stack = <<Frame(Root, 0)>> /\ top = 1 /\ dir = 1 /\ pc = "next" /\ Last = 1
      /\ Root \in Dirs
  BY TreeAssumption DEF Init, Last
<1>2. /\ Frame(Root, 0) \in FrameType /\ Frame(Root, 0).id = Root
      /\ Frame(Root, 0).start = 0 /\ Frame(Root, 0).pos = 0 /\ Frame(Root, 0).read = 0
  BY <1>1, FrameOK
<1>3. stack \in Seq(FrameType) /\ Len(stack) = 1 /\ stack[1] = Frame(Root, 0)
  BY <1>1, <1>2
<1>4. PathOf(stack, 1) /\ BufOf(stack, 1, 0, buf)
  <2>1. 0 <= Len(Tree[Root])
    BY <1>1, TreeType
  <2> QED
    BY <1>2, <1>3, <2>1 DEF PathOf, BufOf, Limit
<1>5. OpenOf(stack, 1, open) /\ open \in [Dirs -> Int]
  <2>1. {stack[n].id : n \in 1 .. 1} = {Root}
    BY <1>2, <1>3
  <2>2. open = [d \in Dirs |-> IF d = Root THEN 1 ELSE 0]
    BY DEF Init
  <2> QED
    BY <2>1, <2>2 DEF OpenOf
<1>6. WalkInv
  <2>1. /\ size \in Nat /\ 1 <= size /\ (opt.recursive => size >= 2)
    BY FsckBoundAssumption DEF Init
  <2>2. /\ buf \in Seq(Items) /\ used = 0 /\ Len(buf) = 0
    BY DEF Init
  <2> QED
    BY <1>1, <1>3, <1>4, <1>5, <2>1, <2>2 DEF WalkInv
<1>7. LoopInv
  <2>1. NoEntry \in EntryType
    BY FsckBoundAssumption DEF NoEntry, EntryType
  <2>2. handler \in HandlerType /\ handler.expect = FALSE
    BY <2>1 DEF Init, HandlerType
  <2>3. /\ name \in [Items -> 0 .. MaxFaults] /\ pc = "next" /\ why = 0
        /\ entry = NoEntry /\ allDone = FALSE
    BY DEF Init
  <2>4. allDone \in BOOLEAN /\ (pc = "input") = handler.expect
    BY <2>2, <2>3, Zenon
  <2> QED
    BY <2>1, <2>2, <2>3, <2>4 DEF LoopInv
<1> QED
  BY <1>6, <1>7
-----------------------------------------------------------------------------
(***************************************************************************)
(* The walk.                                                               *)
(***************************************************************************)
\* A step that neither asks the user nor is asked by one.
LEMMA LoopSame ==
    ASSUME LoopInv, handler' = handler, name' \in [Items -> 0 .. MaxFaults],
           allDone' = allDone, pc \notin {"input", "stopped", "ended"},
           pc' \in {"next", "walk", "handler", "apply", "end", "failed"},
           why' \in Int, entry' \in EntryType,
           pc' = "handler" /\ why' > 0 => entry'.faults > 0
    PROVE  LoopInv'
<1>1. (pc = "input") = handler.expect
  BY Zenon DEF LoopInv
<1>2. (pc' = "input") = handler'.expect
  BY <1>1
<1>3. allDone' \in BOOLEAN
  BY Zenon DEF LoopInv
<1>4. pc' \in {"next", "walk", "handler", "apply", "input", "end", "failed",
               "stopped", "ended"}
  OBVIOUS
<1> QED
  BY <1>2, <1>3, <1>4 DEF LoopInv

LEMMA BeginStep ==
    ASSUME WalkInv, LoopInv, Begin
    PROVE  WalkInv' /\ LoopInv'
<1>1. /\ pc = "next" /\ dir' = top /\ pc' \in {"end", "walk"} /\ top' = top
      /\ UNCHANGED <<opt, stack, size, buf, used, open>>
      /\ handler' = handler /\ name' = name /\ allDone' = allDone /\ why' = why
      /\ entry' = entry
  BY DEF Begin
<1>2. Last' = Last
  BY <1>1 DEF Last
<1>3. top \in Nat /\ (~opt.recursive => top = 1)
  BY DEF WalkInv
<1>4. WalkInv'
  BY <1>1, <1>2, <1>3, WalkSame
<1>5. name \in [Items -> 0 .. MaxFaults] /\ why \in Int /\ entry \in EntryType
  BY DEF LoopInv
<1>6. LoopInv'
  BY <1>1, <1>5, LoopSame
<1> QED
  BY <1>4, <1>6

LEMMA UpdatedTwice ==
    ASSUME NEW s, NEW n \in 1 .. Len(s), NEW t, Updated(s, n, t), NEW v, Updated(t, n, v)
    PROVE  Updated(s, n, v)
BY DEF Updated

\* What a check reports has a fault, and what it misses is not malformed.
LEMMA ReportsFact ==
    ASSUME LoopInv, NEW d \in Dirs, NEW idx \in Nat, NEW S \in Reports(d, idx)
    PROVE  /\ \A k \in S : k \in idx + 1 .. Len(Tree[d]) /\ name[Tree[d][k]] > 0
           /\ \A k \in idx + 1 .. Len(Tree[d]) :
                    k \notin S => ~Malformed(name[Tree[d][k]])
<1>1. /\ S \subseteq Bad(d, idx)
      /\ \A k \in Bad(d, idx) : Malformed(name[Tree[d][k]]) => k \in S
  BY DEF Reports
<1>2. ASSUME NEW k \in idx + 1 .. Len(Tree[d]), k \notin Bad(d, idx)
      PROVE  ~Malformed(name[Tree[d][k]])
  <2>1. Len(Tree[d]) \in Nat /\ k \in 1 .. Len(Tree[d])
    BY TreeType
  <2>2. name[Tree[d][k]] \in 0 .. MaxFaults /\ ~(name[Tree[d][k]] > 0)
    BY <1>2, <2>1, TreeType DEF LoopInv, Bad
  <2>3. name[Tree[d][k]] = 0
    BY <2>2, FsckBoundAssumption
  <2> QED
    BY <2>3 DEF Malformed
<1> QED
  BY <1>1, <1>2 DEF Bad

\* An entry with a valid name is listed.
LEMMA ListingsFact ==
    ASSUME NEW d, NEW n, NEW S \in Listings(d, n)
    PROVE  /\ \A k \in S : k \in n + 1 .. Len(Tree[d])
           /\ \A k \in n + 1 .. Len(Tree[d]) : name[Tree[d][k]] = 0 => k \in S
BY DEF Listings

LEMMA CheckStep ==
    ASSUME WalkInv, LoopInv, Check
    PROVE  WalkInv' /\ LoopInv'
<1>0. PICK bad \in Reports(stack[dir].id, stack[dir].idx) :
            pc = "walk" /\ ~stack[dir].done /\ Checks(bad)
  BY DEF Check
<1> DEFINE f == stack[dir]
           end == IF bad = {} THEN Len(Tree[f.id]) ELSE Least(bad)
           t == [stack EXCEPT ![dir].idx = end]
           v == [t EXCEPT ![dir].done = bad = {}]
<1>1. /\ pc = "walk" /\ stack' = v
      /\ UNCHANGED <<opt, size, buf, used, open>> /\ dir' = dir
      /\ handler' = handler /\ name' = name /\ allDone' = allDone
      /\ \/ /\ bad # {} /\ top' = dir /\ pc' = "handler" /\ why' = 1
            /\ entry' = [id |-> Tree[f.id][end], faults |-> name[Tree[f.id][end]]]
         \/ /\ bad = {} /\ top' = top /\ pc' = (IF opt.recursive THEN "walk" ELSE "end")
            /\ entry' = entry /\ why' = why
  BY <1>0 DEF Checks
<1>2. /\ Last = dir /\ dir \in 1 .. Len(stack) /\ stack \in Seq(FrameType)
      /\ dir \in Nat /\ top \in Nat /\ (~opt.recursive => top = 1 /\ dir = 1)
  BY <1>1 DEF WalkInv, Last
<1>3. /\ f.id \in Dirs /\ f.idx \in Nat /\ f.read \in Nat /\ f.pos \in Nat
  BY <1>2, FrameFields
<1>4. Len(Tree[f.id]) \in Nat
  BY <1>3, TreeType
<1>5. /\ bad \subseteq 1 .. Len(Tree[f.id])
      /\ \A k \in bad : name[Tree[f.id][k]] > 0
  BY <1>3, <1>4, ReportsFact
<1>6. bad # {} => end \in bad
  <2>1. bad \subseteq Nat
    BY <1>4, <1>5
  <2> QED
    BY <2>1, LeastIn
<1>7. end \in Nat
  <2>1. CASE bad = {}
    BY <1>4, <2>1
  <2>2. CASE bad # {}
    <3>1. \A k \in bad : k \in Nat
      BY <1>4, <1>5
    <3> HIDE DEF end
    <3> QED
      BY <1>6, <2>2, <3>1
  <2> QED
    BY <2>1, <2>2
<1>8. f.read <= Len(Tree[f.id]) /\ f.pos <= used
  BY <1>2 DEF WalkInv, BufOf, Limit
<1>9. Updated(stack, dir, v) /\ v[dir].read = f.read /\ v[dir].pos = f.pos
  <2> DEFINE e == end
             b == bad = {}
  <2>1. b \in BOOLEAN
    OBVIOUS
  <2> HIDE DEF e, b
  <2>2. Updated(stack, dir, [stack EXCEPT ![dir].idx = e])
        /\ [stack EXCEPT ![dir].idx = e][dir].read = stack[dir].read
        /\ [stack EXCEPT ![dir].idx = e][dir].pos = stack[dir].pos
    BY <1>2, <1>7, SetIdx DEF e
  <2> DEFINE w == [stack EXCEPT ![dir].idx = e]
  <2>3. Updated(stack, dir, w) /\ w[dir].read = stack[dir].read
        /\ w[dir].pos = stack[dir].pos
    BY <2>2
  <2> HIDE DEF w
  <2>4. w \in Seq(FrameType) /\ dir \in 1 .. Len(w)
    BY <1>2, <2>3 DEF Updated
  <2> DEFINE x == [w EXCEPT ![dir].done = b]
  <2>5. Updated(w, dir, x) /\ x[dir].read = w[dir].read /\ x[dir].pos = w[dir].pos
    BY <2>1, <2>4, SetDone
  <2>6. v = x
    BY DEF w, e, b
  <2> HIDE DEF x
  <2>7. Updated(stack, dir, x)
    BY <1>2, <2>3, <2>5, UpdatedTwice
  <2> HIDE DEF v
  <2> QED
    BY <2>3, <2>5, <2>6, <2>7
<1>10. Last' = Last /\ top' \in Nat /\ (~opt.recursive => top' = 1 /\ dir' = 1)
       /\ pc' # "ended"
  BY <1>1, <1>2 DEF Last
<1>11. WalkInv'
  <2> HIDE DEF v
  <2>1. v[Last].read = stack[Last].read /\ v[Last].pos = stack[Last].pos
    BY <1>2, <1>9
  <2>2. /\ stack[Last].read <= v[Last].read /\ v[Last].read <= Len(Tree[stack[Last].id])
        /\ stack[Last].pos <= v[Last].pos /\ v[Last].pos <= used
    BY <1>2, <1>3, <1>8, <2>1
  <2> QED
    BY <1>1, <1>2, <1>9, <1>10, <2>2, WalkAdvances
<1>12. LoopInv'
  <2> HIDE DEF v
  <2>1. name \in [Items -> 0 .. MaxFaults] /\ why \in Int /\ entry \in EntryType
    BY DEF LoopInv
  <2>2. CASE bad # {}
    <3>1. /\ Tree[f.id][end] \in Items /\ name[Tree[f.id][end]] > 0
          /\ name[Tree[f.id][end]] \in 0 .. MaxFaults
      BY <1>3, <1>5, <1>6, <2>1, <2>2, TreeType
    <3> HIDE DEF f, end
    <3>2. entry' \in EntryType /\ entry'.faults > 0 /\ why' = 1 /\ pc' = "handler"
      BY <1>1, <2>2, <3>1 DEF EntryType
    <3> QED
      BY <1>1, <2>1, <3>2, LoopSame
  <2>3. CASE bad = {}
    <3> HIDE DEF f, end
    <3>1. entry' = entry /\ why' = why /\ pc' \in {"walk", "end"}
      BY <1>1, <2>3
    <3> QED
      BY <1>1, <2>1, <3>1, LoopSame
  <2> QED
    BY <2>2, <2>3
<1> QED
  BY <1>11, <1>12

LEMMA LeaveStep ==
    ASSUME WalkInv, pc = "walk", opt.recursive, opt' = opt, Leave
    PROVE  WalkInv' /\ pc' \in {"walk", "end"}
<1>0. /\ Last = dir /\ dir \in 1 .. Len(stack) /\ stack \in Seq(FrameType)
      /\ dir \in Nat /\ top \in Nat /\ used \in Nat /\ Len(stack) \in Nat
      /\ open \in [Dirs -> Int]
  BY DEF WalkInv, Last
<1>1. CASE dir = 1
  <2>1. top' = dir /\ pc' = "end" /\ UNCHANGED <<stack, size, dir, buf, used, open>>
    BY <1>1 DEF Leave
  <2>2. Last' = Last
    BY <1>0, <2>1 DEF Last
  <2> QED
    BY <1>0, <1>1, <2>1, <2>2, WalkSame
<1>2. CASE dir > 1
  <2>1. /\ open' = [open EXCEPT ![stack[dir].id] = @ - 1]
        /\ used' = stack[dir].start /\ dir' = dir - 1
        /\ UNCHANGED <<stack, size, top, buf, pc>>
    BY <1>0, <1>2 DEF Leave, Pop
  <2>2. dir \in 2 .. Len(stack)
    BY <1>0, <1>2
  <2>3. /\ PathOf(stack, dir - 1) /\ BufOf(stack, dir - 1, stack[dir].start, buf)
        /\ OpenOf(stack, dir - 1, [open EXCEPT ![stack[dir].id] = @ - 1])
        /\ stack[dir].start <= used
    <3>1. PathOf(stack, dir) /\ BufOf(stack, dir, used, buf) /\ OpenOf(stack, dir, open)
      BY <1>0 DEF WalkInv
    <3> QED
      BY <1>0, <2>2, <3>1, PopKeeps
  <2>4. Last' = dir - 1 /\ Last' \in 1 .. Len(stack)
    BY <2>1, <2>2 DEF Last
  <2>5. /\ PathOf(stack, Last)' /\ BufOf(stack, Last, used, buf)'
        /\ OpenOf(stack, Last, open)'
    <3>1. PathOf(stack, Last)'
      BY <2>1, <2>3, <2>4 DEF PathOf
    <3>2. BufOf(stack, Last, used, buf)'
      BY <2>1, <2>3, <2>4 DEF BufOf, Limit
    <3>3. OpenOf(stack, Last, open)'
      BY <2>1, <2>3, <2>4 DEF OpenOf
    <3> QED
      BY <3>1, <3>2, <3>3
  <2>6. open' \in [Dirs -> Int]
    <3> DEFINE x == stack[dir].id
    <3>1. x \in Dirs /\ open' = [open EXCEPT ![x] = @ - 1]
      BY <1>0, <2>1, FrameFields
    <3> HIDE DEF x
    <3> QED
      BY <1>0, <3>1
  <2>7. used' \in 0 .. Len(buf) /\ (~opt.online => used' = 0)
    <3>1. stack[dir].start \in Nat
      BY <1>0, FrameFields
    <3> QED
      BY <2>1, <2>3, <3>1 DEF WalkInv
  <2> QED
    BY <1>0, <2>1, <2>2, <2>4, <2>5, <2>6, <2>7 DEF WalkInv
<1> QED
  BY <1>0, <1>1, <1>2

LEMMA PushStep ==
    ASSUME WalkInv, pc = "walk", opt.recursive, UNCHANGED <<opt, buf, used>>,
           NEW t, Updated(stack, dir, t),
           stack[dir].read <= t[dir].read, t[dir].read <= Len(Tree[stack[dir].id]),
           stack[dir].pos <= t[dir].pos, t[dir].pos <= used,
           NEW sub \in Dirs, sub \in Range(Tree[stack[dir].id]), Push(t, sub)
    PROVE  WalkInv' /\ pc' = "walk"
<1>0. /\ Last = dir /\ dir \in 1 .. Len(stack) /\ stack \in Seq(FrameType)
      /\ dir \in Nat /\ top \in Nat /\ used \in Nat /\ Len(stack) \in Nat
      /\ open \in [Dirs -> Int]
  BY DEF WalkInv, Last
<1>1. /\ t \in Seq(FrameType) /\ Len(t) = Len(stack) /\ dir \in 1 .. Len(t)
      /\ t[dir].id = stack[dir].id
  BY <1>0 DEF Updated
<1>2. PathOf(t, dir) /\ BufOf(t, dir, used, buf) /\ OpenOf(t, dir, open)
  <2>1. PathOf(stack, dir) /\ BufOf(stack, dir, used, buf) /\ OpenOf(stack, dir, open)
    BY <1>0 DEF WalkInv
  <2> QED
    BY <1>0, <2>1, AdvanceKeeps DEF Updated
<1> DEFINE fr == Frame(sub, used)
           v == Append(SubSeq(t, 1, dir), fr)
<1>3. /\ v \in Seq(FrameType) /\ Len(v) = dir + 1 /\ v[dir + 1] = fr
      /\ \A k \in 1 .. dir : v[k] = t[k]
  <2>1. fr \in FrameType
    BY <1>0, FrameOK
  <2> HIDE DEF fr
  <2> QED
    BY <1>1, <2>1, PushEffect
<1>4. /\ stack' = v /\ size' = Grown(dir + 1) /\ dir' = dir + 1 /\ top' = top /\ pc' = pc
      /\ open' = [open EXCEPT ![sub] = @ + 1]
  BY DEF Push
<1> HIDE DEF v
<1>5. /\ PathOf(v, dir + 1) /\ BufOf(v, dir + 1, used, buf)
      /\ OpenOf(v, dir + 1, [open EXCEPT ![sub] = @ + 1])
  BY <1>0, <1>1, <1>2, <1>3, PushKeeps
<1>6. Last' = dir + 1
  BY <1>4 DEF Last
<1>7. /\ PathOf(stack, Last)' /\ BufOf(stack, Last, used, buf)'
      /\ OpenOf(stack, Last, open)'
  BY <1>4, <1>5, <1>6 DEF PathOf, BufOf, OpenOf, Limit
<1>8. size' \in Nat /\ dir + 1 <= size' /\ size' >= 2
  BY <1>0, <1>4 DEF WalkInv, Grown
<1>9. open' \in [Dirs -> Int]
  BY <1>0, <1>4
<1> QED
  BY <1>0, <1>3, <1>4, <1>6, <1>7, <1>8, <1>9 DEF WalkInv

LEMMA WalkEndsStep ==
    ASSUME WalkInv, LoopInv, WalkEnds
    PROVE  WalkInv' /\ LoopInv'
<1>1. /\ pc = "walk" /\ ~opt.recursive /\ pc' = "end" /\ UNCHANGED <<top, dir>>
      /\ UNCHANGED <<opt, stack, size, buf, used, open>>
      /\ handler' = handler /\ name' = name /\ allDone' = allDone /\ why' = why
      /\ entry' = entry
  BY DEF WalkEnds, Walking, walkVars
<1>2. top = 1 /\ dir = 1
  BY <1>1 DEF WalkInv
<1>3. Last' = Last
  BY <1>1, <1>2 DEF Last
<1>4. WalkInv'
  BY <1>1, <1>2, <1>3, WalkSame
<1>5. name \in [Items -> 0 .. MaxFaults] /\ why \in Int /\ entry \in EntryType
  BY DEF LoopInv
<1>6. LoopInv'
  BY <1>1, <1>5, LoopSame
<1> QED
  BY <1>4, <1>6

LEMMA WalkFailsStep ==
    ASSUME WalkInv, LoopInv, WalkFails
    PROVE  WalkInv' /\ LoopInv'
<1>1. /\ pc = "walk" /\ top' = dir /\ pc' = "failed" /\ dir' = dir
      /\ UNCHANGED <<opt, stack, size, buf, used, open>>
      /\ handler' = handler /\ name' = name /\ allDone' = allDone /\ why' = why
      /\ entry' = entry
  BY DEF WalkFails, Stored
<1>2. dir \in Nat /\ (~opt.recursive => dir = 1)
  BY <1>1 DEF WalkInv
<1>3. Last' = Last
  BY <1>1 DEF Last
<1>4. WalkInv'
  BY <1>1, <1>2, <1>3, WalkSame
<1>5. name \in [Items -> 0 .. MaxFaults] /\ why \in Int /\ entry \in EntryType
  BY DEF LoopInv
<1>6. LoopInv'
  BY <1>1, <1>5, LoopSame
<1> QED
  BY <1>4, <1>6

\* The steps of the walk within a directory tree leave the rest alone.
LEMMA WalkLoop ==
    ASSUME LoopInv, pc = "walk", pc' \in {"walk", "end"},
           UNCHANGED <<name, allDone, why, entry, handler>>
    PROVE  LoopInv'
<1>1. name \in [Items -> 0 .. MaxFaults] /\ why \in Int /\ entry \in EntryType
  BY DEF LoopInv
<1> QED
  BY <1>1, LoopSame

LEMMA ListSubdirStep ==
    ASSUME WalkInv, LoopInv, ListSubdir
    PROVE  WalkInv' /\ LoopInv'
<1>0. PICK listed \in Listings(stack[dir].id, stack[dir].read) :
            LET subs == {k \in listed : Tree[stack[dir].id][k] \in Dirs}
            IN \/ /\ subs # {}
                  /\ Push([stack EXCEPT ![dir].read = Least(subs)],
                          Tree[stack[dir].id][Least(subs)])
                  /\ UNCHANGED <<buf, used>>
               \/ subs = {} /\ Leave
  BY DEF ListSubdir
<1> DEFINE f == stack[dir]
           subs == {k \in listed : Tree[f.id][k] \in Dirs}
<1>1. /\ pc = "walk" /\ opt.recursive /\ opt' = opt
      /\ UNCHANGED <<name, allDone, why, entry, handler>>
      /\ \/ /\ subs # {}
            /\ Push([stack EXCEPT ![dir].read = Least(subs)], Tree[f.id][Least(subs)])
            /\ UNCHANGED <<buf, used>>
         \/ subs = {} /\ Leave
  BY <1>0 DEF ListSubdir, Walking
<1>2. /\ Last = dir /\ dir \in 1 .. Len(stack) /\ stack \in Seq(FrameType)
  BY <1>1 DEF WalkInv, Last
<1>3. f.id \in Dirs /\ f.read \in Nat /\ f.pos \in Nat /\ f.pos <= used
  BY <1>2, FrameFields DEF WalkInv, BufOf, Limit
<1>4. WalkInv' /\ pc' \in {"walk", "end"}
  <2>1. CASE subs = {}
    BY <1>1, <2>1, LeaveStep
  <2>2. CASE subs # {}
    <3> DEFINE k == Least(subs)
               t == [stack EXCEPT ![dir].read = k]
               sub == Tree[f.id][k]
    <3>1. k \in f.read + 1 .. Len(Tree[f.id]) /\ sub \in Dirs /\ Len(Tree[f.id]) \in Nat
      <4>1. Len(Tree[f.id]) \in Nat
        BY <1>3, TreeType
      <4>2. \A x \in subs : x \in f.read + 1 .. Len(Tree[f.id]) /\ Tree[f.id][x] \in Dirs
        BY ListingsFact
      <4>3. \A x \in subs : x \in Nat
        BY <1>3, <4>1, <4>2
      <4>4. k \in subs
        BY <2>2, <4>3, LeastIn
      <4> QED
        BY <4>1, <4>2, <4>4
    <3>2. /\ k \in Nat /\ f.read <= k /\ k <= Len(Tree[f.id]) /\ k \in 1 .. Len(Tree[f.id])
      BY <1>3, <3>1
    <3>3. sub \in Range(Tree[f.id])
      BY <1>3, <3>2, TreeType
    <3>4. Push(t, sub) /\ UNCHANGED <<buf, used>>
      BY <1>1, <2>2
    <3> HIDE DEF k
    <3>5. Updated(stack, dir, t) /\ t[dir].read = k /\ t[dir].pos = f.pos
      BY <1>2, <3>2, SetRead
    <3> HIDE DEF t, sub
    <3>6. /\ stack[dir].read <= t[dir].read /\ t[dir].read <= Len(Tree[stack[dir].id])
          /\ stack[dir].pos <= t[dir].pos /\ t[dir].pos <= used
      BY <1>3, <3>2, <3>5
    <3> QED
      BY <1>1, <3>1, <3>3, <3>4, <3>5, <3>6, PushStep
  <2> QED
    BY <2>1, <2>2
<1> QED
  BY <1>1, <1>4, WalkLoop

LEMMA NextSubdirStep ==
    ASSUME WalkInv, LoopInv, NextSubdir
    PROVE  WalkInv' /\ LoopInv'
<1> DEFINE f == stack[dir]
           k == Least(InBuffer(f))
           t == [stack EXCEPT ![dir].pos = k]
<1>0. PICK sub \in Opened(buf[k]) : Push(t, sub)
  BY DEF NextSubdir
<1>1. /\ pc = "walk" /\ opt.recursive /\ opt' = opt
      /\ UNCHANGED <<name, allDone, why, entry, handler, buf, used>>
      /\ InBuffer(f) # {}
  BY DEF NextSubdir, Walking
<1>2. /\ Last = dir /\ dir \in 1 .. Len(stack) /\ stack \in Seq(FrameType)
      /\ used \in Nat
  BY <1>1 DEF WalkInv, Last
<1>3. /\ f.id \in Dirs /\ f.read \in Nat /\ f.pos \in Nat /\ f.pos <= used
      /\ f.read <= Len(Tree[f.id])
      /\ \A x \in f.pos + 1 .. used : ReadBy(f, buf[x])
  BY <1>2, FrameFields DEF WalkInv, BufOf, Limit
<1>4. k \in f.pos + 1 .. used /\ buf[k] \in Dirs
  <2>1. \A x \in InBuffer(f) : x \in f.pos + 1 .. used /\ buf[x] \in Dirs
    BY DEF InBuffer
  <2>2. \A x \in InBuffer(f) : x \in Nat
    BY <1>2, <1>3, <2>1
  <2>3. k \in InBuffer(f)
    BY <1>1, <2>2, LeastIn
  <2> QED
    BY <2>1, <2>3
<1>5. k \in Nat /\ f.pos <= k /\ k <= used
  BY <1>2, <1>3, <1>4
<1>6. sub \in Range(Tree[f.id]) /\ sub \in Dirs
  <2>1. PICK m \in 1 .. f.read : buf[k] = Tree[f.id][m]
    BY <1>3, <1>4 DEF ReadBy
  <2>2. Len(Tree[f.id]) \in Nat
    BY <1>3, TreeType
  <2>3. m \in 1 .. Len(Tree[f.id])
    BY <1>3, <2>2
  <2>4. buf[k] \in Range(Tree[f.id])
    BY <1>3, <2>1, <2>3, TreeType
  <2> HIDE DEF k
  <2> QED
    BY <1>4, <2>4 DEF Opened
<1> HIDE DEF k
<1>7. Updated(stack, dir, t) /\ t[dir].read = f.read /\ t[dir].pos = k
  BY <1>2, <1>5, SetPos
<1> HIDE DEF t
<1>8. /\ stack[dir].read <= t[dir].read /\ t[dir].read <= Len(Tree[stack[dir].id])
      /\ stack[dir].pos <= t[dir].pos /\ t[dir].pos <= used
  BY <1>3, <1>5, <1>7
<1>9. WalkInv' /\ pc' = "walk"
  BY <1>0, <1>1, <1>6, <1>7, <1>8, PushStep
<1> QED
  BY <1>1, <1>9, WalkLoop

\* The buffer holds what a getdents() call returned: the next entries of the
\* directory of frame f, of which t is the new frame.
Filled(f, t, b, u) ==
    /\ t.pos = f.start /\ t.done = f.done /\ t.idx = f.idx
    /\ f.read <= t.read /\ t.read <= Len(Tree[f.id])
    /\ b \in Seq(Items) /\ Len(b) = u /\ f.start <= u
    /\ \A k \in 1 .. f.start : b[k] = buf[k]
    /\ \A k \in f.start + 1 .. u : ReadBy(t, b[k])
    /\ \A k \in f.read + 1 .. t.read :
            name[Tree[f.id][k]] = 0 =>
                \E j \in f.start + 1 .. u : Tree[f.id][k] = b[j]

LEMMA GetdentsReads ==
    ASSUME WalkInv, Getdents
    PROVE  \/ /\ \A k \in stack[dir].read + 1 .. Len(Tree[stack[dir].id]) :
                    name[Tree[stack[dir].id][k]] # 0
              /\ Leave
           \/ /\ UNCHANGED <<size, top, dir, open, pc>> /\ used' \in Nat
              /\ Updated(stack, dir, stack')
              /\ Filled(stack[dir], stack'[dir], buf', used')
<1>w. pc = "walk"
  BY DEF Getdents, Walking
<1>2. /\ Last = dir /\ dir \in 1 .. Len(stack) /\ stack \in Seq(FrameType)
      /\ used \in Nat /\ buf \in Seq(Items) /\ used \in 0 .. Len(buf)
      /\ BufOf(stack, dir, used, buf)
  BY <1>w DEF WalkInv, Last
<1>0. PICK more \in Listings(stack[dir].id, stack[dir].read) : Reads(more)
  BY DEF Getdents
<1> DEFINE f == stack[dir]
           got == {k \in more : Cardinality({j \in more : j <= k}) <= Chunk}
           at(n) == CHOOSE k \in got : Cardinality({j \in got : j <= k}) = n
           c == Cardinality(got)
           h == [n \in 1 .. c |-> Tree[f.id][at(n)]]
           g == SubSeq(buf, 1, f.start)
           w == [stack EXCEPT ![dir].pos = f.start]
           t == [w EXCEPT ![dir].read = at(c)]
<1>1. \/ /\ got # {} /\ buf' = g \o h /\ used' = f.start + c /\ stack' = t
         /\ UNCHANGED <<size, top, dir, open, pc>>
      \/ got = {} /\ Leave
  BY <1>0 DEF Reads
<1>3. /\ f.id \in Dirs /\ f.read \in Nat /\ f.pos \in Nat /\ f.start \in Nat
      /\ f.start <= f.pos /\ f.pos <= used
      /\ Len(Tree[f.id]) \in Nat
  <2>1. dir \in 1 .. dir /\ ~(dir < dir)
    BY <1>2
  <2> QED
    BY <1>2, <2>1, FrameFields, TreeType DEF BufOf, Limit
<1>m. /\ more \in SUBSET (1 .. Len(Tree[f.id]))
      /\ \A x \in more : x \in f.read + 1 .. Len(Tree[f.id])
  <2>1. \A x \in more : x \in f.read + 1 .. Len(Tree[f.id])
    BY ListingsFact
  <2> QED
    BY <1>3, <2>1
<1>g. got = {k \in more : Rank(more, k) <= Chunk}
  BY DEF Rank
<1>4. got \in SUBSET (1 .. Len(Tree[f.id])) /\ \A x \in got : x \in more
  <2> QED
    BY <1>m
<1>5. CASE got = {}
  <2> SUFFICES ASSUME more # {} PROVE FALSE
    BY <1>1, <1>5, ListingsFact
  <2>0. \A x \in more : x \in Nat
    BY <1>3, <1>m
  <2> HIDE DEF got
  <2>1. PICK e \in more : \A x \in more : e <= x
    BY <2>0, NatMin
  <2>2. {j \in more : j <= e} = {e}
    BY <2>0, <2>1
  <2>3. Rank(more, e) = 1
    BY <2>2, FS_Singleton DEF Rank
  <2> QED
    BY <1>5, <1>g, <2>3, FsckBoundAssumption
<1>6. CASE got # {}
  <2>1. c \in Nat /\ c >= 1
    <3> DEFINE m == Len(Tree[f.id])
    <3>0. m \in Nat
      BY <1>3
    <3> HIDE DEF m
    <3>1. IsFiniteSet(1 .. m)
      BY <3>0, FS_Interval
    <3>2. IsFiniteSet(got)
      BY <1>4, <3>1, FS_Subset DEF m
    <3> HIDE DEF got
    <3>3. c \in Nat /\ c # 0
      BY <1>6, <3>2, FS_CardinalityType, FS_EmptySet
    <3> QED
      BY <3>3
  <2>2. ASSUME NEW n \in 1 .. c
        PROVE  at(n) \in got /\ Rank(got, at(n)) = n
    <3> HIDE DEF got, f
    <3>1. \E k \in got : Cardinality({j \in got : j <= k}) = n
      BY <1>3, <1>4, RankExists DEF Rank
    <3> QED
      BY <3>1 DEF Rank
  <2> DEFINE r == at(c)
  <2>3. r \in got /\ \A j \in got : j <= r
    <3>0. \A n \in 1 .. c : at(n) \in got /\ Rank(got, at(n)) = n
      BY <2>2
    <3>1. r \in got /\ Rank(got, r) = c
      <4> HIDE DEF at, got, c
      <4> QED
        BY <2>1, <3>0
    <3> HIDE DEF got, r, f
    <3> QED
      BY <1>3, <1>4, <3>1, LastRank
  <2>4. r \in Nat /\ r <= Len(Tree[f.id])
    <3> HIDE DEF got, r
    <3> QED
      BY <1>3, <1>4, <2>3
  <2>5. ASSUME NEW n \in 1 .. c
        PROVE  /\ at(n) \in 1 .. r /\ h[n] = Tree[f.id][at(n)]
               /\ h[n] \in Items
    <3>1. at(n) \in got
      BY <2>2
    <3>2. h[n] = Tree[f.id][at(n)]
      OBVIOUS
    <3> DEFINE a == at(n)
    <3>3. a \in got /\ h[n] = Tree[f.id][a]
      BY <3>1, <3>2
    <3> HIDE DEF a, h, got, r
    <3>4. a \in 1 .. Len(Tree[f.id]) /\ a <= r
      BY <1>4, <2>3, <3>3
    <3>5. a \in 1 .. r
      BY <1>3, <2>4, <3>4
    <3>6. Tree[f.id][a] \in Items
      BY <1>3, <3>4, TreeType
    <3> QED
      BY <3>3, <3>5, <3>6 DEF a
  <2>6. h \in Seq(Items) /\ Len(h) = c
    <3>1. \A n \in 1 .. c : Tree[f.id][at(n)] \in Items
      BY <2>5
    <3>2. h \in [1 .. c -> Items]
      BY <3>1
    <3>3. DOMAIN h = 1 .. c
      OBVIOUS
    <3> HIDE DEF h, c
    <3> QED
      BY <2>1, <3>2, <3>3
  <2>7. g \in Seq(Items) /\ Len(g) = f.start /\ \A k \in 1 .. f.start : g[k] = buf[k]
    <3> DEFINE x == f.start
    <3>1. x \in Nat /\ x <= Len(buf) /\ Len(buf) \in Nat /\ buf \in Seq(Items)
      BY <1>2, <1>3
    <3> HIDE DEF x
    <3>2. \A k \in 1 .. x : buf[k] \in Items
      BY <3>1
    <3>3. /\ SubSeq(buf, 1, x) \in Seq(Items)
          /\ Len(SubSeq(buf, 1, x)) = (IF 1 <= x THEN x - 1 + 1 ELSE 0)
          /\ \A k \in 1 .. x - 1 + 1 : SubSeq(buf, 1, x)[k] = buf[1 + k - 1]
      BY <3>1, <3>2, SubSeqProperties
    <3>4. /\ SubSeq(buf, 1, x) \in Seq(Items) /\ Len(SubSeq(buf, 1, x)) = x
          /\ \A k \in 1 .. x : SubSeq(buf, 1, x)[k] = buf[k]
      BY <3>1, <3>3
    <3> QED
      BY <3>4 DEF x
  <2> DEFINE b == g \o h
             v == f.start + c
  <2>8. /\ b \in Seq(Items) /\ Len(b) = v
        /\ \A k \in 1 .. f.start : b[k] = buf[k]
        /\ \A k \in f.start + 1 .. v : b[k] = h[k - f.start]
    <3> DEFINE x == f.start
    <3>1. x \in Nat /\ Len(g) = x /\ \A k \in 1 .. x : g[k] = buf[k]
      BY <1>3, <2>7
    <3> HIDE DEF g, h, x, c
    <3>2. /\ b \in Seq(Items) /\ Len(b) = x + c
          /\ \A k \in 1 .. x + c : b[k] = IF k <= x THEN g[k] ELSE h[k - x]
      BY <2>6, <2>7, <3>1, ConcatProperties
    <3>3. \A k \in 1 .. x : b[k] = buf[k]
      BY <2>1, <3>1, <3>2
    <3>4. \A k \in x + 1 .. x + c : b[k] = h[k - x]
      BY <2>1, <3>1, <3>2
    <3> QED
      BY <3>2, <3>3, <3>4 DEF x
  <2>9. /\ Updated(stack, dir, t) /\ t[dir].pos = f.start /\ t[dir].read = r
        /\ t[dir].done = f.done /\ t[dir].idx = f.idx
    <3>1. /\ Updated(stack, dir, w) /\ w[dir].pos = f.start /\ w[dir].done = f.done
          /\ w[dir].idx = f.idx
      BY <1>2, <1>3, SetPos
    <3> DEFINE q == [w EXCEPT ![dir].read = r]
    <3>2. t = q
      OBVIOUS
    <3> HIDE DEF w, r, t
    <3>3. w \in Seq(FrameType) /\ dir \in 1 .. Len(w)
      BY <1>2, <3>1 DEF Updated
    <3>4. /\ Updated(w, dir, q) /\ q[dir].read = r /\ q[dir].pos = w[dir].pos
          /\ q[dir].done = w[dir].done /\ q[dir].idx = w[dir].idx
      BY <2>4, <3>3, SetRead
    <3> HIDE DEF q
    <3>5. Updated(stack, dir, q)
      BY <1>2, <3>1, <3>4, UpdatedTwice
    <3> QED
      BY <3>1, <3>2, <3>4, <3>5
  <2>10. /\ UNCHANGED <<size, top, dir, open, pc>>
         /\ buf' = b /\ used' = v /\ stack' = t
    BY <1>1, <1>6
  <2>11. v \in Nat /\ f.start <= v
    BY <1>3, <2>1
  <2>12. \A k \in f.start + 1 .. v : ReadBy(t[dir], b[k])
    <3> SUFFICES ASSUME NEW k \in f.start + 1 .. v PROVE ReadBy(t[dir], b[k])
      OBVIOUS
    <3> DEFINE n == k - f.start
    <3>1. n \in 1 .. c
      BY <1>3, <2>1
    <3>2. b[k] = h[n]
      BY <2>8
    <3> HIDE DEF n, b, t
    <3>3. PICK a \in 1 .. r : h[n] = Tree[f.id][a]
      BY <2>5, <3>1
    <3>4. t[dir].id = f.id
      BY <2>9 DEF Updated
    <3> HIDE DEF h, r
    <3> QED
      BY <2>9, <3>2, <3>3, <3>4 DEF ReadBy
  <2>13. f.read <= r /\ r \in more
    <3>1. r \in more
      BY <1>4, <2>3
    <3> HIDE DEF r
    <3> QED
      BY <1>3, <1>m, <2>4, <3>1
  <2>14. ASSUME NEW k \in f.read + 1 .. r, name[Tree[f.id][k]] = 0
         PROVE  \E j \in f.start + 1 .. v : Tree[f.id][k] = b[j]
    <3> DEFINE i == Tree[f.id][k]
    <3>1. k \in Nat /\ k <= r /\ k \in more
      <4>0. r \in 1 .. Len(Tree[f.id])
        BY <1>4, <2>3
      <4> HIDE DEF r
      <4>1. k \in Nat /\ k <= r /\ k \in f.read + 1 .. Len(Tree[f.id])
        BY <1>3, <2>4, <2>14, <4>0
      <4> QED
        BY <2>14, <4>1, ListingsFact
    <3>2. Rank(more, k) <= Rank(more, r) /\ Rank(more, r) <= Chunk
          /\ Rank(more, k) \in Nat /\ Rank(more, r) \in Nat
      <4>1. r \in more /\ Rank(more, r) <= Chunk
        BY <1>g, <2>3, <2>13
      <4>2. k < r \/ k = r
        <5> HIDE DEF r
        <5> QED
          BY <2>4, <3>1
      <4> DEFINE m == Len(Tree[f.id])
      <4>3. m \in Nat /\ more \in SUBSET (1 .. m)
        BY <1>3, <1>m
      <4> HIDE DEF r, m
      <4>4. /\ Rank(more, k) \in 1 .. Cardinality(more) /\ Rank(more, r) \in 1 .. Cardinality(more)
            /\ k < r => Rank(more, k) < Rank(more, r)
        BY <3>1, <4>1, <4>3, RankUp
      <4> QED
        BY <4>1, <4>2, <4>4
    <3>3. k \in got
      <4> HIDE DEF r, got
      <4> QED
        BY <1>g, <3>1, <3>2, FsckBoundAssumption
    <3> DEFINE n == Rank(got, k)
               e == at(n)
    <3>4. n \in 1 .. c /\ e = k
      <4> DEFINE m == Len(Tree[f.id])
      <4>1. m \in Nat /\ got \in SUBSET (1 .. m)
        BY <1>3, <1>4
      <4>2. n \in 1 .. c
        <5> HIDE DEF m, got
        <5> QED
          BY <3>3, <4>1, RankUp
      <4>3. e \in got /\ Rank(got, e) = n
        <5> HIDE DEF n
        <5> QED
          BY <2>2, <4>2
      <4> HIDE DEF e, n
      <4>4. /\ k < e => Rank(got, k) < Rank(got, e)
            /\ e < k => Rank(got, e) < Rank(got, k)
        <5> HIDE DEF m, got
        <5> QED
          BY <3>3, <4>1, <4>3, RankUp
      <4>5. n = Rank(got, k)
        BY DEF n
      <4>6. k \in Nat /\ e \in Nat
        <5> HIDE DEF got
        <5> QED
          BY <1>3, <1>4, <3>1, <4>3
      <4> HIDE DEF got, c
      <4> QED
        BY <4>2, <4>3, <4>4, <4>5, <4>6
    <3>5. h[n] = i
      <4>1. \A x \in 1 .. c : h[x] = Tree[f.id][at(x)]
        BY <2>5
      <4> HIDE DEF h, c, n
      <4> QED
        BY <3>4, <4>1
    <3> DEFINE j == f.start + n
    <3>6. j \in f.start + 1 .. v /\ j - f.start = n
      <4> DEFINE x == f.start
      <4>1. x \in Nat
        BY <1>3
      <4> HIDE DEF n, c, x
      <4> QED
        BY <2>1, <3>4, <4>1 DEF x
    <3>7. b[j] = h[n]
      <4> HIDE DEF j, b, h, v, n
      <4> QED
        BY <2>8, <3>6
    <3> HIDE DEF j, b, v, h, n, i
    <3> QED
      BY <3>5, <3>6, <3>7 DEF i
  <2> HIDE DEF b, v, t, r, got, h, g, w
  <2>15. t[dir].id = f.id
    BY <2>9 DEF Updated
  <2>16. Filled(f, t[dir], b, v)
    BY <2>4, <2>8, <2>9, <2>11, <2>12, <2>13, <2>14 DEF Filled
  <2> QED
    BY <2>9, <2>10, <2>11, <2>16
<1> QED
  BY <1>5, <1>6

LEMMA GetdentsStep ==
    ASSUME WalkInv, LoopInv, Getdents
    PROVE  WalkInv' /\ LoopInv'
<1>1. /\ pc = "walk" /\ opt.recursive /\ opt.online /\ opt' = opt
      /\ UNCHANGED <<name, allDone, why, entry, handler>>
  BY DEF Getdents, Reads, Walking
<1>2. /\ Last = dir /\ dir \in 1 .. Len(stack) /\ stack \in Seq(FrameType)
      /\ used \in Nat
      /\ PathOf(stack, dir) /\ BufOf(stack, dir, used, buf) /\ OpenOf(stack, dir, open)
  BY <1>1 DEF WalkInv, Last
<1>3. CASE Leave
  <2>1. WalkInv' /\ pc' \in {"walk", "end"}
    BY <1>1, <1>3, LeaveStep
  <2> QED
    BY <1>1, <2>1, WalkLoop
<1> DEFINE f == stack[dir]
           t == stack'
           v == used'
           b == buf'
<1>4. CASE /\ UNCHANGED <<size, top, dir, open, pc>> /\ v \in Nat
           /\ Updated(stack, dir, t) /\ Filled(f, t[dir], b, v)
  <2>1. f.start \in Nat
    BY <1>2, FrameFields
  <2>2. /\ t \in Seq(FrameType) /\ Len(t) = Len(stack)
        /\ \A k \in 1 .. dir : k # dir => t[k] = stack[k]
        /\ t[dir].id = f.id /\ t[dir].start = f.start
    BY <1>2, <1>4 DEF Updated
  <2>3. TopMoves(stack, dir, buf, t, v, b)
    BY <1>4, <2>1, <2>2 DEF TopMoves, Filled
  <2>4. PathOf(t, dir) /\ BufOf(t, dir, v, b) /\ OpenOf(t, dir, open)
    <3>1. v \in Nat
      BY <1>4
    <3> HIDE DEF t, v, b
    <3> QED
      BY <1>2, <2>2, <2>3, <3>1, TopKeeps
  <2>5. Last' = dir
    BY <1>1, <1>4 DEF Last
  <2>6. /\ PathOf(stack, Last)' /\ BufOf(stack, Last, used, buf)'
        /\ OpenOf(stack, Last, open)'
    BY <1>4, <2>4, <2>5 DEF PathOf, BufOf, OpenOf, Limit
  <2>7. b \in Seq(Items) /\ v \in 0 .. Len(b)
    BY <1>4 DEF Filled
  <2>8. WalkInv'
    BY <1>1, <1>2, <1>4, <2>2, <2>5, <2>6, <2>7 DEF WalkInv
  <2> QED
    BY <1>1, <1>4, <2>8, WalkLoop
<1> QED
  BY <1>3, <1>4, GetdentsReads
-----------------------------------------------------------------------------
(***************************************************************************)
(* The handler.                                                            *)
(***************************************************************************)
LEMMA HandlerSet ==
    ASSUME NEW h \in HandlerType, NEW i \in BOOLEAN, NEW e \in BOOLEAN, NEW x \in BOOLEAN,
           NEW d \in EntryType
    PROVE  LET g == [h EXCEPT !.inhibit = i, !.expect = e, !.has = x, !.data = d]
           IN g \in HandlerType /\ g.expect = e
<1>1. [h EXCEPT !.inhibit = i, !.expect = e, !.has = x, !.data = d] \in HandlerType
  BY Zenon DEF HandlerType
<1>2. [h EXCEPT !.inhibit = i, !.expect = e, !.has = x, !.data = d].expect = e
  BY DEF HandlerType
<1> QED
  BY <1>1, <1>2

LEMMA HandlerFields ==
    ASSUME LoopInv
    PROVE  /\ handler.has \in BOOLEAN /\ handler.expect \in BOOLEAN
           /\ handler.inhibit \in BOOLEAN /\ handler.data \in EntryType
BY Zenon DEF LoopInv, HandlerType

LEMMA EntrySet ==
    ASSUME NEW x \in EntryType, NEW n \in 0 .. MaxFaults
    PROVE  /\ [x EXCEPT !.faults = n] \in EntryType /\ [x EXCEPT !.faults = n].faults = n
           /\ x.faults \in 0 .. MaxFaults /\ x.id \in Items \cup {Root}
BY DEF EntryType

\* The walk stands still.
LEMMA WalkStands ==
    ASSUME WalkInv, UNCHANGED walkVars, opt' = opt, pc \notin {"walk", "ended"},
           pc' \notin {"walk", "ended"}
    PROVE  WalkInv'
<1>1. UNCHANGED <<stack, size, top, dir, buf, used, allDone, open>>
  BY DEF walkVars
<1>2. Last' = Last
  BY <1>1 DEF Last
<1>3. top \in Nat /\ dir \in Nat /\ (~opt.recursive => top = 1 /\ dir = 1)
  BY DEF WalkInv
<1> QED
  BY <1>1, <1>2, <1>3, WalkSame

LEMMA HandleEntryStep ==
    ASSUME WalkInv, LoopInv, HandleEntry
    PROVE  WalkInv' /\ LoopInv'
<1> DEFINE fixed == entry'
<1>0. \/ fixed = entry
      \/ \E n \in 0 .. entry.faults - 1 : fixed = [entry EXCEPT !.faults = n]
  BY DEF HandleEntry, FixEntry
<1>1. /\ pc = "handler" /\ why > 0 /\ entry' = fixed
      /\ \/ /\ handler' = [handler EXCEPT !.data = fixed, !.expect = TRUE, !.has = TRUE]
            /\ pc' = "input"
         \/ /\ handler' = [handler EXCEPT !.has = TRUE]
            /\ pc' \in {"next", "apply"}
      /\ opt' = opt /\ name' = name /\ UNCHANGED walkVars /\ why' = why
  BY DEF HandleEntry
<1>2. WalkInv'
  BY <1>1, WalkStands
<1>3. fixed \in EntryType
  <2>1. entry \in EntryType /\ entry.faults > 0
    BY <1>1 DEF LoopInv
  <2>2. entry.faults \in 0 .. MaxFaults /\ MaxFaults \in Nat
    BY <2>1, FsckBoundAssumption DEF EntryType
  <2>3. ASSUME NEW n \in 0 .. entry.faults - 1
        PROVE  [entry EXCEPT !.faults = n] \in EntryType
    BY <2>1, <2>2, EntrySet
  <2> QED
    BY <1>0, <2>1, <2>3
<1> HIDE DEF fixed
<1>4. /\ handler \in HandlerType /\ name \in [Items -> 0 .. MaxFaults]
      /\ why \in Int /\ allDone' = allDone
  BY <1>1 DEF LoopInv, walkVars
<1>5. allDone \in BOOLEAN /\ (pc = "input") = handler.expect
  BY <1>1, Zenon DEF LoopInv
<1>6. handler.expect = FALSE
  BY <1>1, <1>5, Zenon
<1>7. CASE pc' = "input"
  <2>1. handler' = [handler EXCEPT !.inhibit = handler.inhibit, !.expect = TRUE,
                                   !.has = TRUE, !.data = fixed]
    <3>1. handler' = [handler EXCEPT !.data = fixed, !.expect = TRUE, !.has = TRUE]
      BY <1>1, <1>7
    <3> QED
      BY <1>4, <3>1 DEF HandlerType
  <2>2. handler' \in HandlerType /\ handler'.expect = TRUE
    BY <1>3, <1>4, <2>1, HandlerFields, HandlerSet
  <2>3. (pc' = "input") = handler'.expect
    BY <1>7, <2>2
  <2> QED
    BY <1>1, <1>2, <1>3, <1>4, <1>5, <1>7, <2>2, <2>3 DEF LoopInv
<1>8. CASE pc' # "input"
  <2>1. handler' = [handler EXCEPT !.has = TRUE]
    BY <1>1, <1>8
  <2>2. handler' \in HandlerType /\ handler'.expect = FALSE
    <3>1. handler' \in HandlerType
      BY <1>4, <2>1, Zenon DEF HandlerType
    <3>2. handler'.expect = handler.expect
      BY <1>4, <2>1 DEF HandlerType
    <3> QED
      BY <1>6, <3>1, <3>2
  <2>3. (pc' = "input") = handler'.expect
    BY <1>8, <2>2
  <2>4. pc' \in {"next", "apply"}
    BY <1>1, <1>8
  <2> QED
    BY <1>1, <1>2, <1>3, <1>4, <1>5, <2>2, <2>3, <2>4 DEF LoopInv
<1> QED
  BY <1>7, <1>8

LEMMA HandleDoneStep ==
    ASSUME WalkInv, LoopInv, HandleDone
    PROVE  WalkInv' /\ LoopInv'
<1>1. /\ pc = "handler" /\ why < 0 /\ opt' = opt /\ name' = name /\ UNCHANGED walkVars
      /\ why' = why /\ entry' = entry
      /\ \/ /\ handler' = [handler EXCEPT !.inhibit = FALSE, !.expect = TRUE]
            /\ pc' = "input"
         \/ pc' = "next" /\ handler' = handler
  BY DEF HandleDone
<1>2. WalkInv'
  BY <1>1, WalkStands
<1>3. /\ handler \in HandlerType /\ name \in [Items -> 0 .. MaxFaults]
      /\ why \in Int /\ allDone' = allDone /\ entry \in EntryType
  BY <1>1 DEF LoopInv, walkVars
<1>4. CASE pc' = "input"
  <2>1. handler' = [handler EXCEPT !.inhibit = FALSE, !.expect = TRUE,
                                   !.has = handler.has, !.data = handler.data]
    <3>1. handler' = [handler EXCEPT !.inhibit = FALSE, !.expect = TRUE]
      BY <1>1, <1>4
    <3> QED
      BY <1>3, <3>1 DEF HandlerType
  <2>2. handler' \in HandlerType /\ handler'.expect = TRUE
    BY <1>3, <2>1, HandlerFields, HandlerSet
  <2>3. (pc' = "input") = handler'.expect
    BY <1>4, <2>2
  <2>4. allDone' \in BOOLEAN
    BY <1>3, Zenon DEF LoopInv
  <2> QED
    BY <1>1, <1>2, <1>3, <1>4, <2>2, <2>3, <2>4 DEF LoopInv
<1>5. CASE pc' = "next" /\ handler' = handler
  BY <1>1, <1>2, <1>3, <1>5, LoopSame
<1> QED
  BY <1>1, <1>4, <1>5

LEMMA ApplyStep ==
    ASSUME WalkInv, LoopInv, Apply
    PROVE  WalkInv' /\ LoopInv'
<1>1. /\ pc = "apply" /\ pc' = "handler" /\ opt' = opt /\ UNCHANGED walkVars
      /\ entry' = entry /\ handler' = handler
      /\ \/ name' = [name EXCEPT ![entry.id] = 0] /\ why' = -1
         \/ entry.faults > 0 /\ why' = 1 /\ name' = name
         \/ entry.faults \in Taken /\ StoreTaken /\ why' = -1
  BY DEF Apply
<1>2. WalkInv'
  BY <1>1, WalkStands
<1>3. /\ name \in [Items -> 0 .. MaxFaults] /\ allDone' = allDone /\ entry \in EntryType
  BY <1>1 DEF LoopInv, walkVars
<1>4. entry.faults \in 0 .. MaxFaults /\ MaxFaults \in Nat
  BY <1>3, FsckBoundAssumption DEF EntryType
<1>5. name' \in [Items -> 0 .. MaxFaults] /\ why' \in Int
      /\ (why' > 0 => entry.faults > 0)
  <2>1. 0 \in 0 .. MaxFaults
    BY <1>4
  <2>2. StoreTaken => name' \in [Items -> 0 .. MaxFaults]
    BY <1>3, <1>4, <2>1 DEF StoreTaken
  <2> QED
    BY <1>1, <1>3, <1>4, <2>1, <2>2
<1> QED
  BY <1>1, <1>2, <1>3, <1>5, LoopSame

LEMMA ApplyFailsStep ==
    ASSUME WalkInv, LoopInv, ApplyFails
    PROVE  WalkInv' /\ LoopInv'
<1>1. /\ pc = "apply" /\ pc' = "failed" /\ opt' = opt /\ UNCHANGED walkVars
      /\ entry' = entry /\ handler' = handler /\ name' = name /\ why' = why
  BY DEF ApplyFails
<1>2. WalkInv'
  BY <1>1, WalkStands
<1>3. /\ name \in [Items -> 0 .. MaxFaults] /\ allDone' = allDone /\ entry \in EntryType
      /\ why \in Int
  BY <1>1 DEF LoopInv, walkVars
<1> QED
  BY <1>1, <1>2, <1>3, LoopSame

LEMMA QuitStep ==
    ASSUME WalkInv, LoopInv, Quit
    PROVE  WalkInv' /\ LoopInv'
<1>1. /\ pc = "input" /\ pc' = "stopped" /\ opt' = opt /\ UNCHANGED walkVars
      /\ entry' = entry /\ handler' = handler /\ name' = name /\ why' = why
  BY DEF Quit
<1>2. WalkInv'
  BY <1>1, WalkStands
<1>3. allDone' \in BOOLEAN
  BY <1>1, Zenon DEF LoopInv, walkVars
<1> QED
  BY <1>1, <1>2, <1>3 DEF LoopInv
-----------------------------------------------------------------------------
(***************************************************************************)
(* The commands.                                                           *)
(***************************************************************************)
\* The user has answered.
LEMMA Answered ==
    ASSUME LoopInv, NEW dash \in BOOLEAN, ExpectNext(dash),
           name' = name, allDone' \in BOOLEAN,
           pc' \in {"apply", "next", "handler"}, why' \in Int, entry' \in EntryType,
           pc' = "handler" => why' = -1
    PROVE  LoopInv'
<1> DEFINE i == handler.inhibit \/ dash
<1>1. handler' = [handler EXCEPT !.inhibit = i, !.has = FALSE, !.expect = FALSE]
  BY DEF ExpectNext
<1>2. handler \in HandlerType /\ name \in [Items -> 0 .. MaxFaults]
  BY DEF LoopInv
<1>3. i \in BOOLEAN
  OBVIOUS
<1> HIDE DEF i
<1>4. handler' \in HandlerType
  BY <1>1, <1>2, <1>3, Zenon DEF HandlerType
<1>5. handler'.expect = FALSE
  BY <1>1, <1>2 DEF HandlerType
<1>6. (pc' = "input") = handler'.expect
  BY <1>5
<1>7. pc' = "handler" => ~(why' > 0)
  OBVIOUS
<1>8. name' \in [Items -> 0 .. MaxFaults]
  BY <1>2
<1>9. pc' \in {"next", "walk", "handler", "apply", "input", "end", "failed",
               "stopped", "ended"}
  OBVIOUS
<1> QED
  BY <1>4, <1>6, <1>7, <1>8, <1>9 DEF LoopInv

LEMMA InputApplyStep ==
    ASSUME WalkInv, LoopInv, pc = "input", NEW cmd, NEW dash \in BOOLEAN,
           InputApply(cmd, dash)
    PROVE  WalkInv' /\ LoopInv'
<1>1. /\ opt' = opt /\ name' = name /\ UNCHANGED walkVars /\ why' = why /\ pc' = "apply"
      /\ ExpectNext(dash)
      /\ \E n \in IF cmd = "edit" THEN 0 .. MaxFaults ELSE {handler.data.faults} :
            entry' = [handler.data EXCEPT !.faults = n]
  BY DEF InputApply
<1>2. WalkInv'
  BY <1>1, WalkStands
<1>3. handler.data \in EntryType
  BY HandlerFields
<1>4. handler.data.faults \in 0 .. MaxFaults
  BY <1>3 DEF EntryType
<1>5. PICK n \in 0 .. MaxFaults : entry' = [handler.data EXCEPT !.faults = n]
  BY <1>1, <1>4
<1>6. entry' \in EntryType
  BY <1>3, <1>5, EntrySet
<1>7. why' \in Int
  BY <1>1 DEF LoopInv
<1>8. allDone' \in BOOLEAN
  BY <1>1, Zenon DEF LoopInv, walkVars
<1> QED
  BY <1>1, <1>2, <1>6, <1>7, <1>8, Answered

LEMMA InputNextStep ==
    ASSUME WalkInv, LoopInv, pc = "input", NEW dash \in BOOLEAN, InputNext(dash)
    PROVE  WalkInv' /\ LoopInv'
<1>1. /\ opt' = opt /\ name' = name /\ UNCHANGED walkVars /\ why' = why /\ pc' = "next"
      /\ ExpectNext(dash) /\ entry' = entry
  BY DEF InputNext
<1>2. WalkInv'
  BY <1>1, WalkStands
<1>3. why' \in Int /\ entry' \in EntryType
  BY <1>1 DEF LoopInv
<1>4. allDone' \in BOOLEAN
  BY <1>1, Zenon DEF LoopInv, walkVars
<1> QED
  BY <1>1, <1>2, <1>3, <1>4, Answered

\* Where a command finds the walk.
LEMMA AtCommand ==
    ASSUME WalkInv, pc = "input"
    PROVE  /\ Last = top /\ top \in 1 .. Len(stack) /\ stack \in Seq(FrameType)
           /\ dir \in Nat /\ top \in Nat /\ used \in Nat /\ Len(stack) \in Nat
           /\ open \in [Dirs -> Int] /\ (~opt.recursive => top = 1 /\ dir = 1)
           /\ PathOf(stack, top) /\ BufOf(stack, top, used, buf) /\ OpenOf(stack, top, open)
           /\ stack[top].id \in Dirs /\ stack[top].read \in Nat /\ stack[top].pos \in Nat
           /\ stack[top].idx \in Nat /\ stack[top].start \in Nat
           /\ stack[top].read <= Len(Tree[stack[top].id]) /\ stack[top].pos <= used
<1>1. /\ Last = top /\ top \in 1 .. Len(stack) /\ stack \in Seq(FrameType)
      /\ dir \in Nat /\ top \in Nat /\ used \in Nat /\ Len(stack) \in Nat
      /\ open \in [Dirs -> Int] /\ (~opt.recursive => top = 1 /\ dir = 1)
      /\ PathOf(stack, top) /\ BufOf(stack, top, used, buf) /\ OpenOf(stack, top, open)
  BY DEF WalkInv, Last
<1>2. stack[top].read <= Len(Tree[stack[top].id]) /\ stack[top].pos <= used
  BY <1>1 DEF BufOf, Limit
<1> QED
  BY <1>1, <1>2, FrameFields

\* A command that changes the frame on the top: SKIP and REWIND.
LEMMA FrameCommand ==
    ASSUME WalkInv, pc = "input", pc' = "handler", opt' = opt, size' = size, dir' = dir,
           UNCHANGED <<top, buf, used, open>>,
           NEW t, stack' = t, Updated(stack, top, t),
           t[top].read = stack[top].read, t[top].pos = stack[top].pos
    PROVE  WalkInv'
<1>1. /\ Last = top /\ top \in Nat /\ dir \in Nat /\ (~opt.recursive => top = 1 /\ dir = 1)
      /\ stack[top].read \in Nat /\ stack[top].pos \in Nat
      /\ stack[top].read <= Len(Tree[stack[top].id]) /\ stack[top].pos <= used
  BY AtCommand
<1>2. Last' = Last
  BY <1>1 DEF Last
<1>3. /\ stack[Last].read <= t[Last].read /\ t[Last].read <= Len(Tree[stack[Last].id])
      /\ stack[Last].pos <= t[Last].pos /\ t[Last].pos <= used
  BY <1>1
<1> QED
  BY <1>1, <1>2, <1>3, WalkAdvances

LEMMA SkipStep ==
    ASSUME WalkInv, pc = "input", pc' = "handler", opt' = opt, size' = size, dir' = dir, Skip
    PROVE  WalkInv' /\ allDone' = allDone
<1> DEFINE e == IF ~opt.online /\ stack[top].done THEN stack[top].idx ELSE 0
           w == [stack EXCEPT ![top].done = TRUE]
           t == [w EXCEPT ![top].idx = e]
<1>1. stack' = t /\ UNCHANGED <<top, buf, used, allDone, open>>
  <2>1. /\ UNCHANGED <<top, buf, used, allDone, open>>
        /\ stack' = [stack EXCEPT ![top].done = TRUE,
                           ![top].idx = IF ~opt.online /\ stack[top].done THEN @ ELSE 0]
    BY DEF Skip
  <2>2. stack \in Seq(FrameType) /\ top \in 1 .. Len(stack) /\ stack[top] \in FrameType
    BY AtCommand, FrameFields
  <2>3. w[top].idx = stack[top].idx
    BY <2>2 DEF FrameType
  <2> QED
    BY <2>1, <2>3
<1>2. stack \in Seq(FrameType) /\ top \in 1 .. Len(stack) /\ e \in Nat
  BY AtCommand
<1> HIDE DEF e
<1>3. Updated(stack, top, w) /\ w[top].read = stack[top].read /\ w[top].pos = stack[top].pos
  BY <1>2, SetDone
<1> HIDE DEF w
<1>4. w \in Seq(FrameType) /\ top \in 1 .. Len(w)
  BY <1>2, <1>3 DEF Updated
<1>5. Updated(w, top, t) /\ t[top].read = w[top].read /\ t[top].pos = w[top].pos
  BY <1>2, <1>4, SetIdx
<1> HIDE DEF t
<1>6. Updated(stack, top, t)
  BY <1>2, <1>3, <1>5, UpdatedTwice
<1> QED
  BY <1>1, <1>3, <1>5, <1>6, FrameCommand

LEMMA RewindStep ==
    ASSUME WalkInv, pc = "input", pc' = "handler", opt' = opt, size' = size, dir' = dir,
           Rewind
    PROVE  WalkInv' /\ allDone' = allDone
<1> DEFINE z == 0
           t == [stack EXCEPT ![top].idx = z]
<1>1. stack' = t /\ UNCHANGED <<top, buf, used, allDone, open>>
  BY DEF Rewind
<1>2. stack \in Seq(FrameType) /\ top \in 1 .. Len(stack) /\ z \in Nat
  BY AtCommand
<1> HIDE DEF z
<1>3. Updated(stack, top, t) /\ t[top].read = stack[top].read /\ t[top].pos = stack[top].pos
  BY <1>2, SetIdx
<1> HIDE DEF t
<1> QED
  BY <1>1, <1>3, FrameCommand

LEMMA SkipChildrenStep ==
    ASSUME WalkInv, pc = "input", pc' = "handler", opt' = opt, size' = size, dir' = dir,
           allDone \in BOOLEAN, SkipChildren
    PROVE  WalkInv' /\ allDone' \in BOOLEAN
<1>1. CASE top = 1
  <2>1. allDone' = TRUE /\ UNCHANGED <<top, used, open, stack, buf>>
    BY <1>1 DEF SkipChildren
  <2>2. top \in Nat /\ dir \in Nat /\ (~opt.recursive => top = 1 /\ dir = 1)
    BY AtCommand
  <2>3. Last' = Last
    BY <2>1 DEF Last
  <2>4. WalkInv'
    BY <2>1, <2>2, <2>3, WalkSame
  <2> QED
    BY <2>1, <2>4
<1>2. CASE top # 1
  <2> DEFINE x == stack[top].id
             b == stack[top].start
  <2>1. /\ open' = [open EXCEPT ![x] = @ - 1]
        /\ used' = IF opt.online THEN b ELSE used
        /\ top' = top - 1 /\ allDone' = allDone /\ UNCHANGED <<stack, buf>>
    BY <1>2 DEF SkipChildren, Pop, Last
  <2>2. /\ top \in 2 .. Len(stack) /\ stack \in Seq(FrameType) /\ x \in Dirs /\ b \in Nat
        /\ open \in [Dirs -> Int] /\ used \in Nat /\ dir \in Nat /\ Len(stack) \in Nat
        /\ opt.recursive
    BY <1>2, AtCommand
  <2>3. /\ PathOf(stack, top - 1) /\ BufOf(stack, top - 1, b, buf)
        /\ OpenOf(stack, top - 1, [open EXCEPT ![x] = @ - 1]) /\ b <= used
    <3>1. PathOf(stack, top) /\ BufOf(stack, top, used, buf) /\ OpenOf(stack, top, open)
      BY AtCommand
    <3> QED
      BY <2>2, <3>1, PopKeeps
  <2> HIDE DEF x, b
  <2>4. used' = b
    <3>1. ~opt.online => used = 0
      BY DEF WalkInv
    <3> QED
      BY <2>1, <2>2, <2>3, <3>1
  <2>5. Last' = top - 1 /\ Last' \in 1 .. Len(stack)
    BY <2>1, <2>2 DEF Last
  <2>6. /\ PathOf(stack, Last)' /\ BufOf(stack, Last, used, buf)'
        /\ OpenOf(stack, Last, open)'
    BY <2>1, <2>3, <2>4, <2>5 DEF PathOf, BufOf, OpenOf, Limit
  <2>7. open' \in [Dirs -> Int]
    BY <2>1, <2>2
  <2>8. used' \in 0 .. Len(buf) /\ (~opt.online => used' = 0)
    BY <2>1, <2>2, <2>3, <2>4 DEF WalkInv
  <2>9. WalkInv'
    BY <2>1, <2>2, <2>5, <2>6, <2>7, <2>8 DEF WalkInv
  <2> QED
    BY <2>1, <2>9
<1> QED
  BY <1>1, <1>2

LEMMA ResetStep ==
    ASSUME WalkInv, pc = "input", pc' = "handler", opt' = opt, size' = size, dir' = dir, Reset
    PROVE  WalkInv' /\ allDone' \in BOOLEAN
<1> DEFINE e == IF ~opt.online /\ stack[1].done THEN stack[1].idx ELSE 0
           fr == Frame(Root, 0)
           r == [fr EXCEPT !.idx = e]
<1>1. /\ stack' = <<r>> /\ top' = 1 /\ used' = 0 /\ allDone' = FALSE /\ buf' = buf
      /\ open' = [d \in Dirs |-> IF d \in {stack[n].id : n \in 2 .. top}
                                 THEN open[d] - 1 ELSE open[d]]
  BY DEF Reset, ResetTop
<1>2. /\ top \in 1 .. Len(stack) /\ stack \in Seq(FrameType) /\ Len(stack) \in Nat
      /\ open \in [Dirs -> Int] /\ dir \in Nat /\ top \in Nat
      /\ PathOf(stack, top) /\ OpenOf(stack, top, open)
      /\ (~opt.recursive => dir = 1)
  BY AtCommand
<1>3. Root \in Dirs /\ Len(Tree[Root]) \in Nat
  BY TreeAssumption, TreeType
<1>4. r \in FrameType /\ r.id = Root /\ r.start = 0 /\ r.pos = 0 /\ r.read = 0
  <2>1. 1 \in 1 .. Len(stack)
    BY <1>2
  <2>2. e \in Nat
    BY <1>2, <2>1, FrameFields
  <2> HIDE DEF e
  <2> QED
    BY <1>3, <2>2 DEF Frame, FrameType
<1> HIDE DEF r
<1>5. <<r>> \in Seq(FrameType) /\ Len(<<r>>) = 1 /\ <<r>>[1] = r
  BY <1>4
<1>6. Last' = 1
  BY <1>1 DEF Last
<1> DEFINE t == <<r>>
<1>7. PathOf(t, 1) /\ BufOf(t, 1, 0, buf)
  BY <1>3, <1>4, <1>5 DEF PathOf, BufOf, Limit
<1> DEFINE deep == {stack[n].id : n \in 2 .. top}
           o == [d \in Dirs |-> IF d \in deep THEN open[d] - 1 ELSE open[d]]
<1>8. OpenOf(t, 1, o)
  <2>1. {t[n].id : n \in 1 .. 1} = {Root}
    BY <1>4, <1>5
  <2>2. {stack[n].id : n \in 1 .. top} = deep \cup {Root}
    <3>1. stack[1].id = Root
      BY <1>2 DEF PathOf
    <3>2. \A n \in 1 .. top : n = 1 \/ n \in 2 .. top
      BY <1>2
    <3>3. \A n \in 2 .. top : n \in 1 .. top
      BY <1>2
    <3>4. 1 \in 1 .. top
      BY <1>2
    <3> QED
      BY <3>1, <3>2, <3>3, <3>4
  <2>3. Root \notin deep
    <3> SUFFICES ASSUME NEW n \in 2 .. top, stack[n].id = Root PROVE FALSE
      OBVIOUS
    <3>1. n \in 1 .. top /\ 1 \in 1 .. top /\ n # 1 /\ stack[1].id = Root
      BY <1>2 DEF PathOf
    <3> QED
      BY <1>2, <3>1 DEF PathOf
  <2> SUFFICES ASSUME NEW d \in Dirs
               PROVE  o[d] = IF d \in {Root} THEN 1 ELSE 0
    BY <2>1 DEF OpenOf
  <2>4. open[d] = IF d \in deep \cup {Root} THEN 1 ELSE 0
    BY <1>2, <2>2 DEF OpenOf
  <2> HIDE DEF deep
  <2> QED
    BY <2>3, <2>4
<1>9. stack' = t /\ open' = o
  BY <1>1
<1>10. o \in [Dirs -> Int]
  <2> HIDE DEF deep
  <2> QED
    BY <1>2
<1> HIDE DEF o
<1>11. PathOf(stack, Last)' /\ BufOf(stack, Last, used, buf)' /\ OpenOf(stack, Last, open)'
  BY <1>1, <1>6, <1>7, <1>8, <1>9 DEF PathOf, BufOf, OpenOf, Limit
<1>12. size' \in Nat /\ 1 <= size' /\ (opt.recursive => size' >= 2)
  BY <1>2 DEF WalkInv
<1>13. buf' \in Seq(Items) /\ used' \in 0 .. Len(buf')
  BY <1>1 DEF WalkInv
<1>14. WalkInv'
  BY <1>1, <1>2, <1>5, <1>6, <1>9, <1>10, <1>11, <1>12, <1>13 DEF WalkInv
<1> QED
  BY <1>1, <1>14

LEMMA InputControlStep ==
    ASSUME WalkInv, LoopInv, pc = "input", NEW cmd, NEW dash \in BOOLEAN,
           InputControl(cmd, dash)
    PROVE  WalkInv' /\ LoopInv'
<1>1. /\ opt' = opt /\ name' = name /\ size' = size /\ dir' = dir /\ entry' = entry
      /\ pc' = "handler" /\ why' = -1 /\ ExpectNext(dash)
      /\ Skip \/ Rewind \/ SkipChildren \/ Reset \/ Save
  BY DEF InputControl, Control
<1>2. allDone \in BOOLEAN
  BY Zenon DEF LoopInv
<1>3. WalkInv' /\ allDone' \in BOOLEAN
  <2>1. CASE Skip
    BY <1>1, <1>2, <2>1, SkipStep
  <2>2. CASE Rewind
    BY <1>1, <1>2, <2>2, RewindStep
  <2>3. CASE SkipChildren
    BY <1>1, <1>2, <2>3, SkipChildrenStep
  <2>4. CASE Reset
    BY <1>1, <2>4, ResetStep
  <2>5. CASE Save
    <3>1. UNCHANGED walkVars /\ allDone' = allDone
      BY <1>1, <2>5 DEF Save, walkVars
    <3> QED
      BY <1>1, <1>2, <3>1, WalkStands
  <2> QED
    BY <1>1, <2>1, <2>2, <2>3, <2>4, <2>5
<1>4. entry' \in EntryType /\ why' \in Int
  BY <1>1 DEF LoopInv
<1> QED
  BY <1>1, <1>3, <1>4, Answered

LEMMA DestroyStep ==
    ASSUME WalkInv, LoopInv, Destroy
    PROVE  WalkInv' /\ LoopInv'
<1>1. /\ pc \in {"end", "failed", "stopped"} /\ pc' = "ended"
      /\ open' = [d \in Dirs |-> IF d \in {stack[n].id : n \in 1 .. top}
                                 THEN open[d] - 1 ELSE open[d]]
      /\ UNCHANGED <<opt, name, stack, size, top, dir, buf, used, allDone, why, entry,
                     handler>>
  BY DEF Destroy
<1>2. Last = top /\ Last' = top
  BY <1>1 DEF Last
<1>3. OpenOf(stack, top, open) /\ open \in [Dirs -> Int]
  BY <1>1, <1>2 DEF WalkInv
<1>4. open' \in [Dirs -> Int] /\ \A d \in Dirs : open'[d] = 0
  <2> DEFINE on == {stack[n].id : n \in 1 .. top}
  <2>1. \A d \in Dirs : open[d] = IF d \in on THEN 1 ELSE 0
    BY <1>3 DEF OpenOf
  <2>2. open' = [d \in Dirs |-> IF d \in on THEN open[d] - 1 ELSE open[d]]
    BY <1>1
  <2> HIDE DEF on
  <2> QED
    BY <1>3, <2>1, <2>2
<1>5. PathOf(stack, Last)' /\ BufOf(stack, Last, used, buf)'
  BY <1>1, <1>2 DEF WalkInv, PathOf, BufOf, Limit
<1>6. WalkInv'
  BY <1>1, <1>2, <1>4, <1>5 DEF WalkInv
<1>7. allDone' \in BOOLEAN
  BY <1>1, Zenon DEF LoopInv
<1>8. LoopInv'
  BY <1>1, <1>7 DEF LoopInv
<1> QED
  BY <1>6, <1>8

LEMMA Stutter ==
    ASSUME WalkInv, LoopInv, UNCHANGED vars
    PROVE  WalkInv' /\ LoopInv'
<1>1. UNCHANGED <<opt, name, stack, size, top, dir, buf, used, allDone, open, pc, why,
                  entry, handler>>
  BY DEF vars, walkVars
<1>2. Last' = Last
  BY <1>1 DEF Last
<1>3. PathOf(stack, Last)' /\ BufOf(stack, Last, used, buf)'
  BY <1>1, <1>2 DEF WalkInv, PathOf, BufOf, Limit
<1>4. IF pc' = "ended" THEN \A d \in Dirs : open'[d] = 0 ELSE OpenOf(stack, Last, open)'
  BY <1>1, <1>2 DEF WalkInv, OpenOf
<1>5. WalkInv'
  BY <1>1, <1>2, <1>3, <1>4 DEF WalkInv
<1>6. allDone' \in BOOLEAN /\ ((pc' = "input") = handler'.expect \/ pc' \in {"stopped", "ended"})
  BY <1>1, Zenon DEF LoopInv
<1>7. LoopInv'
  BY <1>1, <1>6 DEF LoopInv
<1> QED
  BY <1>5, <1>7

LEMMA InvNext ==
    ASSUME WalkInv, LoopInv, [Next]_vars
    PROVE  WalkInv' /\ LoopInv'
<1>1. CASE Program
  BY <1>1, BeginStep, CheckStep, WalkEndsStep, ListSubdirStep, NextSubdirStep,
     GetdentsStep, WalkFailsStep, HandleEntryStep, HandleDoneStep, ApplyStep,
     ApplyFailsStep, DestroyStep DEF Program
<1>2. CASE Input
  <2>1. PICK dash \in BOOLEAN :
            \/ \E cmd \in {"apply", "edit"} : InputApply(cmd, dash)
            \/ InputNext(dash)
            \/ \E cmd \in Commands \ {"apply", "edit", "next"} : InputControl(cmd, dash)
    BY <1>2, Zenon DEF Input
  <2>2. pc = "input"
    BY <1>2 DEF Input
  <2> QED
    BY <2>1, <2>2, InputApplyStep, InputNextStep, InputControlStep
<1>3. CASE Quit
  BY <1>3, QuitStep
<1>4. CASE UNCHANGED vars
  BY <1>4, Stutter
<1> QED
  BY <1>1, <1>2, <1>3, <1>4 DEF Next

LEMMA InvHolds == Spec => [](WalkInv /\ LoopInv)
<1>1. WalkInv /\ LoopInv /\ [Next]_vars => (WalkInv /\ LoopInv)'
  BY InvNext
<1> QED
  BY InvInit, <1>1, PTL DEF Spec
-----------------------------------------------------------------------------
(***************************************************************************)
(* What the walk has behind it.  No frame is left of a directory that was  *)
(* walked through; L, of which the invariant says that there is one, is    *)
(* the set of those since the last RESET.                                  *)
(***************************************************************************)
SeenType == [items : SUBSET Items, skipped : SUBSET Dirs, pruned : SUBSET Dirs,
             again : BOOLEAN]

\* Every wrong name is repaired.
Unattended == ~opt.readonly /\ ~opt.interactive /\ pc \notin {"failed", "ended"}

\* The handler is busy with a name that is wrong.
Repairing == pc = "apply" \/ (pc = "handler" /\ why > 0)

\* See ResetExaminesAll.
Exempt(d) == d = Root /\ seen.again /\ ~opt.online

IsListed(i) == i \in Dirs /\ name[i] = 0

\* The check of directory d is through.
Passed(d) ==
    /\ Range(Tree[d]) \subseteq seen.items \/ d \in seen.skipped \/ Exempt(d)
    /\ Unattended => \A i \in Range(Tree[d]) : ~Malformed(name[i])

\* The check of directory d has come to position m.
PassedTo(d, m) ==
    \A k \in 1 .. m :
        /\ Tree[d][k] \in seen.items \/ Exempt(d)
        /\ Unattended => \/ ~Malformed(name[Tree[d][k]])
                         \/ Repairing /\ entry.id = Tree[d][k]

NamesOf(f) ==
    /\ f.idx <= Len(Tree[f.id])
    /\ IF f.done THEN Passed(f.id) ELSE f.read = 0 /\ PassedTo(f.id, f.idx)

\* The subdirectory that the n-th frame has entered, and those that it has read
\* and not entered yet.
Inside(n)  == IF n < Last THEN {stack[n + 1].id} ELSE {}
Pending(n) == IF opt.online
              THEN {buf[k] : k \in stack[n].pos + 1 .. Limit(stack, Last, used, n)}
              ELSE {}

\* What was read from the directory of the n-th frame is accounted for.
ListOf(L, n) ==
    \A k \in 1 .. stack[n].read :
        IsListed(Tree[stack[n].id][k]) =>
            Tree[stack[n].id][k] \in L \cup seen.pruned \cup Inside(n) \cup Pending(n)

FrameInv(L, n) ==
    (n < Last => stack[n].done) /\ NamesOf(stack[n]) /\ ListOf(L, n)

OnStack == {stack[n].id : n \in 1 .. Last}

WalkedFrom(L, d) == \A i \in Range(Tree[d]) : IsListed(i) => i \in L \cup seen.pruned

LeftInv(L) == \A d \in L \ OnStack : Passed(d) /\ WalkedFrom(L, d)

EndInv(L) ==
    pc = "end" =>
        \/ Root \in seen.pruned
        \/ Last = 1 /\ stack[1].done /\ (opt.recursive => WalkedFrom(L, Root))

Behind(L) == (\A n \in 1 .. Last : FrameInv(L, n)) /\ LeftInv(L)

BehindInv == \E L \in SUBSET Dirs : Behind(L) /\ EndInv(L)

\* The name that the handler is shown, or has shown to the user, is one of the
\* directory on the top, which is not through.
AskInv ==
    /\ seen \in SeenType
    /\ allDone => Root \in seen.pruned
    /\ ~opt.interactive => pc # "input" /\ ~handler.inhibit
    /\ opt.interactive /\ handler.has => pc \in {"input", "stopped", "ended"}
    /\ Repairing =>
            ~stack[top].done /\ entry.id \in Range(Tree[stack[top].id])
    /\ pc = "input" /\ handler.has =>
            ~stack[top].done /\ handler.data.id \in Range(Tree[stack[top].id])
-----------------------------------------------------------------------------
\* What no step but RESET undoes.
Keeps ==
    /\ opt' = opt
    /\ \A i \in Items : name'[i] = name[i] \/ ~Malformed(name'[i])
    /\ seen.items \subseteq seen'.items /\ seen.skipped \subseteq seen'.skipped
    /\ seen'.again = seen.again
    /\ Unattended' => Unattended

More(L, M) == L \cup seen.pruned \subseteq M \cup seen'.pruned

SameNames(d) == \A i \in Range(Tree[d]) : name'[i] = name[i]

LEMMA ItemOf ==
    ASSUME NEW d \in Dirs, NEW i \in Range(Tree[d])
    PROVE  i \in Items /\ \E k \in 1 .. Len(Tree[d]) : i = Tree[d][k]
<1>1. DOMAIN Tree[d] = 1 .. Len(Tree[d])
  BY TreeType
<1> QED
  BY <1>1 DEF Range, Items

LEMMA PassedKeeps ==
    ASSUME Keeps, NEW d \in Dirs, Passed(d)
    PROVE  Passed(d)'
<1>1. Exempt(d) => Exempt(d)'
  BY DEF Keeps, Exempt
<1>2. \A i \in Range(Tree[d]) : ~Malformed(name[i]) => ~Malformed(name'[i])
  BY ItemOf DEF Keeps
<1> QED
  BY <1>1, <1>2 DEF Passed, Keeps

LEMMA WalkedKeeps ==
    ASSUME NEW d \in Dirs, SameNames(d), NEW L, NEW M, More(L, M), WalkedFrom(L, d)
    PROVE  WalkedFrom(M, d)'
BY DEF WalkedFrom, IsListed, SameNames, More

LEMMA FrameKeeps ==
    ASSUME Keeps, NEW L, NEW M, More(L, M), NEW n,
           stack'[n] = stack[n], stack[n].done, stack[n].id \in Dirs,
           SameNames(stack[n].id),
           stack[n].read \in Nat, stack[n].read <= Len(Tree[stack[n].id]),
           Inside(n) \cup Pending(n) \subseteq
                M \cup seen'.pruned \cup Inside(n)' \cup Pending(n)',
           FrameInv(L, n)
    PROVE  FrameInv(M, n)'
<1> DEFINE d == stack[n].id
<1>1. NamesOf(stack[n])'
  BY PassedKeeps DEF FrameInv, NamesOf
<1>2. ListOf(M, n)'
  <2> SUFFICES ASSUME NEW k \in 1 .. stack[n].read, IsListed(Tree[d][k])'
               PROVE  Tree[d][k] \in M \cup seen'.pruned \cup Inside(n)' \cup Pending(n)'
    BY DEF ListOf
  <2>1. Tree[d][k] \in Range(Tree[d])
    BY TreeType
  <2>2. IsListed(Tree[d][k])
    BY <2>1 DEF IsListed, SameNames
  <2>3. Tree[d][k] \in L \cup seen.pruned \cup Inside(n) \cup Pending(n)
    BY <2>2 DEF FrameInv, ListOf
  <2> QED
    BY <2>3 DEF More
<1> QED
  BY <1>1, <1>2 DEF FrameInv

LEMMA InUse ==
    ASSUME WalkInv, NEW n \in 1 .. Last
    PROVE  /\ stack[n].id \in Dirs /\ stack[n].read \in Nat /\ stack[n].pos \in Nat
           /\ stack[n].start \in Nat /\ stack[n].idx \in Nat
           /\ stack[n].read <= Len(Tree[stack[n].id])
           /\ stack[n].start <= stack[n].pos
           /\ stack[n].pos <= Limit(stack, Last, used, n)
           /\ n \in 1 .. Len(stack)
<1>1. n \in 1 .. Len(stack) /\ stack \in Seq(FrameType)
  BY DEF WalkInv
<1> QED
  BY <1>1, FrameFields DEF WalkInv, BufOf

\* The directory of a frame is not that of another one.
LEMMA Distinct ==
    ASSUME WalkInv, NEW m \in 1 .. Last, NEW n \in 1 .. Last, m # n
    PROVE  stack[m].id # stack[n].id
BY DEF WalkInv, PathOf

LEMMA FrameStands ==
    ASSUME Keeps, UNCHANGED <<stack, name, buf, used>>,
           seen.pruned \subseteq seen'.pruned, Last' = Last,
           Unattended' /\ Repairing => Repairing' /\ entry'.id = entry.id,
           NEW L, NEW n, FrameInv(L, n), stack[n].id \in Dirs
    PROVE  FrameInv(L, n)'
<1>1. Passed(stack[n].id) => Passed(stack[n].id)'
  BY PassedKeeps
<1>2. PassedTo(stack[n].id, stack[n].idx) => PassedTo(stack[n].id, stack[n].idx)'
  BY DEF PassedTo, Exempt, Keeps
<1>3. NamesOf(stack[n])'
  BY <1>1, <1>2 DEF FrameInv, NamesOf, PassedTo
<1>4. Inside(n)' = Inside(n)
  BY DEF Inside
<1>5. Pending(n)' = Pending(n)
  BY DEF Pending, Limit, Keeps
<1>6. ListOf(L, n)'
  BY <1>4, <1>5 DEF FrameInv, ListOf, IsListed
<1> QED
  BY <1>3, <1>6 DEF FrameInv

LEMMA BehindStands ==
    ASSUME WalkInv, Keeps, UNCHANGED <<stack, name, buf, used>>,
           seen.pruned \subseteq seen'.pruned, Last' = Last,
           Unattended' /\ Repairing => Repairing' /\ entry'.id = entry.id,
           NEW L \in SUBSET Dirs, Behind(L)
    PROVE  Behind(L)'
<1>1. \A n \in 1 .. Last : FrameInv(L, n)'
  BY FrameStands, InUse DEF Behind
<1>2. OnStack' = OnStack
  BY DEF OnStack
<1>3. ASSUME NEW d \in L \ OnStack PROVE Passed(d)' /\ WalkedFrom(L, d)'
  BY <1>3, PassedKeeps, WalkedKeeps DEF Behind, LeftInv, More, SameNames
<1> QED
  BY <1>1, <1>2, <1>3 DEF Behind, LeftInv
-----------------------------------------------------------------------------
(***************************************************************************)
(* The steps that leave the walk where it is.                              *)
(***************************************************************************)
LEMMA BehindHolds ==
    ASSUME WalkInv, Keeps, UNCHANGED <<stack, name, buf, used>>,
           seen.pruned \subseteq seen'.pruned, Last' = Last,
           Unattended' /\ Repairing => Repairing' /\ entry'.id = entry.id,
           BehindInv,
           \A L \in SUBSET Dirs : Behind(L) /\ EndInv(L) => EndInv(L)'
    PROVE  BehindInv'
<1>1. PICK L \in SUBSET Dirs : Behind(L) /\ EndInv(L)
  BY DEF BehindInv
<1>2. Behind(L)' /\ EndInv(L)'
  BY <1>1, BehindStands
<1> QED
  BY <1>2 DEF BehindInv

\* Between the questions to the handler.
LEMMA AskNothing ==
    ASSUME AskInv, pc \in {"next", "walk"}, pc' \in {"next", "walk", "end", "failed"},
           handler' = handler, opt' = opt, allDone' = allDone,
           seen' \in SeenType, seen'.pruned = seen.pruned
    PROVE  AskInv'
<1>1. ~Repairing' /\ pc' # "input"
  BY DEF Repairing
<1> QED
  BY <1>1 DEF AskInv

LEMMA BeginLeaves ==
    ASSUME WalkInv, AskInv, BehindInv, Begin
    PROVE  AskInv' /\ BehindInv'
<1>1. /\ pc = "next" /\ dir' = top /\ top' = top /\ seen' = seen /\ handler' = handler
      /\ UNCHANGED <<opt, stack, name, buf, used, allDone>>
      /\ pc' = IF allDone THEN "end" ELSE "walk"
  BY DEF Begin
<1>2. Last' = Last
  BY <1>1 DEF Last
<1>3. Keeps /\ ~Repairing
  BY <1>1 DEF Keeps, Unattended, Repairing
<1>4. \A L \in SUBSET Dirs : EndInv(L)'
  BY <1>1 DEF EndInv, AskInv
<1>5. BehindInv'
  BY <1>1, <1>2, <1>3, <1>4, BehindHolds
<1>6. AskInv'
  BY <1>1, AskNothing DEF AskInv
<1> QED
  BY <1>5, <1>6

LEMMA WalkEndsLeaves ==
    ASSUME WalkInv, AskInv, BehindInv, WalkEnds
    PROVE  AskInv' /\ BehindInv'
<1>1. /\ pc = "walk" /\ stack[dir].done /\ ~opt.recursive /\ pc' = "end"
      /\ seen' = seen /\ handler' = handler
      /\ UNCHANGED <<opt, stack, name, buf, used, allDone, top, dir>>
  BY DEF WalkEnds, Walking, walkVars
<1>2. Last' = Last /\ dir = 1 /\ Last' = 1
  BY <1>1 DEF Last, WalkInv
<1>3. Keeps /\ ~Repairing
  BY <1>1 DEF Keeps, Unattended, Repairing
<1>4. \A L \in SUBSET Dirs : EndInv(L)'
  BY <1>1, <1>2 DEF EndInv
<1>5. BehindInv'
  BY <1>1, <1>2, <1>3, <1>4, BehindHolds
<1>6. AskInv'
  BY <1>1, AskNothing DEF AskInv
<1> QED
  BY <1>5, <1>6

LEMMA WalkFailsLeaves ==
    ASSUME WalkInv, AskInv, BehindInv, WalkFails
    PROVE  AskInv' /\ BehindInv'
<1>1. /\ pc = "walk" /\ top' = dir /\ pc' = "failed"
      /\ seen' = seen /\ handler' = handler
      /\ UNCHANGED <<opt, stack, name, buf, used, allDone>>
  BY DEF WalkFails, Stored
<1>2. Last' = Last
  BY <1>1 DEF Last
<1>3. Keeps /\ ~Repairing
  BY <1>1 DEF Keeps, Unattended, Repairing
<1>4. \A L \in SUBSET Dirs : EndInv(L)'
  BY <1>1 DEF EndInv
<1>5. BehindInv'
  BY <1>1, <1>2, <1>3, <1>4, BehindHolds
<1>6. AskInv'
  BY <1>1, AskNothing DEF AskInv
<1> QED
  BY <1>5, <1>6

\* A step of the handler: no walk is under way.
LEMMA HandlerLeaves ==
    ASSUME WalkInv, BehindInv, UNCHANGED <<opt, name, walkVars>>, seen' = seen,
           pc \notin {"walk", "ended"}, pc' \notin {"walk", "end"},
           Unattended' => Unattended,
           Unattended' /\ Repairing => Repairing' /\ entry'.id = entry.id
    PROVE  BehindInv'
<1>1. UNCHANGED <<stack, buf, used, top, dir>> /\ Last' = Last
  BY DEF walkVars, Last
<1>2. Keeps
  BY DEF Keeps
<1>3. \A L \in SUBSET Dirs : EndInv(L)'
  BY DEF EndInv
<1> QED
  BY <1>1, <1>2, <1>3, BehindHolds

LEMMA HandleEntryLeaves ==
    ASSUME WalkInv, LoopInv, AskInv, BehindInv, HandleEntry
    PROVE  AskInv' /\ BehindInv'
<1> DEFINE fixed == entry'
<1>0. \/ fixed = entry
      \/ \E n \in 0 .. entry.faults - 1 : fixed = [entry EXCEPT !.faults = n]
  BY DEF HandleEntry, FixEntry
<1>1. /\ pc = "handler" /\ why > 0 /\ entry' = fixed
      /\ \/ /\ opt.interactive
            /\ handler' = [handler EXCEPT !.data = fixed, !.expect = TRUE, !.has = TRUE]
            /\ pc' = "input"
         \/ /\ ~opt.interactive
            /\ handler' = [handler EXCEPT !.has = TRUE]
            /\ pc' = IF opt.readonly THEN "next" ELSE "apply"
      /\ opt' = opt /\ name' = name /\ UNCHANGED walkVars /\ seen' = seen
  BY DEF HandleEntry
<1>2. entry \in EntryType /\ handler \in HandlerType
  BY DEF LoopInv
<1>3. fixed.id = entry.id
  BY <1>0, <1>2 DEF EntryType
<1> HIDE DEF fixed
<1>4. Repairing /\ ~stack[top].done /\ entry.id \in Range(Tree[stack[top].id])
  BY <1>1 DEF Repairing, AskInv
<1>5. UNCHANGED <<stack, top, allDone>>
  BY <1>1 DEF walkVars
<1>6. /\ Unattended' => Unattended
      /\ Unattended' /\ Repairing => Repairing' /\ entry'.id = entry.id
  BY <1>1, <1>3 DEF Unattended, Repairing
<1>7. BehindInv'
  BY <1>1, <1>6, HandlerLeaves
<1>8. CASE opt.interactive
  <2>1. pc' = "input" /\ handler'.data = fixed /\ ~Repairing'
    BY <1>1, <1>2, <1>8 DEF HandlerType, Repairing
  <2> QED
    BY <1>1, <1>3, <1>4, <1>5, <1>7, <1>8, <2>1 DEF AskInv
<1>9. CASE ~opt.interactive
  <2>1. /\ pc' \in {"next", "apply"} /\ handler' = [handler EXCEPT !.has = TRUE]
        /\ handler'.inhibit = handler.inhibit
    BY <1>1, <1>2, <1>9 DEF HandlerType
  <2> QED
    BY <1>1, <1>3, <1>4, <1>5, <1>7, <1>9, <2>1 DEF AskInv
<1> QED
  BY <1>8, <1>9

LEMMA HandleDoneLeaves ==
    ASSUME WalkInv, LoopInv, AskInv, BehindInv, HandleDone
    PROVE  AskInv' /\ BehindInv'
<1>1. /\ pc = "handler" /\ why < 0 /\ opt' = opt /\ name' = name /\ UNCHANGED walkVars
      /\ seen' = seen
      /\ \/ /\ handler.inhibit
            /\ handler' = [handler EXCEPT !.inhibit = FALSE, !.expect = TRUE]
            /\ pc' = "input"
         \/ pc' = "next" /\ handler' = handler
  BY DEF HandleDone
<1>2. handler \in HandlerType /\ why \in Int
  BY DEF LoopInv
<1>3. ~Repairing /\ ~Repairing'
  BY <1>1, <1>2 DEF Repairing
<1>4. BehindInv'
  BY <1>1, <1>3, HandlerLeaves DEF Unattended
<1>5. UNCHANGED <<stack, top, allDone>>
  BY <1>1 DEF walkVars
<1>6. CASE pc' = "next" /\ handler' = handler
  BY <1>1, <1>3, <1>4, <1>5, <1>6 DEF AskInv
<1>7. CASE pc' = "input"
  <2>1. opt.interactive /\ ~handler.has
    BY <1>1, <1>7 DEF AskInv
  <2>2. handler'.has = handler.has
    BY <1>1, <1>2, <1>7 DEF HandlerType
  <2> QED
    BY <1>1, <1>3, <1>4, <1>5, <1>7, <2>1, <2>2 DEF AskInv
<1> QED
  BY <1>1, <1>6, <1>7

LEMMA ApplyFailsLeaves ==
    ASSUME WalkInv, LoopInv, AskInv, BehindInv, ApplyFails
    PROVE  AskInv' /\ BehindInv'
<1>1. /\ pc = "apply" /\ pc' = "failed" /\ opt' = opt /\ UNCHANGED walkVars
      /\ handler' = handler /\ name' = name /\ seen' = seen
  BY DEF ApplyFails
<1>2. ~Repairing' /\ ~Unattended'
  BY <1>1 DEF Repairing, Unattended
<1>3. BehindInv'
  BY <1>1, <1>2, HandlerLeaves
<1>4. UNCHANGED <<stack, top, allDone>>
  BY <1>1 DEF walkVars
<1> QED
  BY <1>1, <1>2, <1>3, <1>4 DEF AskInv

LEMMA QuitLeaves ==
    ASSUME WalkInv, LoopInv, AskInv, BehindInv, Quit
    PROVE  AskInv' /\ BehindInv'
<1>1. /\ pc = "input" /\ pc' = "stopped" /\ opt' = opt /\ UNCHANGED walkVars
      /\ handler' = handler /\ name' = name /\ seen' = seen
  BY DEF Quit
<1>2. ~Repairing /\ ~Repairing' /\ (Unattended' => Unattended)
  BY <1>1 DEF Repairing, Unattended
<1>3. BehindInv'
  BY <1>1, <1>2, HandlerLeaves
<1>4. UNCHANGED <<stack, top, allDone>>
  BY <1>1 DEF walkVars
<1> QED
  BY <1>1, <1>2, <1>3, <1>4 DEF AskInv

LEMMA DestroyLeaves ==
    ASSUME WalkInv, LoopInv, AskInv, BehindInv, Destroy
    PROVE  AskInv' /\ BehindInv'
<1>1. /\ pc \in {"end", "failed", "stopped"} /\ pc' = "ended"
      /\ seen' = seen /\ handler' = handler
      /\ UNCHANGED <<opt, name, stack, top, buf, used, allDone>>
  BY DEF Destroy
<1>2. ~Repairing /\ ~Repairing' /\ ~Unattended'
  BY <1>1 DEF Repairing, Unattended
<1>3. Last' = Last
  BY <1>1 DEF Last
<1>4. Keeps
  BY <1>1, <1>2 DEF Keeps
<1>5. \A L \in SUBSET Dirs : EndInv(L)'
  BY <1>1 DEF EndInv
<1>6. BehindInv'
  BY <1>1, <1>2, <1>3, <1>4, <1>5, BehindHolds
<1> QED
  BY <1>1, <1>2, <1>6 DEF AskInv

LEMMA StutterLeaves ==
    ASSUME WalkInv, AskInv, BehindInv, UNCHANGED vars
    PROVE  AskInv' /\ BehindInv'
<1>1. UNCHANGED <<opt, name, stack, top, dir, buf, used, allDone, pc, why, entry, handler,
                  seen>>
  BY DEF vars, walkVars
<1>2. Last' = Last
  BY <1>1 DEF Last
<1>3. Keeps /\ Repairing' = Repairing
  BY <1>1 DEF Keeps, Unattended, Repairing
<1>4. \A L \in SUBSET Dirs : EndInv(L) => EndInv(L)'
  BY <1>1, <1>2 DEF EndInv, WalkedFrom, IsListed
<1>5. BehindInv'
  BY <1>1, <1>2, <1>3, <1>4, BehindHolds
<1>6. AskInv'
  BY <1>1, <1>3 DEF AskInv
<1> QED
  BY <1>5, <1>6

\* The user has answered: what was shown is not shown any more.
LEMMA NoneShown ==
    ASSUME LoopInv, NEW dash \in BOOLEAN, ExpectNext(dash)
    PROVE  ~handler'.has
BY DEF LoopInv, HandlerType, ExpectNext

LEMMA InputApplyLeaves ==
    ASSUME WalkInv, LoopInv, AskInv, BehindInv, pc = "input", NEW cmd,
           NEW dash \in BOOLEAN, InputApply(cmd, dash)
    PROVE  AskInv' /\ BehindInv'
<1>1. /\ opt' = opt /\ name' = name /\ UNCHANGED walkVars /\ pc' = "apply" /\ seen' = seen
      /\ handler.has /\ ExpectNext(dash)
      /\ \E n : entry' = [handler.data EXCEPT !.faults = n]
  BY DEF InputApply
<1>2. handler.data \in EntryType
  BY HandlerFields
<1>3. entry'.id = handler.data.id
  BY <1>1, <1>2 DEF EntryType
<1>4. opt.interactive
  BY DEF AskInv
<1>5. ~Unattended' /\ pc' # "input"
  BY <1>1, <1>4 DEF Unattended
<1>6. BehindInv'
  BY <1>1, <1>5, HandlerLeaves
<1>7. UNCHANGED <<stack, top, allDone>>
  BY <1>1 DEF walkVars
<1>8. ~handler'.has
  BY <1>1, NoneShown
<1> QED
  BY <1>1, <1>3, <1>4, <1>5, <1>6, <1>7, <1>8 DEF AskInv

LEMMA InputNextLeaves ==
    ASSUME WalkInv, LoopInv, AskInv, BehindInv, pc = "input", NEW dash \in BOOLEAN,
           InputNext(dash)
    PROVE  AskInv' /\ BehindInv'
<1>1. /\ opt' = opt /\ name' = name /\ UNCHANGED walkVars /\ pc' = "next" /\ seen' = seen
      /\ ExpectNext(dash)
  BY DEF InputNext
<1>2. opt.interactive
  BY DEF AskInv
<1>3. ~Unattended' /\ ~Repairing'
  BY <1>1, <1>2 DEF Unattended, Repairing
<1>4. BehindInv'
  BY <1>1, <1>3, HandlerLeaves
<1>5. UNCHANGED <<stack, top, allDone>>
  BY <1>1 DEF walkVars
<1>6. ~handler'.has
  BY <1>1, NoneShown
<1> QED
  BY <1>1, <1>2, <1>3, <1>4, <1>5, <1>6 DEF AskInv
-----------------------------------------------------------------------------
(***************************************************************************)
(* The names of the directory on the top.                                  *)
(***************************************************************************)
LEMMA BehindChecks ==
    ASSUME WalkInv, Keeps, UNCHANGED <<name, buf, used>>, seen'.pruned = seen.pruned,
           Last' = Last, Updated(stack, Last, stack'),
           stack'[Last].read = stack[Last].read, stack'[Last].pos = stack[Last].pos,
           NamesOf(stack[Last])',
           NEW L \in SUBSET Dirs, Behind(L)
    PROVE  Behind(L)'
<1>1. /\ Last \in Nat /\ Last \in 1 .. Last /\ Last \in 1 .. Len(stack)
      /\ \A n \in 1 .. Last : n \in 1 .. Len(stack)
  BY DEF WalkInv
<1>2. \A n \in 1 .. Last : /\ stack'[n].id = stack[n].id
                           /\ stack'[n].start = stack[n].start
                           /\ stack'[n].read = stack[n].read
                           /\ stack'[n].pos = stack[n].pos
  BY <1>1 DEF Updated
<1>3. ASSUME NEW n \in 1 .. Last
      PROVE  Inside(n)' = Inside(n) /\ Pending(n)' = Pending(n)
  <2>1. n < Last => n + 1 \in 1 .. Last
    BY <1>1
  <2>2. Limit(stack, Last, used, n)' = Limit(stack, Last, used, n)
    BY <1>2, <2>1 DEF Limit
  <2>3. opt' = opt
    BY DEF Keeps
  <2> QED
    BY <1>2, <2>1, <2>2, <2>3 DEF Inside, Pending
<1>4. ASSUME NEW n \in 1 .. Last, n # Last PROVE FrameInv(L, n)'
  <2>1. FrameInv(L, n) /\ n < Last
    BY <1>1, <1>4 DEF Behind
  <2>2. stack'[n] = stack[n] /\ stack[n].done
    BY <1>1, <1>4, <2>1 DEF Updated, FrameInv
  <2>3. More(L, L) /\ SameNames(stack[n].id)
    BY DEF More, SameNames
  <2> QED
    BY <1>3, <2>1, <2>2, <2>3, InUse, FrameKeeps
<1>5. FrameInv(L, Last)'
  <2>1. ListOf(L, Last)
    BY <1>1 DEF Behind, FrameInv
  <2>2. ListOf(L, Last)'
    BY <1>1, <1>2, <1>3, <2>1 DEF ListOf, IsListed
  <2> QED
    BY <1>1, <2>2 DEF FrameInv
<1>6. OnStack' = OnStack
  BY <1>2 DEF OnStack
<1>7. ASSUME NEW d \in L \ OnStack PROVE Passed(d)' /\ WalkedFrom(L, d)'
  BY <1>7, PassedKeeps, WalkedKeeps DEF Behind, LeftInv, More, SameNames
<1>8. \A n \in 1 .. Last : FrameInv(L, n)'
  <2>1. \A n \in 1 .. Last : n = Last => FrameInv(L, n)'
    BY <1>5
  <2> QED
    BY <1>4, <2>1
<1> QED
  BY <1>6, <1>7, <1>8 DEF Behind, LeftInv

Checked(s, n, x, b) == [[s EXCEPT ![n].idx = x] EXCEPT ![n].done = b]

LEMMA SetIdxDone ==
    ASSUME NEW s \in Seq(FrameType), NEW n \in 1 .. Len(s), NEW x \in Nat, NEW b \in BOOLEAN
    PROVE  LET t == Checked(s, n, x, b)
           IN /\ Updated(s, n, t) /\ t[n].read = s[n].read /\ t[n].pos = s[n].pos
              /\ t[n].done = b /\ t[n].idx = x
<1> DEFINE w == [s EXCEPT ![n].idx = x]
           t == [w EXCEPT ![n].done = b]
<1>1. /\ Updated(s, n, w) /\ w[n].read = s[n].read /\ w[n].pos = s[n].pos /\ w[n].idx = x
  BY SetIdx
<1> HIDE DEF w
<1>2. w \in Seq(FrameType) /\ n \in 1 .. Len(w)
  BY <1>1 DEF Updated
<1>3. /\ Updated(w, n, t) /\ t[n].read = w[n].read /\ t[n].pos = w[n].pos
      /\ t[n].done = b /\ t[n].idx = w[n].idx
  BY <1>2, SetDone
<1> HIDE DEF t
<1>4. Updated(s, n, t)
  BY <1>1, <1>3, UpdatedTwice
<1>5. t[n].read = s[n].read /\ t[n].pos = s[n].pos /\ t[n].done = b /\ t[n].idx = x
  BY <1>1, <1>3
<1> QED
  BY <1>4, <1>5 DEF t, w, Checked

LEMMA CheckLeaves ==
    ASSUME WalkInv, LoopInv, AskInv, BehindInv, Check
    PROVE  AskInv' /\ BehindInv'
<1>0. PICK bad \in Reports(stack[dir].id, stack[dir].idx) :
            pc = "walk" /\ ~stack[dir].done /\ Checks(bad)
  BY DEF Check
<1> DEFINE f == stack[dir]
           end == IF bad = {} THEN Len(Tree[f.id]) ELSE Least(bad)
           new == {Tree[f.id][k] : k \in f.idx + 1 .. end}
           t == [stack EXCEPT ![dir].idx = end]
           through == bad = {}
           v == [t EXCEPT ![dir].done = through]
<1>1. /\ pc = "walk" /\ ~f.done /\ stack' = v /\ seen' = [seen EXCEPT !.items = @ \cup new]
      /\ UNCHANGED <<opt, buf, used>> /\ dir' = dir
      /\ handler' = handler /\ name' = name /\ allDone' = allDone
      /\ \/ /\ bad # {} /\ top' = dir /\ pc' = "handler" /\ why' = 1
            /\ entry' = [id |-> Tree[f.id][end], faults |-> name[Tree[f.id][end]]]
         \/ /\ bad = {} /\ top' = top /\ pc' = (IF opt.recursive THEN "walk" ELSE "end")
  BY <1>0 DEF Checks
<1>2. /\ Last = dir /\ dir \in 1 .. Len(stack) /\ stack \in Seq(FrameType)
      /\ dir \in 1 .. Last /\ dir \in Nat /\ (~opt.recursive => top = 1 /\ dir = 1)
  <2>1. Last = dir
    BY <1>1 DEF Last
  <2>2. /\ dir \in 1 .. Len(stack) /\ stack \in Seq(FrameType) /\ dir \in Nat
        /\ (~opt.recursive => top = 1 /\ dir = 1)
    BY <2>1 DEF WalkInv
  <2>3. dir \in 1 .. dir
    BY <2>2
  <2> QED
    BY <2>1, <2>2, <2>3
<1>3. f.id \in Dirs /\ f.idx \in Nat /\ Len(Tree[f.id]) \in Nat
  BY <1>2, FrameFields, TreeType
<1>4. /\ \A k \in bad : k \in f.idx + 1 .. Len(Tree[f.id])
      /\ \A k \in f.idx + 1 .. Len(Tree[f.id]) : k \notin bad => ~Malformed(name[Tree[f.id][k]])
  BY <1>3, ReportsFact
<1>5. bad # {} => end \in bad /\ \A j \in bad : end <= j
  <2>1. bad \subseteq Nat
    BY <1>3, <1>4
  <2> QED
    BY <2>1, LeastIn
<1>6. PICK L \in SUBSET Dirs : Behind(L) /\ EndInv(L)
  BY DEF BehindInv
<1>7. f.read = 0 /\ PassedTo(f.id, f.idx) /\ f.idx <= Len(Tree[f.id])
  BY <1>1, <1>2, <1>6 DEF Behind, FrameInv, NamesOf
<1>8. end \in Nat /\ f.idx <= end /\ end <= Len(Tree[f.id])
  <2> HIDE DEF f, end
  <2>1. CASE bad = {}
    BY <1>3, <1>7, <2>1 DEF end
  <2>2. CASE bad # {}
    BY <1>3, <1>4, <1>5, <2>2
  <2> QED
    BY <2>1, <2>2
<1>9. seen \in SeenType
  BY DEF AskInv
<1>10. /\ seen'.items = seen.items \cup new /\ seen'.skipped = seen.skipped
       /\ seen'.pruned = seen.pruned /\ seen'.again = seen.again
  <2> HIDE DEF new
  <2> QED
    BY <1>1, <1>9 DEF SeenType
<1>11. seen' \in SeenType
  <2>1. new \subseteq Items
    <3> SUFFICES ASSUME NEW k \in f.idx + 1 .. end PROVE Tree[f.id][k] \in Items
      OBVIOUS
    <3>1. k \in 1 .. Len(Tree[f.id])
      BY <1>3, <1>8
    <3> QED
      BY <1>3, <3>1, TreeType
  <2> HIDE DEF new
  <2> QED
    BY <1>1, <1>9, <2>1, Zenon DEF SeenType
<1>12. Keeps /\ (Unattended' <=> Unattended) /\ ~Repairing
  BY <1>1, <1>10 DEF Keeps, Unattended, Repairing
<1>13. /\ Updated(stack, dir, v) /\ v[dir].read = f.read /\ v[dir].pos = f.pos
       /\ v[dir].idx = end /\ v[dir].done = through
  <2> DEFINE b == through
             e == end
  <2>1. v = Checked(stack, dir, e, b) /\ e \in Nat /\ b \in BOOLEAN
    BY <1>8 DEF Checked
  <2> HIDE DEF b, e, v
  <2>2. /\ Updated(stack, dir, v) /\ v[dir].read = stack[dir].read
        /\ v[dir].pos = stack[dir].pos /\ v[dir].done = b /\ v[dir].idx = e
    BY <1>2, <2>1, SetIdxDone
  <2> QED
    BY <2>2 DEF b, e
<1> HIDE DEF v, t
<1>d. PICK d \in Dirs : d = f.id
  BY <1>3
<1>m. PICK m \in Nat : m = end
  BY <1>8
<1>14. ASSUME NEW k \in 1 .. m PROVE Tree[d][k] \in seen'.items \/ Exempt(d)'
  <2>1. CASE k \in 1 .. f.idx
    <3>1. Tree[d][k] \in seen.items \/ Exempt(d)
      BY <1>7, <1>d, <2>1 DEF PassedTo
    <3> QED
      BY <1>12, <3>1 DEF Exempt, Keeps
  <2>2. CASE k \in f.idx + 1 .. end
    BY <1>10, <1>d, <2>2
  <2> QED
    BY <1>3, <1>8, <1>m, <2>1, <2>2
<1>15. ASSUME Unattended, NEW k \in 1 .. m, bad = {} \/ k # m
       PROVE  ~Malformed(name'[Tree[d][k]])
  <2>1. CASE k \in 1 .. f.idx
    BY <1>1, <1>7, <1>12, <1>15, <1>d, <2>1 DEF PassedTo
  <2>2. CASE k \in f.idx + 1 .. end
    <3>1. k \in f.idx + 1 .. Len(Tree[f.id]) /\ k \in 1 .. Len(Tree[f.id])
      BY <1>3, <1>8, <2>2
    <3> HIDE DEF f, end
    <3>3. k \notin bad
      <4>1. bad # {} => k < end
        BY <1>8, <1>15, <1>m
      <4>2. k \in bad => end <= k /\ k < end
        BY <1>5, <4>1
      <4> QED
        BY <1>8, <4>2
    <3>4. ~Malformed(name[Tree[f.id][k]])
      BY <1>4, <3>1, <3>3
    <3> QED
      BY <1>1, <1>d, <3>4
  <2> QED
    BY <1>3, <1>8, <1>m, <2>1, <2>2
<1>16. v[dir].id = d
  BY <1>13, <1>d DEF Updated
<1>t. d \in Dirs /\ Len(Tree[d]) \in Nat /\ m <= Len(Tree[d])
  BY <1>3, <1>8, <1>d, <1>m
<1>17. CASE bad = {}
  <2>1. through /\ m = Len(Tree[d])
    BY <1>17, <1>d, <1>m
  <2>2. Passed(d)'
    <3>1. \A i \in Range(Tree[d]) : \E k \in 1 .. m : i = Tree[d][k]
      BY <2>1, ItemOf
    <3>2. Range(Tree[d]) \subseteq seen'.items \/ Exempt(d)'
      BY <1>14, <3>1 DEF Exempt
    <3>3. Unattended' => \A i \in Range(Tree[d]) : ~Malformed(name'[i])
      BY <1>12, <1>15, <1>17, <3>1
    <3> QED
      BY <3>2, <3>3 DEF Passed
  <2> HIDE DEF f, end
  <2>3. Last' = Last /\ pc' = IF opt.recursive THEN "walk" ELSE "end"
    BY <1>1, <1>2, <1>17 DEF Last
  <2>4. stack'[dir].done /\ stack'[dir].id = d /\ stack'[dir].idx <= Len(Tree[d])
    BY <1>1, <1>13, <1>16, <1>m, <1>t, <2>1
  <2>5. NamesOf(stack[Last])'
    BY <1>2, <2>2, <2>3, <2>4 DEF NamesOf
  <2>6. Behind(L)'
    BY <1>1, <1>2, <1>6, <1>10, <1>12, <1>13, <2>3, <2>5, BehindChecks DEF f
  <2>7. EndInv(L)'
    <3>1. pc' = "end" => ~opt.recursive /\ dir = 1 /\ Last' = 1 /\ opt' = opt
      BY <1>1, <1>2, <2>3
    <3> QED
      BY <2>4, <3>1 DEF EndInv
  <2>8. BehindInv'
    BY <2>6, <2>7 DEF BehindInv
  <2>9. AskInv'
    BY <1>1, <1>10, <1>11, <2>3, AskNothing
  <2> QED
    BY <2>8, <2>9
<1>18. CASE bad # {}
  <2>1. ~through /\ m \in 1 .. Len(Tree[d])
    BY <1>3, <1>4, <1>5, <1>18, <1>d, <1>m
  <2>2. /\ top' = dir /\ pc' = "handler" /\ why' = 1 /\ entry'.id = Tree[d][m]
    <3> HIDE DEF f, end
    <3> QED
      BY <1>1, <1>18, <1>d, <1>m
  <2>3. Repairing' /\ Last' = Last
    BY <1>2, <2>2 DEF Repairing, Last
  <2>4. PassedTo(d, m)'
    <3> SUFFICES ASSUME NEW k \in 1 .. m, Unattended'
                 PROVE  ~Malformed(name'[Tree[d][k]]) \/ (Repairing' /\ entry'.id = Tree[d][k])
      BY <1>14, <1>t DEF PassedTo
    <3> QED
      BY <1>12, <1>15, <2>2, <2>3
  <2>5. entry'.id \in Range(Tree[d])
    BY <2>1, <2>2, TreeType
  <2> HIDE DEF f, end
  <2>6. /\ ~stack'[dir].done /\ stack'[dir].id = d /\ stack'[dir].idx = m
        /\ stack'[dir].read = 0
    BY <1>1, <1>7, <1>13, <1>16, <1>m, <2>1
  <2>7. NamesOf(stack[Last])'
    BY <1>2, <1>t, <2>3, <2>4, <2>6 DEF NamesOf
  <2>8. Behind(L)'
    BY <1>1, <1>2, <1>6, <1>10, <1>12, <1>13, <2>3, <2>7, BehindChecks DEF f
  <2>9. EndInv(L)'
    BY <2>2 DEF EndInv
  <2>10. BehindInv'
    BY <2>8, <2>9 DEF BehindInv
  <2>11. AskInv'
    BY <1>1, <1>10, <1>11, <2>2, <2>5, <2>6 DEF AskInv
  <2> QED
    BY <2>10, <2>11
<1> QED
  BY <1>17, <1>18

\* APPLY stores a name.
Stores == \/ name' = [name EXCEPT ![entry.id] = 0]
          \/ entry.faults \in Taken /\ StoreTaken

\* What it stores is not malformed, and of the directory on the top.
LEMMA StoresValid ==
    ASSUME Stores, stack[top].id \in Dirs, name \in [Items -> 0 .. MaxFaults],
           entry.id \in Range(Tree[stack[top].id]), entry.id \in Items
    PROVE  /\ ~Malformed(name'[entry.id])
           /\ \A i \in Items : name'[i] = name[i] \/ ~Malformed(name'[i])
           /\ \A i \in Items :
                i \notin Range(Tree[stack[top].id]) => name'[i] = name[i]
<1>1. CASE name' = [name EXCEPT ![entry.id] = 0]
  BY <1>1 DEF Malformed
<1>2. CASE entry.faults \in Taken /\ StoreTaken
  <2>1. PICK j \in Range(Tree[stack[top].id]) \ {entry.id} :
            \/ name' = [name EXCEPT ![entry.id] = entry.faults]
            \/ name' = [name EXCEPT ![entry.id] = 0, ![j] = entry.faults]
    BY <1>2 DEF StoreTaken
  <2>2. j \in Items /\ j # entry.id
    BY <2>1, ItemOf
  <2> QED
    BY <1>2, <2>1, <2>2 DEF Malformed
<1> QED
  BY <1>1, <1>2 DEF Stores

LEMMA ApplyLeaves ==
    ASSUME WalkInv, LoopInv, AskInv, BehindInv, Apply
    PROVE  AskInv' /\ BehindInv'
<1> DEFINE x == entry.id
<1>1. /\ pc = "apply" /\ pc' = "handler" /\ opt' = opt /\ UNCHANGED walkVars /\ seen' = seen
      /\ entry' = entry /\ handler' = handler
      /\ \/ Stores /\ why' = -1
         \/ why' = 1 /\ name' = name
  BY DEF Apply, Stores
<1>2. UNCHANGED <<stack, top, dir, buf, used, allDone>> /\ Last = top /\ Last' = top
  BY <1>1 DEF walkVars, Last
<1>3. Repairing /\ ~stack[top].done /\ x \in Range(Tree[stack[top].id])
  BY <1>1 DEF Repairing, AskInv
<1>4. AskInv'
  BY <1>1, <1>2, <1>3 DEF AskInv
<1>5. CASE why' = 1 /\ name' = name
  <2>1. Repairing' /\ Unattended' = Unattended
    BY <1>1, <1>5 DEF Repairing, Unattended
  <2>2. BehindInv'
    BY <1>1, <1>5, <2>1, HandlerLeaves
  <2> QED
    BY <1>4, <2>2
<1>6. CASE Stores /\ why' = -1
  <2>1. PICK L \in SUBSET Dirs : Behind(L) /\ EndInv(L)
    BY DEF BehindInv
  <2>2. top \in Nat /\ top \in 1 .. Last /\ stack[top].id \in Dirs /\ name \in [Items -> 0 .. MaxFaults]
    BY <1>2, InUse DEF WalkInv, LoopInv
  <2>3. x \in Items
    BY <1>3, <2>2, ItemOf
  <2>4. /\ ~Malformed(name'[x])
        /\ \A i \in Items : name'[i] = name[i] \/ ~Malformed(name'[i])
        /\ \A i \in Items : i \notin Range(Tree[stack[top].id]) => name'[i] = name[i]
    BY <1>3, <1>6, <2>2, <2>3, StoresValid
  <2>5. Unattended' = Unattended
    BY <1>1 DEF Unattended
  <2>6. Keeps
    BY <1>1, <2>4, <2>5 DEF Keeps
  <2>7. ASSUME NEW d \in Dirs, d # stack[top].id PROVE SameNames(d)
    <3>1. \A i \in Range(Tree[d]) : i \notin Range(Tree[stack[top].id])
      BY <2>2, <2>7, TreeAssumption
    <3> QED
      BY <2>4, <3>1, ItemOf DEF SameNames
  <2>8. ASSUME NEW n \in 1 .. Last PROVE FrameInv(L, n)'
    <3>0. FrameInv(L, n) /\ Inside(n)' = Inside(n) /\ Pending(n)' = Pending(n)
      BY <1>1, <1>2, <2>1 DEF Behind, Inside, Pending, Limit
    <3>1. CASE n # top
      <4>1. n < Last /\ stack[n].done
        BY <1>2, <2>2, <3>0, <3>1 DEF FrameInv
      <4>2. SameNames(stack[n].id)
        BY <2>2, <2>7, <3>1, InUse, Distinct
      <4>3. More(L, L)
        BY <1>1 DEF More
      <4> QED
        BY <1>2, <2>6, <3>0, <4>1, <4>2, <4>3, InUse, FrameKeeps
    <3>2. CASE n = top
      <4>1. /\ stack[top].read = 0 /\ PassedTo(stack[top].id, stack[top].idx)
            /\ stack[top].idx <= Len(Tree[stack[top].id])
        BY <1>3, <3>0, <3>2 DEF FrameInv, NamesOf
      <4>2. PassedTo(stack[top].id, stack[top].idx)'
        <5> DEFINE d == stack[top].id
                   m == stack[top].idx
        <5>1. d' = d /\ m' = m
          BY <1>2
        <5>2. d \in Dirs /\ m <= Len(Tree[d])
          BY <2>2, <4>1
        <5>3. ASSUME NEW k \in 1 .. m
              PROVE  /\ Tree[d][k] \in seen'.items \/ Exempt(d)'
                     /\ Unattended' => ~Malformed(name'[Tree[d][k]])
          <6>1. k \in 1 .. Len(Tree[d])
            BY <2>2, <5>2, InUse, TreeType
          <6>2. Tree[d][k] \in Items
            BY <5>2, <6>1, TreeType
          <6>3. /\ Tree[d][k] \in seen.items \/ Exempt(d)
                /\ Unattended => ~Malformed(name[Tree[d][k]]) \/ x = Tree[d][k]
            BY <4>1 DEF PassedTo
          <6>4. Exempt(d) => Exempt(d)'
            BY <1>1, <5>1 DEF Exempt
          <6> QED
            BY <1>1, <2>4, <2>5, <6>2, <6>3, <6>4
        <5> QED
          BY <5>1, <5>2, <5>3 DEF PassedTo
      <4>3. ListOf(L, top)'
        BY <1>2, <4>1 DEF ListOf
      <4>4. ~stack'[top'].done /\ stack'[top'].read = 0 /\ top' = top /\ ~(top < Last')
        BY <1>2, <1>3, <2>2, <4>1
      <4>5. NamesOf(stack[top])'
        BY <1>2, <4>1, <4>2, <4>4 DEF NamesOf
      <4> QED
        BY <1>2, <3>2, <4>3, <4>4, <4>5 DEF FrameInv
    <3> QED
      BY <3>1, <3>2
  <2>9. OnStack' = OnStack
    BY <1>2 DEF OnStack
  <2>10. ASSUME NEW d \in L \ OnStack PROVE Passed(d)' /\ WalkedFrom(L, d)'
    <3>1. d # stack[top].id /\ d \in Dirs
      BY <2>2, <2>10 DEF OnStack
    <3>2. Passed(d) /\ WalkedFrom(L, d) /\ More(L, L)
      BY <1>1, <2>1, <2>10 DEF Behind, LeftInv, More
    <3> QED
      BY <2>6, <2>7, <3>1, <3>2, PassedKeeps, WalkedKeeps
  <2>11. Behind(L)'
    BY <1>2, <2>8, <2>9, <2>10 DEF Behind, LeftInv
  <2>12. EndInv(L)'
    BY <1>1 DEF EndInv
  <2>13. BehindInv'
    BY <2>11, <2>12 DEF BehindInv
  <2> QED
    BY <1>4, <2>13
<1> QED
  BY <1>1, <1>5, <1>6
-----------------------------------------------------------------------------
(***************************************************************************)
(* The commands.                                                           *)
(***************************************************************************)
LEMMA CommandAsks ==
    ASSUME AskInv, pc = "input", pc' = "handler", why' = -1, opt' = opt, ~handler'.has,
           seen' \in SeenType, allDone' => Root \in seen'.pruned
    PROVE  AskInv' /\ ~Unattended'
<1>1. opt.interactive
  BY DEF AskInv
<1>2. ~Repairing' /\ ~Unattended'
  BY <1>1 DEF Repairing, Unattended
<1> QED
  BY <1>1, <1>2 DEF AskInv

LEMMA SkipLeaves ==
    ASSUME WalkInv, LoopInv, AskInv, BehindInv, pc = "input", pc' = "handler", why' = -1,
           opt' = opt, name' = name, ~handler'.has, Skip
    PROVE  AskInv' /\ BehindInv'
<1> DEFINE f == stack[top]
           e == IF ~opt.online /\ f.done THEN f.idx ELSE 0
           w == [stack EXCEPT ![top].done = TRUE]
           t == [w EXCEPT ![top].idx = e]
<1>1. /\ stack \in Seq(FrameType) /\ top \in 1 .. Len(stack) /\ f \in FrameType
      /\ f.id \in Dirs /\ f.idx \in Nat /\ Last = top
  BY AtCommand, FrameFields
<1>2. stack' = t /\ UNCHANGED <<top, buf, used, allDone>>
      /\ seen' = [seen EXCEPT !.skipped = IF f.done THEN @ ELSE @ \cup {f.id}]
  <2>1. /\ UNCHANGED <<top, buf, used, allDone>>
        /\ stack' = [stack EXCEPT ![top].done = TRUE,
                           ![top].idx = IF ~opt.online /\ f.done THEN @ ELSE 0]
        /\ seen' = [seen EXCEPT !.skipped = IF f.done THEN @ ELSE @ \cup {f.id}]
    BY DEF Skip
  <2>2. w[top].idx = f.idx
    BY <1>1 DEF FrameType
  <2> QED
    BY <2>1, <2>2
<1>3. /\ Updated(stack, top, t) /\ t[top].read = f.read /\ t[top].pos = f.pos
      /\ t[top].done = TRUE /\ t[top].idx = e
  <2>1. e \in Nat
    BY <1>1
  <2> HIDE DEF e
  <2>2. /\ Updated(stack, top, w) /\ w[top].read = f.read /\ w[top].pos = f.pos
        /\ w[top].done = TRUE
    BY <1>1, SetDone
  <2> HIDE DEF w
  <2>3. w \in Seq(FrameType) /\ top \in 1 .. Len(w)
    BY <1>1, <2>2 DEF Updated
  <2>4. /\ Updated(w, top, t) /\ t[top].read = w[top].read /\ t[top].pos = w[top].pos
        /\ t[top].done = w[top].done /\ t[top].idx = e
    BY <2>1, <2>3, SetIdx
  <2> HIDE DEF t
  <2>5. Updated(stack, top, t)
    BY <1>1, <2>2, <2>4, UpdatedTwice
  <2> QED
    BY <2>2, <2>4, <2>5
<1> HIDE DEF w, t
<1>4. PICK d \in Dirs : d = f.id
  BY <1>1
<1>5. /\ seen'.items = seen.items /\ seen'.pruned = seen.pruned /\ seen'.again = seen.again
      /\ seen'.skipped = (IF f.done THEN seen.skipped ELSE seen.skipped \cup {d})
      /\ seen' \in SeenType
  <2>1. seen \in SeenType
    BY DEF AskInv
  <2> DEFINE s == IF f.done THEN seen.skipped ELSE seen.skipped \cup {d}
  <2>2. s \in SUBSET Dirs
    BY <2>1 DEF SeenType
  <2>3. seen' = [seen EXCEPT !.skipped = s]
    BY <1>2, <1>4
  <2> HIDE DEF s
  <2>4. seen' \in SeenType
    BY <2>1, <2>2, <2>3, Zenon DEF SeenType
  <2>5. /\ seen'.items = seen.items /\ seen'.pruned = seen.pruned
        /\ seen'.again = seen.again /\ seen'.skipped = s
    BY <2>1, <2>3 DEF SeenType
  <2> QED
    BY <2>4, <2>5 DEF s
<1>6. AskInv' /\ ~Unattended'
  BY <1>2, <1>5, CommandAsks DEF AskInv
<1>7. Keeps
  <2> HIDE DEF f
  <2> QED
    BY <1>5, <1>6 DEF Keeps
<1>8. Last' = Last
  BY <1>1, <1>2 DEF Last
<1>9. PICK L \in SUBSET Dirs : Behind(L) /\ EndInv(L)
  BY DEF BehindInv
<1>10. Passed(d)'
  <2>1. CASE f.done
    <3>1. top \in 1 .. Last
      BY <1>1
    <3>2. Passed(d)
      BY <1>4, <1>9, <2>1, <3>1 DEF Behind, FrameInv, NamesOf
    <3> QED
      BY <1>7, <3>2, PassedKeeps
  <2>2. CASE ~f.done
    BY <1>5, <1>6, <2>2 DEF Passed
  <2> QED
    BY <2>1, <2>2
<1>11. stack'[top].id = d /\ stack'[top].done /\ stack'[top].idx <= Len(Tree[d])
  <2>1. stack'[top].id = d /\ stack'[top].done /\ stack'[top].idx = e
    BY <1>2, <1>3, <1>4 DEF Updated
  <2>2. top \in 1 .. Last
    BY <1>1
  <2>3. f.idx <= Len(Tree[d])
    BY <1>4, <1>9, <2>2 DEF Behind, FrameInv, NamesOf
  <2> QED
    BY <2>1, <2>3, TreeType
<1>12. NamesOf(stack[Last])'
  BY <1>1, <1>8, <1>10, <1>11 DEF NamesOf
<1>13. Behind(L)'
  BY <1>1, <1>2, <1>3, <1>5, <1>7, <1>8, <1>9, <1>12, BehindChecks
<1>14. BehindInv'
  BY <1>13 DEF BehindInv, EndInv
<1> QED
  BY <1>6, <1>14

LEMMA RewindLeaves ==
    ASSUME WalkInv, LoopInv, AskInv, BehindInv, pc = "input", pc' = "handler", why' = -1,
           opt' = opt, name' = name, ~handler'.has, Rewind
    PROVE  AskInv' /\ BehindInv'
<1> DEFINE f == stack[top]
           t == [stack EXCEPT ![top].idx = 0]
<1>1. /\ stack \in Seq(FrameType) /\ top \in 1 .. Len(stack) /\ Last = top
      /\ top \in 1 .. Last /\ f.id \in Dirs
  BY AtCommand
<1>2. stack' = t /\ UNCHANGED <<top, buf, used, allDone>> /\ seen' = seen
  BY DEF Rewind
<1>3. /\ Updated(stack, top, t) /\ t[top].read = f.read /\ t[top].pos = f.pos
      /\ t[top].done = f.done /\ t[top].idx = 0
  <2> DEFINE z == 0
             x == [stack EXCEPT ![top].idx = z]
  <2>1. t = x /\ z \in Nat
    OBVIOUS
  <2> HIDE DEF z, f
  <2>2. /\ Updated(stack, top, x) /\ x[top].read = stack[top].read
        /\ x[top].pos = stack[top].pos /\ x[top].done = stack[top].done /\ x[top].idx = z
    BY <1>1, <2>1, SetIdx
  <2> HIDE DEF x, t
  <2> QED
    BY <2>1, <2>2 DEF z, f
<1> HIDE DEF t
<1>4. AskInv' /\ ~Unattended'
  BY <1>2, CommandAsks DEF AskInv
<1>5. Keeps
  BY <1>2, <1>4 DEF Keeps
<1>6. Last' = Last
  BY <1>1, <1>2 DEF Last
<1>7. PICK L \in SUBSET Dirs : Behind(L) /\ EndInv(L)
  BY DEF BehindInv
<1>8. NamesOf(f)
  BY <1>1, <1>7 DEF Behind, FrameInv
<1>9. PICK d \in Dirs : d = f.id
  BY <1>1
<1>10. Passed(d) => Passed(d)'
  BY <1>5, PassedKeeps
<1>11. PassedTo(d, 0)' /\ 0 <= Len(Tree[d])
  BY TreeType DEF PassedTo
<1>12. /\ stack'[top].id = d /\ stack'[top].done = f.done /\ stack'[top].read = f.read
       /\ stack'[top].idx = 0
  BY <1>2, <1>3, <1>9 DEF Updated
<1>13. NamesOf(stack[Last])'
  BY <1>1, <1>6, <1>8, <1>9, <1>10, <1>11, <1>12 DEF NamesOf
<1>14. Behind(L)'
  BY <1>1, <1>2, <1>3, <1>5, <1>6, <1>7, <1>13, BehindChecks
<1>15. BehindInv'
  BY <1>14 DEF BehindInv, EndInv
<1> QED
  BY <1>4, <1>15

LEMMA SaveLeaves ==
    ASSUME WalkInv, LoopInv, AskInv, BehindInv, pc = "input", pc' = "handler", why' = -1,
           opt' = opt, name' = name, size' = size, dir' = dir, ~handler'.has, Save
    PROVE  AskInv' /\ BehindInv'
<1>1. UNCHANGED walkVars /\ allDone' = allDone /\ seen' = seen
  BY DEF Save, walkVars
<1>2. AskInv' /\ ~Unattended'
  BY <1>1, CommandAsks DEF AskInv
<1>3. BehindInv'
  BY <1>1, <1>2, HandlerLeaves
<1> QED
  BY <1>2, <1>3

\* The directory x on the top leaves the stack, into M unless it is pruned.
LEMMA BehindPops ==
    ASSUME WalkInv, Keeps, UNCHANGED <<stack, name, buf>>,
           Last > 1, Last' = Last - 1, opt.online => used' = stack[Last].start,
           NEW x, x = stack[Last].id,
           NEW L \in SUBSET Dirs, NEW M \in SUBSET Dirs, Behind(L), More(L, M),
           M \subseteq L \cup {x}, x \in M \cup seen'.pruned,
           x \in M => Passed(x) /\ WalkedFrom(L, x)
    PROVE  Behind(M)'
<1>1. Last \in Nat /\ Last \in 1 .. Last /\ x \in Dirs
  BY InUse DEF WalkInv
<1>2. \A d \in Dirs : SameNames(d)
  BY DEF SameNames
<1>3. ASSUME NEW n \in 1 .. Last' PROVE FrameInv(M, n)'
  <2>1. n \in 1 .. Last /\ n < Last /\ n \in Nat
    BY <1>1
  <2>2. FrameInv(L, n) /\ stack[n].done
    BY <2>1 DEF Behind, FrameInv
  <2>3. CASE n = Last - 1
    <3>1. n + 1 = Last
      BY <1>1, <2>3
    <3>2. Inside(n) \subseteq M \cup seen'.pruned
      BY <3>1 DEF Inside
    <3>3. Pending(n) \subseteq Pending(n)'
      <4>1. opt' = opt
        BY DEF Keeps
      <4>2. opt.online => Limit(stack, Last, used, n)' = Limit(stack, Last, used, n)
        BY <2>1, <2>3, <3>1 DEF Limit
      <4> QED
        BY <4>1, <4>2 DEF Pending
    <3>4. Inside(n) \cup Pending(n) \subseteq
            M \cup seen'.pruned \cup Inside(n)' \cup Pending(n)'
      BY <3>2, <3>3
    <3> QED
      BY <1>2, <2>1, <2>2, <3>4, InUse, FrameKeeps
  <2>4. CASE n # Last - 1
    <3>1. n < Last'
      BY <1>1, <2>1, <2>4
    <3>2. Inside(n)' = Inside(n)
      BY <2>1, <3>1 DEF Inside
    <3>3. Pending(n)' = Pending(n)
      <4>1. Limit(stack, Last, used, n)' = Limit(stack, Last, used, n)
        BY <2>1, <3>1 DEF Limit
      <4> QED
        BY <4>1 DEF Pending, Keeps
    <3> QED
      BY <1>2, <2>1, <2>2, <3>2, <3>3, InUse, FrameKeeps
  <2> QED
    BY <2>3, <2>4
<1>4. ASSUME NEW d \in M \ OnStack' PROVE Passed(d)' /\ WalkedFrom(M, d)'
  <2>1. Passed(d) /\ WalkedFrom(L, d)
    <3>1. CASE d = x
      BY <1>4, <3>1
    <3>2. CASE d # x
      <4>1. d \notin OnStack
        <5> SUFFICES ASSUME NEW n \in 1 .. Last, d = stack[n].id PROVE FALSE
          BY DEF OnStack
        <5>1. n # Last /\ n \in 1 .. Last'
          BY <1>1, <3>2
        <5> QED
          BY <1>4, <5>1 DEF OnStack
      <4>2. d \in L \ OnStack
        BY <1>4, <3>2, <4>1
      <4> QED
        BY <4>2 DEF Behind, LeftInv
    <3> QED
      BY <3>1, <3>2
  <2> QED
    BY <1>2, <2>1, PassedKeeps, WalkedKeeps
<1> QED
  BY <1>3, <1>4 DEF Behind, LeftInv

LEMMA SkipChildrenLeaves ==
    ASSUME WalkInv, LoopInv, AskInv, BehindInv, pc = "input", pc' = "handler", why' = -1,
           opt' = opt, name' = name, ~handler'.has, SkipChildren
    PROVE  AskInv' /\ BehindInv'
<1> DEFINE x == stack[top].id
<1>1. /\ stack \in Seq(FrameType) /\ top \in 1 .. Len(stack) /\ Last = top
      /\ top \in 1 .. Last /\ x \in Dirs /\ top \in Nat
      /\ stack[1].id = Root
  BY AtCommand DEF PathOf
<1>2. /\ IF top = 1 THEN allDone' = TRUE /\ UNCHANGED <<top, used>>
         ELSE /\ used' = IF opt.online THEN stack[top].start ELSE used
              /\ top' = top - 1 /\ allDone' = allDone
      /\ seen' = [seen EXCEPT !.pruned = @ \cup {x}]
      /\ UNCHANGED <<stack, buf>>
  BY <1>1 DEF SkipChildren, Pop
<1>3. /\ seen'.items = seen.items /\ seen'.skipped = seen.skipped
      /\ seen'.again = seen.again /\ seen'.pruned = seen.pruned \cup {x}
      /\ seen' \in SeenType
  <2>1. seen \in SeenType /\ seen.pruned \cup {x} \in SUBSET Dirs
    BY <1>1 DEF AskInv, SeenType
  <2> HIDE DEF x
  <2>2. seen' \in SeenType
    BY <1>2, <2>1, Zenon DEF SeenType
  <2>3. /\ seen'.items = seen.items /\ seen'.skipped = seen.skipped
        /\ seen'.again = seen.again /\ seen'.pruned = seen.pruned \cup {x}
    BY <1>2, <2>1 DEF SeenType
  <2> QED
    BY <2>2, <2>3
<1>4. AskInv' /\ ~Unattended'
  <2>1. allDone' => Root \in seen'.pruned
    BY <1>1, <1>2, <1>3 DEF AskInv
  <2> QED
    BY <1>3, <2>1, CommandAsks
<1>5. Keeps
  BY <1>3, <1>4 DEF Keeps
<1>6. CASE top = 1
  <2>1. UNCHANGED <<stack, name, buf, used>> /\ Last' = Last
    BY <1>1, <1>2, <1>6 DEF Last
  <2>2. \A L \in SUBSET Dirs : EndInv(L)'
    BY DEF EndInv
  <2> QED
    BY <1>3, <1>4, <1>5, <2>1, <2>2, BehindHolds
<1>7. CASE top # 1
  <2>1. PICK L \in SUBSET Dirs : Behind(L) /\ EndInv(L)
    BY DEF BehindInv
  <2>2. Last > 1 /\ Last' = Last - 1 /\ (opt.online => used' = stack[Last].start)
    BY <1>1, <1>2, <1>7 DEF Last
  <2>3. PICK y \in Dirs : y = x
    BY <1>1
  <2> DEFINE M == L \ {y}
  <2>4. /\ M \in SUBSET Dirs /\ M \subseteq L \cup {y} /\ y \notin M
        /\ y \in seen'.pruned /\ More(L, M)
    BY <1>3, <2>3 DEF More
  <2> HIDE DEF M, x
  <2>5. Behind(M)'
    BY <1>1, <1>2, <1>5, <2>1, <2>2, <2>3, <2>4, BehindPops DEF x
  <2>6. EndInv(M)'
    BY DEF EndInv
  <2> QED
    BY <1>4, <2>4, <2>5, <2>6 DEF BehindInv
<1> QED
  BY <1>6, <1>7

LEMMA ResetLeaves ==
    ASSUME WalkInv, LoopInv, AskInv, BehindInv, pc = "input", pc' = "handler", why' = -1,
           opt' = opt, name' = name, ~handler'.has, Reset
    PROVE  AskInv' /\ BehindInv'
<1> DEFINE e == IF ~opt.online /\ stack[1].done THEN stack[1].idx ELSE 0
           fr == Frame(Root, 0)
           r == [fr EXCEPT !.idx = e]
<1>1. /\ stack' = <<r>> /\ top' = 1 /\ used' = 0 /\ allDone' = FALSE
      /\ seen' = [Unseen EXCEPT !.again = TRUE]
  BY DEF Reset, ResetTop
<1>2. /\ stack \in Seq(FrameType) /\ 1 \in 1 .. Len(stack) /\ 1 \in 1 .. Last
      /\ stack[1].idx \in Nat /\ stack[1].id = Root
  BY AtCommand, InUse DEF PathOf
<1>3. Root \in Dirs /\ Len(Tree[Root]) \in Nat
  BY TreeAssumption, TreeType
<1>4. PICK L \in SUBSET Dirs : Behind(L)
  BY DEF BehindInv
<1>5. e \in Nat /\ e <= Len(Tree[Root]) /\ (opt.online => e = 0)
  <2>1. NamesOf(stack[1])
    BY <1>2, <1>4 DEF Behind, FrameInv
  <2>2. stack[1].idx <= Len(Tree[Root])
    BY <1>2, <2>1 DEF NamesOf
  <2> QED
    BY <1>2, <1>3, <2>2
<1>6. seen' \in SeenType /\ seen'.again
  <2>1. Unseen \in SeenType
    BY Zenon DEF Unseen, SeenType
  <2>2. seen' \in SeenType
    BY <1>1, <2>1, Zenon DEF SeenType
  <2>3. seen'.again
    BY <1>1 DEF Unseen
  <2> QED
    BY <2>2, <2>3
<1>7. AskInv' /\ ~Unattended'
  BY <1>1, <1>6, CommandAsks
<1>8. Last' = 1
  BY <1>1 DEF Last
<1>9. /\ stack'[1].id = Root /\ ~stack'[1].done /\ stack'[1].read = 0
      /\ stack'[1].idx = e
  <2> HIDE DEF e
  <2> QED
    BY <1>1 DEF Frame
<1>10. PICK m \in Nat : m = e
  BY <1>5
<1> HIDE DEF e, r
<1>11. PassedTo(Root, m)'
  <2>1. m = 0 \/ Exempt(Root)'
    BY <1>5, <1>6, <1>10 DEF Exempt
  <2>2. m = 0 => 1 .. m = {}
    OBVIOUS
  <2> QED
    BY <1>7, <2>1, <2>2 DEF PassedTo
<1>12. NamesOf(stack[1])'
  BY <1>5, <1>9, <1>10, <1>11 DEF NamesOf
<1>13. FrameInv({}, 1)'
  <2>1. 1 .. 0 = {}
    OBVIOUS
  <2>2. ListOf({}, 1)'
    BY <1>9, <2>1 DEF ListOf
  <2> QED
    BY <1>8, <1>12, <2>2 DEF FrameInv
<1>14. Behind({})'
  <2>1. \A n \in 1 .. Last' : n = 1
    BY <1>8
  <2> QED
    BY <1>13, <2>1 DEF Behind, LeftInv
<1>15. EndInv({})' /\ {} \in SUBSET Dirs
  BY DEF EndInv
<1> QED
  BY <1>7, <1>14, <1>15 DEF BehindInv

LEMMA InputControlLeaves ==
    ASSUME WalkInv, LoopInv, AskInv, BehindInv, pc = "input", NEW cmd,
           NEW dash \in BOOLEAN, InputControl(cmd, dash)
    PROVE  AskInv' /\ BehindInv'
<1>1. /\ opt' = opt /\ name' = name /\ size' = size /\ dir' = dir
      /\ pc' = "handler" /\ why' = -1 /\ ExpectNext(dash)
      /\ Skip \/ Rewind \/ SkipChildren \/ Reset \/ Save
  BY DEF InputControl, Control
<1>2. ~handler'.has
  BY <1>1, NoneShown
<1> QED
  BY <1>1, <1>2, SkipLeaves, RewindLeaves, SkipChildrenLeaves, ResetLeaves, SaveLeaves
-----------------------------------------------------------------------------
(***************************************************************************)
(* The walk goes on.                                                       *)
(***************************************************************************)
LEMMA LeaveLeaves ==
    ASSUME WalkInv, AskInv, BehindInv, Walking, opt.recursive, Leave,
           UNCHANGED <<opt, name, allDone, handler>>, seen' = seen,
           \A k \in stack[dir].read + 1 .. Len(Tree[stack[dir].id]) :
                ~IsListed(Tree[stack[dir].id][k]),
           \A i \in Pending(dir) : i \notin Dirs
    PROVE  AskInv' /\ BehindInv'
<1> DEFINE x == stack[dir].id
<1>1. /\ pc = "walk" /\ stack[dir].done /\ Last = dir /\ dir \in 1 .. Last /\ dir \in Nat
      /\ x \in Dirs /\ stack[dir].read \in Nat
  BY InUse DEF Walking, WalkInv, Last
<1>2. PICK L \in SUBSET Dirs : Behind(L) /\ EndInv(L)
  BY DEF BehindInv
<1>3. FrameInv(L, dir)
  BY <1>1, <1>2 DEF Behind
<1>4. Passed(x)
  BY <1>1, <1>3 DEF FrameInv, NamesOf
<1>5. WalkedFrom(L, x)
  <2> SUFFICES ASSUME NEW i \in Range(Tree[x]), IsListed(i) PROVE i \in L \cup seen.pruned
    BY DEF WalkedFrom
  <2>1. PICK k \in 1 .. Len(Tree[x]) : i = Tree[x][k]
    BY <1>1, ItemOf
  <2>2. k \in 1 .. stack[dir].read
    BY <1>1, <2>1, TreeType
  <2>3. i \in L \cup seen.pruned \cup Inside(dir) \cup Pending(dir)
    BY <1>3, <2>1, <2>2 DEF FrameInv, ListOf
  <2>4. Inside(dir) = {} /\ i \in Dirs
    BY <1>1 DEF Inside, IsListed
  <2> QED
    BY <2>3, <2>4
<1>6. CASE dir = 1
  <2>1. top' = 1 /\ pc' = "end" /\ UNCHANGED <<stack, buf, used>>
    BY <1>6 DEF Leave
  <2>2. Last' = Last /\ Last' = 1
    BY <1>1, <1>6, <2>1 DEF Last
  <2>3. Keeps /\ ~Repairing
    BY <1>1, <2>1 DEF Keeps, Unattended, Repairing
  <2>4. Behind(L)'
    BY <1>2, <2>1, <2>2, <2>3, BehindStands
  <2>5. x = Root
    BY <1>1, <1>6 DEF WalkInv, PathOf
  <2>6. EndInv(L)'
    BY <1>1, <1>5, <1>6, <2>1, <2>2, <2>5 DEF EndInv, WalkedFrom, IsListed
  <2>7. AskInv'
    BY <1>1, <2>1, AskNothing DEF AskInv
  <2> QED
    BY <2>4, <2>6, <2>7 DEF BehindInv
<1>7. CASE dir > 1
  <2>1. /\ used' = stack[dir].start /\ dir' = dir - 1 /\ UNCHANGED <<stack, top, buf, pc>>
    BY <1>1, <1>7 DEF Leave, Pop
  <2>2. Last > 1 /\ Last' = Last - 1 /\ used' = stack[Last].start
    BY <1>1, <1>7, <2>1 DEF Last
  <2>3. Keeps
    BY <2>1 DEF Keeps, Unattended
  <2>4. PICK y \in Dirs : y = x
    BY <1>1
  <2> DEFINE M == L \cup {y}
  <2>5. M \in SUBSET Dirs /\ M \subseteq L \cup {y} /\ y \in M /\ More(L, M)
    BY DEF More
  <2> HIDE DEF M, x
  <2>6. Behind(M)'
    BY <1>1, <1>2, <1>4, <1>5, <2>1, <2>2, <2>3, <2>4, <2>5, BehindPops DEF x
  <2>7. EndInv(M)'
    BY <1>1, <2>1 DEF EndInv
  <2>8. AskInv'
    BY <1>1, <2>1, AskNothing DEF AskInv
  <2> QED
    BY <2>5, <2>6, <2>7, <2>8 DEF BehindInv
<1> QED
  BY <1>1, <1>6, <1>7

\* What was read is accounted for once the frame t of the top has entered sub.
Enters(L, t, sub) ==
    \A k \in 1 .. t.read :
        IsListed(Tree[t.id][k]) =>
            \/ Tree[t.id][k] \in L \cup seen.pruned \cup {sub}
            \/ opt.online /\ \E j \in t.pos + 1 .. used : Tree[t.id][k] = buf[j]

LEMMA PushLeaves ==
    ASSUME WalkInv, AskInv, Walking,
           UNCHANGED <<opt, name, buf, used, allDone, handler>>, seen' = seen,
           NEW t, Updated(stack, dir, t), t[dir].done = stack[dir].done,
           t[dir].idx = stack[dir].idx, NEW sub \in Dirs, Push(t, sub),
           NEW L \in SUBSET Dirs, Behind(L), Enters(L, t[dir], sub)
    PROVE  AskInv' /\ BehindInv'
<1>1. /\ pc = "walk" /\ stack[dir].done /\ Last = dir /\ dir \in 1 .. Last /\ dir \in Nat
      /\ stack \in Seq(FrameType) /\ dir \in 1 .. Len(stack) /\ used \in Nat
      /\ \A n \in 1 .. Last : n \in 1 .. Len(stack)
  BY DEF Walking, WalkInv, Last
<1>2. t \in Seq(FrameType) /\ dir \in 1 .. Len(t) /\ t[dir].id = stack[dir].id
      /\ \A n \in 1 .. Len(stack) : n # dir => t[n] = stack[n]
      /\ t[dir].start = stack[dir].start
  BY <1>1 DEF Updated
<1> DEFINE fr == Frame(sub, used)
           v == Append(SubSeq(t, 1, dir), fr)
<1>3. /\ v[dir + 1] = fr /\ \A n \in 1 .. dir : v[n] = t[n]
  <2>1. fr \in FrameType
    BY <1>1, FrameOK
  <2> HIDE DEF fr
  <2> QED
    BY <1>2, <2>1, PushEffect
<1>4. stack' = v /\ dir' = dir + 1 /\ top' = top /\ pc' = pc
  BY DEF Push
<1> HIDE DEF v
<1>5. Last' = dir + 1
  BY <1>1, <1>4 DEF Last
<1>6. Keeps /\ \A d \in Dirs : SameNames(d)
  BY <1>4 DEF Keeps, Unattended, SameNames
<1>7. /\ stack'[dir + 1].id = sub /\ stack'[dir + 1].start = used
      /\ ~stack'[dir + 1].done /\ stack'[dir + 1].read = 0 /\ stack'[dir + 1].idx = 0
  BY <1>3, <1>4 DEF Frame
<1>8. More(L, L)
  BY DEF More
<1>9. ASSUME NEW n \in 1 .. dir, n # dir PROVE FrameInv(L, n)'
  <2>1. /\ n \in 1 .. Last /\ n < Last /\ n < Last' /\ n + 1 \in 1 .. dir
        /\ n \in 1 .. Len(stack) /\ n + 1 \in 1 .. Len(stack)
    BY <1>1, <1>5, <1>9
  <2>2. stack'[n] = stack[n]
    BY <1>2, <1>3, <1>4, <1>9, <2>1
  <2>3. stack'[n + 1].id = stack[n + 1].id /\ stack'[n + 1].start = stack[n + 1].start
    BY <1>2, <1>3, <1>4, <2>1
  <2>4. Inside(n)' = Inside(n)
    BY <2>1, <2>3 DEF Inside
  <2>5. Pending(n)' = Pending(n)
    <3>1. Limit(stack, Last, used, n)' = Limit(stack, Last, used, n)
      BY <2>1, <2>3 DEF Limit
    <3> QED
      BY <2>2, <3>1 DEF Pending
  <2>6. FrameInv(L, n) /\ stack[n].done
    BY <2>1 DEF Behind, FrameInv
  <2> QED
    BY <1>6, <1>8, <2>1, <2>2, <2>4, <2>5, <2>6, InUse, FrameKeeps
<1>n. PICK n \in Nat : n = dir
  BY <1>1
<1>10. FrameInv(L, n)'
  <2>1. NamesOf(stack[dir])
    BY <1>1 DEF Behind, FrameInv
  <2>2. PICK d \in Dirs : d = stack[dir].id
    BY <1>1, InUse
  <2>3. Passed(d)' /\ stack[dir].idx <= Len(Tree[d])
    BY <1>1, <1>6, <2>1, <2>2, PassedKeeps DEF NamesOf
  <2>4. /\ stack'[n] = t[dir] /\ stack'[n].id = d /\ stack'[n].done
        /\ stack'[n].idx = stack[dir].idx
    BY <1>1, <1>2, <1>3, <1>4, <1>n, <2>2
  <2>5. NamesOf(stack[n])'
    BY <2>3, <2>4 DEF NamesOf
  <2>6. ListOf(L, n)'
    <3> SUFFICES ASSUME NEW k \in 1 .. stack'[n].read, IsListed(Tree[stack[n].id][k])'
                 PROVE  Tree[stack'[n].id][k]
                            \in L \cup seen'.pruned \cup Inside(n)' \cup Pending(n)'
      BY DEF ListOf
    <3>1. Inside(n)' = {sub}
      BY <1>5, <1>7, <1>n DEF Inside
    <3>2. opt.online => Pending(n)' = {buf[j] : j \in t[dir].pos + 1 .. used}
      <4>1. Limit(stack, Last, used, n)' = used
        BY <1>5, <1>7, <1>n DEF Limit
      <4> QED
        BY <2>4, <4>1 DEF Pending
    <3>3. k \in 1 .. t[dir].read /\ IsListed(Tree[t[dir].id][k])
      BY <2>4 DEF IsListed
    <3>4. \/ Tree[d][k] \in L \cup seen.pruned \cup {sub}
          \/ opt.online /\ \E j \in t[dir].pos + 1 .. used : Tree[d][k] = buf[j]
      BY <2>4, <3>3 DEF Enters
    <3> QED
      BY <2>4, <3>1, <3>2, <3>4
  <2> QED
    BY <2>4, <2>5, <2>6 DEF FrameInv
<1>m. PICK m \in Nat : m = dir + 1
  BY <1>1
<1>11. FrameInv(L, m)'
  <2>1. PassedTo(sub, 0)' /\ 0 <= Len(Tree[sub])
    BY TreeType DEF PassedTo
  <2>2. NamesOf(stack[m])'
    BY <1>7, <1>m, <2>1 DEF NamesOf
  <2>3. 1 .. 0 = {} /\ ~(m < Last')
    BY <1>1, <1>5, <1>m
  <2>4. ListOf(L, m)'
    BY <1>7, <1>m, <2>3 DEF ListOf
  <2> QED
    BY <2>2, <2>3, <2>4 DEF FrameInv
<1>12. \A k \in 1 .. Last' : FrameInv(L, k)'
  <2>1. \A k \in 1 .. Last' : k = n \/ k = m \/ (k \in 1 .. dir /\ k # dir)
    BY <1>1, <1>5, <1>n, <1>m
  <2> QED
    BY <1>9, <1>10, <1>11, <2>1
<1>13. OnStack \subseteq OnStack'
  <2> SUFFICES ASSUME NEW k \in 1 .. Last PROVE stack[k].id \in OnStack'
    BY DEF OnStack
  <2>1. k \in 1 .. Last' /\ stack'[k].id = stack[k].id
    BY <1>1, <1>2, <1>3, <1>4, <1>5
  <2> QED
    BY <2>1 DEF OnStack
<1>14. ASSUME NEW d \in L \ OnStack' PROVE Passed(d)' /\ WalkedFrom(L, d)'
  BY <1>6, <1>8, <1>13, <1>14, PassedKeeps, WalkedKeeps DEF Behind, LeftInv
<1>15. Behind(L)'
  BY <1>12, <1>14 DEF Behind, LeftInv
<1>16. EndInv(L)'
  BY <1>1, <1>4 DEF EndInv
<1>17. AskInv'
  BY <1>1, <1>4, AskNothing DEF AskInv
<1> QED
  BY <1>15, <1>16, <1>17 DEF BehindInv

LEMMA ListSubdirLeaves ==
    ASSUME WalkInv, AskInv, BehindInv, ListSubdir
    PROVE  AskInv' /\ BehindInv'
<1>0. PICK listed \in Listings(stack[dir].id, stack[dir].read) :
            LET subs == {k \in listed : Tree[stack[dir].id][k] \in Dirs}
            IN \/ /\ subs # {}
                  /\ Push([stack EXCEPT ![dir].read = Least(subs)],
                          Tree[stack[dir].id][Least(subs)])
                  /\ UNCHANGED <<buf, used>>
               \/ subs = {} /\ Leave
  BY DEF ListSubdir
<1> DEFINE f == stack[dir]
           subs == {k \in listed : Tree[f.id][k] \in Dirs}
<1>1. /\ Walking /\ opt.recursive /\ ~opt.online
      /\ UNCHANGED <<opt, name, allDone, handler>> /\ seen' = seen
      /\ \/ /\ subs # {}
            /\ Push([stack EXCEPT ![dir].read = Least(subs)], Tree[f.id][Least(subs)])
            /\ UNCHANGED <<buf, used>>
         \/ subs = {} /\ Leave
  BY <1>0 DEF ListSubdir
<1>2. /\ Last = dir /\ dir \in 1 .. Last /\ dir \in 1 .. Len(stack)
      /\ stack \in Seq(FrameType)
  BY <1>1 DEF WalkInv, Last, Walking
<1>3. f.id \in Dirs /\ f.read \in Nat /\ Len(Tree[f.id]) \in Nat
  BY <1>2, InUse, TreeType
<1>4. \A k \in f.read + 1 .. Len(Tree[f.id]) : IsListed(Tree[f.id][k]) => k \in subs
  BY ListingsFact DEF IsListed
<1>5. CASE subs = {}
  <2>1. \A k \in stack[dir].read + 1 .. Len(Tree[stack[dir].id]) :
            ~IsListed(Tree[stack[dir].id][k])
    BY <1>4, <1>5
  <2>2. \A i \in Pending(dir) : i \notin Dirs
    BY <1>1 DEF Pending
  <2> QED
    BY <1>1, <1>5, <2>1, <2>2, LeaveLeaves
<1>6. CASE subs # {}
  <2> DEFINE r == Least(subs)
             t == [stack EXCEPT ![dir].read = r]
             sub == Tree[f.id][r]
  <2>1. Push(t, sub) /\ UNCHANGED <<buf, used>>
    BY <1>1, <1>6
  <2>2. \A x \in subs : x \in f.read + 1 .. Len(Tree[f.id]) /\ Tree[f.id][x] \in Dirs
    BY ListingsFact
  <2>3. r \in subs /\ \A x \in subs : r <= x
    <3>1. subs \subseteq Nat
      BY <1>3, <2>2
    <3> HIDE DEF subs
    <3> QED
      BY <1>6, <3>1, LeastIn
  <2>4. r \in Nat /\ sub \in Dirs /\ \A x \in subs : x \in Nat
    <3>1. \A x \in subs : x \in Nat /\ Tree[f.id][x] \in Dirs
      BY <1>3, <2>2
    <3> HIDE DEF subs, r
    <3> QED
      BY <2>3, <3>1
  <2> HIDE DEF r, subs
  <2>5. /\ Updated(stack, dir, t) /\ t[dir].read = r /\ t[dir].done = f.done
        /\ t[dir].idx = f.idx
    BY <1>2, <2>4, SetRead
  <2>6. t[dir].id = f.id
    BY <2>5 DEF Updated
  <2>7. PICK L \in SUBSET Dirs : Behind(L)
    BY DEF BehindInv
  <2> HIDE DEF t, sub
  <2>8. ListOf(L, dir)
    BY <1>2, <2>7 DEF Behind, FrameInv
  <2>9. Inside(dir) = {} /\ Pending(dir) = {}
    BY <1>1, <1>2 DEF Inside, Pending
  <2>10. Enters(L, t[dir], sub)
    <3> SUFFICES ASSUME NEW k \in 1 .. r, IsListed(Tree[f.id][k])
                 PROVE  Tree[f.id][k] \in L \cup seen.pruned \cup {sub}
      BY <2>5, <2>6 DEF Enters
    <3>1. CASE k <= f.read
      <4>1. k \in 1 .. f.read
        BY <1>3, <2>4, <3>1
      <4> QED
        BY <2>8, <2>9, <4>1 DEF ListOf
    <3>2. CASE ~(k <= f.read)
      <4>1. r <= Len(Tree[f.id])
        BY <1>3, <2>2, <2>3
      <4>2. k \in f.read + 1 .. Len(Tree[f.id])
        BY <1>3, <2>4, <3>2, <4>1
      <4>3. k \in subs
        BY <1>4, <4>2
      <4>4. k = r
        BY <2>3, <2>4, <4>3
      <4> QED
        BY <4>4 DEF sub
    <3> QED
      BY <3>1, <3>2
  <2> QED
    BY <1>1, <2>1, <2>4, <2>5, <2>7, <2>10, PushLeaves
<1> QED
  BY <1>5, <1>6

LEMMA NextSubdirLeaves ==
    ASSUME WalkInv, AskInv, BehindInv, NextSubdir
    PROVE  AskInv' /\ BehindInv'
<1> DEFINE f == stack[dir]
           r == Least(InBuffer(f))
           t == [stack EXCEPT ![dir].pos = r]
<1>0. PICK sub \in Opened(buf[r]) : Push(t, sub)
  BY DEF NextSubdir
<1>1. /\ Walking /\ opt.recursive /\ opt.online
      /\ UNCHANGED <<opt, name, allDone, handler, buf, used>> /\ seen' = seen
      /\ InBuffer(f) # {}
  BY DEF NextSubdir
<1>2. /\ Last = dir /\ dir \in 1 .. Last /\ dir \in 1 .. Len(stack)
      /\ stack \in Seq(FrameType) /\ used \in Nat
  BY <1>1 DEF WalkInv, Last, Walking
<1>3. f.id \in Dirs /\ f.pos \in Nat /\ f.read \in Nat
  BY <1>2, InUse
<1>4. \A x \in InBuffer(f) : x \in f.pos + 1 .. used /\ buf[x] \in Dirs
  BY DEF InBuffer
<1>5. r \in InBuffer(f) /\ \A x \in InBuffer(f) : r <= x
  <2>1. InBuffer(f) \subseteq Nat
    BY <1>2, <1>3, <1>4
  <2> QED
    BY <1>1, <2>1, LeastIn
<1>6. r \in Nat /\ sub \in Dirs /\ (IsListed(buf[r]) => sub = buf[r])
  <2>1. r \in Nat /\ buf[r] \in Dirs
    BY <1>2, <1>3, <1>4, <1>5
  <2> HIDE DEF r
  <2> QED
    BY <1>0, <2>1 DEF Opened, IsListed
<1> HIDE DEF r
<1>7. /\ Updated(stack, dir, t) /\ t[dir].read = f.read /\ t[dir].pos = r
      /\ t[dir].done = f.done /\ t[dir].idx = f.idx
  BY <1>2, <1>6, SetPos
<1>8. t[dir].id = f.id
  BY <1>7 DEF Updated
<1>9. PICK L \in SUBSET Dirs : Behind(L)
  BY DEF BehindInv
<1> HIDE DEF t
<1>10. ListOf(L, dir) /\ Inside(dir) = {}
  BY <1>2, <1>9 DEF Behind, FrameInv, Inside
<1>11. Pending(dir) = {buf[k] : k \in f.pos + 1 .. used}
  BY <1>1, <1>2 DEF Pending, Limit
<1>12. Enters(L, t[dir], sub)
  <2> SUFFICES ASSUME NEW k \in 1 .. f.read, IsListed(Tree[f.id][k])
               PROVE  \/ Tree[f.id][k] \in L \cup seen.pruned \cup {sub}
                      \/ \E j \in r + 1 .. used : Tree[f.id][k] = buf[j]
    BY <1>1, <1>7, <1>8 DEF Enters
  <2>1. Tree[f.id][k] \in L \cup seen.pruned \cup Pending(dir)
    BY <1>10 DEF ListOf
  <2>2. CASE Tree[f.id][k] \in Pending(dir)
    <3>1. PICK j \in f.pos + 1 .. used : Tree[f.id][k] = buf[j]
      BY <1>11, <2>2
    <3>2. j \in InBuffer(f)
      BY <3>1 DEF InBuffer, IsListed
    <3>3. j = r \/ j \in r + 1 .. used
      BY <1>2, <1>3, <1>5, <1>6, <3>2
    <3> QED
      BY <1>6, <3>1, <3>3
  <2> QED
    BY <2>1, <2>2
<1> QED
  BY <1>0, <1>1, <1>6, <1>7, <1>9, <1>12, PushLeaves

LEMMA GetdentsLeaves ==
    ASSUME WalkInv, AskInv, BehindInv, Getdents
    PROVE  AskInv' /\ BehindInv'
<1> DEFINE f == stack[dir]
<1>1. /\ Walking /\ opt.recursive /\ opt.online /\ InBuffer(f) = {}
      /\ UNCHANGED <<opt, name, allDone, handler>> /\ seen' = seen
  BY DEF Getdents, Reads
<1>2. /\ Last = dir /\ dir \in 1 .. Last /\ dir \in 1 .. Len(stack) /\ dir \in Nat
      /\ pc = "walk" /\ f.done /\ BufOf(stack, dir, used, buf) /\ used \in Nat
      /\ \A n \in 1 .. Last : n \in 1 .. Len(stack)
  BY <1>1 DEF WalkInv, Last, Walking
<1>3. /\ f.id \in Dirs /\ f.read \in Nat /\ f.start \in Nat /\ f.pos \in Nat
      /\ f.start <= f.pos
  BY <1>2, InUse
<1>4. Inside(dir) = {} /\ \A i \in Pending(dir) : i \notin Dirs
  BY <1>1, <1>2 DEF Inside, Pending, Limit, InBuffer
<1>5. CASE /\ \A k \in f.read + 1 .. Len(Tree[f.id]) : name[Tree[f.id][k]] # 0
           /\ Leave
  <2>1. \A k \in stack[dir].read + 1 .. Len(Tree[stack[dir].id]) :
            ~IsListed(Tree[stack[dir].id][k])
    BY <1>5 DEF IsListed
  <2> QED
    BY <1>1, <1>4, <1>5, <2>1, LeaveLeaves
<1>6. CASE /\ UNCHANGED <<size, top, dir, open, pc>> /\ used' \in Nat
           /\ Updated(stack, dir, stack')
           /\ Filled(f, stack'[dir], buf', used')
  <2>1. PICK L \in SUBSET Dirs : Behind(L)
    BY DEF BehindInv
  <2>2. Last' = Last /\ dir' = dir
    BY <1>2, <1>6 DEF Last
  <2>3. Keeps /\ (\A d \in Dirs : SameNames(d)) /\ More(L, L)
    BY <1>1, <1>6 DEF Keeps, Unattended, SameNames, More
  <2>4. /\ \A n \in 1 .. Last : n # dir => stack'[n] = stack[n]
        /\ \A n \in 1 .. Last : stack'[n].id = stack[n].id /\ stack'[n].start = stack[n].start
    BY <1>2, <1>6 DEF Updated
  <2>5. ASSUME NEW n \in 1 .. Last, n # dir PROVE FrameInv(L, n)'
    <3>1. /\ n < Last /\ n + 1 \in 1 .. Last /\ n + 1 <= dir /\ n \in Nat
      BY <1>2, <2>5
    <3>2. Inside(n)' = Inside(n)
      BY <2>2, <2>4, <3>1 DEF Inside
    <3>3. Limit(stack, Last, used, n)' = Limit(stack, Last, used, n)
      BY <2>2, <2>4, <3>1 DEF Limit
    <3>4. Limit(stack, Last, used, n) \in Nat /\ Limit(stack, Last, used, n) <= f.start
      BY <1>2, <3>1, InUse DEF Limit, BufOf
    <3>5. \A k \in stack[n].pos + 1 .. Limit(stack, Last, used, n) : buf'[k] = buf[k]
      <4> DEFINE m == Limit(stack, Last, used, n)
      <4>1. m \in Nat /\ m <= f.start /\ stack[n].pos \in Nat
        BY <3>4, InUse
      <4>2. \A k \in 1 .. f.start : buf'[k] = buf[k]
        BY <1>6 DEF Filled
      <4> HIDE DEF m, f
      <4>3. \A k \in stack[n].pos + 1 .. m : k \in 1 .. f.start
        BY <1>3, <4>1
      <4> QED
        BY <4>2, <4>3 DEF m
    <3>6. Pending(n)' = Pending(n)
      BY <1>1, <2>4, <2>5, <3>3, <3>5 DEF Pending
    <3>7. FrameInv(L, n) /\ stack[n].done /\ stack'[n] = stack[n]
      BY <2>1, <2>4, <2>5, <3>1 DEF Behind, FrameInv
    <3> QED
      BY <2>3, <3>2, <3>6, <3>7, InUse, FrameKeeps
  <2>n. PICK n \in Nat : n = dir
    BY <1>2
  <2>6. FrameInv(L, n)'
    <3>1. PICK d \in Dirs : d = f.id
      BY <1>3
    <3>2. FrameInv(L, dir)
      BY <1>2, <2>1 DEF Behind
    <3>3. Passed(d)' /\ f.idx <= Len(Tree[d])
      <4>1. Passed(d) /\ f.idx <= Len(Tree[d])
        BY <1>2, <3>1, <3>2 DEF FrameInv, NamesOf
      <4> QED
        BY <2>3, <4>1, PassedKeeps
    <3>4. /\ stack'[n].id = d /\ stack'[n].done /\ stack'[n].idx = f.idx
          /\ stack'[n].pos = f.start /\ ~(n < Last')
      <4>1. stack'[n].id = d
        BY <1>2, <2>4, <2>n, <3>1
      <4>2. stack'[n].done /\ stack'[n].idx = f.idx /\ stack'[n].pos = f.start
        BY <1>2, <1>6, <2>n DEF Filled
      <4>3. ~(n < Last')
        BY <1>2, <2>2, <2>n
      <4> QED
        BY <4>1, <4>2, <4>3
    <3>5. NamesOf(stack[n])'
      BY <3>3, <3>4 DEF NamesOf
    <3>6. Pending(n)' = {buf'[j] : j \in f.start + 1 .. used'}
      BY <1>1, <3>4 DEF Pending, Limit
    <3>7. ListOf(L, n)'
      <4> SUFFICES ASSUME NEW k \in 1 .. stack'[n].read, IsListed(Tree[d][k])'
                   PROVE  Tree[d][k] \in L \cup seen'.pruned \cup Inside(n)' \cup Pending(n)'
        BY <3>4 DEF ListOf
      <4>1. IsListed(Tree[d][k])
        BY <1>1 DEF IsListed
      <4>2. k \in Nat /\ stack'[n].read <= Len(Tree[d]) /\ stack'[n].read = stack'[dir].read
        BY <1>6, <2>n, <3>1 DEF Filled
      <4>3. CASE k <= f.read
        <5>1. k \in 1 .. f.read
          BY <1>3, <4>2, <4>3
        <5>2. Tree[d][k] \in L \cup seen.pruned \cup Inside(dir) \cup Pending(dir)
          BY <3>1, <3>2, <4>1, <5>1 DEF FrameInv, ListOf
        <5> QED
          BY <1>1, <1>4, <4>1, <5>2 DEF IsListed
      <4>4. CASE ~(k <= f.read)
        <5>1. k \in f.read + 1 .. stack'[dir].read
          BY <1>3, <4>2, <4>4
        <5>2. \E j \in f.start + 1 .. used' : Tree[d][k] = buf'[j]
          BY <1>6, <3>1, <4>1, <5>1 DEF Filled, IsListed
        <5> QED
          BY <3>6, <5>2
      <4> QED
        BY <4>3, <4>4
    <3> QED
      BY <3>4, <3>5, <3>7 DEF FrameInv
  <2>7. \A k \in 1 .. Last' : FrameInv(L, k)'
    BY <2>2, <2>5, <2>6, <2>n
  <2>8. OnStack' = OnStack
    BY <2>2, <2>4 DEF OnStack
  <2>9. ASSUME NEW d \in L \ OnStack PROVE Passed(d)' /\ WalkedFrom(L, d)'
    BY <2>1, <2>3, <2>9, PassedKeeps, WalkedKeeps DEF Behind, LeftInv
  <2>10. Behind(L)'
    BY <2>7, <2>8, <2>9 DEF Behind, LeftInv
  <2>11. EndInv(L)'
    BY <1>2, <1>6 DEF EndInv
  <2>12. AskInv'
    BY <1>1, <1>2, <1>6, AskNothing DEF AskInv
  <2> QED
    BY <2>10, <2>11, <2>12 DEF BehindInv
<1> QED
  BY <1>5, <1>6, GetdentsReads

LEMMA NothingBehind == Init => AskInv /\ BehindInv
<1> SUFFICES ASSUME Init PROVE AskInv /\ BehindInv
  OBVIOUS
<1>1. /\ stack = <<Frame(Root, 0)>> /\ top = 1 /\ pc = "next" /\ why = 0 /\ Last = 1
      /\ Root \in Dirs /\ allDone = FALSE /\ seen = Unseen
  BY TreeAssumption DEF Init, Last
<1>2. /\ stack[1].id = Root /\ ~stack[1].done /\ stack[1].idx = 0 /\ stack[1].read = 0
  BY <1>1 DEF Frame
<1>3. 1 .. 0 = {} /\ 0 <= Len(Tree[Root]) /\ \A n \in 1 .. Last : n = 1
  BY <1>1, TreeType
<1>4. FrameInv({}, 1)
  <2>1. PassedTo(Root, 0)
    BY <1>3 DEF PassedTo
  <2>2. NamesOf(stack[1])
    BY <1>2, <1>3, <2>1 DEF NamesOf
  <2>3. ListOf({}, 1)
    BY <1>2, <1>3 DEF ListOf
  <2> QED
    BY <1>1, <2>2, <2>3 DEF FrameInv
<1>5. Behind({}) /\ EndInv({}) /\ {} \in SUBSET Dirs
  BY <1>1, <1>3, <1>4 DEF Behind, LeftInv, EndInv
<1>6. seen \in SeenType
  BY <1>1, Zenon DEF Unseen, SeenType
<1>7. ~handler.has /\ ~handler.inhibit
  BY DEF Init
<1>8. AskInv
  BY <1>1, <1>6, <1>7 DEF AskInv, Repairing
<1> QED
  BY <1>5, <1>8 DEF BehindInv

LEMMA BehindNext ==
    ASSUME WalkInv, LoopInv, AskInv, BehindInv, [Next]_vars
    PROVE  AskInv' /\ BehindInv'
<1>1. CASE Program
  BY <1>1, BeginLeaves, CheckLeaves, WalkEndsLeaves, ListSubdirLeaves, NextSubdirLeaves,
     GetdentsLeaves, WalkFailsLeaves, HandleEntryLeaves, HandleDoneLeaves, ApplyLeaves,
     ApplyFailsLeaves, DestroyLeaves DEF Program
<1>2. CASE Input
  <2>1. PICK dash \in BOOLEAN :
            \/ \E cmd \in {"apply", "edit"} : InputApply(cmd, dash)
            \/ InputNext(dash)
            \/ \E cmd \in Commands \ {"apply", "edit", "next"} : InputControl(cmd, dash)
    BY <1>2, Zenon DEF Input
  <2>2. pc = "input"
    BY <1>2 DEF Input
  <2> QED
    BY <2>1, <2>2, InputApplyLeaves, InputNextLeaves, InputControlLeaves
<1>3. CASE Quit
  BY <1>3, QuitLeaves
<1>4. CASE UNCHANGED vars
  BY <1>4, StutterLeaves
<1> QED
  BY <1>1, <1>2, <1>3, <1>4 DEF Next

LEMMA BehindAlways == Spec => [](WalkInv /\ LoopInv /\ AskInv /\ BehindInv)
<1>1. Init => WalkInv /\ LoopInv /\ AskInv /\ BehindInv
  BY InvInit, NothingBehind
<1>2. /\ WalkInv /\ LoopInv /\ AskInv /\ BehindInv /\ [Next]_vars
      => (WalkInv /\ LoopInv /\ AskInv /\ BehindInv)'
  BY InvNext, BehindNext
<1> QED
  BY <1>1, <1>2, PTL DEF Spec
-----------------------------------------------------------------------------
(***************************************************************************)
(* The directories above another one: the function of the model exists,    *)
(* since the least sets that going up does not leave satisfy its equation, *)
(* and it ends at the root.                                                *)
(***************************************************************************)
Parent(d)   == CHOOSE e \in Dirs : d \in Range(Tree[e])
UpClosed(S) == \A e \in S : e # Root => Parent(e) \in S
Up(d)       == {x \in Dirs : \A S \in SUBSET Dirs : d \in S /\ UpClosed(S) => x \in S}

LEMMA ParentOf ==
    ASSUME NEW d \in Dirs \ {Root}
    PROVE  /\ Parent(d) \in Dirs /\ d \in Range(Tree[Parent(d)])
           /\ \A e \in Dirs : d \in Range(Tree[e]) => e = Parent(d)
<1>1. \E e \in Dirs : d \in Range(Tree[e])
  BY TreeAssumption DEF Items
<1>2. Parent(d) \in Dirs /\ d \in Range(Tree[Parent(d)])
  BY <1>1 DEF Parent
<1> QED
  BY <1>2, TreeAssumption

LEMMA UpEquation ==
    ASSUME NEW d \in Dirs
    PROVE  Up(d) = IF d = Root THEN {d} ELSE {d} \cup Up(Parent(d))
<1>1. d \in Up(d) /\ Up(d) \subseteq Dirs
  BY DEF Up
<1>2. CASE d = Root
  <2>1. UpClosed({Root}) /\ {Root} \in SUBSET Dirs
    BY TreeAssumption DEF UpClosed
  <2> QED
    BY <1>1, <1>2, <2>1 DEF Up
<1>3. CASE d # Root
  <2> DEFINE p == Parent(d)
             T == {d} \cup Up(p)
  <2>1. p \in Dirs
    BY <1>3, ParentOf
  <2>2. p \in Up(p) /\ Up(p) \subseteq Dirs
    BY <2>1 DEF Up
  <2>3. ASSUME NEW e \in Up(p), e # Root PROVE Parent(e) \in Up(p)
    <3>1. Parent(e) \in Dirs
      BY <2>2, <2>3, ParentOf
    <3> QED
      BY <2>3, <3>1 DEF Up, UpClosed
  <2>4. UpClosed(T) /\ T \in SUBSET Dirs
    BY <1>3, <2>2, <2>3 DEF UpClosed
  <2>5. Up(d) \subseteq T
    <3> HIDE DEF T
    <3>1. d \in T
      BY DEF T
    <3> QED
      BY <2>4, <3>1 DEF Up
  <2>6. Up(p) \subseteq Up(d)
    <3> SUFFICES ASSUME NEW x \in Up(p), NEW S \in SUBSET Dirs, d \in S, UpClosed(S)
                 PROVE  x \in S
      BY <2>2 DEF Up
    <3>1. p \in S
      BY <1>3 DEF UpClosed
    <3> QED
      BY <3>1 DEF Up
  <2> QED
    BY <1>1, <1>3, <2>5, <2>6
<1> QED
  BY <1>2, <1>3

LEMMA AboveEquation ==
    ASSUME NEW d \in Dirs
    PROVE  Above[d] = IF d = Root THEN {d} ELSE {d} \cup Above[Parent(d)]
<1> DEFINE g == [x \in Dirs |-> Up(x)]
<1>1. g = [x \in Dirs |-> IF x = Root THEN {x} ELSE {x} \cup g[Parent(x)]]
  <2>1. ASSUME NEW x \in Dirs
        PROVE  Up(x) = IF x = Root THEN {x} ELSE {x} \cup g[Parent(x)]
    <3>1. x # Root => Parent(x) \in Dirs
      BY ParentOf
    <3>2. x # Root => g[Parent(x)] = Up(Parent(x))
      BY <3>1
    <3> QED
      BY <3>2, UpEquation
  <2> QED
    BY <2>1
<1>2. g = [x \in Dirs |->
            IF x = Root THEN {x}
            ELSE {x} \cup g[CHOOSE e \in Dirs : x \in Range(Tree[e])]]
  <2> HIDE DEF g
  <2> QED
    BY <1>1 DEF Parent
<1> HIDE DEF g
<1>3. Above = [x \in Dirs |->
            IF x = Root THEN {x}
            ELSE {x} \cup Above[CHOOSE e \in Dirs : x \in Range(Tree[e])]]
  BY <1>2 DEF Above
<1> QED
  BY <1>3 DEF Parent

LEMMA RootAbove ==
    ASSUME NEW d \in Dirs
    PROVE  Root \in Above[d]
<1> DEFINE S == {x \in Dirs \ {Root} : Root \notin Above[x]}
<1>1. S = {}
  <2> SUFFICES ASSUME S # {} PROVE FALSE
    OBVIOUS
  <2>1. PICK x \in S : \E e \in Dirs \ S : x \in Range(Tree[e])
    BY BelowRootAssumption
  <2>2. PICK e \in Dirs \ S : x \in Range(Tree[e])
    BY <2>1
  <2>3. x \in Dirs \ {Root} /\ e = Parent(x)
    BY <2>2, ParentOf
  <2>4. Above[x] = {x} \cup Above[e]
    BY <2>3, AboveEquation
  <2>5. Root \in Above[e]
    <3>1. CASE e = Root
      BY <3>1, AboveEquation
    <3>2. CASE e # Root
      BY <2>2, <3>2
    <3> QED
      BY <3>1, <3>2
  <2> QED
    BY <2>4, <2>5
<1>2. Root \in Above[Root]
  BY TreeAssumption, AboveEquation
<1> QED
  BY <1>1, <1>2
-----------------------------------------------------------------------------
\* At the end, a directory that was due is through: the walk has come to it
\* from the directory above.
LEMMA DuePassed ==
    ASSUME WalkInv, AskInv, BehindInv, pc = "end", NEW d \in Dirs, Due(d)
    PROVE  Passed(d)
<1>1. PICK L \in SUBSET Dirs : Behind(L) /\ EndInv(L)
  BY DEF BehindInv
<1>2. /\ opt.recursive \/ d = Root
      /\ \A e \in Above[d] \ {Root} : name[e] = 0
      /\ Above[d] \cap seen.pruned = {}
  BY DEF Due
<1>3. Root \notin seen.pruned
  BY <1>2, RootAbove
<1>4. Last = 1 /\ stack[1].done /\ (opt.recursive => WalkedFrom(L, Root))
  BY <1>1, <1>3 DEF EndInv
<1>5. stack[1].id = Root /\ OnStack = {Root}
  BY <1>4 DEF WalkInv, PathOf, OnStack
<1>6. CASE d = Root
  <2>1. FrameInv(L, 1)
    BY <1>1, <1>4 DEF Behind
  <2> QED
    BY <1>4, <1>5, <1>6, <2>1 DEF FrameInv, NamesOf
<1>7. CASE d # Root
  <2> DEFINE Reached(x) == /\ \A e \in Above[x] \ {Root} : name[e] = 0
                           /\ Above[x] \cap seen.pruned = {}
             S == {x \in Dirs \ {Root} : Reached(x) /\ x \notin L}
  <2>1. S = {}
    <3> SUFFICES ASSUME S # {} PROVE FALSE
      OBVIOUS
    <3>1. PICK x \in S : \E e \in Dirs \ S : x \in Range(Tree[e])
      BY BelowRootAssumption
    <3>2. PICK e \in Dirs \ S : x \in Range(Tree[e])
      BY <3>1
    <3>3. x \in Dirs \ {Root} /\ e = Parent(x)
      BY <3>2, ParentOf
    <3>4. Above[x] = {x} \cup Above[e]
      BY <3>3, AboveEquation
    <3>5. Reached(e)
      BY <3>4
    <3>6. WalkedFrom(L, e)
      <4>1. CASE e = Root
        BY <1>2, <1>4, <1>7, <4>1
      <4>2. CASE e # Root
        <5>1. e \in L \ OnStack
          BY <1>5, <3>2, <3>5, <4>2
        <5> QED
          BY <1>1, <5>1 DEF Behind, LeftInv
      <4> QED
        BY <4>1, <4>2
    <3>7. IsListed(x) /\ x \notin seen.pruned /\ x \notin L
      BY <3>3, <3>4 DEF IsListed
    <3> QED
      BY <3>2, <3>6, <3>7 DEF WalkedFrom
  <2>2. d \in L \ OnStack
    BY <1>2, <1>5, <1>7, <2>1
  <2> QED
    BY <1>1, <2>2 DEF Behind, LeftInv
<1> QED
  BY <1>6, <1>7
-----------------------------------------------------------------------------
(***************************************************************************)
(* The theorems.                                                           *)
(***************************************************************************)
\* The types of the checker's state, for every tree: the stack never has more
\* frames than dir_stack was allocated for, however deep the walk goes, and no
\* position lies behind the part of the buffer that is in use.
THEOREM TypeCorrect == Spec => []TypeOK
<1>1. WalkInv /\ LoopInv => TypeOK
  <2> SUFFICES ASSUME WalkInv, LoopInv PROVE TypeOK
    OBVIOUS
  <2>1. ASSUME NEW n \in 1 .. Last PROVE stack[n].pos <= used
    <3>1. /\ Last \in 1 .. Len(stack) /\ stack \in Seq(FrameType) /\ Len(stack) \in Nat
          /\ used \in Nat /\ BufOf(stack, Last, used, buf)
      BY DEF WalkInv
    <3> DEFINE l == Last
    <3>2. l \in 1 .. Len(stack) /\ BufOf(stack, l, used, buf) /\ n \in 1 .. l
      BY <3>1
    <3> HIDE DEF l
    <3>3. stack[l].start <= stack[l].pos /\ stack[l].pos <= used
      BY <3>1, <3>2 DEF BufOf, Limit
    <3>4. stack[l].start \in Nat /\ stack[l].pos \in Nat
      BY <3>1, <3>2, FrameFields
    <3>5. CASE n = l
      BY <3>3, <3>5
    <3>6. CASE n # l
      <4>1. n + 1 \in 1 .. l /\ n + 1 \in 1 .. Len(stack) /\ n \in 1 .. Len(stack) /\ n < l
            /\ l \in 1 .. l
        BY <3>1, <3>2, <3>6
      <4>2. stack[n].pos <= stack[n + 1].start
        BY <3>2, <4>1 DEF BufOf, Limit
      <4>3. stack[n + 1].start <= stack[l].start
        BY <3>2, <4>1 DEF BufOf
      <4>4. stack[n].pos \in Nat /\ stack[n + 1].start \in Nat
        BY <3>1, <4>1, FrameFields
      <4> QED
        BY <3>1, <3>3, <3>4, <4>2, <4>3, <4>4, SMTT(30)
    <3> QED
      BY <3>5, <3>6
  <2>2. allDone \in BOOLEAN /\ ((pc = "input") = handler.expect \/ pc \in {"stopped", "ended"})
    BY Zenon DEF LoopInv
  <2>3. entry \in [id : Items \cup {Root}, faults : 0 .. MaxFaults]
    BY DEF LoopInv, EntryType
  <2> QED
    BY <2>1, <2>2, <2>3 DEF WalkInv, LoopInv, TypeOK
<1> QED
  BY <1>1, InvHolds, PTL

\* No directory is left open and none is closed twice, for every tree, whatever
\* fails and whatever the user skips: the directories on the stack are open
\* once, and none is after fsck_destroy().
THEOREM HandlesAreClosed == Spec => []HandlesMatchStack
<1>1. WalkInv => HandlesMatchStack
  <2> SUFFICES ASSUME WalkInv, NEW d \in Dirs
               PROVE  open[d] = IF pc # "ended" /\ d \in {stack[n].id : n \in 1 .. Last}
                                THEN 1 ELSE 0
    BY DEF HandlesMatchStack
  <2>1. CASE pc = "ended"
    BY <2>1 DEF WalkInv
  <2>2. CASE pc # "ended"
    <3>1. OpenOf(stack, Last, open)
      BY <2>2 DEF WalkInv
    <3> QED
      BY <2>2, <3>1 DEF OpenOf
  <2> QED
    BY <2>1, <2>2
<1> QED
  BY <1>1, InvHolds, PTL

\* The directories on the stack never read each other's entries from the
\* buffer that they share, for every tree, every size of a getdents() call and
\* any sequence of commands.
THEOREM BufferIsShared == Spec => []BufferHasOwn
<1>1. WalkInv => BufferHasOwn
  <2> SUFFICES ASSUME WalkInv, NEW n \in 1 .. Last
               PROVE  LET f     == stack[n]
                          limit == IF n < Last THEN stack[n + 1].start ELSE used
                      IN  /\ f.start <= f.pos /\ f.pos <= limit
                          /\ \A k \in f.pos + 1 .. limit :
                                \E m \in 1 .. f.read : buf[k] = Tree[f.id][m]
    BY DEF BufferHasOwn
  <2>1. BufOf(stack, Last, used, buf)
    BY DEF WalkInv
  <2> DEFINE limit == Limit(stack, Last, used, n)
  <2>2. /\ stack[n].start <= stack[n].pos /\ stack[n].pos <= limit
        /\ \A k \in stack[n].pos + 1 .. limit : ReadBy(stack[n], buf[k])
    BY <2>1 DEF BufOf
  <2> QED
    BY <2>2 DEF Limit, ReadBy
<1> QED
  BY <1>1, InvHolds, PTL

\* Whatever the user skips, rewinds or resets: when fsck says that it is
\* through, it has examined every name of every directory that was due, for
\* every tree of directories, both walks and every size of a getdents() call.
\* (The exception of AllExamined is that of ResetExaminesAll.)
THEOREM DueIsExamined == Spec => []AllExamined
<1>1. WalkInv /\ LoopInv /\ AskInv /\ BehindInv => AllExamined
  BY DuePassed DEF AllExamined, Due, Passed, Exempt
<1> QED
  BY <1>1, BehindAlways, PTL

\* A repair that nobody interrupts leaves no malformed name in the directories
\* that are due, for every tree, whether or not APPLY refuses and stores names
\* that are taken: no name that it refused is passed over, and none of those that
\* it stored for two entries is malformed for either.
THEOREM RepairsAreComplete == Spec => []RepairIsComplete
<1>1. WalkInv /\ LoopInv /\ AskInv /\ BehindInv => RepairIsComplete
  BY DuePassed DEF RepairIsComplete, Passed, Unattended
<1> QED
  BY <1>1, BehindAlways, PTL
===============================================================================
