---------------------------- MODULE HashmapProofs -----------------------------
(***************************************************************************)
(* Proofs about Hashmap, for every set of entries and keys, every hash     *)
(* function, every width of words and every range of table sizes: searches *)
(* are exact, each entry is in one bucket, and a table's entries fit into  *)
(* the next larger one.                                                    *)
(***************************************************************************)
EXTENDS Hashmap, Integers, FiniteSetTheorems, TLAPS

(***************************************************************************)
(* Naturals, and what is computed step by step.                            *)
(***************************************************************************)
\* A set of naturals has a least element.
LEMMA NatMin ==
    ASSUME NEW T, T \subseteq Nat, T # {}
    PROVE  \E x \in T : \A y \in T : x <= y
<1>1. IsWellFoundedOn(OpToRel(<, Nat), Nat)
  BY NatLessThanWellFounded
<1>2. PICK x \in T : \A y \in T : ~(<<y, x>> \in OpToRel(<, Nat))
  BY <1>1, WFMin
<1>3. \A y \in T : ~(y < x)
  BY <1>2 DEF OpToRel
<1> QED
  BY <1>3

\* Induction, over a set.
LEMMA NatSteps ==
    ASSUME NEW T, 0 \in T, \A n \in Nat : n \in T => n + 1 \in T
    PROVE  Nat \subseteq T
<1> DEFINE S == Nat \ T
<1> SUFFICES ASSUME S # {} PROVE FALSE
  OBVIOUS
<1>1. PICK x \in S : \A y \in S : x <= y
  BY NatMin
<1>2. x # 0 /\ x - 1 \in Nat
  BY <1>1
<1>3. x - 1 \in T
  BY <1>1, <1>2
<1> QED
  BY <1>1, <1>2, <1>3

\* A function that is defined by its value at 0 and from one number to the next
\* exists, and has the values that each step leads to.
LEMMA StepsExist ==
    ASSUME NEW I, NEW start, NEW next,
           start \in I[0],
           \A n \in Nat : \A s \in I[n] : next[<<n, s>>] \in I[n + 1]
    PROVE  \E g : /\ g = [n \in Nat |-> g[n]]
                  /\ g[0] = start
                  /\ \A n \in Nat : g[n] \in I[n] /\ g[n + 1] = next[<<n, g[n]>>]
<1> DEFINE U == UNION {I[n] : n \in Nat}
           Chain(c, n) == /\ c[0] = start
                          /\ \A i \in 0 .. n - 1 : c[i + 1] = next[<<i, c[i]>>]
                          /\ \A i \in 0 .. n : c[i] \in I[i]
           Chains(n) == {c \in [Nat -> U] : Chain(c, n)}
           T == {n \in Nat : Chains(n) # {}}
<1>1. 0 \in T
  <2>1. start \in U
    OBVIOUS
  <2> DEFINE c == [i \in Nat |-> start]
  <2>2. c \in Chains(0)
    BY <2>1
  <2> QED
    BY <2>2
<1>2. ASSUME NEW n \in Nat, n \in T PROVE n + 1 \in T
  <2>1. PICK c \in [Nat -> U] : Chain(c, n)
    BY <1>2
  <2> DEFINE v == next[<<n, c[n]>>]
             d == [c EXCEPT ![n + 1] = v]
  <2>2. v \in I[n + 1] /\ v \in U
    BY <2>1
  <2> HIDE DEF v
  <2>3. d \in [Nat -> U] /\ d[n + 1] = v /\ \A i \in 0 .. n : d[i] = c[i]
    BY <2>2
  <2> HIDE DEF d
  <2>4. Chain(d, n + 1)
    <3>1. \A i \in 0 .. n + 1 : i \in 0 .. n \/ i = n + 1
      OBVIOUS
    <3>2. ASSUME NEW i \in 0 .. n PROVE d[i + 1] = next[<<i, d[i]>>]
      <4>1. CASE i = n
        BY <2>3, <4>1 DEF v
      <4>2. CASE i # n
        BY <2>1, <2>3, <4>2
      <4> QED
        BY <4>1, <4>2
    <3>3. \A i \in 0 .. n + 1 - 1 : d[i + 1] = next[<<i, d[i]>>]
      BY <3>2
    <3>4. \A i \in 0 .. n : d[i] \in I[i]
      BY <2>1, <2>3
    <3>5. \A i \in 0 .. n + 1 : d[i] \in I[i]
      BY <2>2, <2>3, <3>1, <3>4
    <3>6. d[0] = start
      BY <2>1, <2>3
    <3> QED
      BY <3>3, <3>5, <3>6
  <2>5. n + 1 \in Nat
    OBVIOUS
  <2> HIDE DEF Chain
  <2>6. d \in Chains(n + 1)
    BY <2>3, <2>4
  <2> HIDE DEF Chains
  <2> QED
    BY <2>5, <2>6
<1>3. Nat \subseteq T
  <2> HIDE DEF T
  <2> QED
    BY <1>1, <1>2, NatSteps
<1> DEFINE pick(n) == CHOOSE c \in [Nat -> U] : Chain(c, n)
           g == [n \in Nat |-> pick(n)[n]]
<1>4. \A n \in Nat : pick(n) \in [Nat -> U] /\ Chain(pick(n), n)
  <2> SUFFICES ASSUME NEW n \in Nat
               PROVE  pick(n) \in [Nat -> U] /\ Chain(pick(n), n)
    OBVIOUS
  <2>1. \E c \in [Nat -> U] : Chain(c, n)
    BY <1>3
  <2> HIDE DEF Chain, U
  <2> QED
    BY <2>1
<1> HIDE DEF pick
\* Two chains have the same values as far as both go.
<1>5. ASSUME NEW c, NEW d, NEW n \in Nat, Chain(c, n), Chain(d, n + 1)
      PROVE  c[n] = d[n]
  <2> DEFINE S == {i \in Nat : i <= n => c[i] = d[i]}
  <2>1. 0 \in S
    BY <1>5
  <2>2. ASSUME NEW i \in Nat, i \in S PROVE i + 1 \in S
    <3> SUFFICES ASSUME i + 1 <= n PROVE c[i + 1] = d[i + 1]
      OBVIOUS
    <3>1. i \in 0 .. n - 1 /\ i \in 0 .. n + 1 - 1 /\ c[i] = d[i]
      BY <2>2
    <3>2. c[i + 1] = next[<<i, c[i]>>]
      BY <1>5, <3>1
    <3>3. d[i + 1] = next[<<i, d[i]>>]
      BY <1>5, <3>1
    <3> QED
      BY <3>1, <3>2, <3>3
  <2> HIDE DEF S
  <2>3. Nat \subseteq S
    BY <2>1, <2>2, NatSteps
  <2>4. n \in S
    BY <2>3
  <2>5. n <= n => c[n] = d[n]
    BY <2>4 DEF S
  <2> QED
    BY <2>5
<1>6. ASSUME NEW n \in Nat PROVE g[n + 1] = next[<<n, g[n]>>]
  <2>1. Chain(pick(n), n) /\ Chain(pick(n + 1), n + 1)
    <3> HIDE DEF Chain
    <3>1. n + 1 \in Nat
      OBVIOUS
    <3> QED
      BY <1>4, <3>1
  <2>2. pick(n)[n] = pick(n + 1)[n]
    BY <1>5, <2>1
  <2>3. n \in 0 .. n + 1 - 1
    OBVIOUS
  <2>4. pick(n + 1)[n + 1] = next[<<n, pick(n + 1)[n]>>]
    BY <2>1, <2>3
  <2> QED
    BY <2>2, <2>4
<1>7. g[0] = start /\ \A n \in Nat : g[n] \in I[n]
  BY <1>4
<1> HIDE DEF g
<1>8. g = [n \in Nat |-> g[n]]
  BY DEF g
<1> QED
  BY <1>6, <1>7, <1>8

\* The powers of two.
LEMMA TwoToDef ==
    /\ TwoTo[0] = 1
    /\ \A n \in Nat : TwoTo[n] \in Nat \ {0} /\ TwoTo[n + 1] = 2 * TwoTo[n]
<1> DEFINE I == [n \in Nat |-> Nat \ {0}]
           next == [x \in Nat \X Nat |-> 2 * x[2]]
           Eq(f) == f = [n \in Nat |-> IF n = 0 THEN 1 ELSE 2 * f[n - 1]]
<1>1. 1 \in I[0]
  OBVIOUS
<1>2. \A n \in Nat : \A s \in I[n] : next[<<n, s>>] \in I[n + 1]
  OBVIOUS
<1>3. \A n \in Nat, s \in Nat : next[<<n, s>>] = 2 * s
  OBVIOUS
<1>4. PICK g : /\ g = [n \in Nat |-> g[n]]
               /\ g[0] = 1
               /\ \A n \in Nat : g[n] \in I[n] /\ g[n + 1] = next[<<n, g[n]>>]
  <2> HIDE DEF I, next
  <2> QED
    BY <1>1, <1>2, StepsExist
<1>6. \A n \in Nat : g[n] \in Nat \ {0}
  BY <1>4
<1>7. \A n \in Nat : n # 0 => g[n] = 2 * g[n - 1]
  <2> SUFFICES ASSUME NEW n \in Nat, n # 0 PROVE g[n] = 2 * g[n - 1]
    OBVIOUS
  <2>1. n - 1 \in Nat /\ (n - 1) + 1 = n
    OBVIOUS
  <2>2. g[(n - 1) + 1] = next[<<n - 1, g[n - 1]>>]
    BY <1>4, <2>1
  <2> QED
    BY <1>3, <1>6, <2>1, <2>2
<1>8. Eq(g)
  <2> HIDE DEF next, I
  <2> QED
    BY <1>4, <1>7
<1>9. Eq(TwoTo)
  <2>1. TwoTo = CHOOSE f : Eq(f)
    BY DEF TwoTo
  <2>2. \E f : Eq(f)
    BY <1>8
  <2> HIDE DEF Eq
  <2> QED
    BY <2>1, <2>2
<1>10. TwoTo[0] = 1 /\ \A n \in Nat : TwoTo[n + 1] = 2 * TwoTo[n]
  <2>1. ASSUME NEW n \in Nat PROVE TwoTo[n + 1] = 2 * TwoTo[n]
    <3>1. n + 1 \in Nat /\ n + 1 # 0 /\ (n + 1) - 1 = n
      OBVIOUS
    <3>2. TwoTo[n + 1] = 2 * TwoTo[(n + 1) - 1]
      BY <1>9, <3>1
    <3> QED
      BY <3>1, <3>2
  <2>2. TwoTo[0] = 1
    BY <1>9
  <2> QED
    BY <2>1, <2>2
<1> DEFINE R == {n \in Nat : TwoTo[n] \in Nat \ {0}}
<1>11. 0 \in R /\ \A n \in Nat : n \in R => n + 1 \in R
  BY <1>10
<1>12. Nat \subseteq R
  <2> HIDE DEF R
  <2> QED
    BY <1>11, NatSteps
<1> QED
  BY <1>10, <1>12

LEMMA TwoToSum ==
    ASSUME NEW m \in Nat, NEW n \in Nat
    PROVE  TwoTo[m + n] = TwoTo[m] * TwoTo[n]
<1> DEFINE T == {i \in Nat : TwoTo[m + i] = TwoTo[m] * TwoTo[i]}
<1>1. 0 \in T
  BY TwoToDef
<1>2. ASSUME NEW i \in Nat, i \in T PROVE i + 1 \in T
  <2>1. m + i \in Nat /\ m + (i + 1) = (m + i) + 1
    OBVIOUS
  <2>2. TwoTo[m + (i + 1)] = 2 * TwoTo[m + i]
    BY <2>1, TwoToDef
  <2>3. TwoTo[m] * (2 * TwoTo[i]) = 2 * (TwoTo[m] * TwoTo[i])
    <3>1. TwoTo[m] \in Nat /\ TwoTo[i] \in Nat
      BY TwoToDef
    <3>2. \A x, y \in Nat : x * (2 * y) = 2 * (x * y)
      OBVIOUS
    <3> QED
      BY <3>1, <3>2
  <2> QED
    BY <1>2, <2>2, <2>3, TwoToDef
<1> HIDE DEF T
<1>3. n \in T
  BY <1>1, <1>2, NatSteps
<1> QED
  BY <1>3 DEF T

\* A home bucket, and what is left of the hash code, for a code of the width.
LEMMA HomeType ==
    ASSUME NEW h \in 0 .. TwoTo[WordSize] - 1, NEW exp \in 1 .. WordSize
    PROVE  /\ HashToIdx(h, exp) \in 0 .. TwoTo[exp] - 1
           /\ Fragment(h, exp) \in 0 .. TwoTo[WordSize] - 1
<1> DEFINE d == TwoTo[WordSize - exp]
           x == TwoTo[exp]
<1>1. WordSize \in Nat /\ WordSize - exp \in Nat /\ exp \in Nat
  BY ExpAssumption
<1>2. d \in Nat /\ d > 0 /\ x \in Nat /\ x > 0 /\ TwoTo[WordSize] = d * x
  <2>1. (WordSize - exp) + exp = WordSize
    BY <1>1
  <2>2. TwoTo[(WordSize - exp) + exp] = TwoTo[WordSize - exp] * TwoTo[exp]
    BY <1>1, TwoToSum
  <2>3. TwoTo[WordSize - exp] \in Nat \ {0} /\ TwoTo[exp] \in Nat \ {0}
    BY <1>1, TwoToDef
  <2> QED
    BY <2>1, <2>2, <2>3
<1>3. h \in Nat /\ h < d * x
  BY <1>2
<1> HIDE DEF d, x
<1>4. h \div d \in Nat /\ h \div d < x
  BY <1>2, <1>3
<1>5. h % d \in Nat /\ h % d < d * x
  <2>1. d <= d * x
    BY <1>2
  <2>2. h % d \in 0 .. d - 1
    BY <1>2, <1>3
  <2> QED
    BY <1>2, <2>1, <2>2
<1>6. d * x \in Nat
  BY <1>2
<1> QED
  BY <1>2, <1>4, <1>5, <1>6 DEF d, x, HashToIdx, Fragment

\* A table of twice the size has two home buckets for each one.
LEMMA HomeDoubles ==
    ASSUME NEW h \in 0 .. TwoTo[WordSize] - 1, NEW exp \in 1 .. WordSize - 1
    PROVE  /\ HashToIdx(h, exp) \in Nat /\ HashToIdx(h, exp + 1) \in Nat
           /\ 2 * HashToIdx(h, exp) <= HashToIdx(h, exp + 1)
           /\ HashToIdx(h, exp + 1) <= 2 * HashToIdx(h, exp) + 1
<1> DEFINE d == TwoTo[WordSize - (exp + 1)]
           p == h \div d
           q == h \div (2 * d)
<1>1. WordSize \in Nat /\ exp \in Nat /\ WordSize - (exp + 1) \in Nat
      /\ (WordSize - (exp + 1)) + 1 = WordSize - exp
  BY ExpAssumption
<1>2. d \in Nat \ {0} /\ TwoTo[WordSize - exp] = 2 * d /\ h \in Nat
  <2>1. TwoTo[(WordSize - (exp + 1)) + 1] = 2 * TwoTo[WordSize - (exp + 1)]
    BY <1>1, TwoToDef
  <2>2. TwoTo[WordSize] \in Nat /\ d \in Nat \ {0}
    BY <1>1, TwoToDef
  <2> QED
    BY <1>1, <2>1, <2>2
<1>3. HashToIdx(h, exp) = q /\ HashToIdx(h, exp + 1) = p
  BY <1>2 DEF HashToIdx
<1> HIDE DEF d
<1>4. p \in Nat /\ q \in Nat
  BY <1>2
<1>5. d * p <= h /\ h < d * (p + 1)
  <2>1. d \in Nat /\ d > 0
    BY <1>2
  <2> QED
    BY <1>2, <2>1
<1>6. (2 * d) * q <= h /\ h < (2 * d) * (q + 1)
  <2>1. 2 * d \in Nat /\ 2 * d > 0
    BY <1>2
  <2> QED
    BY <1>2, <2>1
<1> HIDE DEF p, q
<1>7. (2 * d) * q = d * (2 * q) /\ (2 * d) * (q + 1) = d * (2 * q + 2)
  BY <1>2, <1>4
<1>8. d * (2 * q) < d * (p + 1) /\ d * p < d * (2 * q + 2)
  <2>1. d * (2 * q) \in Nat /\ d * (p + 1) \in Nat /\ d * p \in Nat /\ d * (2 * q + 2) \in Nat
    BY <1>2, <1>4
  <2> QED
    BY <1>2, <1>5, <1>6, <1>7, <2>1
<1>9. \A x, y, z \in Nat : x * y < x * z => y < z
  OBVIOUS
<1>10. 2 * q < p + 1 /\ p < 2 * q + 2
  <2>1. d \in Nat /\ 2 * q \in Nat /\ p + 1 \in Nat /\ 2 * q + 2 \in Nat
    BY <1>2, <1>4
  <2> QED
    BY <1>4, <1>8, <1>9, <2>1
<1> QED
  BY <1>3, <1>4, <1>10
-----------------------------------------------------------------------------
(***************************************************************************)
(* What a table keeps.  P are the entries in it, codes their hash codes;   *)
(* H has the bucket that is about to be written, if there is one: nothing  *)
(* leads to it, and what it holds does not count.                          *)
(***************************************************************************)
Exps == ExpMin .. ExpMax

Cells(exp) == 0 .. BucketCnt(exp) - 1

Buckets(exp) == {t \in [Cells(exp) -> Bucket] :
                    \A i \in Cells(exp) : t[i].hop \subseteq 0 .. exp - 1}

Coded(P, codes) == P \subseteq Entries /\ \A e \in P : codes[e] \in HashCodes

\* A bit leads to an entry that has its home there.
BitsLead(t, exp, codes, P, H) ==
    \A i \in Cells(exp) : \A m \in t[i].hop :
        /\ i + m \in Cells(exp) \ H
        /\ t[i + m].entry \in P
        /\ HashToIdx(codes[t[i + m].entry], exp) = i
        /\ t[i + m].frag = Fragment(codes[t[i + m].entry], exp)

\* An entry in a bucket has a bit that leads to it.
EntriesLed(t, exp, codes, P, H) ==
    \A j \in Cells(exp) \ H : t[j].entry # NoEntry =>
        /\ t[j].entry \in P
        /\ \E m \in t[HashToIdx(codes[t[j].entry], exp)].hop :
              j = HashToIdx(codes[t[j].entry], exp) + m

\* Each entry is in one bucket.
EntriesOnce(t, exp, P, H) ==
    /\ \A e \in P : \E j \in Cells(exp) \ H : t[j].entry = e
    /\ \A i, j \in Cells(exp) \ H :
            t[i].entry = t[j].entry => i = j \/ t[i].entry = NoEntry

Keeps(t, exp, codes, P, H) ==
    /\ t \in Buckets(exp)
    /\ BitsLead(t, exp, codes, P, H)
    /\ EntriesLed(t, exp, codes, P, H)
    /\ EntriesOnce(t, exp, P, H)

LEMMA ExpType ==
    ASSUME NEW exp \in Exps
    PROVE  /\ exp \in Nat /\ exp > 1 /\ exp \in 1 .. WordSize
           /\ BucketCnt(exp) \in Nat /\ BucketCnt(exp) > exp
           /\ TwoTo[exp] - 1 + exp - 1 = BucketCnt(exp) - 1
<1>1. exp \in Nat /\ exp > 1 /\ exp \in 1 .. WordSize
  BY ExpAssumption DEF Exps
<1>2. TwoTo[exp] \in Nat \ {0} /\ TwoTo[exp - 1] \in Nat \ {0} /\ exp - 1 \in Nat
  BY <1>1, TwoToDef
<1>3. TwoTo[exp] = 2 * TwoTo[exp - 1]
  <2>1. (exp - 1) + 1 = exp
    BY <1>1
  <2> QED
    BY <1>2, <2>1, TwoToDef
<1> QED
  BY <1>1, <1>2, <1>3 DEF BucketCnt

LEMMA HomeInTable ==
    ASSUME NEW exp \in Exps, NEW h \in HashCodes
    PROVE  /\ HashToIdx(h, exp) \in Cells(exp)
           /\ HashToIdx(h, exp) \in Nat
           /\ HashToIdx(h, exp) + exp <= BucketCnt(exp)
           /\ \A m \in 0 .. exp - 1 : HashToIdx(h, exp) + m \in Cells(exp)
           /\ Fragment(h, exp) \in 0 .. TwoTo[WordSize] - 1
<1>1. h \in 0 .. TwoTo[WordSize] - 1
  BY HashAssumption
<1>2. /\ HashToIdx(h, exp) \in 0 .. TwoTo[exp] - 1
      /\ Fragment(h, exp) \in 0 .. TwoTo[WordSize] - 1
  BY <1>1, ExpType, HomeType
<1>3. TwoTo[exp] \in Nat
  BY ExpType, TwoToDef
<1> QED
  BY <1>2, <1>3, ExpType DEF Cells

LEMMA LowestIn ==
    ASSUME NEW S, S \subseteq Nat, S # {}
    PROVE  Lowest(S) \in S /\ \A x \in S : Lowest(S) <= x
BY NatMin DEF Lowest

LEMMA BucketType ==
    ASSUME NEW exp \in Exps, NEW t \in Buckets(exp), NEW i \in Cells(exp)
    PROVE  /\ t \in [Cells(exp) -> Bucket] /\ t[i] \in Bucket
           /\ t[i].hop \subseteq 0 .. exp - 1 /\ t[i].hop \subseteq Nat
           /\ t[i].hop \subseteq 0 .. ExpMax - 1
           /\ t[i].frag \in 0 .. TwoTo[WordSize] - 1
           /\ t[i].entry \in Entries \cup {NoEntry}
           /\ i \in Nat
<1>1. /\ t \in [Cells(exp) -> Bucket] /\ t[i] \in Bucket /\ i \in Nat
      /\ t[i].hop \subseteq 0 .. exp - 1
  BY DEF Buckets, Cells
<1> QED
  BY <1>1, ExpType DEF Bucket
-----------------------------------------------------------------------------
\* What a displacement writes: the first entry of home swp goes to bucket b.
LEMMA MovedBuckets ==
    ASSUME NEW exp \in Exps, NEW t \in Buckets(exp),
           NEW b \in Cells(exp), exp <= b, NEW swp \in Movable(t, b, exp)
    PROVE  LET hop  == Lowest(t[swp].hop)
               from == swp + hop
               u    == Moved(t, swp, b)
           IN /\ swp \in Cells(exp) /\ hop \in t[swp].hop /\ hop \in Nat
              /\ from \in Cells(exp) /\ swp <= from /\ from < b
              /\ b - swp \in 1 .. exp - 1
              /\ u \in Buckets(exp)
              /\ u[swp].hop = (t[swp].hop \cup {b - swp}) \ {hop}
              /\ \A i \in Cells(exp) \ {swp} : u[i].hop = t[i].hop
              /\ u[b].frag = t[from].frag /\ u[b].entry = t[from].entry
              /\ \A i \in Cells(exp) \ {b} :
                    u[i].frag = t[i].frag /\ u[i].entry = t[i].entry
<1> DEFINE hop  == Lowest(t[swp].hop)
           from == swp + hop
           new  == (t[swp].hop \cup {b - swp}) \ {hop}
           u    == Moved(t, swp, b)
<1>1. /\ exp \in Nat /\ exp > 1 /\ b \in Nat /\ BucketCnt(exp) \in Nat
  BY ExpType DEF Cells
<1>2. /\ swp \in b - (exp - 1) .. b - 1
      /\ \E m \in t[swp].hop : swp + m < b
  BY DEF Movable
<1>3. swp \in Cells(exp) /\ swp \in Nat /\ b - swp \in 1 .. exp - 1
  BY <1>1, <1>2 DEF Cells
<1>4. hop \in t[swp].hop /\ hop \in Nat /\ \A m \in t[swp].hop : hop <= m
  BY <1>2, <1>3, BucketType, LowestIn
<1>5. from < b /\ swp <= from /\ from \in Cells(exp) /\ swp # b
  <2>1. PICK m \in t[swp].hop : swp + m < b
    BY <1>2
  <2>2. m \in Nat
    BY <1>3, <2>1, BucketType
  <2> QED
    BY <1>1, <1>3, <1>4, <2>1, <2>2 DEF Cells
<1> HIDE DEF hop, from
<1>6. u = [t EXCEPT ![swp].hop = new, ![b].frag = t[from].frag, ![b].entry = t[from].entry]
  BY DEF Moved, hop, from
<1>7. t \in [Cells(exp) -> Bucket] /\ t[b] \in Bucket /\ t[swp] \in Bucket
  BY <1>3, BucketType
<1> DEFINE d == t[from].frag
           e == t[from].entry
<1>8. /\ d \in 0 .. TwoTo[WordSize] - 1
      /\ e \in Entries \cup {NoEntry}
  BY <1>5, BucketType
<1> HIDE DEF d, e
<1>9. new \subseteq 0 .. exp - 1 /\ new \subseteq 0 .. ExpMax - 1
  <2>1. t[swp].hop \subseteq 0 .. exp - 1
    BY <1>3, BucketType
  <2>2. new \subseteq 0 .. exp - 1
    BY <1>1, <1>3, <2>1
  <2>3. exp <= ExpMax /\ ExpMax \in Nat
    BY ExpAssumption DEF Exps
  <2> HIDE DEF new
  <2> QED
    BY <1>1, <2>2, <2>3
<1> HIDE DEF new
<1>10. u = [t EXCEPT ![swp] = [t[swp] EXCEPT !.hop = new],
                     ![b] = [t[b] EXCEPT !.frag = d, !.entry = e]]
  BY <1>3, <1>5, <1>6, <1>7 DEF d, e
<1> HIDE DEF u
<1> DEFINE x == [t[swp] EXCEPT !.hop = new]
           y == [t[b] EXCEPT !.frag = d, !.entry = e]
<1>11. x \in Bucket /\ x.hop = new /\ x.frag = t[swp].frag /\ x.entry = t[swp].entry
  BY <1>7, <1>9 DEF Bucket
<1>12. y \in Bucket /\ y.hop = t[b].hop /\ y.frag = d /\ y.entry = e
  BY <1>7, <1>8 DEF Bucket
<1>13. u = [t EXCEPT ![swp] = x, ![b] = y]
  BY <1>10
<1> HIDE DEF x, y
<1>14. /\ u \in [Cells(exp) -> Bucket] /\ u[swp] = x /\ u[b] = y
       /\ \A i \in Cells(exp) \ {swp, b} : u[i] = t[i]
  BY <1>3, <1>5, <1>7, <1>11, <1>12, <1>13
<1>15. \A i \in Cells(exp) \ {swp} : u[i].hop = t[i].hop
  BY <1>5, <1>12, <1>14
<1>16. \A i \in Cells(exp) : t[i].hop \subseteq 0 .. exp - 1
  BY DEF Buckets
<1>17. \A i \in Cells(exp) : u[i].hop \subseteq 0 .. exp - 1
  BY <1>9, <1>11, <1>14, <1>15, <1>16
<1>18. u \in Buckets(exp)
  BY <1>14, <1>17 DEF Buckets
<1>19. \A i \in Cells(exp) \ {b} : u[i].frag = t[i].frag /\ u[i].entry = t[i].entry
  BY <1>11, <1>14
<1> QED
  BY <1>3, <1>4, <1>5, <1>11, <1>12, <1>14, <1>15, <1>18, <1>19
     DEF hop, from, new, u, d, e

\* A displacement moves one entry, and leaves its bucket free.
LEMMA MovedKeeps ==
    ASSUME NEW exp \in Exps, NEW P, NEW codes, Coded(P, codes),
           NEW b \in Cells(exp), exp <= b, NEW t, Keeps(t, exp, codes, P, {b}),
           NEW swp \in Movable(t, b, exp)
    PROVE  Keeps(Moved(t, swp, b), exp, codes, P, {swp + Lowest(t[swp].hop)})
<1> DEFINE hop  == Lowest(t[swp].hop)
           from == swp + hop
           u    == Moved(t, swp, b)
<1>0. /\ t \in Buckets(exp) /\ BitsLead(t, exp, codes, P, {b})
      /\ EntriesLed(t, exp, codes, P, {b}) /\ EntriesOnce(t, exp, P, {b})
  BY DEF Keeps
<1>1. /\ swp \in Cells(exp) /\ hop \in t[swp].hop /\ hop \in Nat
      /\ from \in Cells(exp) /\ swp <= from /\ from < b
      /\ b - swp \in 1 .. exp - 1
      /\ u \in Buckets(exp)
      /\ u[swp].hop = (t[swp].hop \cup {b - swp}) \ {hop}
      /\ \A i \in Cells(exp) \ {swp} : u[i].hop = t[i].hop
      /\ u[b].frag = t[from].frag /\ u[b].entry = t[from].entry
      /\ \A i \in Cells(exp) \ {b} :
            u[i].frag = t[i].frag /\ u[i].entry = t[i].entry
  BY <1>0, MovedBuckets
<1>2. b \in Nat /\ swp \in Nat /\ swp + (b - swp) = b /\ from = swp + hop
  BY <1>1 DEF Cells
<1> HIDE DEF hop, from, u
<1> DEFINE e    == t[from].entry
           home(x) == HashToIdx(codes[x], exp)
<1>3. /\ e \in P /\ home(e) = swp /\ t[from].frag = Fragment(codes[e], exp)
      /\ e # NoEntry
  BY <1>0, <1>1, <1>2, NoneAssumption DEF BitsLead, Coded
<1>4. \A i \in Cells(exp) : \A m \in t[i].hop : m \in Nat /\ i \in Nat
  BY <1>0, BucketType
<1>5. BitsLead(u, exp, codes, P, {from})
  <2> SUFFICES ASSUME NEW i \in Cells(exp), NEW m \in u[i].hop
               PROVE  /\ i + m \in Cells(exp) \ {from}
                      /\ u[i + m].entry \in P
                      /\ home(u[i + m].entry) = i
                      /\ u[i + m].frag = Fragment(codes[u[i + m].entry], exp)
    BY DEF BitsLead
  <2>1. CASE i = swp /\ m = b - swp
    BY <1>1, <1>2, <1>3, <2>1
  <2>2. CASE ~(i = swp /\ m = b - swp)
    <3>1. m \in t[i].hop /\ (i = swp => m # hop)
      BY <1>1, <2>2
    <3>2. /\ i + m \in Cells(exp) \ {b} /\ t[i + m].entry \in P
          /\ home(t[i + m].entry) = i
          /\ t[i + m].frag = Fragment(codes[t[i + m].entry], exp)
      BY <1>0, <3>1 DEF BitsLead
    <3>3. i + m # from
      <4>1. ASSUME i + m = from PROVE FALSE
        <5>1. i = swp
          BY <1>3, <3>2, <4>1
        <5> QED
          BY <1>1, <1>2, <1>4, <3>1, <4>1, <5>1
      <4> QED
        BY <4>1
    <3> QED
      BY <1>1, <3>2, <3>3
  <2> QED
    BY <2>1, <2>2
<1>6. EntriesLed(u, exp, codes, P, {from})
  <2> SUFFICES ASSUME NEW j \in Cells(exp) \ {from}, u[j].entry # NoEntry
               PROVE  /\ u[j].entry \in P
                      /\ \E m \in u[home(u[j].entry)].hop : j = home(u[j].entry) + m
    BY DEF EntriesLed
  <2>1. CASE j = b
    <3>1. u[j].entry = e /\ b - swp \in u[swp].hop
      <4>1. b - swp # hop
        BY <1>1, <1>2
      <4> QED
        BY <1>1, <2>1, <4>1
    <3> QED
      BY <1>2, <1>3, <2>1, <3>1
  <2>2. CASE j # b
    <3>1. u[j].entry = t[j].entry
      BY <1>1, <2>2
    <3>2. t[j].entry \in P /\ \E m \in t[home(t[j].entry)].hop : j = home(t[j].entry) + m
      BY <1>0, <2>2, <3>1 DEF EntriesLed
    <3>3. PICK m \in t[home(t[j].entry)].hop : j = home(t[j].entry) + m
      BY <3>2
    <3>4. home(t[j].entry) \in Cells(exp)
      BY <3>2, HomeInTable DEF Coded
    <3>5. m \in u[home(t[j].entry)].hop
      <4>1. CASE home(t[j].entry) = swp
        <5>1. m # hop
          BY <1>2, <3>3, <4>1
        <5> QED
          BY <1>1, <3>3, <4>1, <5>1
      <4>2. CASE home(t[j].entry) # swp
        BY <1>1, <3>3, <3>4, <4>2
      <4> QED
        BY <4>1, <4>2
    <3> QED
      BY <3>1, <3>2, <3>3, <3>5
  <2> QED
    BY <2>1, <2>2
<1>7. EntriesOnce(u, exp, P, {from})
  <2>1. from # b /\ b \in Cells(exp) /\ from \in Cells(exp)
    BY <1>1, <1>2
  <2>2. ASSUME NEW x \in P PROVE \E j \in Cells(exp) \ {from} : u[j].entry = x
    <3>1. PICK j \in Cells(exp) \ {b} : t[j].entry = x
      BY <1>0 DEF EntriesOnce
    <3>2. CASE j = from
      BY <1>1, <2>1, <3>1, <3>2
    <3>3. CASE j # from
      BY <1>1, <3>1, <3>3
    <3> QED
      BY <3>2, <3>3
  <2>3. ASSUME NEW i \in Cells(exp) \ {from}, NEW j \in Cells(exp) \ {from},
               u[i].entry = u[j].entry, u[i].entry # NoEntry
        PROVE  i = j
    <3>1. ASSUME NEW k \in Cells(exp) \ {b, from} PROVE u[k].entry = t[k].entry /\ t[k].entry # e
      <4>1. t[k].entry = t[from].entry => k = from \/ t[k].entry = NoEntry
        BY <1>0, <2>1, <3>1 DEF EntriesOnce
      <4> QED
        BY <1>1, <1>3, <3>1, <4>1
    <3>2. u[b].entry = e
      BY <1>1
    <3>3. i # b /\ j # b => i = j
      <4> SUFFICES ASSUME i # b, j # b PROVE i = j
        OBVIOUS
      <4>1. t[i].entry = t[j].entry /\ t[i].entry # NoEntry
        BY <2>3, <3>1
      <4> QED
        BY <1>0, <4>1 DEF EntriesOnce
    <3> QED
      BY <2>3, <3>1, <3>2, <3>3
  <2> QED
    BY <2>2, <2>3 DEF EntriesOnce
<1>8. u \in Buckets(exp)
  BY <1>1
<1> QED
  BY <1>5, <1>6, <1>7, <1>8 DEF Keeps, u, from, hop

\* What the end of an insertion writes.
LEMMA PlacedBuckets ==
    ASSUME NEW exp \in Exps, NEW t \in Buckets(exp), NEW e \in Entries,
           NEW h \in HashCodes, NEW b \in Cells(exp),
           b - HashToIdx(h, exp) \in 0 .. exp - 1
    PROVE  LET i0 == HashToIdx(h, exp)
               u  == Placed(t, i0, b, e, h, exp)
           IN /\ u \in Buckets(exp)
              /\ u[i0].hop = t[i0].hop \cup {b - i0}
              /\ \A i \in Cells(exp) \ {i0} : u[i].hop = t[i].hop
              /\ u[b].frag = Fragment(h, exp) /\ u[b].entry = e
              /\ \A i \in Cells(exp) \ {b} :
                    u[i].frag = t[i].frag /\ u[i].entry = t[i].entry
<1> DEFINE i0  == HashToIdx(h, exp)
           f   == Fragment(h, exp)
           new == t[i0].hop \cup {b - i0}
           u   == Placed(t, i0, b, e, h, exp)
<1>1. /\ i0 \in Cells(exp) /\ i0 \in Nat /\ f \in 0 .. TwoTo[WordSize] - 1
      /\ b \in Nat /\ exp \in Nat /\ e # NoEntry
  BY HomeInTable, ExpType, NoneAssumption DEF Cells
<1>2. /\ t \in [Cells(exp) -> Bucket] /\ t[i0] \in Bucket /\ t[b] \in Bucket
      /\ t[i0].hop \subseteq 0 .. exp - 1
  BY <1>1, BucketType
<1>3. new \subseteq 0 .. exp - 1 /\ new \subseteq 0 .. ExpMax - 1
  <2>1. new \subseteq 0 .. exp - 1
    BY <1>2
  <2>2. exp <= ExpMax /\ ExpMax \in Nat
    BY ExpAssumption DEF Exps
  <2> HIDE DEF new
  <2> QED
    BY <1>1, <2>1, <2>2
<1> DEFINE x == [t[i0] EXCEPT !.hop = new]
           v == [t EXCEPT ![i0] = x]
           y == [v[b] EXCEPT !.frag = f, !.entry = e]
<1>4. u = [v EXCEPT ![b] = y]
  BY <1>1, <1>2 DEF Placed
<1> HIDE DEF i0, f, new, u
<1>5. x \in Bucket /\ x.hop = new /\ x.frag = t[i0].frag /\ x.entry = t[i0].entry
  BY <1>2, <1>3 DEF Bucket
<1> HIDE DEF x
<1>6. /\ v \in [Cells(exp) -> Bucket] /\ v[i0] = x /\ v[b] \in Bucket
      /\ \A i \in Cells(exp) \ {i0} : v[i] = t[i]
  BY <1>1, <1>2, <1>5
<1> HIDE DEF v
<1>7. y \in Bucket /\ y.hop = v[b].hop /\ y.frag = f /\ y.entry = e
  BY <1>1, <1>6 DEF Bucket
<1> HIDE DEF y
<1>8. /\ u \in [Cells(exp) -> Bucket] /\ u[b] = y
      /\ \A i \in Cells(exp) \ {b} : u[i] = v[i]
  BY <1>4, <1>6, <1>7
<1>9. /\ u[i0].hop = new
      /\ \A i \in Cells(exp) \ {i0} : u[i].hop = t[i].hop
      /\ u[b].frag = f /\ u[b].entry = e
      /\ \A i \in Cells(exp) \ {b} :
            u[i].frag = t[i].frag /\ u[i].entry = t[i].entry
  BY <1>1, <1>5, <1>6, <1>7, <1>8
<1>10. u \in Buckets(exp)
  <2>1. \A i \in Cells(exp) : t[i].hop \subseteq 0 .. exp - 1
    BY DEF Buckets
  <2>2. \A i \in Cells(exp) : u[i].hop \subseteq 0 .. exp - 1
    BY <1>3, <1>9, <2>1
  <2> QED
    BY <1>8, <2>2 DEF Buckets
<1> QED
  BY <1>9, <1>10, Zenon DEF u, new, f, i0

\* A new entry goes to the bucket that has been made free.
LEMMA PlacedKeeps ==
    ASSUME NEW exp \in Exps, NEW P, NEW codes, Coded(P, codes),
           NEW e \in Entries \ P, NEW h \in HashCodes, codes[e] = h,
           NEW b \in Cells(exp), NEW t, Keeps(t, exp, codes, P, {b}),
           b - HashToIdx(h, exp) \in 0 .. exp - 1
    PROVE  Keeps(Placed(t, HashToIdx(h, exp), b, e, h, exp), exp, codes, P \cup {e}, {})
<1> DEFINE i0  == HashToIdx(h, exp)
           f   == Fragment(h, exp)
           u   == Placed(t, i0, b, e, h, exp)
           home(x) == HashToIdx(codes[x], exp)
<1>0. /\ t \in Buckets(exp) /\ BitsLead(t, exp, codes, P, {b})
      /\ EntriesLed(t, exp, codes, P, {b}) /\ EntriesOnce(t, exp, P, {b})
  BY DEF Keeps
<1>1. i0 \in Cells(exp) /\ i0 \in Nat /\ b \in Nat /\ e # NoEntry
  BY HomeInTable, NoneAssumption DEF Cells
<1>2. i0 + (b - i0) = b /\ home(e) = i0
  BY <1>1
<1>3. /\ u \in Buckets(exp)
      /\ u[i0].hop = t[i0].hop \cup {b - i0}
      /\ \A i \in Cells(exp) \ {i0} : u[i].hop = t[i].hop
      /\ u[b].frag = f /\ u[b].entry = e
      /\ \A i \in Cells(exp) \ {b} :
            u[i].frag = t[i].frag /\ u[i].entry = t[i].entry
  BY <1>0, PlacedBuckets
<1> HIDE DEF i0, f, u
<1>4. BitsLead(u, exp, codes, P \cup {e}, {})
  <2> SUFFICES ASSUME NEW i \in Cells(exp), NEW m \in u[i].hop
               PROVE  /\ i + m \in Cells(exp)
                      /\ u[i + m].entry \in P \cup {e}
                      /\ home(u[i + m].entry) = i
                      /\ u[i + m].frag = Fragment(codes[u[i + m].entry], exp)
    BY DEF BitsLead
  <2>1. CASE i = i0 /\ m = b - i0
    BY <1>2, <1>3, <2>1 DEF f
  <2>2. CASE ~(i = i0 /\ m = b - i0)
    <3>1. m \in t[i].hop
      BY <1>3, <2>2
    <3>2. /\ i + m \in Cells(exp) \ {b} /\ t[i + m].entry \in P
          /\ home(t[i + m].entry) = i
          /\ t[i + m].frag = Fragment(codes[t[i + m].entry], exp)
      BY <1>0, <3>1 DEF BitsLead
    <3> QED
      BY <1>3, <3>2
  <2> QED
    BY <2>1, <2>2
<1>5. EntriesLed(u, exp, codes, P \cup {e}, {})
  <2> SUFFICES ASSUME NEW j \in Cells(exp), u[j].entry # NoEntry
               PROVE  /\ u[j].entry \in P \cup {e}
                      /\ \E m \in u[home(u[j].entry)].hop : j = home(u[j].entry) + m
    BY DEF EntriesLed
  <2>1. CASE j = b
    <3>1. u[j].entry = e /\ b - i0 \in u[i0].hop
      BY <1>3, <2>1
    <3> QED
      BY <1>2, <2>1, <3>1
  <2>2. CASE j # b
    <3>1. u[j].entry = t[j].entry
      BY <1>3, <2>2
    <3>2. t[j].entry \in P /\ \E m \in t[home(t[j].entry)].hop : j = home(t[j].entry) + m
      BY <1>0, <2>2, <3>1 DEF EntriesLed
    <3>3. PICK m \in t[home(t[j].entry)].hop : j = home(t[j].entry) + m
      BY <3>2
    <3>4. home(t[j].entry) \in Cells(exp)
      BY <3>2, HomeInTable DEF Coded
    <3>5. m \in u[home(t[j].entry)].hop
      BY <1>3, <3>3, <3>4
    <3> QED
      BY <3>1, <3>2, <3>3, <3>5
  <2> QED
    BY <2>1, <2>2
<1>6. EntriesOnce(u, exp, P \cup {e}, {})
  <2>1. \A j \in Cells(exp) \ {b} : t[j].entry # e
    BY <1>0, <1>1 DEF EntriesLed
  <2>2. ASSUME NEW z \in P \cup {e} PROVE \E j \in Cells(exp) : u[j].entry = z
    BY <1>0, <1>3, <2>2 DEF EntriesOnce
  <2>3. ASSUME NEW i \in Cells(exp), NEW j \in Cells(exp),
               u[i].entry = u[j].entry, u[i].entry # NoEntry
        PROVE  i = j
    <3>1. i # b /\ j # b => i = j
      BY <1>0, <1>3, <2>3 DEF EntriesOnce
    <3> QED
      BY <1>3, <2>1, <2>3, <3>1
  <2> QED
    BY <2>2, <2>3 DEF EntriesOnce
<1> QED
  BY <1>3, <1>4, <1>5, <1>6 DEF Keeps, u, i0

\* An empty bucket may be written.
LEMMA FreeKeeps ==
    ASSUME NEW exp \in Exps, NEW P, NEW codes, Coded(P, codes),
           NEW t, Keeps(t, exp, codes, P, {}),
           NEW b \in Cells(exp), t[b].entry = NoEntry
    PROVE  Keeps(t, exp, codes, P, {b})
<1>1. NoEntry \notin P
  BY NoneAssumption DEF Coded
<1>2. BitsLead(t, exp, codes, P, {b})
  BY <1>1 DEF Keeps, BitsLead
<1>3. EntriesLed(t, exp, codes, P, {b}) /\ EntriesOnce(t, exp, P, {b})
  BY <1>1 DEF Keeps, EntriesLed, EntriesOnce
<1> QED
  BY <1>2, <1>3 DEF Keeps

\* The bucket is made empty when nothing can go there.
LEMMA GivenUpKeeps ==
    ASSUME NEW exp \in Exps, NEW P, NEW codes, Coded(P, codes),
           NEW b \in Cells(exp), NEW t, Keeps(t, exp, codes, P, {b})
    PROVE  Keeps([t EXCEPT ![b].entry = NoEntry], exp, codes, P, {})
<1> DEFINE u == [t EXCEPT ![b].entry = NoEntry]
           y == [t[b] EXCEPT !.entry = NoEntry]
<1>0. /\ t \in Buckets(exp) /\ BitsLead(t, exp, codes, P, {b})
      /\ EntriesLed(t, exp, codes, P, {b}) /\ EntriesOnce(t, exp, P, {b})
  BY DEF Keeps
<1>1. t \in [Cells(exp) -> Bucket] /\ t[b] \in Bucket
  BY <1>0, BucketType
<1>2. y \in Bucket /\ y.hop = t[b].hop /\ y.frag = t[b].frag /\ y.entry = NoEntry
  BY <1>1 DEF Bucket
<1>3. u = [t EXCEPT ![b] = y]
  BY <1>1
<1> HIDE DEF y, u
<1>4. /\ u \in [Cells(exp) -> Bucket]
      /\ \A i \in Cells(exp) : u[i].hop = t[i].hop
      /\ u[b].entry = NoEntry
      /\ \A i \in Cells(exp) \ {b} : u[i].frag = t[i].frag /\ u[i].entry = t[i].entry
  BY <1>1, <1>2, <1>3
<1>5. u \in Buckets(exp)
  BY <1>0, <1>4 DEF Buckets
<1>6. BitsLead(u, exp, codes, P, {})
  BY <1>0, <1>4 DEF BitsLead
<1>7. EntriesLed(u, exp, codes, P, {})
  <2> SUFFICES ASSUME NEW j \in Cells(exp), u[j].entry # NoEntry
               PROVE  /\ u[j].entry \in P
                      /\ \E m \in u[HashToIdx(codes[u[j].entry], exp)].hop :
                            j = HashToIdx(codes[u[j].entry], exp) + m
    BY DEF EntriesLed
  <2>1. j # b /\ u[j].entry = t[j].entry
    BY <1>4
  <2>2. /\ t[j].entry \in P
        /\ \E m \in t[HashToIdx(codes[t[j].entry], exp)].hop :
              j = HashToIdx(codes[t[j].entry], exp) + m
    BY <1>0, <2>1 DEF EntriesLed
  <2>3. HashToIdx(codes[t[j].entry], exp) \in Cells(exp)
    BY <2>2, HomeInTable DEF Coded
  <2> QED
    BY <1>4, <2>1, <2>2, <2>3
<1>8. EntriesOnce(u, exp, P, {})
  BY <1>0, <1>4 DEF EntriesOnce
<1> QED
  BY <1>5, <1>6, <1>7, <1>8 DEF Keeps, u

(***************************************************************************)
(* make_room(): after n swaps, from bucket b0.                             *)
(***************************************************************************)
RoomStates(exp) == [t : Buckets(exp), ok : BOOLEAN, b : Cells(exp)]

Making(s, home, exp, codes, P, n, b0) ==
    /\ s \in RoomStates(exp)
    /\ s.ok => /\ Keeps(s.t, exp, codes, P, {s.b})
               /\ home <= s.b
               /\ s.b < home + exp \/ s.b + n <= b0
    /\ ~s.ok => Keeps(s.t, exp, codes, P, {})

LEMMA SwapMaking ==
    ASSUME NEW exp \in Exps, NEW P, NEW codes, Coded(P, codes),
           NEW home \in Cells(exp), NEW n \in Nat, NEW b0 \in Nat,
           NEW s, Making(s, home, exp, codes, P, n, b0)
    PROVE  Making(Swap(s, home, exp), home, exp, codes, P, n + 1, b0)
<1> DEFINE r    == Swap(s, home, exp)
           swps == Movable(s.t, s.b, exp)
           swp  == Lowest(swps)
<1>1. /\ s.t \in Buckets(exp) /\ s.ok \in BOOLEAN /\ s.b \in Cells(exp)
      /\ s \in RoomStates(exp)
  BY DEF Making, RoomStates
<1>2. exp \in Nat /\ exp > 1 /\ home \in Nat /\ s.b \in Nat
  BY <1>1, ExpType DEF Cells
<1>3. CASE ~s.ok \/ s.b < home + exp
  <2>1. r = s
    BY <1>3 DEF Swap
  <2> HIDE DEF r
  <2> QED
    BY <1>2, <1>3, <2>1 DEF Making, r
<1>4. CASE s.ok /\ ~(s.b < home + exp)
  <2>1. Keeps(s.t, exp, codes, P, {s.b}) /\ s.b + n <= b0 /\ exp <= s.b
    BY <1>2, <1>4 DEF Making
  <2>2. CASE swps = {}
    <3>1. r = [s EXCEPT !.t[s.b].entry = NoEntry, !.ok = FALSE]
      BY <1>4, <2>2 DEF Swap
    <3> DEFINE u == [s.t EXCEPT ![s.b].entry = NoEntry]
    <3>2. Keeps(u, exp, codes, P, {})
      BY <1>1, <2>1, GivenUpKeeps
    <3>3. r.t = u /\ r.ok = FALSE /\ r.b = s.b /\ r = [t |-> u, ok |-> FALSE, b |-> s.b]
      BY <1>1, <3>1 DEF RoomStates
    <3>4. u \in Buckets(exp)
      BY <3>2 DEF Keeps
    <3> HIDE DEF r, u
    <3> QED
      BY <1>1, <3>2, <3>3, <3>4 DEF Making, RoomStates, r
  <2>3. CASE swps # {}
    <3> DEFINE from == swp + Lowest(s.t[swp].hop)
               u    == Moved(s.t, swp, s.b)
    <3>1. r = [t |-> u, ok |-> TRUE, b |-> from]
      BY <1>4, <2>3 DEF Swap
    <3>2. swps \subseteq Nat
      BY <1>2, <2>1 DEF Movable
    <3>3. swp \in swps
      BY <2>3, <3>2, LowestIn
    <3> HIDE DEF swp, swps
    <3>4. /\ u \in Buckets(exp) /\ from \in Cells(exp) /\ from < s.b /\ swp <= from
          /\ s.b - swp \in 1 .. exp - 1 /\ swp \in Cells(exp)
      BY <1>1, <2>1, <3>3, MovedBuckets DEF swps
    <3>5. Keeps(u, exp, codes, P, {from})
      BY <1>1, <2>1, <3>3, MovedKeeps DEF swps
    <3> HIDE DEF from, u
    <3>6. home <= from /\ from + (n + 1) <= b0
      BY <1>2, <1>4, <2>1, <3>4 DEF Cells
    <3> HIDE DEF r
    <3> QED
      BY <3>1, <3>4, <3>5, <3>6 DEF Making, RoomStates, r
  <2> QED
    BY <2>2, <2>3
<1> QED
  BY <1>1, <1>3, <1>4

LEMMA SwapsMaking ==
    ASSUME NEW exp \in Exps, NEW P, NEW codes, Coded(P, codes),
           NEW home \in Cells(exp), NEW b0 \in Nat,
           NEW s, Making(s, home, exp, codes, P, 0, b0)
    PROVE  LET f == Swaps(s, home, exp)
           IN /\ f[0] = s
              /\ \A n \in Nat : /\ Making(f[n], home, exp, codes, P, n, b0)
                               /\ f[n + 1] = Swap(f[n], home, exp)
<1> DEFINE Inv(x, k) == Making(x, home, exp, codes, P, k, b0)
           I == [k \in Nat |-> {x \in RoomStates(exp) : Inv(x, k)}]
           next == [x \in Nat \X RoomStates(exp) |-> Swap(x[2], home, exp)]
           f  == Swaps(s, home, exp)
           Eq(g) == g = [k \in Nat |-> IF k = 0 THEN s ELSE Swap(g[k - 1], home, exp)]
<1> HIDE DEF f
<1>1. \A k \in Nat : \A x : x \in I[k] <=> Inv(x, k)
  BY DEF Making
<1>2. s \in I[0]
  BY <1>1
<1>3. \A k \in Nat : \A x : Inv(x, k) => Inv(Swap(x, home, exp), k + 1)
  BY SwapMaking
<1>4. \A k \in Nat : \A x : Inv(x, k) => next[<<k, x>>] = Swap(x, home, exp)
  BY DEF Making
<1> HIDE DEF Inv, I, next
<1>5. ASSUME NEW k \in Nat, NEW x \in I[k] PROVE next[<<k, x>>] \in I[k + 1]
  <2>1. Inv(x, k)
    BY <1>1
  <2>2. Inv(Swap(x, home, exp), k + 1) /\ next[<<k, x>>] = Swap(x, home, exp)
    BY <1>3, <1>4, <2>1
  <2>3. k + 1 \in Nat
    OBVIOUS
  <2> QED
    BY <1>1, <2>2, <2>3
<1>6. PICK g : /\ g = [k \in Nat |-> g[k]]
               /\ g[0] = s
               /\ \A k \in Nat : g[k] \in I[k] /\ g[k + 1] = next[<<k, g[k]>>]
  BY <1>2, <1>5, StepsExist
<1>7. \A k \in Nat : k # 0 => g[k] = Swap(g[k - 1], home, exp)
  <2> SUFFICES ASSUME NEW k \in Nat, k # 0 PROVE g[k] = Swap(g[k - 1], home, exp)
    OBVIOUS
  <2>1. k - 1 \in Nat /\ (k - 1) + 1 = k
    OBVIOUS
  <2>2. g[k - 1] \in I[k - 1] /\ g[(k - 1) + 1] = next[<<k - 1, g[k - 1]>>]
    BY <1>6, <2>1
  <2> QED
    BY <1>1, <1>4, <2>1, <2>2
<1>8. Eq(g)
  BY <1>6, <1>7
<1>9. Eq(f)
  <2>1. f = CHOOSE x : Eq(x)
    BY DEF f, Swaps
  <2> HIDE DEF Eq
  <2> QED
    BY <1>8, <2>1
<1> DEFINE T == {k \in Nat : Inv(f[k], k)}
<1>10. 0 \in T
  BY <1>1, <1>2, <1>9
<1>11. ASSUME NEW k \in Nat PROVE f[k + 1] = Swap(f[k], home, exp)
  <2>1. k + 1 \in Nat /\ k + 1 # 0 /\ (k + 1) - 1 = k
    OBVIOUS
  <2>2. f[k + 1] = Swap(f[(k + 1) - 1], home, exp)
    BY <1>9, <2>1
  <2> QED
    BY <2>1, <2>2
<1>12. ASSUME NEW k \in Nat, k \in T PROVE k + 1 \in T
  <2>1. k + 1 \in Nat
    OBVIOUS
  <2> QED
    BY <1>3, <1>11, <1>12, <2>1
<1> HIDE DEF T
<1>13. \A n \in Nat : n \in T
  BY <1>10, <1>12, NatSteps
<1>14. f[0] = s
  BY <1>9
<1> QED
  BY <1>11, <1>13, <1>14 DEF T, Inv, f

\* A bucket of home's is free to be written, or the table keeps what it has.
LEMMA MakeRoomKeeps ==
    ASSUME NEW exp \in Exps, NEW P, NEW codes, Coded(P, codes),
           NEW t, Keeps(t, exp, codes, P, {}), NEW h \in HashCodes
    PROVE  LET home == HashToIdx(h, exp)
               r    == MakeRoom(t, home, exp)
           IN /\ r.ok \in BOOLEAN
              /\ r.ok => /\ Keeps(r.t, exp, codes, P, {r.b})
                         /\ r.b \in Cells(exp) /\ r.b - home \in 0 .. exp - 1
              /\ ~r.ok => Keeps(r.t, exp, codes, P, {})
<1> DEFINE home == HashToIdx(h, exp)
           r    == MakeRoom(t, home, exp)
           free == {b \in home .. BucketCnt(exp) - 1 : t[b].entry = NoEntry}
           b0   == Lowest(free)
           s    == [t |-> t, ok |-> TRUE, b |-> b0]
<1>1. home \in Cells(exp) /\ home \in Nat /\ exp \in Nat /\ exp > 1 /\ BucketCnt(exp) \in Nat
  BY HomeInTable, ExpType
<1> HIDE DEF home
<1>2. CASE free = {}
  <2>1. r = [t |-> t, ok |-> FALSE, b |-> 0]
    BY <1>2 DEF MakeRoom
  <2> HIDE DEF r
  <2> QED
    BY <2>1 DEF r, home
<1>3. CASE free # {}
  <2>1. r = Swaps(s, home, exp)[b0]
    BY <1>3 DEF MakeRoom
  <2>2. free \subseteq Nat
    BY <1>1
  <2>3. b0 \in free
    BY <1>3, <2>2, LowestIn
  <2> HIDE DEF b0
  <2>4. b0 \in Cells(exp) /\ b0 \in Nat /\ home <= b0 /\ t[b0].entry = NoEntry
    BY <1>1, <2>3 DEF Cells
  <2>5. Keeps(t, exp, codes, P, {b0}) /\ t \in Buckets(exp)
    BY <2>4, FreeKeeps DEF Keeps
  <2>6. Making(s, home, exp, codes, P, 0, b0)
    BY <2>4, <2>5 DEF Making, RoomStates
  <2> HIDE DEF s
  <2>7. Making(r, home, exp, codes, P, b0, b0)
    BY <1>1, <2>1, <2>4, <2>6, SwapsMaking
  <2> HIDE DEF r
  <2>8. r.ok \in BOOLEAN /\ r.b \in Cells(exp) /\ r.b \in Nat
    BY <2>7 DEF Making, RoomStates, Cells
  <2>9. r.ok => Keeps(r.t, exp, codes, P, {r.b}) /\ r.b - home \in 0 .. exp - 1
    BY <1>1, <2>4, <2>7, <2>8 DEF Making
  <2>10. ~r.ok => Keeps(r.t, exp, codes, P, {})
    BY <2>7 DEF Making
  <2> QED
    BY <2>8, <2>9, <2>10 DEF r, home
<1> QED
  BY <1>2, <1>3
-----------------------------------------------------------------------------
\* Only the hash codes of the entries in a table matter.
LEMMA CodesAgree ==
    ASSUME NEW exp \in Exps, NEW P, NEW codes, NEW other, NEW t,
           Keeps(t, exp, codes, P, {}), \A e \in P : other[e] = codes[e]
    PROVE  Keeps(t, exp, other, P, {})
<1>1. BitsLead(t, exp, other, P, {})
  BY DEF Keeps, BitsLead
<1>2. EntriesLed(t, exp, other, P, {})
  BY DEF Keeps, EntriesLed
<1> QED
  BY <1>1, <1>2 DEF Keeps

LEMMA EmptyKeeps ==
    ASSUME NEW exp \in Exps, NEW codes
    PROVE  Keeps(EmptyBuckets(exp), exp, codes, {}, {})
<1> DEFINE t == EmptyBuckets(exp)
<1>1. TwoTo[WordSize] - 1 \in Nat /\ 0 \in 0 .. TwoTo[WordSize] - 1
  BY ExpAssumption, TwoToDef
<1>2. EmptyBucket \in Bucket /\ EmptyBucket.hop = {} /\ EmptyBucket.entry = NoEntry
  BY <1>1 DEF EmptyBucket, Bucket
<1>3. t = [i \in Cells(exp) |-> EmptyBucket]
  BY DEF EmptyBuckets, Cells
<1> HIDE DEF t
<1>4. t \in Buckets(exp)
  BY <1>2, <1>3 DEF Buckets
<1> QED
  BY <1>2, <1>3, <1>4 DEF Keeps, BitsLead, EntriesLed, EntriesOnce, t
-----------------------------------------------------------------------------
(***************************************************************************)
(* struct hashmap, with its entries P.                                     *)
(***************************************************************************)
Tables == [exp : Exps, used : Nat, buckets : UNION {Buckets(exp) : exp \in Exps}]

Holds(t, codes, P) ==
    /\ t \in Tables
    /\ Keeps(t.buckets, t.exp, codes, P, {})
    /\ IsFiniteSet(P) /\ t.used = Cardinality(P)

\* An entry goes, with its bit.
LEMMA ClearedHolds ==
    ASSUME NEW P, NEW codes, Coded(P, codes), NEW t, Holds(t, codes, P),
           NEW i \in Cells(t.exp), NEW m \in t.buckets[i].hop
    PROVE  /\ t.buckets[i + m].entry \in P
           /\ Holds(Cleared(t, i, m), codes, P \ {t.buckets[i + m].entry})
           /\ Cleared(t, i, m).exp = t.exp
<1> DEFINE exp == t.exp
           old == t.buckets
           j   == i + m
           e   == old[j].entry
           c   == Cleared(t, i, m)
           new == old[i].hop \ {m}
           x == [old[i] EXCEPT !.hop = new]
           v == [old EXCEPT ![i] = x]
           y == [v[j] EXCEPT !.entry = NoEntry]
           u == [v EXCEPT ![j] = y]
           home(z) == HashToIdx(codes[z], exp)
<1>0. /\ t \in Tables /\ exp \in Exps /\ t.used \in Nat /\ old \in Buckets(exp)
      /\ BitsLead(old, exp, codes, P, {}) /\ EntriesLed(old, exp, codes, P, {})
      /\ EntriesOnce(old, exp, P, {}) /\ IsFiniteSet(P) /\ t.used = Cardinality(P)
  BY DEF Holds, Keeps, Tables
<1>1. c = [t EXCEPT !.buckets[i].hop = @ \ {m}, !.buckets[j].entry = NoEntry, !.used = @ - 1]
  BY DEF Cleared
<1> HIDE DEF c
<1>2. /\ j \in Cells(exp) /\ e \in P /\ home(e) = i
  BY <1>0 DEF BitsLead
<1>3. /\ old \in [Cells(exp) -> Bucket] /\ old[i] \in Bucket
      /\ new \subseteq 0 .. exp - 1 /\ new \subseteq 0 .. ExpMax - 1
      /\ \A k \in Cells(exp) : old[k].hop \subseteq Nat /\ k \in Nat
  BY <1>0, BucketType
<1>4. c = [exp |-> exp, used |-> t.used - 1, buckets |-> u]
  BY <1>0, <1>1, <1>2, <1>3 DEF Tables
<1> HIDE DEF exp, old, j, e
<1>5. i \in Cells(exp)
  BY DEF exp
<1>6. x \in Bucket /\ x.hop = new /\ x.frag = old[i].frag /\ x.entry = old[i].entry
  BY <1>3 DEF Bucket
<1> HIDE DEF new, x
<1>7. /\ v \in [Cells(exp) -> Bucket] /\ v[i] = x /\ v[j] \in Bucket
      /\ \A k \in Cells(exp) \ {i} : v[k] = old[k]
  BY <1>2, <1>3, <1>6 DEF exp
<1> HIDE DEF v
<1>8. y \in Bucket /\ y.hop = v[j].hop /\ y.frag = v[j].frag /\ y.entry = NoEntry
  BY <1>7 DEF Bucket
<1> HIDE DEF y
<1>9. /\ u \in [Cells(exp) -> Bucket] /\ u[j] = y
      /\ \A k \in Cells(exp) \ {j} : u[k] = v[k]
  BY <1>2, <1>7, <1>8
<1> HIDE DEF u
<1>10. /\ u[i].hop = old[i].hop \ {m}
       /\ \A k \in Cells(exp) \ {i} : u[k].hop = old[k].hop
       /\ u[j].entry = NoEntry
       /\ \A k \in Cells(exp) \ {j} : u[k].entry = old[k].entry
       /\ \A k \in Cells(exp) : u[k].frag = old[k].frag
  BY <1>2, <1>6, <1>7, <1>8, <1>9, <1>5 DEF new
<1>11. u \in Buckets(exp)
  <2>1. \A k \in Cells(exp) : old[k].hop \subseteq 0 .. exp - 1
    BY <1>0 DEF Buckets
  <2>2. \A k \in Cells(exp) : u[k].hop \subseteq 0 .. exp - 1
    BY <1>10, <1>5, <2>1
  <2> QED
    BY <1>9, <2>2 DEF Buckets
<1>12. \A k \in Cells(exp) : k # j => old[k].entry # e
  BY <1>0, <1>2, NoneAssumption DEF EntriesOnce, Coded, e
<1>13. BitsLead(u, exp, codes, P \ {e}, {})
  <2> SUFFICES ASSUME NEW k \in Cells(exp), NEW n \in u[k].hop
               PROVE  /\ k + n \in Cells(exp)
                      /\ u[k + n].entry \in P \ {e}
                      /\ home(u[k + n].entry) = k
                      /\ u[k + n].frag = Fragment(codes[u[k + n].entry], exp)
    BY DEF BitsLead
  <2>1. n \in old[k].hop /\ (k = i => n # m)
    BY <1>10
  <2>2. /\ k + n \in Cells(exp) /\ old[k + n].entry \in P
        /\ home(old[k + n].entry) = k
        /\ old[k + n].frag = Fragment(codes[old[k + n].entry], exp)
    BY <1>0, <2>1 DEF BitsLead
  <2>3. k + n # j
    <3> SUFFICES ASSUME k + n = j PROVE FALSE
      OBVIOUS
    <3>1. k = i
      BY <1>2, <2>2 DEF e
    <3>2. m \in Nat /\ n \in Nat /\ i \in Nat
      BY <1>3, <1>5, <2>1 DEF old
    <3> QED
      BY <2>1, <3>1, <3>2 DEF j
  <2> QED
    BY <1>10, <1>12, <2>2, <2>3
<1>14. EntriesLed(u, exp, codes, P \ {e}, {})
  <2> SUFFICES ASSUME NEW k \in Cells(exp), u[k].entry # NoEntry
               PROVE  /\ u[k].entry \in P \ {e}
                      /\ \E n \in u[home(u[k].entry)].hop : k = home(u[k].entry) + n
    BY DEF EntriesLed
  <2>1. k # j /\ u[k].entry = old[k].entry
    BY <1>10
  <2>2. old[k].entry \in P /\ \E n \in old[home(old[k].entry)].hop : k = home(old[k].entry) + n
    BY <1>0, <2>1 DEF EntriesLed
  <2>3. PICK n \in old[home(old[k].entry)].hop : k = home(old[k].entry) + n
    BY <2>2
  <2>4. home(old[k].entry) \in Cells(exp)
    BY <1>0, <2>2, HomeInTable DEF Coded
  <2>5. n \in u[home(old[k].entry)].hop
    <3>1. home(old[k].entry) = i => n # m
      BY <2>1, <2>3 DEF j
    <3> QED
      BY <1>10, <2>3, <2>4, <3>1
  <2> QED
    BY <1>12, <2>1, <2>2, <2>3, <2>5
<1>15. EntriesOnce(u, exp, P \ {e}, {})
  <2>1. ASSUME NEW z \in P \ {e} PROVE \E k \in Cells(exp) : u[k].entry = z
    <3>1. PICK k \in Cells(exp) : old[k].entry = z
      BY <1>0 DEF EntriesOnce
    <3>2. k # j
      BY <3>1 DEF e
    <3> QED
      BY <1>10, <3>1, <3>2
  <2>2. ASSUME NEW k \in Cells(exp), NEW l \in Cells(exp),
               u[k].entry = u[l].entry, u[k].entry # NoEntry
        PROVE  k = l
    <3>1. k # j /\ l # j
      BY <1>10, <2>2
    <3> QED
      BY <1>0, <1>10, <2>2, <3>1 DEF EntriesOnce
  <2> QED
    BY <2>1, <2>2 DEF EntriesOnce
<1>16. IsFiniteSet(P \ {e}) /\ Cardinality(P \ {e}) = t.used - 1 /\ t.used - 1 \in Nat
  <2>1. /\ IsFiniteSet(P \ {e}) /\ Cardinality(P \ {e}) = Cardinality(P) - 1
    BY <1>0, <1>2, FS_RemoveElement
  <2>2. Cardinality(P \ {e}) \in Nat
    BY <2>1, FS_CardinalityType
  <2> QED
    BY <1>0, <2>1, <2>2
<1>17. c \in Tables /\ c.exp = exp /\ c.buckets = u /\ c.used = t.used - 1
  BY <1>0, <1>4, <1>11, <1>16 DEF Tables, exp
<1>18. Holds(c, codes, P \ {e})
  BY <1>11, <1>13, <1>14, <1>15, <1>16, <1>17 DEF Holds, Keeps
<1> QED
  BY <1>2, <1>17, <1>18 DEF c, e, old, j, exp
-----------------------------------------------------------------------------
(***************************************************************************)
(* rehash(): after the first n buckets of t.                               *)
(***************************************************************************)
AddedUpTo(t, n) == {t.buckets[i].entry : i \in 0 .. n - 1} \ {NoEntry}

AddStates(exp) == [ok : BOOLEAN, buckets : Buckets(exp)]

Adding(s, t, exp, codes, n) ==
    /\ s \in AddStates(exp)
    /\ s.ok => Keeps(s.buckets, exp, codes, AddedUpTo(t, n), {})

LEMMA ReaddedAdding ==
    ASSUME NEW P, NEW codes, Coded(P, codes), NEW t, Holds(t, codes, P),
           NEW exp \in Exps, NEW n \in Cells(t.exp),
           NEW s, Adding(s, t, exp, codes, n)
    PROVE  Adding(Readded(s, t.buckets[n].entry, exp, codes), t, exp, codes, n + 1)
<1> DEFINE e    == t.buckets[n].entry
           r    == Readded(s, e, exp, codes)
           home == HashToIdx(codes[e], exp)
           room == MakeRoom(s.buckets, home, exp)
           Q    == AddedUpTo(t, n)
<1>1. s \in AddStates(exp) /\ s.ok \in BOOLEAN /\ s.buckets \in Buckets(exp)
  BY DEF Adding, AddStates
<1>2. /\ t.exp \in Exps /\ t.buckets \in Buckets(t.exp)
      /\ EntriesLed(t.buckets, t.exp, codes, P, {}) /\ EntriesOnce(t.buckets, t.exp, P, {})
  BY DEF Holds, Keeps, Tables
<1>3. n \in Nat /\ 0 .. n - 1 \subseteq Cells(t.exp)
  BY <1>2, ExpType DEF Cells
<1>4. AddedUpTo(t, n + 1) = Q \cup ({e} \ {NoEntry})
  <2>1. 0 .. (n + 1) - 1 = (0 .. n - 1) \cup {n}
    BY <1>3
  <2> QED
    BY <2>1 DEF AddedUpTo
<1>5. Q \subseteq P /\ Coded(Q, codes)
  BY <1>2, <1>3 DEF AddedUpTo, EntriesLed, Coded
<1>6. e \notin Q
  BY <1>2, <1>3 DEF AddedUpTo, EntriesOnce
<1>7. CASE ~s.ok \/ e = NoEntry
  <2>1. r = s
    BY <1>7 DEF Readded
  <2> HIDE DEF r
  <2>2. s.ok => AddedUpTo(t, n + 1) = Q
    BY <1>4, <1>7
  <2> QED
    BY <1>1, <2>1, <2>2 DEF Adding, r
<1>8. CASE s.ok /\ e # NoEntry
  <2>1. /\ e \in P /\ e \in Entries \ Q /\ codes[e] \in HashCodes
    BY <1>2, <1>6, <1>8 DEF EntriesLed, Coded
  <2>2. Keeps(s.buckets, exp, codes, Q, {})
    BY <1>8 DEF Adding
  <2> HIDE DEF Q, e
  <2>3. /\ room.ok \in BOOLEAN
        /\ room.ok => /\ Keeps(room.t, exp, codes, Q, {room.b})
                      /\ room.b \in Cells(exp) /\ room.b - home \in 0 .. exp - 1
    BY <1>5, <2>1, <2>2, MakeRoomKeeps
  <2> HIDE DEF room
  <2>4. CASE ~room.ok
    <3>1. r = [s EXCEPT !.ok = FALSE]
      BY <1>8, <2>4 DEF Readded, room
    <3>2. r \in AddStates(exp) /\ r.ok = FALSE
      BY <1>1, <3>1 DEF AddStates
    <3> HIDE DEF r
    <3> QED
      BY <3>2 DEF Adding, r, e
  <2>5. CASE room.ok
    <3> DEFINE u == Placed(room.t, home, room.b, e, codes[e], exp)
    <3>1. r = [s EXCEPT !.buckets = u]
      BY <1>8, <2>5 DEF Readded, room
    <3>2. Keeps(u, exp, codes, Q \cup {e}, {})
      BY <1>5, <2>1, <2>3, <2>5, PlacedKeeps
    <3>3. u \in Buckets(exp)
      BY <3>2 DEF Keeps
    <3> HIDE DEF u
    <3>4. r \in AddStates(exp) /\ r.buckets = u
      BY <1>1, <3>1, <3>3 DEF AddStates
    <3>5. AddedUpTo(t, n + 1) = Q \cup {e}
      BY <1>4, <1>8
    <3> HIDE DEF r
    <3> QED
      BY <3>2, <3>4, <3>5 DEF Adding, r, e
  <2> QED
    BY <2>3, <2>4, <2>5
<1> QED
  BY <1>1, <1>7, <1>8

LEMMA ReaddsAdding ==
    ASSUME NEW P, NEW codes, Coded(P, codes), NEW t, Holds(t, codes, P),
           NEW exp \in Exps
    PROVE  LET f == Readds(t, exp, codes)
           IN /\ f[0] = [ok |-> TRUE, buckets |-> EmptyBuckets(exp)]
              /\ \A n \in 0 .. BucketCnt(t.exp) : Adding(f[n], t, exp, codes, n)
              /\ \A n \in Cells(t.exp) :
                    f[n + 1] = Readded(f[n], t.buckets[n].entry, exp, codes)
<1> DEFINE max == BucketCnt(t.exp)
           e(k) == t.buckets[k].entry
           start == [ok |-> TRUE, buckets |-> EmptyBuckets(exp)]
           Inv(x, k) == Adding(x, t, exp, codes, IF k < max THEN k ELSE max)
           I == [k \in Nat |-> {x \in AddStates(exp) : Inv(x, k)}]
           next == [x \in Nat \X AddStates(exp) |->
                        IF x[1] < max THEN Readded(x[2], e(x[1]), exp, codes) ELSE x[2]]
           f  == Readds(t, exp, codes)
           Eq(g) == g = [k \in 0 .. max |->
                            IF k = 0 THEN start ELSE Readded(g[k - 1], e(k - 1), exp, codes)]
<1> HIDE DEF f
<1>0. max \in Nat /\ max > 0 /\ Cells(t.exp) = 0 .. max - 1
  <2>1. t.exp \in Exps
    BY DEF Holds, Tables
  <2> QED
    BY <2>1, ExpType DEF Cells
<1>1. \A k \in Nat : \A x : x \in I[k] <=> Inv(x, k)
  BY DEF Adding
<1>2. Inv(start, 0)
  <2>1. AddedUpTo(t, 0) = {}
    BY DEF AddedUpTo
  <2>2. Keeps(EmptyBuckets(exp), exp, codes, {}, {}) /\ EmptyBuckets(exp) \in Buckets(exp)
    BY EmptyKeeps DEF Keeps
  <2> QED
    BY <1>0, <2>1, <2>2 DEF Adding, AddStates
<1>3. \A k \in Nat : \A x : Inv(x, k) /\ k < max => Inv(Readded(x, e(k), exp, codes), k + 1)
  <2> SUFFICES ASSUME NEW k \in Nat, NEW x, Inv(x, k), k < max
               PROVE  Inv(Readded(x, e(k), exp, codes), k + 1)
    OBVIOUS
  <2>1. k \in Cells(t.exp) /\ Adding(x, t, exp, codes, k)
    BY <1>0
  <2>2. Adding(Readded(x, e(k), exp, codes), t, exp, codes, k + 1)
    BY <2>1, ReaddedAdding
  <2>3. (IF k + 1 < max THEN k + 1 ELSE max) = k + 1
    BY <1>0
  <2> HIDE DEF max
  <2> QED
    BY <2>2, <2>3
<1>4. \A k \in Nat : \A x : Inv(x, k) =>
        next[<<k, x>>] = IF k < max THEN Readded(x, e(k), exp, codes) ELSE x
  BY DEF Adding
<1>5. \A k \in Nat : \A x : Inv(x, k) /\ ~(k < max) => Inv(x, k + 1)
  BY <1>0
<1> HIDE DEF Inv, I, next, start, max, e
<1>6. ASSUME NEW k \in Nat, NEW x \in I[k] PROVE next[<<k, x>>] \in I[k + 1]
  <2>1. Inv(x, k) /\ k + 1 \in Nat
    BY <1>1
  <2>2. Inv(next[<<k, x>>], k + 1)
    BY <1>3, <1>4, <1>5, <2>1
  <2> QED
    BY <1>1, <2>1, <2>2
<1>7. start \in I[0]
  BY <1>1, <1>2
<1>8. PICK g : /\ g = [k \in Nat |-> g[k]]
               /\ g[0] = start
               /\ \A k \in Nat : g[k] \in I[k] /\ g[k + 1] = next[<<k, g[k]>>]
  BY <1>6, <1>7, StepsExist
<1>9. \A k \in 0 .. max : k # 0 => g[k] = Readded(g[k - 1], e(k - 1), exp, codes)
  <2> SUFFICES ASSUME NEW k \in 0 .. max, k # 0
               PROVE  g[k] = Readded(g[k - 1], e(k - 1), exp, codes)
    OBVIOUS
  <2>1. k - 1 \in Nat /\ (k - 1) + 1 = k /\ k - 1 < max
    BY <1>0
  <2>2. g[k - 1] \in I[k - 1] /\ g[(k - 1) + 1] = next[<<k - 1, g[k - 1]>>]
    BY <1>8, <2>1
  <2> QED
    BY <1>1, <1>4, <2>1, <2>2
<1> DEFINE c == [k \in 0 .. max |-> g[k]]
<1>10. Eq(c)
  <2>1. \A k \in 0 .. max : k # 0 => k - 1 \in 0 .. max
    BY <1>0
  <2>2. 0 \in 0 .. max
    BY <1>0
  <2> QED
    BY <1>8, <1>9, <2>1, <2>2
<1>11. Eq(f)
  <2>1. f = CHOOSE x : Eq(x)
    BY DEF f, Readds, start, max, e
  <2> HIDE DEF Eq, c
  <2> QED
    BY <1>10, <2>1
<1>12. ASSUME NEW k \in 0 .. max - 1 PROVE f[k + 1] = Readded(f[k], e(k), exp, codes)
  <2>1. k + 1 \in 0 .. max /\ k + 1 # 0 /\ (k + 1) - 1 = k
    BY <1>0
  <2>2. f[k + 1] = Readded(f[(k + 1) - 1], e((k + 1) - 1), exp, codes)
    BY <1>11, <2>1
  <2> QED
    BY <2>1, <2>2
<1>13. f[0] = start
  BY <1>0, <1>11
<1> DEFINE T == {k \in Nat : k <= max => Inv(f[k], k)}
<1>14. 0 \in T
  BY <1>2, <1>13
<1>15. ASSUME NEW k \in Nat, k \in T PROVE k + 1 \in T
  <2> SUFFICES ASSUME k + 1 <= max PROVE Inv(f[k + 1], k + 1)
    OBVIOUS
  <2>1. k \in 0 .. max - 1 /\ k < max
    BY <1>0
  <2>2. Inv(f[k], k)
    BY <1>0, <1>15, <2>1
  <2> QED
    BY <1>3, <1>12, <2>1, <2>2
<1> HIDE DEF T
<1>16. ASSUME NEW n \in 0 .. max PROVE Adding(f[n], t, exp, codes, n)
  <2>1. n \in T
    BY <1>14, <1>15, NatSteps
  <2>2. Inv(f[n], n) /\ (IF n < max THEN n ELSE max) = n
    BY <1>0, <2>1 DEF T
  <2> QED
    BY <2>2 DEF Inv
<1> QED
  BY <1>0, <1>12, <1>13, <1>16 DEF f, start, max, e

\* All entries go to the new table, or the old one stays.
LEMMA RehashHolds ==
    ASSUME NEW P, NEW codes, Coded(P, codes), NEW t, Holds(t, codes, P),
           NEW exp \in Nat, ExpMin <= exp
    PROVE  LET r == Rehash(t, exp, codes)
           IN /\ r.ok \in BOOLEAN
              /\ Holds(r.t, codes, P)
<1> DEFINE r   == Rehash(t, exp, codes)
           max == BucketCnt(t.exp)
           new == Readds(t, exp, codes)[max]
<1>1. CASE TooLarge(exp) \/ ~new.ok
  <2>1. r = [ok |-> FALSE, t |-> t]
    BY <1>1 DEF Rehash
  <2> HIDE DEF r
  <2> QED
    BY <2>1 DEF r
<1>2. CASE ~TooLarge(exp) /\ new.ok
  <2>1. exp \in Exps
    BY <1>2, ExpAssumption DEF TooLarge, Exps
  <2>2. r = [ok |-> TRUE, t |-> [t EXCEPT !.exp = exp, !.buckets = new.buckets]]
    BY <1>2 DEF Rehash
  <2>3. t \in Tables /\ t.exp \in Exps /\ t.buckets \in Buckets(t.exp)
        /\ EntriesLed(t.buckets, t.exp, codes, P, {}) /\ EntriesOnce(t.buckets, t.exp, P, {})
    BY DEF Holds, Keeps, Tables
  <2>4. max \in Nat /\ max \in 0 .. max /\ Cells(t.exp) = 0 .. max - 1
    BY <2>3, ExpType DEF Cells
  <2>5. Adding(new, t, exp, codes, max)
    BY <2>1, <2>4, ReaddsAdding
  <2> HIDE DEF new, r, max
  <2>6. AddedUpTo(t, max) = P
    <3>1. \A i \in 0 .. max - 1 : t.buckets[i].entry # NoEntry => t.buckets[i].entry \in P
      BY <2>3, <2>4 DEF EntriesLed
    <3>2. \A e \in P : \E i \in 0 .. max - 1 : t.buckets[i].entry = e
      BY <2>3, <2>4 DEF EntriesOnce
    <3>3. NoEntry \notin P
      BY NoneAssumption DEF Coded
    <3> QED
      BY <3>1, <3>2, <3>3 DEF AddedUpTo
  <2>7. Keeps(new.buckets, exp, codes, P, {}) /\ new.buckets \in Buckets(exp)
    BY <1>2, <2>5, <2>6 DEF Adding, Keeps
  <2>8. r.t = [exp |-> exp, used |-> t.used, buckets |-> new.buckets] /\ r.ok = TRUE
    BY <2>2, <2>3 DEF Tables
  <2>9. r.t \in Tables
    BY <2>1, <2>3, <2>7, <2>8 DEF Tables
  <2>10. IsFiniteSet(P) /\ t.used = Cardinality(P)
    BY DEF Holds
  <2>11. r.t.exp = exp /\ r.t.buckets = new.buckets /\ r.t.used = t.used
    BY <2>8
  <2>12. Holds(r.t, codes, P)
    BY <2>7, <2>9, <2>10, <2>11 DEF Holds
  <2>13. r.ok \in BOOLEAN
    BY <2>8
  <2> QED
    BY <2>12, <2>13 DEF r
<1> QED
  BY <1>1, <1>2
-----------------------------------------------------------------------------
(***************************************************************************)
(* A larger table has room for the entries of t.  No entry goes from a     *)
(* table while rehash() fills it, so that there is no empty bucket between *)
(* an entry and its home.                                                  *)
(***************************************************************************)
Packed(t, exp, codes, H) ==
    \A j \in Cells(exp) \ H : t[j].entry # NoEntry =>
        \A i \in HashToIdx(codes[t[j].entry], exp) .. j :
            i \in H \/ t[i].entry # NoEntry

\* From home to b, all buckets have entries, and no entry there could go to b.
Full(u, home, exp, codes, b) ==
    /\ home + exp <= b
    /\ \A i \in home .. b - 1 : u[i].entry # NoEntry
    /\ \A j \in 0 .. b - 1 : u[j].entry # NoEntry =>
            HashToIdx(codes[u[j].entry], exp) + exp <= b

\* Were there no room for e below bucket b, then the entries from the first bucket
\* a of the run that e's home is in have their homes in a .. b - exp.  In t, their
\* buckets are fewer than their number.
LEMMA Crowded ==
    ASSUME NEW P, NEW codes, Coded(P, codes), NEW t, Holds(t, codes, P),
           NEW exp \in Exps, exp = t.exp + 1,
           NEW Q, Q \subseteq P, NEW e \in P \ Q,
           NEW u \in Buckets(exp), NEW H,
           EntriesLed(u, exp, codes, Q, H), EntriesOnce(u, exp, Q, H),
           Packed(u, exp, codes, H),
           NEW b \in Nat, b <= BucketCnt(exp), H \subseteq {b},
           Full(u, HashToIdx(codes[e], exp), exp, codes, b)
    PROVE  FALSE
<1> DEFINE home(x) == HashToIdx(codes[x], exp)
           was(x)  == HashToIdx(codes[x], t.exp)
           c == b - exp
           A == {x \in 0 .. home(e) : \A i \in x .. b - 1 : u[i].entry # NoEntry}
           a == Lowest(A)
<1>0. /\ home(e) + exp <= b
      /\ \A i \in home(e) .. b - 1 : u[i].entry # NoEntry
      /\ \A j \in 0 .. b - 1 : u[j].entry # NoEntry => home(u[j].entry) + exp <= b
  BY DEF Full
<1>1. /\ t.exp \in Exps /\ EntriesLed(t.buckets, t.exp, codes, P, {})
      /\ EntriesOnce(t.buckets, t.exp, P, {}) /\ t.buckets \in Buckets(t.exp)
  BY DEF Holds, Keeps, Tables
<1>2. /\ exp \in Nat /\ t.exp \in Nat /\ t.exp > 1 /\ BucketCnt(exp) \in Nat
      /\ 0 .. b - 1 \subseteq Cells(exp) \ H
  <2>1. exp \in Nat /\ t.exp \in Nat /\ t.exp > 1 /\ BucketCnt(exp) \in Nat
    BY <1>1, ExpType
  <2>2. b \notin 0 .. b - 1
    OBVIOUS
  <2> QED
    BY <2>1, <2>2 DEF Cells
<1>3. \A x \in P : /\ home(x) \in Nat /\ was(x) \in Nat
                   /\ 2 * was(x) <= home(x) /\ home(x) <= 2 * was(x) + 1
  <2> SUFFICES ASSUME NEW x \in P
               PROVE  /\ home(x) \in Nat /\ was(x) \in Nat
                      /\ 2 * was(x) <= home(x) /\ home(x) <= 2 * was(x) + 1
    OBVIOUS
  <2>1. codes[x] \in 0 .. TwoTo[WordSize] - 1
    BY HashAssumption DEF Coded
  <2>2. t.exp \in 1 .. WordSize - 1
    BY <1>2, ExpAssumption DEF Exps
  <2> QED
    BY <2>1, <2>2, HomeDoubles
<1> HIDE DEF home, was
<1>4. c \in Nat /\ home(e) <= c /\ home(e) \in Nat /\ b = c + exp
  BY <1>0, <1>2, <1>3
<1>5. A \subseteq Nat /\ home(e) \in A
  BY <1>0, <1>4
<1>6. a \in A /\ \A x \in A : a <= x
  BY <1>5, LowestIn
<1> HIDE DEF a
<1>7. /\ a \in Nat /\ a <= home(e) /\ a <= c
      /\ \A i \in a .. b - 1 : u[i].entry # NoEntry
  BY <1>4, <1>6
<1>8. a > 0 => u[a - 1].entry = NoEntry
  <2> SUFFICES ASSUME a > 0, u[a - 1].entry # NoEntry PROVE FALSE
    OBVIOUS
  <2>1. a - 1 \in 0 .. home(e) /\ \A i \in a - 1 .. b - 1 : i = a - 1 \/ i \in a .. b - 1
    BY <1>4, <1>7
  <2>2. a - 1 \in A
    BY <1>7, <2>1
  <2> QED
    BY <1>6, <1>7, <2>2
<1> HIDE DEF A
\* The entries in the run, with e.
<1> DEFINE who(j) == IF j < b THEN u[j].entry ELSE e
<1>9. ASSUME NEW j \in a .. b - 1
      PROVE  u[j].entry \in Q /\ home(u[j].entry) \in a .. c
  <2>1. j \in Cells(exp) \ H /\ j \in 0 .. b - 1 /\ u[j].entry # NoEntry
    BY <1>2, <1>7
  <2>2. u[j].entry \in Q
    BY <2>1 DEF EntriesLed
  <2>3. home(u[j].entry) \in Nat /\ home(u[j].entry) + exp <= b
    BY <1>0, <1>3, <2>1, <2>2
  <2>4. ~(home(u[j].entry) < a)
    <3> SUFFICES ASSUME home(u[j].entry) < a PROVE FALSE
      OBVIOUS
    <3>1. a > 0 /\ a - 1 \in home(u[j].entry) .. j /\ a - 1 \in 0 .. b - 1
      BY <1>4, <1>7, <2>3
    <3>2. a - 1 \in H \/ u[a - 1].entry # NoEntry
      BY <2>1, <3>1 DEF Packed, home
    <3> QED
      BY <1>8, <3>1, <3>2
  <2> QED
    BY <1>2, <1>4, <1>7, <2>2, <2>3, <2>4
<1>10. \A j \in a .. b : who(j) \in P /\ home(who(j)) \in a .. c
  <2> SUFFICES ASSUME NEW j \in a .. b PROVE who(j) \in P /\ home(who(j)) \in a .. c
    OBVIOUS
  <2>1. CASE j < b
    <3>1. j \in a .. b - 1
      BY <1>7, <2>1
    <3> QED
      BY <1>9, <2>1, <3>1
  <2>2. CASE ~(j < b)
    BY <1>4, <1>7, <2>2
  <2> QED
    BY <2>1, <2>2
<1>11. \A i, j \in a .. b : who(i) = who(j) => i = j
  <2> SUFFICES ASSUME NEW i \in a .. b, NEW j \in a .. b, who(i) = who(j) PROVE i = j
    OBVIOUS
  <2>1. \A k \in a .. b : k < b => /\ k \in Cells(exp) \ H /\ k \in a .. b - 1
                                  /\ u[k].entry \in Q /\ u[k].entry # NoEntry
    BY <1>2, <1>7, <1>9
  <2>2. CASE i < b /\ j < b
    <3>1. u[i].entry = u[j].entry
      BY <2>2
    <3> QED
      BY <2>1, <2>2, <3>1 DEF EntriesOnce
  <2>3. CASE ~(i < b /\ j < b)
    BY <1>7, <2>1, <2>3
  <2> QED
    BY <2>2, <2>3
<1> HIDE DEF who
\* Their buckets in t.
<1> DEFINE at(x) == CHOOSE k \in Cells(t.exp) : t.buckets[k].entry = x
           lo == a \div 2
           hi == (c \div 2) + (t.exp - 1)
<1>12. \A x \in P : at(x) \in Cells(t.exp) /\ t.buckets[at(x)].entry = x
  BY <1>1 DEF EntriesOnce
<1> HIDE DEF at
<1>13. \A x \in P : home(x) \in a .. c => at(x) \in lo .. hi
  <2> SUFFICES ASSUME NEW x \in P, home(x) \in a .. c PROVE at(x) \in lo .. hi
    OBVIOUS
  <2>1. x # NoEntry
    BY NoneAssumption DEF Coded
  <2>2. PICK m \in t.buckets[was(x)].hop : at(x) = was(x) + m
    BY <1>1, <1>12, <2>1 DEF EntriesLed, was
  <2>3. was(x) \in Cells(t.exp)
    BY <1>1, HomeInTable DEF Coded, was
  <2>4. m \in 0 .. t.exp - 1
    BY <1>1, <2>2, <2>3, BucketType
  <2>5. was(x) \in Nat /\ 2 * was(x) <= c /\ a <= 2 * was(x) + 1
    BY <1>3, <1>4, <1>7
  <2>6. lo <= was(x) /\ was(x) <= c \div 2 /\ lo \in Nat /\ c \div 2 \in Nat
    BY <1>4, <1>7, <2>5
  <2> QED
    BY <1>2, <2>2, <2>4, <2>5, <2>6
<1> DEFINE g == [j \in a .. b |-> at(who(j))]
<1>14. g \in [a .. b -> lo .. hi]
  BY <1>10, <1>13
<1>15. \A i, j \in a .. b : g[i] = g[j] => i = j
  BY <1>10, <1>11, <1>12
<1> HIDE DEF g
<1>16. g \in Injection(a .. b, lo .. hi)
  BY <1>14, <1>15 DEF Injection, IsInjective
<1>17. lo \in Int /\ hi \in Int /\ 2 * lo >= a - 1 /\ 2 * hi <= c + 2 * (t.exp - 1)
  BY <1>2, <1>4, <1>7
<1> HIDE DEF lo, hi, c
<1>18. /\ Cardinality(a .. b) = b - a + 1
       /\ IsFiniteSet(lo .. hi)
       /\ Cardinality(lo .. hi) = IF lo > hi THEN 0 ELSE hi - lo + 1
  <2>1. a \in Int /\ b \in Int /\ ~(a > b)
    BY <1>2, <1>4, <1>7
  <2> QED
    BY <1>17, <2>1, FS_Interval
<1>19. Cardinality(a .. b) <= Cardinality(lo .. hi)
  BY <1>16, <1>18, FS_Injection
<1>20. b - a + 1 <= hi - lo + 1
  <2>1. b - a + 1 \in Nat /\ b - a + 1 > 0
    BY <1>2, <1>4, <1>7
  <2> QED
    BY <1>17, <1>18, <1>19, <2>1
<1> QED
  BY <1>2, <1>4, <1>7, <1>17, <1>20

\* make_room() looks for an empty bucket from home on, so that all buckets before
\* the one that is free have entries, also after swaps.
Filling(s, home, exp, codes) ==
    /\ s.ok
    /\ Packed(s.t, exp, codes, {s.b})
    /\ \A i \in home .. s.b - 1 : s.t[i].entry # NoEntry

\* A displacement leaves no empty bucket behind, but the one that is free.
LEMMA MovedPacked ==
    ASSUME NEW exp \in Exps, NEW P, NEW codes, Coded(P, codes),
           NEW b \in Cells(exp), exp <= b, NEW t, Keeps(t, exp, codes, P, {b}),
           NEW swp \in Movable(t, b, exp),
           Packed(t, exp, codes, {b}),
           NEW home \in Nat, home + exp <= b,
           \A i \in home .. b - 1 : t[i].entry # NoEntry
    PROVE  LET from == swp + Lowest(t[swp].hop)
               u    == Moved(t, swp, b)
           IN /\ Packed(u, exp, codes, {from})
              /\ \A i \in home .. from - 1 : u[i].entry # NoEntry
<1> DEFINE hop  == Lowest(t[swp].hop)
           from == swp + hop
           u    == Moved(t, swp, b)
           at(x) == HashToIdx(codes[x], exp)
<1>0. t \in Buckets(exp) /\ BitsLead(t, exp, codes, P, {b})
      /\ EntriesLed(t, exp, codes, P, {b})
  BY DEF Keeps
<1>1. /\ swp \in Cells(exp) /\ hop \in t[swp].hop /\ hop \in Nat
      /\ from \in Cells(exp) /\ swp <= from /\ from < b
      /\ b - swp \in 1 .. exp - 1
      /\ u[b].entry = t[from].entry
      /\ \A i \in Cells(exp) \ {b} : u[i].entry = t[i].entry
  BY <1>0, MovedBuckets
<1>2. /\ from = swp + hop /\ swp \in Nat /\ b \in Nat /\ from \in Nat /\ exp \in Nat
      /\ \A i \in Cells(exp) : i \in Nat
      /\ \A i \in Nat : i <= b => i \in Cells(exp)
  BY <1>1, ExpType DEF Cells
<1> HIDE DEF hop, from, u
<1>3. t[from].entry \in P /\ at(t[from].entry) = swp
  BY <1>0, <1>1, <1>2 DEF BitsLead
<1>4. \A i \in home .. b - 1 : u[i].entry # NoEntry
  BY <1>1, <1>2
<1>5. u[b].entry # NoEntry
  BY <1>1, <1>3, NoneAssumption DEF Coded
<1>6. ASSUME NEW j \in Cells(exp) \ {from}, u[j].entry # NoEntry,
             NEW i \in at(u[j].entry) .. j
      PROVE  i = from \/ u[i].entry # NoEntry
  <2>1. CASE j = b
    <3>1. at(u[j].entry) = swp
      BY <1>1, <1>3, <2>1
    <3>2. i \in home .. b - 1 \/ i = b
      BY <1>1, <1>2, <2>1, <3>1
    <3> QED
      BY <1>4, <1>5, <3>2
  <2>2. CASE j # b
    <3>1. u[j].entry = t[j].entry
      BY <1>1, <2>2
    <3>2. i = b \/ t[i].entry # NoEntry
      BY <1>6, <2>2, <3>1 DEF Packed
    <3>3. t[j].entry \in P
      BY <1>0, <1>6, <2>2, <3>1 DEF EntriesLed
    <3>4. at(t[j].entry) \in Cells(exp)
      BY <3>3, HomeInTable DEF Coded
    <3>5. i \in Cells(exp)
      BY <1>2, <3>1, <3>4, ExpType DEF Cells
    <3> QED
      BY <1>1, <1>5, <3>2, <3>5
  <2> QED
    BY <2>1, <2>2
<1>7. Packed(u, exp, codes, {from})
  BY <1>6 DEF Packed
<1>8. \A i \in home .. from - 1 : u[i].entry # NoEntry
  BY <1>1, <1>2, <1>4
<1> QED
  BY <1>7, <1>8 DEF u, from, hop

\* An entry that is placed is led to from its home without a gap.
LEMMA PlacedPacked ==
    ASSUME NEW exp \in Exps, NEW P, NEW codes, Coded(P, codes),
           NEW e \in Entries, NEW h \in HashCodes, codes[e] = h,
           NEW b \in Cells(exp), NEW t, Keeps(t, exp, codes, P, {b}),
           b - HashToIdx(h, exp) \in 0 .. exp - 1,
           Packed(t, exp, codes, {b}),
           \A i \in HashToIdx(h, exp) .. b - 1 : t[i].entry # NoEntry
    PROVE  Packed(Placed(t, HashToIdx(h, exp), b, e, h, exp), exp, codes, {})
<1> DEFINE i0 == HashToIdx(h, exp)
           u  == Placed(t, i0, b, e, h, exp)
           at(x) == HashToIdx(codes[x], exp)
<1>1. /\ u[b].entry = e
      /\ \A i \in Cells(exp) \ {b} : u[i].entry = t[i].entry
  BY PlacedBuckets DEF Keeps
<1>2. /\ e # NoEntry /\ i0 \in Nat /\ b \in Nat
      /\ \A i \in Cells(exp) : \A k \in Nat : k <= i => k \in Cells(exp)
  BY HomeInTable, NoneAssumption, ExpType DEF Cells
<1> HIDE DEF u
<1>3. ASSUME NEW j \in Cells(exp), u[j].entry # NoEntry, NEW i \in at(u[j].entry) .. j
      PROVE  u[i].entry # NoEntry
  <2>1. CASE j = b
    <3>1. at(u[j].entry) = i0
      BY <1>1, <2>1
    <3>2. i \in Cells(exp) /\ (i = b \/ i \in i0 .. b - 1)
      BY <1>2, <2>1, <3>1
    <3> QED
      BY <1>1, <1>2, <3>2
  <2>2. CASE j # b
    <3>1. u[j].entry = t[j].entry
      BY <1>1, <2>2
    <3>2. i = b \/ t[i].entry # NoEntry
      BY <1>3, <2>2, <3>1 DEF Packed
    <3>3. t[j].entry \in P
      BY <1>3, <2>2, <3>1 DEF Keeps, EntriesLed
    <3>4. at(t[j].entry) \in Nat /\ j \in Nat
      BY <3>3, HomeInTable DEF Coded, Cells
    <3>5. i \in Cells(exp)
      BY <1>2, <3>1, <3>4
    <3> QED
      BY <1>1, <1>2, <3>2, <3>5
  <2> QED
    BY <2>1, <2>2
<1> QED
  BY <1>3 DEF Packed, u

\* There is always an entry to swap the free bucket with.
LEMMA SwapFilling ==
    ASSUME NEW P, NEW codes, Coded(P, codes), NEW t, Holds(t, codes, P),
           NEW exp \in Exps, exp = t.exp + 1,
           NEW Q, Q \subseteq P, NEW e \in P \ Q,
           NEW n \in Nat, NEW b0 \in Nat,
           NEW s, Making(s, HashToIdx(codes[e], exp), exp, codes, Q, n, b0),
           Filling(s, HashToIdx(codes[e], exp), exp, codes)
    PROVE  Filling(Swap(s, HashToIdx(codes[e], exp), exp),
                   HashToIdx(codes[e], exp), exp, codes)
<1> DEFINE home == HashToIdx(codes[e], exp)
           r    == Swap(s, home, exp)
           swps == Movable(s.t, s.b, exp)
           swp  == Lowest(swps)
<1>1. /\ s.t \in Buckets(exp) /\ s.ok /\ s.b \in Cells(exp)
      /\ Keeps(s.t, exp, codes, Q, {s.b})
      /\ Packed(s.t, exp, codes, {s.b})
      /\ \A i \in home .. s.b - 1 : s.t[i].entry # NoEntry
  BY DEF Making, RoomStates, Filling
<1>2. /\ exp \in Nat /\ exp > 1 /\ home \in Nat /\ s.b \in Nat
      /\ BucketCnt(exp) \in Nat /\ s.b <= BucketCnt(exp)
  BY <1>1, ExpType, HomeInTable DEF Cells, Coded
<1>3. Coded(Q, codes)
  BY DEF Coded
<1>4. CASE s.b < home + exp
  <2>1. r = s
    BY <1>4 DEF Swap
  <2> QED
    BY <2>1
<1>5. CASE ~(s.b < home + exp)
  <2>1. home + exp <= s.b /\ exp <= s.b
    BY <1>2, <1>5
  <2>2. swps # {}
    <3> SUFFICES ASSUME swps = {} PROVE FALSE
      OBVIOUS
    <3>1. ASSUME NEW j \in 0 .. s.b - 1, s.t[j].entry # NoEntry
          PROVE  HashToIdx(codes[s.t[j].entry], exp) + exp <= s.b
      <4> DEFINE k == HashToIdx(codes[s.t[j].entry], exp)
      <4>1. j \in Cells(exp) \ {s.b} /\ j \in Nat /\ j < s.b
        BY <1>2 DEF Cells
      <4>2. s.t[j].entry \in Q /\ \E m \in s.t[k].hop : j = k + m
        BY <1>1, <3>1, <4>1 DEF Keeps, EntriesLed
      <4>3. PICK m \in s.t[k].hop : j = k + m
        BY <4>2
      <4>4. k \in Cells(exp) /\ k \in Nat
        BY <1>3, <4>2, HomeInTable DEF Coded
      <4>5. m \in Nat
        BY <1>1, <4>4, BucketType
      <4> HIDE DEF k
      <4>6. k <= j /\ k + m < s.b
        BY <4>1, <4>3, <4>4, <4>5
      <4>7. k \notin s.b - (exp - 1) .. s.b - 1
        BY <4>3, <4>6 DEF Movable
      <4>8. k + exp <= s.b
        BY <1>2, <4>1, <4>4, <4>6, <4>7
      <4> QED
        BY <4>8 DEF k
    <3>2. EntriesLed(s.t, exp, codes, Q, {s.b}) /\ EntriesOnce(s.t, exp, Q, {s.b})
      BY <1>1 DEF Keeps
    <3>3. Full(s.t, home, exp, codes, s.b)
      BY <1>1, <2>1, <3>1 DEF Full
    <3> QED
      BY <1>1, <1>2, <2>1, <3>1, <3>2, <3>3, Crowded
  <2> DEFINE from == swp + Lowest(s.t[swp].hop)
             u    == Moved(s.t, swp, s.b)
  <2>3. r = [t |-> u, ok |-> TRUE, b |-> from]
    BY <1>1, <1>5, <2>2 DEF Swap
  <2>4. swps \subseteq Nat
    BY <1>2, <2>1 DEF Movable
  <2>5. swp \in swps
    BY <2>2, <2>4, LowestIn
  <2> HIDE DEF swp, swps
  <2>6. /\ Packed(u, exp, codes, {from})
        /\ \A i \in home .. from - 1 : u[i].entry # NoEntry
    <3>1. swp \in Movable(s.t, s.b, exp)
      BY <2>5 DEF swps
    <3> HIDE DEF home
    <3> QED
      BY <1>1, <1>2, <1>3, <2>1, <3>1, MovedPacked
  <2> HIDE DEF from, u, r
  <2> QED
    BY <2>3, <2>6 DEF Filling, r
<1> QED
  BY <1>4, <1>5

\* make_room() does not fail.
LEMMA MakeRoomFits ==
    ASSUME NEW P, NEW codes, Coded(P, codes), NEW t, Holds(t, codes, P),
           NEW exp \in Exps, exp = t.exp + 1,
           NEW Q, Q \subseteq P, NEW e \in P \ Q,
           NEW u, Keeps(u, exp, codes, Q, {}), Packed(u, exp, codes, {})
    PROVE  Filling(MakeRoom(u, HashToIdx(codes[e], exp), exp),
                   HashToIdx(codes[e], exp), exp, codes)
<1> DEFINE home == HashToIdx(codes[e], exp)
           r    == MakeRoom(u, home, exp)
           free == {b \in home .. BucketCnt(exp) - 1 : u[b].entry = NoEntry}
           b0   == Lowest(free)
           s    == [t |-> u, ok |-> TRUE, b |-> b0]
<1>1. /\ home \in Cells(exp) /\ home \in Nat /\ home + exp <= BucketCnt(exp)
      /\ exp \in Nat /\ exp > 1 /\ BucketCnt(exp) \in Nat
      /\ Coded(Q, codes)
  BY HomeInTable, ExpType DEF Coded
<1>2. free # {}
  <2> SUFFICES ASSUME free = {} PROVE FALSE
    OBVIOUS
  <2> DEFINE b == BucketCnt(exp)
  <2>1. \A i \in home .. b - 1 : u[i].entry # NoEntry
    OBVIOUS
  <2>2. \A j \in 0 .. b - 1 : u[j].entry # NoEntry =>
            HashToIdx(codes[u[j].entry], exp) + exp <= b
    <3> SUFFICES ASSUME NEW j \in 0 .. b - 1, u[j].entry # NoEntry
                 PROVE  HashToIdx(codes[u[j].entry], exp) + exp <= b
      OBVIOUS
    <3>1. u[j].entry \in Q
      BY DEF Keeps, EntriesLed, Cells
    <3> QED
      BY <1>1, <3>1, HomeInTable DEF Coded
  <2>3. EntriesLed(u, exp, codes, Q, {}) /\ EntriesOnce(u, exp, Q, {}) /\ u \in Buckets(exp)
    BY DEF Keeps
  <2>4. b \in Nat /\ b <= BucketCnt(exp) /\ home + exp <= b
    BY <1>1
  <2> HIDE DEF b
  <2> DEFINE H == {}
  <2>5. /\ H \subseteq {b}
        /\ EntriesLed(u, exp, codes, Q, H) /\ EntriesOnce(u, exp, Q, H)
        /\ Packed(u, exp, codes, H)
    BY <2>3
  <2>6. Full(u, home, exp, codes, b)
    BY <2>1, <2>2, <2>4 DEF Full
  <2> HIDE DEF H, free
  <2> QED
    BY <2>3, <2>4, <2>5, <2>6, Crowded
<1>3. r = Swaps(s, home, exp)[b0]
  BY <1>2 DEF MakeRoom
<1>4. b0 \in free /\ \A x \in free : b0 <= x
  <2>1. free \subseteq Nat
    BY <1>1
  <2> QED
    BY <1>2, <2>1, LowestIn
<1> HIDE DEF b0
<1>5. b0 \in Cells(exp) /\ b0 \in Nat /\ home <= b0 /\ u[b0].entry = NoEntry
  BY <1>1, <1>4 DEF Cells
<1>6. \A i \in home .. b0 - 1 : u[i].entry # NoEntry
  BY <1>1, <1>4, <1>5
<1> HIDE DEF home
<1>7. Making(s, home, exp, codes, Q, 0, b0)
  <2>1. Keeps(u, exp, codes, Q, {b0}) /\ u \in Buckets(exp)
    BY <1>1, <1>5, FreeKeeps DEF Keeps
  <2> QED
    BY <1>5, <2>1 DEF Making, RoomStates
<1>8. Filling(s, home, exp, codes)
  BY <1>6 DEF Filling, Packed
<1> HIDE DEF s, r
<1> DEFINE f == Swaps(s, home, exp)
           T == {k \in Nat : Filling(f[k], home, exp, codes)}
<1>9. /\ f[0] = s
      /\ \A k \in Nat : /\ Making(f[k], home, exp, codes, Q, k, b0)
                       /\ f[k + 1] = Swap(f[k], home, exp)
  BY <1>1, <1>5, <1>7, SwapsMaking
<1> HIDE DEF f
<1>10. 0 \in T
  BY <1>8, <1>9
<1>11. ASSUME NEW k \in Nat, k \in T PROVE k + 1 \in T
  <2>1. Making(f[k], home, exp, codes, Q, k, b0) /\ Filling(f[k], home, exp, codes)
    BY <1>9, <1>11
  <2>2. Filling(Swap(f[k], home, exp), home, exp, codes)
    BY <1>5, <2>1, SwapFilling DEF home
  <2>3. k + 1 \in Nat
    OBVIOUS
  <2> QED
    BY <1>9, <2>2, <2>3
<1> HIDE DEF T
<1>12. b0 \in T
  BY <1>5, <1>10, <1>11, NatSteps
<1>13. Filling(r, home, exp, codes)
  BY <1>3, <1>12 DEF T, f
<1> QED
  BY <1>13 DEF r, home

\* Neither does an iteration of rehash().
LEMMA ReaddedFits ==
    ASSUME NEW P, NEW codes, Coded(P, codes), NEW t, Holds(t, codes, P),
           NEW exp \in Exps, exp = t.exp + 1, NEW n \in Cells(t.exp),
           NEW s, Adding(s, t, exp, codes, n), s.ok, Packed(s.buckets, exp, codes, {})
    PROVE  LET r == Readded(s, t.buckets[n].entry, exp, codes)
           IN r.ok /\ Packed(r.buckets, exp, codes, {})
<1> DEFINE e    == t.buckets[n].entry
           r    == Readded(s, e, exp, codes)
           home == HashToIdx(codes[e], exp)
           room == MakeRoom(s.buckets, home, exp)
           u    == Placed(room.t, home, room.b, e, codes[e], exp)
           Q    == AddedUpTo(t, n)
<1>1. /\ s \in AddStates(exp) /\ Keeps(s.buckets, exp, codes, Q, {})
  BY DEF Adding
<1>2. /\ t.exp \in Exps
      /\ EntriesLed(t.buckets, t.exp, codes, P, {}) /\ EntriesOnce(t.buckets, t.exp, P, {})
  BY DEF Holds, Keeps, Tables
<1>3. n \in Nat /\ 0 .. n - 1 \subseteq Cells(t.exp)
  <2>1. BucketCnt(t.exp) \in Nat
    BY <1>2, ExpType
  <2> QED
    BY <2>1 DEF Cells
<1>4. Q \subseteq P /\ Coded(Q, codes)
  BY <1>2, <1>3 DEF AddedUpTo, EntriesLed, Coded
<1>5. e \notin Q
  BY <1>2, <1>3 DEF AddedUpTo, EntriesOnce
<1>6. CASE e = NoEntry
  <2>1. r = s
    BY <1>6 DEF Readded
  <2> QED
    BY <2>1
<1>7. CASE e # NoEntry
  <2>1. e \in P \ Q /\ e \in Entries \ Q /\ codes[e] \in HashCodes
    BY <1>2, <1>5, <1>7 DEF EntriesLed, Coded
  <2> HIDE DEF e, Q
  <2>2. Filling(room, home, exp, codes)
    BY <1>1, <1>4, <2>1, MakeRoomFits
  <2>3. /\ room.ok /\ Packed(room.t, exp, codes, {room.b})
        /\ \A i \in home .. room.b - 1 : room.t[i].entry # NoEntry
    BY <2>2 DEF Filling
  <2>4. /\ Keeps(room.t, exp, codes, Q, {room.b})
        /\ room.b \in Cells(exp) /\ room.b - home \in 0 .. exp - 1
    BY <1>1, <1>4, <2>1, <2>3, MakeRoomKeeps
  <2>5. r = [s EXCEPT !.buckets = u]
    BY <1>7, <2>3 DEF Readded
  <2> HIDE DEF room, r
  <2>6. Packed(u, exp, codes, {})
    BY <1>4, <2>1, <2>3, <2>4, PlacedPacked
  <2> HIDE DEF u
  <2>7. r.ok = s.ok /\ r.buckets = u
    BY <1>1, <2>5 DEF AddStates
  <2> QED
    BY <2>6, <2>7 DEF r, e
<1> QED
  BY <1>6, <1>7

\* Growing by one always succeeds.
LEMMA RehashFits ==
    ASSUME NEW P, NEW codes, Coded(P, codes), NEW t, Holds(t, codes, P),
           t.exp + 1 \in Exps
    PROVE  Rehash(t, t.exp + 1, codes).ok
<1> DEFINE exp == t.exp + 1
           max == BucketCnt(t.exp)
           f   == Readds(t, exp, codes)
           Fit(s) == s.ok /\ Packed(s.buckets, exp, codes, {})
           T   == {k \in Nat : k <= max => Fit(f[k])}
<1>1. t.exp \in Exps /\ max \in Nat /\ Cells(t.exp) = 0 .. max - 1
  <2>1. t.exp \in Exps
    BY DEF Holds, Tables
  <2> QED
    BY <2>1, ExpType DEF Cells
<1>2. exp \in Exps
  OBVIOUS
<1>3. /\ f[0] = [ok |-> TRUE, buckets |-> EmptyBuckets(exp)]
      /\ \A n \in 0 .. max : Adding(f[n], t, exp, codes, n)
      /\ \A n \in Cells(t.exp) : f[n + 1] = Readded(f[n], t.buckets[n].entry, exp, codes)
  BY <1>2, ReaddsAdding
<1> HIDE DEF f, max
<1>4. 0 \in T
  <2>1. \A i \in Cells(exp) : EmptyBuckets(exp)[i].entry = NoEntry
    BY DEF EmptyBuckets, EmptyBucket, Cells
  <2>2. Packed(EmptyBuckets(exp), exp, codes, {})
    BY <2>1 DEF Packed
  <2> QED
    BY <1>3, <2>2
<1>5. ASSUME NEW k \in Nat, k \in T PROVE k + 1 \in T
  <2> SUFFICES ASSUME k + 1 <= max PROVE Fit(f[k + 1])
    OBVIOUS
  <2>1. k \in Cells(t.exp) /\ k \in 0 .. max /\ k <= max
    BY <1>1
  <2>2. Adding(f[k], t, exp, codes, k) /\ Fit(f[k])
    BY <1>3, <1>5, <2>1
  <2>3. Fit(Readded(f[k], t.buckets[k].entry, exp, codes))
    BY <1>2, <2>1, <2>2, ReaddedFits
  <2> QED
    BY <1>3, <2>1, <2>3
<1> HIDE DEF T
<1>6. max \in T
  BY <1>1, <1>4, <1>5, NatSteps
<1>7. f[max].ok
  BY <1>1, <1>6 DEF T
<1>8. ~TooLarge(exp)
  BY <1>1, ExpAssumption DEF TooLarge, Exps
<1> QED
  BY <1>7, <1>8 DEF Rehash, f, max
-----------------------------------------------------------------------------
\* What is left of a table, for other codes and in parts.
LEMMA HoldsAgree ==
    ASSUME NEW P, NEW codes, NEW other, NEW t, Holds(t, codes, P),
           \A e \in P : other[e] = codes[e]
    PROVE  Holds(t, other, P)
BY CodesAgree DEF Holds, Tables

LEMMA HoldsBuckets ==
    ASSUME NEW P, NEW codes, NEW t, Holds(t, codes, P)
    PROVE  /\ t.exp \in Exps /\ t.used \in Nat /\ t.buckets \in Buckets(t.exp)
           /\ BitsLead(t.buckets, t.exp, codes, P, {})
           /\ EntriesLed(t.buckets, t.exp, codes, P, {})
           /\ EntriesOnce(t.buckets, t.exp, P, {})
BY DEF Holds, Keeps, Tables

\* The table that hashmap_insert() looks for room in.
LEMMA RoomHolds ==
    ASSUME NEW P, NEW codes, NEW e \in Entries \ P, Coded(P \cup {e}, codes),
           NEW t, Holds(t, codes, P)
    PROVE  LET h    == codes[e]
               home == HashToIdx(h, t.exp)
               room == MakeRoom(t.buckets, home, t.exp)
               u    == Placed(room.t, home, room.b, e, h, t.exp)
           IN /\ room.ok \in BOOLEAN
              /\ room.ok => Holds([t EXCEPT !.used = @ + 1, !.buckets = u], codes, P \cup {e})
              /\ ~room.ok => Holds([t EXCEPT !.buckets = room.t], codes, P)
<1> DEFINE h    == codes[e]
           home == HashToIdx(h, t.exp)
           room == MakeRoom(t.buckets, home, t.exp)
           u    == Placed(room.t, home, room.b, e, h, t.exp)
<1>1. /\ t \in Tables /\ t.exp \in Exps /\ t.used \in Nat
      /\ Keeps(t.buckets, t.exp, codes, P, {})
      /\ IsFiniteSet(P) /\ t.used = Cardinality(P)
  BY DEF Holds, Tables
<1>2. Coded(P, codes) /\ h \in HashCodes
  BY DEF Coded
<1>3. /\ room.ok \in BOOLEAN
      /\ room.ok => /\ Keeps(room.t, t.exp, codes, P, {room.b})
                    /\ room.b \in Cells(t.exp) /\ room.b - home \in 0 .. t.exp - 1
      /\ ~room.ok => Keeps(room.t, t.exp, codes, P, {})
  BY <1>1, <1>2, MakeRoomKeeps
<1> HIDE DEF room
<1>4. ASSUME room.ok
      PROVE  Holds([t EXCEPT !.used = @ + 1, !.buckets = u], codes, P \cup {e})
  <2> DEFINE c == [t EXCEPT !.used = @ + 1, !.buckets = u]
  <2>1. Keeps(u, t.exp, codes, P \cup {e}, {})
    BY <1>1, <1>2, <1>3, <1>4, PlacedKeeps
  <2>2. IsFiniteSet(P \cup {e}) /\ Cardinality(P \cup {e}) = t.used + 1
    BY <1>1, FS_AddElement
  <2> HIDE DEF u
  <2>3. u \in Buckets(t.exp)
    BY <2>1 DEF Keeps
  <2>4. c = [exp |-> t.exp, used |-> t.used + 1, buckets |-> u]
    <3> DEFINE w == [t EXCEPT !.used = @ + 1]
    <3>1. w = [exp |-> t.exp, used |-> t.used + 1, buckets |-> t.buckets]
      BY <1>1 DEF Tables
    <3>2. c = [w EXCEPT !.buckets = u]
      OBVIOUS
    <3> HIDE DEF w, c
    <3> QED
      BY <3>1, <3>2
  <2> HIDE DEF c
  <2>5. c \in Tables /\ c.exp = t.exp /\ c.used = t.used + 1 /\ c.buckets = u
    BY <1>1, <2>3, <2>4 DEF Tables
  <2>6. Holds(c, codes, P \cup {e})
    BY <2>1, <2>2, <2>5 DEF Holds
  <2> QED
    BY <2>6 DEF c
<1>5. ASSUME ~room.ok PROVE Holds([t EXCEPT !.buckets = room.t], codes, P)
  <2> DEFINE c == [t EXCEPT !.buckets = room.t]
  <2>1. Keeps(room.t, t.exp, codes, P, {}) /\ room.t \in Buckets(t.exp)
    BY <1>3, <1>5 DEF Keeps
  <2>2. c = [exp |-> t.exp, used |-> t.used, buckets |-> room.t]
    BY <1>1 DEF Tables
  <2>3. c \in Tables /\ c.exp = t.exp /\ c.used = t.used /\ c.buckets = room.t
    BY <1>1, <2>1, <2>2 DEF Tables
  <2> HIDE DEF c
  <2>4. Holds(c, codes, P)
    BY <1>1, <2>1, <2>3 DEF Holds
  <2> QED
    BY <2>4 DEF c
<1> QED
  BY <1>3, <1>4, <1>5 DEF room, u

\* What a search returns leads to an entry that it looks for.
LEMMA FoundIs ==
    ASSUME NEW t, NEW h, NEW matches, NEW id \in Found(t, h, matches)
    PROVE  /\ id[1] = HashToIdx(h, t.exp)
           /\ id[2] \in t.buckets[id[1]].hop
           /\ t.buckets[id[1] + id[2]].entry \in matches
BY DEF Found

\* hashmap_update(), for the entry that the index leads to.
LEMMA UpdatedHolds ==
    ASSUME NEW P, NEW codes, Coded(P, codes), NEW t, Holds(t, codes, P),
           NEW h \in HashCodes, NEW e, NEW id \in Found(t, h, {e})
    PROVE  Holds(Updated(t, id, codes), codes, P \ {e})
<1> DEFINE less == Cleared(t, id[1], id[2])
           r    == Rehash(less, t.exp - 1, codes)
<1>1. /\ id[1] \in Cells(t.exp) /\ id[2] \in t.buckets[id[1]].hop
      /\ t.buckets[id[1] + id[2]].entry = e /\ t.exp \in Exps
  BY FoundIs, HoldsBuckets, HomeInTable
<1>2. Holds(less, codes, P \ {e})
  BY <1>1, ClearedHolds
<1>3. Coded(P \ {e}, codes)
  BY DEF Coded
<1> HIDE DEF less
<1>4. CASE t.exp <= ExpMin \/ ~Sparse(less)
  BY <1>2, <1>4 DEF Updated, less
<1>5. CASE ~(t.exp <= ExpMin \/ ~Sparse(less))
  <2>1. t.exp - 1 \in Nat /\ ExpMin <= t.exp - 1
    BY <1>1, <1>5, ExpAssumption DEF Exps
  <2>2. Holds(r.t, codes, P \ {e})
    BY <1>2, <1>3, <2>1, RehashHolds
  <2>3. Updated(t, id, codes) = r.t
    BY <1>5 DEF Updated, less
  <2> QED
    BY <2>2, <2>3
<1> QED
  BY <1>4, <1>5
-----------------------------------------------------------------------------
(***************************************************************************)
(* The invariant.                                                          *)
(***************************************************************************)
KeysDistinct == \A e, f \in Entries : key[e] = key[f] => e = f \/ key[e] = NoKey

TableInv ==
    /\ hash \in [Keys -> HashCodes]
    /\ key \in [Entries -> Keys \cup {NoKey}]
    /\ KeysDistinct
    /\ Holds(table, HashOf, Present)
    /\ \/ phase = "idle" /\ inserting = NoEntry
       \/ /\ phase \in {"try", "grow", "xassert"}
          /\ inserting \in Entries /\ key[inserting] # NoKey
    /\ phase = "xassert" => table.exp = ExpMax

LEMMA HashOfCodes ==
    ASSUME TableInv
    PROVE  /\ \A e \in Entries : key[e] # NoKey => HashOf[e] = hash[key[e]]
           /\ \A e \in Entries : key[e] # NoKey => HashOf[e] \in HashCodes
           /\ Coded(Present, HashOf)
<1>1. \A e \in Entries : key[e] # NoKey => HashOf[e] = hash[key[e]]
  BY DEF HashOf
<1>2. \A e \in Entries : key[e] # NoKey => hash[key[e]] \in HashCodes
  BY DEF TableInv
<1> HIDE DEF HashOf
<1> QED
  BY <1>1, <1>2 DEF Coded, Present

LEMMA TableInvInit == Init => TableInv
<1> SUFFICES ASSUME Init PROVE TableInv
  OBVIOUS
<1>1. Present = {} /\ KeysDistinct
  BY DEF Init, Present, KeysDistinct
<1>2. ExpMin \in Exps
  BY ExpAssumption DEF Exps
<1>3. /\ table.exp = ExpMin /\ table.used = 0 /\ table.buckets = EmptyBuckets(ExpMin)
      /\ table = [exp |-> ExpMin, used |-> 0, buckets |-> EmptyBuckets(ExpMin)]
  BY DEF Init
<1>4. Keeps(EmptyBuckets(ExpMin), ExpMin, HashOf, {}, {})
  BY <1>2, EmptyKeeps
<1>5. EmptyBuckets(ExpMin) \in Buckets(ExpMin)
  BY <1>4 DEF Keeps
<1>6. table \in Tables
  BY <1>2, <1>3, <1>5 DEF Tables
<1>7. IsFiniteSet({}) /\ Cardinality({}) = 0
  BY FS_EmptySet
<1>8. Holds(table, HashOf, Present)
  BY <1>1, <1>3, <1>4, <1>6, <1>7 DEF Holds
<1>9. key \in [Entries -> Keys \cup {NoKey}]
  BY DEF Init
<1> QED
  BY <1>1, <1>8, <1>9 DEF Init, TableInv

LEMMA InsertStep ==
    ASSUME TableInv, NEW e \in Entries, NEW k \in Keys, Insert(e, k)
    PROVE  TableInv'
<1>1. /\ phase = "idle" /\ inserting = NoEntry /\ key[e] = NoKey
      /\ \A f \in Entries : key[f] # k
      /\ key' = [key EXCEPT ![e] = k] /\ inserting' = e /\ phase' = "try"
      /\ hash' = hash /\ table' = table /\ k # NoKey
      /\ key \in [Entries -> Keys \cup {NoKey}]
  BY NoneAssumption DEF Insert, TableInv
<1>2. /\ key' \in [Entries -> Keys \cup {NoKey}] /\ key'[e] = k
      /\ \A f \in Entries : f # e => key'[f] = key[f]
  BY <1>1
<1>3. Present' = Present
  BY <1>1, <1>2, NoneAssumption DEF Present
<1>4. \A f \in Present : HashOf'[f] = HashOf[f]
  <2>1. \A f \in Present : f \in Entries /\ f # e /\ key[f] # NoKey
    BY <1>1 DEF Present
  <2> QED
    BY <1>1, <1>2, <2>1 DEF HashOf
<1>5. Holds(table, HashOf', Present)
  BY <1>4, HoldsAgree DEF TableInv
<1>6. KeysDistinct'
  BY <1>1, <1>2 DEF TableInv, KeysDistinct
<1> QED
  BY <1>1, <1>2, <1>3, <1>5, <1>6 DEF TableInv

LEMMA TryStep ==
    ASSUME TableInv, Try
    PROVE  TableInv'
<1> DEFINE e    == inserting
           h    == HashOf[e]
           home == HashToIdx(h, table.exp)
           room == MakeRoom(table.buckets, home, table.exp)
           u    == Placed(room.t, home, room.b, e, h, table.exp)
<1>1. /\ phase = "try" /\ hash' = hash /\ key' = key
      /\ \/ /\ room.ok
            /\ table' = [table EXCEPT !.used = @ + 1, !.buckets = u]
            /\ inserting' = NoEntry /\ phase' = "idle"
         \/ /\ ~room.ok
            /\ table' = [table EXCEPT !.buckets = room.t]
            /\ phase' = "grow" /\ inserting' = inserting
  BY DEF Try
<1>2. e \in Entries /\ key[e] # NoKey /\ Holds(table, HashOf, Present)
  BY <1>1 DEF TableInv
<1>3. e \in Entries \ Present /\ Coded(Present \cup {e}, HashOf)
  BY <1>2, HashOfCodes DEF Coded, Present
<1>4. /\ room.ok => Holds([table EXCEPT !.used = @ + 1, !.buckets = u], HashOf, Present \cup {e})
      /\ ~room.ok => Holds([table EXCEPT !.buckets = room.t], HashOf, Present)
  BY <1>2, <1>3, RoomHolds
<1>5. HashOf' = HashOf
  BY <1>1 DEF HashOf
<1> HIDE DEF room, u
<1>6. CASE room.ok
  <2>1. Present' = Present \cup {e}
    BY <1>1, <1>2, <1>6, NoneAssumption DEF Present
  <2>2. Holds(table, HashOf, Present)'
    BY <1>1, <1>4, <1>5, <1>6, <2>1
  <2> QED
    BY <1>1, <1>6, <2>2 DEF TableInv, KeysDistinct
<1>7. CASE ~room.ok
  <2>1. Present' = Present
    BY <1>1, <1>7 DEF Present
  <2>2. Holds(table, HashOf, Present)'
    BY <1>1, <1>4, <1>5, <1>7, <2>1
  <2> QED
    BY <1>1, <1>2, <1>7, <2>2 DEF TableInv, KeysDistinct
<1> QED
  BY <1>6, <1>7

LEMMA GrowStep ==
    ASSUME TableInv, Grow
    PROVE  TableInv'
<1> DEFINE one == Rehash(table, table.exp + 1, HashOf)
           two == Rehash(table, table.exp + 2, HashOf)
           grown == IF one.ok THEN one ELSE two
<1>1. /\ phase = "grow" /\ table' = grown.t
      /\ phase' = IF grown.ok THEN "try" ELSE "xassert"
      /\ hash' = hash /\ key' = key /\ inserting' = inserting
  BY DEF Grow
<1>2. Holds(table, HashOf, Present) /\ Coded(Present, HashOf)
  BY HashOfCodes DEF TableInv
<1>3. /\ table.exp + 1 \in Nat /\ ExpMin <= table.exp + 1
      /\ table.exp + 2 \in Nat /\ ExpMin <= table.exp + 2
  BY <1>2, HoldsBuckets, ExpAssumption DEF Exps
<1>4. Holds(one.t, HashOf, Present) /\ Holds(two.t, HashOf, Present)
  BY <1>2, <1>3, RehashHolds
<1> HIDE DEF one, two
<1>5. Holds(table', HashOf, Present)
  BY <1>1, <1>4
<1>6. HashOf' = HashOf /\ Present' = Present
  BY <1>1 DEF HashOf, Present
<1> HIDE DEF grown
<1>7. phase' = "xassert" => table'.exp = ExpMax
  <2> SUFFICES ASSUME phase' = "xassert" PROVE table'.exp = ExpMax
    OBVIOUS
  <2>1. ~one.ok /\ ~two.ok
    BY <1>1 DEF grown
  <2>2. table.exp \in Exps
    BY <1>2, HoldsBuckets
  <2>3. table.exp + 1 \notin Exps
    BY <1>2, <2>1, RehashFits DEF one
  <2>4. table.exp = ExpMax
    BY <2>2, <2>3, ExpAssumption DEF Exps
  <2>5. TooLarge(table.exp + 1) /\ TooLarge(table.exp + 2)
    BY <2>4, ExpAssumption DEF TooLarge
  <2>6. two.t = table
    BY <2>5 DEF Rehash, two
  <2> QED
    BY <1>1, <2>1, <2>4, <2>6 DEF grown
<1>8. phase' \in {"try", "xassert"}
  BY <1>1
<1>9. inserting \in Entries /\ key[inserting] # NoKey
  BY <1>1 DEF TableInv
<1> QED
  BY <1>1, <1>5, <1>6, <1>7, <1>8, <1>9 DEF TableInv, KeysDistinct

LEMMA RemoveStep ==
    ASSUME TableInv, NEW e \in Entries, NEW byId \in BOOLEAN, Remove(e, byId)
    PROVE  TableInv'
<1>1. /\ phase = "idle" /\ inserting = NoEntry /\ key[e] # NoKey
      /\ key' = [key EXCEPT ![e] = NoKey]
      /\ hash' = hash /\ inserting' = inserting /\ phase' = phase
      /\ key \in [Entries -> Keys \cup {NoKey}]
      /\ Holds(table, HashOf, Present)
  BY DEF Remove, TableInv
<1>2. HashOf[e] = hash[key[e]] /\ HashOf[e] \in HashCodes /\ Coded(Present, HashOf)
  BY <1>1, HashOfCodes
<1>3. {f \in Entries : key[f] = key[e]} = {e}
  BY <1>1 DEF TableInv, KeysDistinct
<1>4. PICK id \in Found(table, HashOf[e], {e}) : table' = Updated(table, id, HashOf)
  BY <1>2, <1>3 DEF Remove, Search, FindEntry
<1>5. Holds(table', HashOf, Present \ {e})
  BY <1>1, <1>2, <1>4, UpdatedHolds
<1>6. /\ key' \in [Entries -> Keys \cup {NoKey}] /\ key'[e] = NoKey
      /\ \A f \in Entries : f # e => key'[f] = key[f]
  BY <1>1
<1>7. Present' = Present \ {e}
  BY <1>1, <1>6 DEF Present
<1>8. \A f \in Present \ {e} : HashOf'[f] = HashOf[f]
  <2>1. \A f \in Present \ {e} : f \in Entries /\ f # e /\ key[f] # NoKey
    BY DEF Present
  <2> QED
    BY <1>1, <1>6, <2>1 DEF HashOf
<1>9. Holds(table', HashOf', Present \ {e})
  BY <1>5, <1>8, HoldsAgree
<1>10. KeysDistinct'
  BY <1>6 DEF TableInv, KeysDistinct
<1> QED
  BY <1>1, <1>6, <1>7, <1>9, <1>10 DEF TableInv

LEMMA TableInvStep == TableInv /\ [Next]_vars => TableInv'
<1> SUFFICES ASSUME TableInv, [Next]_vars PROVE TableInv'
  OBVIOUS
<1>1. ASSUME NEW e \in Entries, NEW k \in Keys, Insert(e, k) PROVE TableInv'
  BY <1>1, InsertStep
<1>2. CASE Try
  BY <1>2, TryStep
<1>3. CASE Grow
  BY <1>3, GrowStep
<1>4. ASSUME NEW e \in Entries, NEW byId \in BOOLEAN, Remove(e, byId) PROVE TableInv'
  BY <1>4, RemoveStep
<1>5. CASE UNCHANGED vars
  <2>1. HashOf' = HashOf /\ Present' = Present
    BY <1>5 DEF vars, HashOf, Present
  <2> QED
    BY <1>5, <2>1 DEF vars, TableInv, KeysDistinct
<1> QED
  BY <1>1, <1>2, <1>3, <1>4, <1>5 DEF Next

LEMMA TableInvHolds == Spec => []TableInv
<1> QED
  BY TableInvInit, TableInvStep, PTL DEF Spec

\* The hash table and what its caller is at have their types.
THEOREM TypeCorrect == Spec => []TypeOK
<1>1. TableInv => TypeOK
  <2> SUFFICES ASSUME TableInv PROVE TypeOK
    OBVIOUS
  <2>1. /\ table.exp \in Exps /\ table.used \in Nat
        /\ table.buckets \in Buckets(table.exp)
    BY HoldsBuckets DEF TableInv
  <2>2. /\ DOMAIN table.buckets = Cells(table.exp)
        /\ \A i \in Cells(table.exp) :
              /\ table.buckets[i] \in Bucket
              /\ table.buckets[i].hop \subseteq 0 .. table.exp - 1
    BY <2>1 DEF Buckets
  <2>3. /\ inserting \in Entries \cup {NoEntry}
        /\ phase \in {"idle", "try", "grow", "xassert", "debug_assert"}
    BY DEF TableInv
  <2> QED
    BY <2>1, <2>2, <2>3 DEF TypeOK, TableInv, Exps, Cells
<1> QED
  BY <1>1, TableInvHolds, PTL

\* A search for a key finds the entry that has it, and nothing else.
THEOREM SearchesAreExact == Spec => []SearchIsExact
<1>1. TableInv => SearchIsExact
  <2> SUFFICES ASSUME TableInv, NEW k \in Keys
               PROVE  {table.buckets[id[1] + id[2]].entry : id \in Search(k)} =
                          {e \in Present : key[e] = k}
    BY DEF SearchIsExact
  <2> DEFINE t    == table.buckets
             exp  == table.exp
             home == HashToIdx(hash[k], exp)
             same == {e \in Entries : key[e] = k}
  <2>1. /\ exp \in Exps /\ hash[k] \in HashCodes
        /\ BitsLead(t, exp, HashOf, Present, {})
        /\ EntriesLed(t, exp, HashOf, Present, {})
        /\ EntriesOnce(t, exp, Present, {})
    BY HoldsBuckets DEF TableInv
  <2>2. home \in Cells(exp)
    BY <2>1, HomeInTable
  <2>3. Search(k) = Found(table, hash[k], same)
    BY DEF Search
  <2>4. ASSUME NEW id \in Search(k)
        PROVE  t[id[1] + id[2]].entry \in {e \in Present : key[e] = k}
    <3>1. /\ id[1] = home /\ id[2] \in t[id[1]].hop
          /\ t[id[1] + id[2]].entry \in same
      BY <2>3, FoundIs
    <3>2. t[id[1] + id[2]].entry \in Present
      BY <2>1, <2>2, <3>1 DEF BitsLead
    <3> QED
      BY <3>1, <3>2
  <2>5. ASSUME NEW e \in Present, key[e] = k
        PROVE  \E id \in Search(k) : e = t[id[1] + id[2]].entry
    <3>1. e \in Entries /\ HashOf[e] = hash[k] /\ e # NoEntry
      BY <2>5, HashOfCodes, NoneAssumption DEF Present
    <3>2. PICK j \in Cells(exp) : t[j].entry = e
      BY <2>1 DEF EntriesOnce
    <3>3. PICK m \in t[home].hop : j = home + m
      BY <2>1, <3>1, <3>2 DEF EntriesLed
    <3>4. t[home + m].frag = Fragment(hash[k], exp)
      BY <2>1, <2>2, <3>1, <3>2, <3>3 DEF BitsLead
    <3>5. <<home, m>> \in Search(k)
      BY <2>3, <2>5, <3>1, <3>2, <3>3, <3>4 DEF Found
    <3> QED
      BY <3>2, <3>3, <3>5
  <2> QED
    BY <2>4, <2>5
<1> QED
  BY <1>1, TableInvHolds, PTL

\* Each entry is in one bucket, each bucket that is in use belongs to one home,
\* and num_used is the number of the entries.
THEOREM BucketsAreDistinct == Spec => []BucketsDistinct
<1>1. TableInv => BucketsDistinct
  <2> SUFFICES ASSUME TableInv PROVE BucketsDistinct
    OBVIOUS
  <2> DEFINE t   == table.buckets
             exp == table.exp
             S   == {i \in DOMAIN t : t[i].entry # NoEntry}
             at  == [e \in Present |-> CHOOSE i \in S : t[i].entry = e]
  <2>1. /\ exp \in Exps /\ t \in Buckets(exp)
        /\ BitsLead(t, exp, HashOf, Present, {})
        /\ EntriesLed(t, exp, HashOf, Present, {})
        /\ EntriesOnce(t, exp, Present, {})
        /\ IsFiniteSet(Present) /\ table.used = Cardinality(Present)
    BY HoldsBuckets DEF TableInv, Holds
  <2>2. DOMAIN t = Cells(exp) /\ \A i \in Cells(exp) : i \in Nat
    BY <2>1 DEF Buckets, Cells
  <2>3. NoEntry \notin Present
    BY NoneAssumption DEF Present
  <2>4. Cardinality(S) = Cardinality(Present)
    <3>1. \A i \in S : t[i].entry \in Present
      BY <2>1, <2>2 DEF EntriesLed
    <3>2. \A i, j \in S : t[i].entry = t[j].entry => i = j
      BY <2>1, <2>2 DEF EntriesOnce
    <3>3. \A e \in Present : \E i \in S : t[i].entry = e
      BY <2>1, <2>2, <2>3 DEF EntriesOnce
    <3>4. \A e \in Present : at[e] \in S /\ t[at[e]].entry = e
      BY <3>3
    <3>5. \A i \in S : at[t[i].entry] = i
      BY <3>1, <3>2, <3>4
    <3>6. at \in [Present -> S]
      BY <3>4
    <3> HIDE DEF at, S
    <3>7. at \in Injection(Present, S) /\ at \in Surjection(Present, S)
      BY <3>1, <3>4, <3>5, <3>6 DEF Injection, IsInjective, Surjection
    <3>8. ExistsBijection(Present, S)
      BY <3>7 DEF ExistsBijection, Bijection
    <3> QED
      BY <2>1, <3>8, FS_Bijection
  <2>5. ASSUME NEW i \in DOMAIN t, NEW j \in DOMAIN t,
               NEW m \in t[i].hop, NEW n \in t[j].hop
        PROVE  /\ t[i + m].entry # NoEntry
               /\ i # j => i + m # j + n
    BY <2>1, <2>2, <2>3 DEF BitsLead
  <2> QED
    BY <2>1, <2>4, <2>5 DEF BucketsDistinct
<1> QED
  BY <1>1, TableInvHolds, PTL

\* An insertion fails for the largest table only: growing by one always makes
\* enough room.
THEOREM LargerTablesFit == Spec => []LargerTableFits
<1>1. TableInv => LargerTableFits
  BY DEF TableInv, LargerTableFits
<1> QED
  BY <1>1, TableInvHolds, PTL
=============================================================================
