---------------------------- MODULE FirefoxProofs -----------------------------
(***************************************************************************)
(* Proofs about FirefoxStore, for every number of rows, positions, names,  *)
(* URLs and keywords, and about FirefoxFile, where a browser commits       *)
(* between the requests.                                                   *)
(***************************************************************************)
EXTENDS FirefoxFile, FiniteSetTheorems, TLAPS

(***************************************************************************)
(* The type of a database.  The counts of places are integers here: that   *)
(* they stay above zero is a result.                                       *)
(***************************************************************************)
Tables(X, R) == UNION {[S -> R] : S \in SUBSET X}

Titles == Names \cup {NoName, BadName, "root", "menu", "tags", "tag"}

Rows == [parent : 0 .. MaxId, pos : 0 .. MaxPos, title : Titles,
         guid : Titles, fk : Urls \cup {NoUrl}]

Dbs == [bm : Tables(1 .. MaxId, Rows), places : Tables(Urls, Int),
        origins : SUBSET {Origin[u] : u \in Urls},
        keywords : Tables(Keywords, Urls), touched : SUBSET (1 .. MaxId)]
-----------------------------------------------------------------------------
(***************************************************************************)
(* Naturals.                                                               *)
(***************************************************************************)
\* A set of naturals has a least element.
LEMMA NatMin ==
    ASSUME NEW T, T \subseteq Nat, T # {}
    PROVE  \E x \in T : \A y \in T : x <= y
<1>1. IsWellFoundedOn(OpToRel(<, Nat), Nat)
  BY NatLessThanWellFounded
<1>2. PICK x \in T : \A y \in T : ~(<<y, x>> \in OpToRel(<, Nat))
  BY <1>1, WFMin
<1>3. \A y \in T : ~(y < x)
  BY <1>2 DEF OpToRel
<1> QED
  BY <1>3

\* A bounded set of naturals has a largest element.
LEMMA NatMax ==
    ASSUME NEW T, NEW n \in Nat, T \subseteq 0 .. n, T # {}
    PROVE  \E x \in T : \A y \in T : y <= x
<1> DEFINE U == {n - x : x \in T}
<1>1. \A x \in T : n - x \in Nat
  OBVIOUS
<1>1a. U \subseteq Nat /\ U # {}
  BY <1>1
<1>2. PICK u \in U : \A v \in U : u <= v
  BY <1>1a, NatMin
<1>3. PICK x \in T : u = n - x
  BY <1>2
<1>4. \A y \in T : n - x <= n - y
  BY <1>2, <1>3
<1> QED
  BY <1>3, <1>4
-----------------------------------------------------------------------------
(***************************************************************************)
(* Tables.                                                                 *)
(***************************************************************************)
LEMMA TableType ==
    ASSUME NEW X, NEW R, NEW f
    PROVE  f \in Tables(X, R) <=> /\ DOMAIN f \subseteq X
                                  /\ f \in [DOMAIN f -> R]
<1>1. f \in Tables(X, R) => DOMAIN f \subseteq X /\ f \in [DOMAIN f -> R]
  BY DEF Tables
<1>2. DOMAIN f \subseteq X /\ f \in [DOMAIN f -> R] => f \in Tables(X, R)
  BY DEF Tables
<1> QED
  BY <1>1, <1>2

LEMMA DbType ==
    ASSUME NEW d \in Dbs
    PROVE  /\ DOMAIN d.bm \subseteq 1 .. MaxId
           /\ d.bm \in [DOMAIN d.bm -> Rows]
           /\ DOMAIN d.places \subseteq Urls
           /\ d.places \in [DOMAIN d.places -> Int]
           /\ d.origins \subseteq {Origin[u] : u \in Urls}
           /\ DOMAIN d.keywords \subseteq Keywords
           /\ d.keywords \in [DOMAIN d.keywords -> Urls]
           /\ d.touched \subseteq 1 .. MaxId
<1>1. /\ d.bm \in Tables(1 .. MaxId, Rows) /\ d.places \in Tables(Urls, Int)
      /\ d.origins \subseteq {Origin[u] : u \in Urls}
      /\ d.keywords \in Tables(Keywords, Urls)
      /\ d.touched \subseteq 1 .. MaxId
  BY DEF Dbs
<1> QED
  BY <1>1, TableType

\* The rows of a new database.
LEMMA InitRows ==
    ASSUME Init
    PROVE  /\ DOMAIN db.bm = 1 .. 7
           /\ db.bm = [i \in 1 .. 7 |-> db.bm[i]]
           /\ db.bm[1] = Row(0, 0, "root", NoUrl)
           /\ db.bm[2] = Row(1, 0, "menu", NoUrl)
           /\ db.bm[3] = Row(1, 1, "tags", NoUrl)
           /\ db.bm[4] = Row(3, 0, "tag", NoUrl)
           /\ \E n \in Names \cup {BadName} : db.bm[5] = Row(2, 0, n, Blank)
           /\ db.bm[6] = Row(4, 0, NoName, Blank)
           /\ db.bm[7] = Row(2, 1, NoName, NoUrl)
           /\ db.places = [u \in {Blank} |-> 2]
           /\ db.origins = {Origin[Blank]}
           /\ db.keywords = <<>>
           /\ db.touched = {}
BY DEF Init, Root, Menu, TagsRoot, Tag, First, Mark, Rule

LEMMA InitDb ==
    ASSUME Init
    PROVE  db \in Dbs
<1> USE IdAssumption, UrlAssumption DEF Rule
<1>1. byGuid \in BOOLEAN
  BY NameAssumption DEF Init
<1>2. \A p \in 0 .. 7, x \in {0, 1}, n \in Titles, u \in Urls \cup {NoUrl} :
        Row(p, x, n, u) \in Rows
  BY <1>1 DEF Row, Rows, Titles
<1>3. \A i \in 1 .. 7 : db.bm[i] \in Rows
  <2>1. \A i \in 1 .. 7 : i = 1 \/ i = 2 \/ i = 3 \/ i = 4 \/ i = 5 \/ i = 6 \/ i = 7
    OBVIOUS
  <2>2. \A n \in Names \cup {BadName} : Row(2, 0, n, Blank) \in Rows
    BY <1>2 DEF Titles
  <2>3. /\ Row(0, 0, "root", NoUrl) \in Rows /\ Row(1, 0, "menu", NoUrl) \in Rows
        /\ Row(1, 1, "tags", NoUrl) \in Rows /\ Row(3, 0, "tag", NoUrl) \in Rows
        /\ Row(4, 0, NoName, Blank) \in Rows /\ Row(2, 1, NoName, NoUrl) \in Rows
    <3>1. /\ "root" \in Titles /\ "menu" \in Titles /\ "tags" \in Titles
          /\ "tag" \in Titles /\ NoName \in Titles
      BY DEF Titles
    <3> QED
      BY <1>2, <3>1
  <2> QED
    BY <2>1, <2>2, <2>3, InitRows
<1>4. db.bm \in Tables(1 .. MaxId, Rows)
  <2>1. DOMAIN db.bm = 1 .. 7 /\ db.bm \in [1 .. 7 -> Rows]
    BY <1>3, InitRows
  <2> QED
    BY <2>1, TableType
<1>5. db.places \in Tables(Urls, Int)
  BY TableType, InitRows
<1>6. db.keywords \in Tables(Keywords, Urls)
  <2>1. <<>> \in [{} -> Urls]
    OBVIOUS
  <2> QED
    BY <2>1, InitRows DEF Tables
<1>7. db = [bm |-> db.bm, places |-> db.places, origins |-> db.origins,
            keywords |-> db.keywords, touched |-> db.touched]
  <2>1. \E b : db = [bm |-> b, places |-> [u \in {Blank} |-> 2],
                     origins |-> {Origin[Blank]}, keywords |-> <<>>, touched |-> {}]
    BY Zenon DEF Init
  <2> QED
    BY <2>1
<1> QED
  BY <1>4, <1>5, <1>6, <1>7, InitRows DEF Dbs
-----------------------------------------------------------------------------
(***************************************************************************)
(* What the statements do to the tables.                                   *)
(***************************************************************************)
LEMMA WithBm ==
    ASSUME NEW d \in Dbs, NEW t \in Tables(1 .. MaxId, Rows)
    PROVE  LET e == [d EXCEPT !.bm = t]
           IN /\ e \in Dbs /\ e.bm = t
              /\ e.places = d.places /\ e.origins = d.origins
              /\ e.keywords = d.keywords /\ e.touched = d.touched
BY DEF Dbs

LEMMA WithKeywords ==
    ASSUME NEW d \in Dbs, NEW t \in Tables(Keywords, Urls)
    PROVE  LET e == [d EXCEPT !.keywords = t]
           IN /\ e \in Dbs /\ e.keywords = t
              /\ e.places = d.places /\ e.origins = d.origins
              /\ e.bm = d.bm /\ e.touched = d.touched
BY DEF Dbs

LEMMA WithPlaces ==
    ASSUME NEW d \in Dbs, NEW t \in Tables(Urls, Int)
    PROVE  LET e == [d EXCEPT !.places = t]
           IN /\ e \in Dbs /\ e.places = t
              /\ e.keywords = d.keywords /\ e.origins = d.origins
              /\ e.bm = d.bm /\ e.touched = d.touched
BY DEF Dbs

LEMMA WithOrigins ==
    ASSUME NEW d \in Dbs, NEW O \in SUBSET {Origin[u] : u \in Urls}
    PROVE  LET e == [d EXCEPT !.origins = O]
           IN /\ e \in Dbs /\ e.origins = O
              /\ e.keywords = d.keywords /\ e.places = d.places
              /\ e.bm = d.bm /\ e.touched = d.touched
BY DEF Dbs

LEMMA MtimeType ==
    ASSUME NEW d \in Dbs, NEW S \in SUBSET (1 .. MaxId)
    PROVE  LET e == MtimeUpdate(d, S)
           IN /\ e \in Dbs /\ e.touched = d.touched \cup S
              /\ e.keywords = d.keywords /\ e.places = d.places
              /\ e.bm = d.bm /\ e.origins = d.origins
BY DEF Dbs, MtimeUpdate

LEMMA DropRowsType ==
    ASSUME NEW d \in Dbs, NEW S
    PROVE  LET e == DropRows(d, S)
           IN /\ e \in Dbs
              /\ e.bm = [i \in DOMAIN d.bm \ S |-> d.bm[i]]
              /\ e.places = d.places /\ e.origins = d.origins
              /\ e.keywords = d.keywords /\ e.touched = d.touched
<1> DEFINE t == [i \in DOMAIN d.bm \ S |-> d.bm[i]]
<1>1. DOMAIN t \subseteq 1 .. MaxId /\ t \in [DOMAIN t -> Rows]
  BY DbType
<1>2. t \in Tables(1 .. MaxId, Rows)
  BY <1>1, TableType
<1>3. DropRows(d, S) = [d EXCEPT !.bm = t]
  BY DEF DropRows, Restrict
<1> QED
  BY <1>2, <1>3, WithBm

LEMMA DropKeywordsType ==
    ASSUME NEW d \in Dbs, NEW S
    PROVE  LET e == [d EXCEPT !.keywords = Restrict(@, DOMAIN @ \ S)]
           IN /\ e \in Dbs
              /\ e.keywords = [k \in DOMAIN d.keywords \ S |-> d.keywords[k]]
              /\ e.places = d.places /\ e.origins = d.origins
              /\ e.bm = d.bm /\ e.touched = d.touched
<1> DEFINE t == [k \in DOMAIN d.keywords \ S |-> d.keywords[k]]
<1>1. DOMAIN t \subseteq Keywords /\ t \in [DOMAIN t -> Urls]
  BY DbType
<1>2. t \in Tables(Keywords, Urls)
  BY <1>1, TableType
<1>3. [d EXCEPT !.keywords = Restrict(@, DOMAIN @ \ S)] = [d EXCEPT !.keywords = t]
  BY DEF Restrict
<1> DEFINE e == [d EXCEPT !.keywords = Restrict(@, DOMAIN @ \ S)]
<1>4. e = [d EXCEPT !.keywords = t]
  BY <1>3
<1> HIDE DEF e, t
<1>5. /\ e \in Dbs /\ e.keywords = t
      /\ e.places = d.places /\ e.origins = d.origins
      /\ e.bm = d.bm /\ e.touched = d.touched
  BY <1>2, <1>4, WithKeywords
<1> QED
  BY <1>5 DEF e, t

(***************************************************************************)
(* The count of a place, 0 when there is none, and what refers to it.      *)
(***************************************************************************)
Count(d, v) == IF v \in DOMAIN d.places THEN d.places[v] ELSE 0

RowsOf(d, v) == {i \in DOMAIN d.bm : d.bm[i].fk = v}
KeysOf(d, v) == {k \in DOMAIN d.keywords : d.keywords[k] = v}

\* Places have references, origins have places.
PlacesOK(d) ==
    /\ d.origins = {Origin[u] : u \in DOMAIN d.places}
    /\ \A v \in DOMAIN d.places : d.places[v] > 0

LEMMA AddrefEffect ==
    ASSUME NEW d \in Dbs, NEW u \in Urls
    PROVE  LET e == MozplaceAddref(d, u)
           IN /\ e \in Dbs
              /\ e.bm = d.bm /\ e.keywords = d.keywords /\ e.touched = d.touched
              /\ PlacesOK(d) => PlacesOK(e)
              /\ \A v \in Urls : Count(e, v) = IF v = u THEN Count(d, v) + 1
                                                        ELSE Count(d, v)
<1> DEFINE e == MozplaceAddref(d, u)
<1>1. CASE u \in DOMAIN d.places
  <2> DEFINE t == [d.places EXCEPT ![u] = @ + 1]
  <2>1. t \in Tables(Urls, Int) /\ DOMAIN t = DOMAIN d.places
    BY <1>1, DbType, TableType
  <2>2. e = [d EXCEPT !.places = t]
    BY <1>1 DEF MozplaceAddref, Dbs
  <2>3. /\ e \in Dbs /\ e.places = t /\ e.origins = d.origins
        /\ e.bm = d.bm /\ e.keywords = d.keywords /\ e.touched = d.touched
    BY <2>1, <2>2, WithPlaces
  <2>4. \A v \in DOMAIN d.places : t[v] = IF v = u THEN d.places[v] + 1 ELSE d.places[v]
    BY <1>1, DbType
  <2>5. \A v \in DOMAIN d.places : d.places[v] \in Int
    BY DbType
  <2>6. PlacesOK(d) => PlacesOK(e)
    BY <2>1, <2>3, <2>4, <2>5 DEF PlacesOK
  <2>7. \A v \in Urls : Count(e, v) = IF v = u THEN Count(d, v) + 1 ELSE Count(d, v)
    BY <1>1, <2>1, <2>3, <2>4 DEF Count
  <2> QED
    BY <2>3, <2>6, <2>7
<1>2. CASE u \notin DOMAIN d.places
  <2> DEFINE t == [v \in DOMAIN d.places \cup {u} |-> IF v = u THEN 1 ELSE d.places[v]]
             O == d.origins \cup {Origin[u]}
  <2>1. t \in Tables(Urls, Int) /\ DOMAIN t = DOMAIN d.places \cup {u}
    <3>1. DOMAIN t \subseteq Urls /\ t \in [DOMAIN t -> Int]
      BY DbType
    <3> QED
      BY <3>1, TableType
  <2>2. e = [[d EXCEPT !.origins = O] EXCEPT !.places = t]
    BY <1>2 DEF MozplaceAddref, Dbs
  <2>3. O \in SUBSET {Origin[v] : v \in Urls}
    BY DbType
  <2>4. /\ e \in Dbs /\ e.places = t /\ e.origins = O
        /\ e.bm = d.bm /\ e.keywords = d.keywords /\ e.touched = d.touched
    <3> DEFINE c == [d EXCEPT !.origins = O]
    <3>1. /\ c \in Dbs /\ c.origins = O
          /\ c.bm = d.bm /\ c.keywords = d.keywords /\ c.touched = d.touched
      BY <2>3, WithOrigins
    <3> HIDE DEF c, t, O, e
    <3> QED
      BY <2>1, <2>2, <3>1, WithPlaces DEF c
  <2>5. \A v \in DOMAIN d.places : t[v] = d.places[v]
    BY <1>2
  <2>6. PlacesOK(d) => PlacesOK(e)
    BY <2>1, <2>4, <2>5 DEF PlacesOK
  <2>7. \A v \in Urls : Count(e, v) = IF v = u THEN Count(d, v) + 1 ELSE Count(d, v)
    BY <1>2, <2>1, <2>4, <2>5 DEF Count
  <2> QED
    BY <2>4, <2>6, <2>7
<1> QED
  BY <1>1, <1>2

LEMMA PlaceDeleteEffect ==
    ASSUME NEW d \in Dbs, NEW u \in DOMAIN d.places
    PROVE  LET e == MozplaceDelete(d, u)
           IN /\ e \in Dbs
              /\ e.bm = d.bm /\ e.keywords = d.keywords /\ e.touched = d.touched
              /\ PlacesOK(d) => PlacesOK(e)
              /\ \A v \in Urls : Count(e, v) = IF v = u THEN 0 ELSE Count(d, v)
<1> DEFINE t == [v \in DOMAIN d.places \ {u} |-> d.places[v]]
           c == [d EXCEPT !.places = t]
           e == MozplaceDelete(d, u)
<1>1. t \in Tables(Urls, Int) /\ DOMAIN t = DOMAIN d.places \ {u}
  <2>1. DOMAIN t \subseteq Urls /\ t \in [DOMAIN t -> Int]
    BY DbType
  <2> QED
    BY <2>1, TableType
<1>2. /\ c \in Dbs /\ c.places = t /\ c.origins = d.origins
      /\ c.bm = d.bm /\ c.keywords = d.keywords /\ c.touched = d.touched
  <2> HIDE DEF t
  <2> QED
    BY <1>1, WithPlaces
<1>3. e = MozoriginDelete(c, Origin[u])
  BY DEF MozplaceDelete, Restrict
<1>4. /\ e \in Dbs /\ e.places = t
      /\ e.bm = d.bm /\ e.keywords = d.keywords /\ e.touched = d.touched
      /\ e.origins = IF \E v \in DOMAIN t : Origin[v] = Origin[u]
                     THEN d.origins ELSE d.origins \ {Origin[u]}
  <2> HIDE DEF c, t, e
  <2>1. c.origins \ {Origin[u]} \in SUBSET {Origin[v] : v \in Urls}
    BY <1>2, DbType
  <2>2. CASE \E v \in DOMAIN t : Origin[v] = Origin[u]
    BY <1>2, <1>3, <2>2 DEF MozoriginDelete
  <2>3. CASE ~\E v \in DOMAIN t : Origin[v] = Origin[u]
    <3> DEFINE O == c.origins \ {Origin[u]}
    <3>1. e = [c EXCEPT !.origins = O]
      BY <1>2, <1>3, <2>3 DEF MozoriginDelete
    <3>2. O = d.origins \ {Origin[u]}
      BY <1>2
    <3> HIDE DEF O
    <3>3. /\ e \in Dbs /\ e.origins = O /\ e.keywords = c.keywords
          /\ e.places = c.places /\ e.bm = c.bm /\ e.touched = c.touched
      BY <1>2, <2>1, <3>1, WithOrigins DEF O
    <3> QED
      BY <1>2, <2>3, <3>2, <3>3
  <2> QED
    BY <2>2, <2>3
<1>5. PlacesOK(d) => PlacesOK(e)
  <2> SUFFICES ASSUME PlacesOK(d) PROVE PlacesOK(e)
    OBVIOUS
  <2>1. e.origins = {Origin[v] : v \in DOMAIN t}
    <3> HIDE DEF e, c, t
    <3>1. CASE \E v \in DOMAIN t : Origin[v] = Origin[u]
      BY <1>1, <1>4, <3>1 DEF PlacesOK
    <3>2. CASE ~\E v \in DOMAIN t : Origin[v] = Origin[u]
      BY <1>1, <1>4, <3>2 DEF PlacesOK
    <3> QED
      BY <3>1, <3>2
  <2>2. \A v \in DOMAIN t : t[v] = d.places[v]
    OBVIOUS
  <2> HIDE DEF e, c, t
  <2> QED
    BY <1>1, <1>4, <2>1, <2>2 DEF PlacesOK
<1>6. \A v \in Urls : Count(e, v) = IF v = u THEN 0 ELSE Count(d, v)
  BY <1>1, <1>4 DEF Count
<1> QED
  BY <1>4, <1>5, <1>6

LEMMA DelrefEffect ==
    ASSUME NEW d \in Dbs, NEW u \in DOMAIN d.places, NEW n \in Nat \ {0}
    PROVE  LET e == Delref(d, u, n)
           IN /\ e \in Dbs
              /\ e.bm = d.bm /\ e.keywords = d.keywords /\ e.touched = d.touched
              /\ PlacesOK(d) /\ n <= d.places[u]
                 => /\ PlacesOK(e)
                    /\ \A v \in Urls : Count(e, v) = IF v = u THEN Count(d, v) - n
                                                              ELSE Count(d, v)
<1> DEFINE e == Delref(d, u, n)
<1>1. CASE d.places[u] = n
  <2>1. e = MozplaceDelete(d, u)
    BY <1>1 DEF Delref
  <2>2. Count(d, u) - n = 0
    BY <1>1 DEF Count
  <2> HIDE DEF e
  <2>3. /\ e \in Dbs /\ e.bm = d.bm /\ e.keywords = d.keywords /\ e.touched = d.touched
        /\ PlacesOK(d) => PlacesOK(e)
        /\ \A v \in Urls : Count(e, v) = IF v = u THEN 0 ELSE Count(d, v)
    BY <2>1, PlaceDeleteEffect
  <2> QED
    BY <2>2, <2>3 DEF e
<1>2. CASE d.places[u] # n
  <2> DEFINE t == [d.places EXCEPT ![u] = @ - n]
  <2>1. t \in Tables(Urls, Int) /\ DOMAIN t = DOMAIN d.places
    BY DbType, TableType
  <2>2. e = [d EXCEPT !.places = t]
    BY <1>2 DEF Delref, Dbs
  <2>3. \A v \in DOMAIN d.places : /\ d.places[v] \in Int
                                   /\ t[v] = IF v = u THEN d.places[v] - n ELSE d.places[v]
    BY DbType
  <2> HIDE DEF t
  <2>4. /\ e \in Dbs /\ e.places = t /\ e.origins = d.origins
        /\ e.bm = d.bm /\ e.keywords = d.keywords /\ e.touched = d.touched
    BY <2>1, <2>2, WithPlaces
  <2>5. PlacesOK(d) /\ n <= d.places[u] => PlacesOK(e)
    BY <1>2, <2>1, <2>3, <2>4 DEF PlacesOK
  <2>6. \A v \in Urls : Count(e, v) = IF v = u THEN Count(d, v) - n ELSE Count(d, v)
    BY <2>1, <2>3, <2>4 DEF Count
  <2> QED
    BY <2>4, <2>5, <2>6
<1> QED
  BY <1>1, <1>2
-----------------------------------------------------------------------------
Refs(d, v) == Cardinality(RowsOf(d, v)) + Cardinality(KeysOf(d, v))

\* RefCountsMatch, of any database.
Counted(d) ==
    /\ PlacesOK(d)
    /\ IsFiniteSet(DOMAIN d.keywords)
    /\ \A v \in Urls : Count(d, v) = Refs(d, v)

LEMMA RefsFinite ==
    ASSUME NEW d \in Dbs, IsFiniteSet(DOMAIN d.keywords), NEW v
    PROVE  /\ IsFiniteSet(RowsOf(d, v)) /\ Cardinality(RowsOf(d, v)) \in Nat
           /\ IsFiniteSet(KeysOf(d, v)) /\ Cardinality(KeysOf(d, v)) \in Nat
<1>1. RowsOf(d, v) \in SUBSET (1 .. MaxId)
  BY DbType DEF RowsOf
<1>2. IsFiniteSet(1 .. MaxId)
  BY FS_Interval, IdAssumption
<1>3. IsFiniteSet(RowsOf(d, v))
  BY <1>1, <1>2, FS_Subset
<1>4. KeysOf(d, v) \in SUBSET (DOMAIN d.keywords)
  BY DEF KeysOf
<1>5. IsFiniteSet(KeysOf(d, v))
  BY <1>4, FS_Subset
<1> QED
  BY <1>3, <1>5, FS_CardinalityType

\* A place that a row refers to exists.
LEMMA ReferredExists ==
    ASSUME NEW d \in Dbs, Counted(d), NEW u \in Urls,
           RowsOf(d, u) # {} \/ KeysOf(d, u) # {}
    PROVE  u \in DOMAIN d.places /\ d.places[u] = Refs(d, u) /\ Refs(d, u) \in Nat \ {0}
<1>1. /\ IsFiniteSet(RowsOf(d, u)) /\ Cardinality(RowsOf(d, u)) \in Nat
      /\ IsFiniteSet(KeysOf(d, u)) /\ Cardinality(KeysOf(d, u)) \in Nat
  BY RefsFinite DEF Counted
<1>2. Refs(d, u) \in Nat \ {0}
  BY <1>1, FS_EmptySet DEF Refs
<1> QED
  BY <1>2 DEF Counted, Count

LEMMA PurgeEffect ==
    ASSUME NEW d \in Dbs, Counted(d), NEW u \in DOMAIN d.places
    PROVE  LET e == Purge(d, u)
           IN /\ e \in Dbs /\ Counted(e) /\ e.touched = d.touched
              /\ \E D \in SUBSET RowsOf(d, u) :
                    /\ \A i \in D : d.bm[i].title = NoName
                    /\ e.bm = [i \in DOMAIN d.bm \ D |-> d.bm[i]]
<1> DEFINE e == Purge(d, u)
           tags == RowsOf(d, u)
           keys == KeysOf(d, u)
           n == Cardinality(tags) + Cardinality(keys)
<1>0. u \in Urls
  BY DbType
<1>1. CASE e = d
  <2>1. d.bm = [i \in DOMAIN d.bm \ {} |-> d.bm[i]]
    BY DbType
  <2>2. \E D \in SUBSET RowsOf(d, u) :
            /\ \A i \in D : d.bm[i].title = NoName
            /\ e.bm = [i \in DOMAIN d.bm \ D |-> d.bm[i]]
    <3> WITNESS {} \in SUBSET RowsOf(d, u)
    <3> HIDE DEF e
    <3> QED
      BY <1>1, <2>1
  <2>3. e \in Dbs /\ Counted(e) /\ e.touched = d.touched
    <3> HIDE DEF e
    <3> QED
      BY <1>1
  <2> QED
    BY <2>2, <2>3
<1>2. CASE e # d
  <2> DEFINE a == DropRows(d, tags)
             b == [a EXCEPT !.keywords = Restrict(@, DOMAIN @ \ keys)]
  <2>1. /\ e = Delref(b, u, n)
        /\ \A i \in tags : d.bm[i].title = NoName
        /\ tags # {} \/ keys # {}
    BY <1>2 DEF Purge, RowsOf, KeysOf
  <2>2. n \in Nat \ {0} /\ d.places[u] = n
    BY <1>0, <2>1, ReferredExists DEF Refs
  <2>3. /\ a \in Dbs /\ a.bm = [i \in DOMAIN d.bm \ tags |-> d.bm[i]]
        /\ a.places = d.places /\ a.origins = d.origins
        /\ a.keywords = d.keywords /\ a.touched = d.touched
    BY DropRowsType
  <2> HIDE DEF a
  <2>4. /\ b \in Dbs /\ b.bm = a.bm
        /\ b.keywords = [k \in DOMAIN a.keywords \ keys |-> a.keywords[k]]
        /\ b.places = a.places /\ b.origins = a.origins /\ b.touched = a.touched
    BY <2>3, DropKeywordsType
  <2> HIDE DEF b, tags, keys, n, e
  <2>5. PlacesOK(b) /\ u \in DOMAIN b.places /\ b.places[u] = n
    BY <2>2, <2>3, <2>4 DEF PlacesOK, Counted
  <2>6. /\ e \in Dbs /\ PlacesOK(e)
        /\ e.bm = b.bm /\ e.keywords = b.keywords /\ e.touched = b.touched
        /\ \A v \in Urls : Count(e, v) = IF v = u THEN Count(b, v) - n ELSE Count(b, v)
    BY <2>1, <2>2, <2>4, <2>5, DelrefEffect
  <2>7. IsFiniteSet(DOMAIN e.keywords)
    <3>1. DOMAIN e.keywords \in SUBSET (DOMAIN d.keywords)
      BY <2>3, <2>4, <2>6
    <3> QED
      BY <3>1, FS_Subset DEF Counted
  <2>8. \A v \in Urls : Count(e, v) = Refs(e, v)
    <3> SUFFICES ASSUME NEW v \in Urls PROVE Count(e, v) = Refs(e, v)
      OBVIOUS
    <3>1. Count(b, v) = Count(d, v)
      BY <2>3, <2>4 DEF Count
    <3>2. CASE v = u
      <4>1. RowsOf(e, v) = {} /\ KeysOf(e, v) = {}
        BY <2>3, <2>4, <2>6, <3>2 DEF RowsOf, KeysOf, tags, keys
      <4>2. Count(e, v) = 0
        BY <2>2, <2>5, <2>6, <3>2 DEF Count
      <4> QED
        BY <4>1, <4>2, FS_EmptySet DEF Refs
    <3>3. CASE v # u
      <4>1. RowsOf(e, v) = RowsOf(d, v) /\ KeysOf(e, v) = KeysOf(d, v)
        BY <2>3, <2>4, <2>6, <3>3 DEF RowsOf, KeysOf, tags, keys
      <4> QED
        BY <2>6, <3>1, <3>3, <4>1 DEF Refs, Counted
    <3> QED
      BY <3>2, <3>3
  <2>9. /\ tags \in SUBSET RowsOf(d, u)
        /\ e.bm = [i \in DOMAIN d.bm \ tags |-> d.bm[i]]
    BY <2>3, <2>4, <2>6 DEF tags
  <2>10. \E D \in SUBSET RowsOf(d, u) :
            /\ \A i \in D : d.bm[i].title = NoName
            /\ e.bm = [i \in DOMAIN d.bm \ D |-> d.bm[i]]
    BY <2>1, <2>9
  <2>11. e \in Dbs /\ Counted(e) /\ e.touched = d.touched
    BY <2>3, <2>4, <2>6, <2>7, <2>8 DEF Counted
  <2> QED
    BY <2>10, <2>11 DEF e
<1> QED
  BY <1>1, <1>2

\* The place has one reference less than it counts.
Owing(d, u) ==
    /\ PlacesOK(d)
    /\ IsFiniteSet(DOMAIN d.keywords)
    /\ \A v \in Urls : Count(d, v) = IF v = u THEN Refs(d, v) + 1 ELSE Refs(d, v)

LEMMA MozplaceDelrefEffect ==
    ASSUME NEW d \in Dbs, NEW u \in Urls, Owing(d, u), NEW purge
    PROVE  LET e == MozplaceDelref(d, u, purge)
           IN /\ e \in Dbs /\ Counted(e) /\ e.touched = d.touched
              /\ \E D \in SUBSET RowsOf(d, u) :
                    /\ \A i \in D : d.bm[i].title = NoName
                    /\ e.bm = [i \in DOMAIN d.bm \ D |-> d.bm[i]]
<1> DEFINE a == Delref(d, u, 1)
           e == MozplaceDelref(d, u, purge)
<1>1. \A v \in Urls : Refs(d, v) \in Nat
  BY RefsFinite DEF Refs, Owing
<1>2. u \in DOMAIN d.places /\ 1 <= d.places[u]
  BY <1>1 DEF Owing, Count
<1>3. /\ a \in Dbs /\ a.bm = d.bm /\ a.keywords = d.keywords /\ a.touched = d.touched
      /\ PlacesOK(a)
      /\ \A v \in Urls : Count(a, v) = IF v = u THEN Count(d, v) - 1 ELSE Count(d, v)
  BY <1>2, DelrefEffect DEF Owing
<1> HIDE DEF a
<1>4. Counted(a)
  <2>1. \A v \in Urls : Refs(a, v) = Refs(d, v)
    BY <1>3 DEF Refs, RowsOf, KeysOf
  <2>2. \A v \in Urls : Count(a, v) = Refs(a, v)
    BY <1>1, <1>3, <2>1 DEF Owing
  <2> QED
    BY <1>3, <2>2 DEF Counted, Owing
<1>5. CASE purge /\ u \in DOMAIN a.places
  <2>1. e = Purge(a, u)
    BY <1>5 DEF MozplaceDelref, a
  <2>2. RowsOf(a, u) = RowsOf(d, u)
    BY <1>3 DEF RowsOf
  <2> HIDE DEF e
  <2>3. /\ e \in Dbs /\ Counted(e) /\ e.touched = a.touched
        /\ \E D \in SUBSET RowsOf(a, u) :
              /\ \A i \in D : a.bm[i].title = NoName
              /\ e.bm = [i \in DOMAIN a.bm \ D |-> a.bm[i]]
    BY <1>3, <1>4, <1>5, <2>1, PurgeEffect
  <2>4. \E D \in SUBSET RowsOf(d, u) :
              /\ \A i \in D : d.bm[i].title = NoName
              /\ e.bm = [i \in DOMAIN d.bm \ D |-> d.bm[i]]
    BY <1>3, <2>2, <2>3
  <2> QED
    BY <1>3, <2>3, <2>4 DEF e
<1>6. CASE ~(purge /\ u \in DOMAIN a.places)
  <2>1. e = a
    BY <1>6 DEF MozplaceDelref, a
  <2> HIDE DEF e
  <2>2. \E D \in SUBSET RowsOf(d, u) :
              /\ \A i \in D : d.bm[i].title = NoName
              /\ e.bm = [i \in DOMAIN d.bm \ D |-> d.bm[i]]
    <3> WITNESS {} \in SUBSET RowsOf(d, u)
    <3> QED
      BY <1>3, <2>1, DbType
  <2>3. e \in Dbs /\ Counted(e) /\ e.touched = d.touched
    BY <1>3, <1>4, <2>1
  <2> QED
    BY <2>2, <2>3 DEF e
<1> QED
  BY <1>5, <1>6

\* One reference of a row less.
LEMMA DropOne ==
    ASSUME NEW d \in Dbs, Counted(d), NEW i \in DOMAIN d.bm
    PROVE  LET e == DropRows(d, {i})
           IN /\ d.bm[i].fk = NoUrl => Counted(e)
              /\ d.bm[i].fk # NoUrl => d.bm[i].fk \in Urls /\ Owing(e, d.bm[i].fk)
<1> DEFINE e == DropRows(d, {i})
           u == d.bm[i].fk
<1>1. /\ e \in Dbs /\ e.bm = [k \in DOMAIN d.bm \ {i} |-> d.bm[k]]
      /\ e.places = d.places /\ e.origins = d.origins
      /\ e.keywords = d.keywords /\ e.touched = d.touched
  BY DropRowsType
<1>2. u \in Urls \cup {NoUrl}
  BY DbType DEF Rows
<1>3. PlacesOK(e) /\ IsFiniteSet(DOMAIN e.keywords)
  BY <1>1 DEF PlacesOK, Counted
<1>4. ASSUME NEW v \in Urls
      PROVE  Count(e, v) = IF v = u THEN Refs(e, v) + 1 ELSE Refs(e, v)
  <2>1. Count(e, v) = Count(d, v) /\ KeysOf(e, v) = KeysOf(d, v)
    BY <1>1 DEF Count, KeysOf
  <2>2. /\ IsFiniteSet(RowsOf(d, v)) /\ Cardinality(RowsOf(d, v)) \in Nat
        /\ Cardinality(KeysOf(d, v)) \in Nat
    BY RefsFinite DEF Counted
  <2>3. RowsOf(e, v) = RowsOf(d, v) \ {i}
    BY <1>1 DEF RowsOf
  <2>4. i \in RowsOf(d, v) <=> v = u
    BY DEF RowsOf
  <2>5. Cardinality(RowsOf(e, v)) = IF v = u THEN Cardinality(RowsOf(d, v)) - 1
                                             ELSE Cardinality(RowsOf(d, v))
    BY <2>2, <2>3, <2>4, FS_RemoveElement
  <2> HIDE DEF e, u
  <2> QED
    BY <2>1, <2>2, <2>5 DEF Refs, Counted
<1> HIDE DEF e, u
<1>5. u = NoUrl => Counted(e)
  BY <1>3, <1>4, UrlAssumption DEF Counted
<1>6. u # NoUrl => u \in Urls /\ Owing(e, u)
  BY <1>2, <1>3, <1>4 DEF Owing
<1> QED
  BY <1>5, <1>6 DEF e, u

\* What a deletion takes with it: the row, and with the last bookmark of a URL
\* the tags.
LEMMA DeletedEffect ==
    ASSUME NEW d \in Dbs, Counted(d), NEW i \in DOMAIN d.bm, NEW purge
    PROVE  LET e == Deleted(d, i, purge)
           IN /\ e \in Dbs /\ Counted(e) /\ e.touched = d.touched
              /\ \E D \in SUBSET DOMAIN d.bm :
                    /\ i \in D
                    /\ \A k \in D : k # i => d.bm[k].title = NoName /\ d.bm[k].fk \in Urls
                    /\ e.bm = [k \in DOMAIN d.bm \ D |-> d.bm[k]]
<1> DEFINE a == DropRows(d, {i})
           e == Deleted(d, i, purge)
           u == d.bm[i].fk
<1>1. /\ a \in Dbs /\ a.bm = [k \in DOMAIN d.bm \ {i} |-> d.bm[k]]
      /\ a.touched = d.touched
  BY DropRowsType
<1>2. CASE u = NoUrl
  <2>1. e = a /\ Counted(a)
    BY <1>2, DropOne DEF Deleted, IsFolder
  <2> HIDE DEF e, a
  <2>2. \E D \in SUBSET DOMAIN d.bm :
            /\ i \in D
            /\ \A k \in D : k # i => d.bm[k].title = NoName /\ d.bm[k].fk \in Urls
            /\ e.bm = [k \in DOMAIN d.bm \ D |-> d.bm[k]]
    <3>1. {i} \in SUBSET DOMAIN d.bm
      OBVIOUS
    <3> WITNESS {i} \in SUBSET DOMAIN d.bm
    <3> QED
      BY <1>1, <2>1
  <2> QED
    BY <1>1, <2>1, <2>2 DEF e
<1>3. CASE u # NoUrl
  <2>1. e = MozplaceDelref(a, u, purge) /\ u \in Urls /\ Owing(a, u)
    BY <1>3, DropOne DEF Deleted, IsFolder
  <2> HIDE DEF e, a, u
  <2>2. /\ e \in Dbs /\ Counted(e) /\ e.touched = a.touched
        /\ \E D \in SUBSET RowsOf(a, u) :
              /\ \A k \in D : a.bm[k].title = NoName
              /\ e.bm = [k \in DOMAIN a.bm \ D |-> a.bm[k]]
    <3> DEFINE m == MozplaceDelref(a, u, purge)
    <3>1. a \in Dbs /\ u \in Urls /\ Owing(a, u)
      BY <1>1, <2>1
    <3>2. /\ m \in Dbs /\ Counted(m) /\ m.touched = a.touched
          /\ \E D \in SUBSET RowsOf(a, u) :
              /\ \A k \in D : a.bm[k].title = NoName
              /\ m.bm = [k \in DOMAIN a.bm \ D |-> a.bm[k]]
      BY <3>1, MozplaceDelrefEffect
    <3>3. e = m
      BY <2>1
    <3> HIDE DEF m
    <3> QED
      BY <3>2, <3>3
  <2>3. PICK D \in SUBSET RowsOf(a, u) :
              /\ \A k \in D : a.bm[k].title = NoName
              /\ e.bm = [k \in DOMAIN a.bm \ D |-> a.bm[k]]
    BY <2>2
  <2>4. D \cup {i} \in SUBSET DOMAIN d.bm
    BY <1>1, <2>3 DEF RowsOf
  <2>5. \A k \in D \cup {i} : k # i => d.bm[k].title = NoName /\ d.bm[k].fk \in Urls
    BY <1>1, <2>1, <2>3 DEF RowsOf
  <2>6. e.bm = [k \in DOMAIN d.bm \ (D \cup {i}) |-> d.bm[k]]
    BY <1>1, <2>3
  <2>7. \E E \in SUBSET DOMAIN d.bm :
            /\ i \in E
            /\ \A k \in E : k # i => d.bm[k].title = NoName /\ d.bm[k].fk \in Urls
            /\ e.bm = [k \in DOMAIN d.bm \ E |-> d.bm[k]]
    <3> WITNESS D \cup {i} \in SUBSET DOMAIN d.bm
    <3> QED
      BY <2>5, <2>6
  <2> QED
    BY <1>1, <2>2, <2>7 DEF e
<1> QED
  BY <1>2, <1>3
-----------------------------------------------------------------------------
(***************************************************************************)
(* Queries.                                                                *)
(***************************************************************************)
LEMMA RowType ==
    ASSUME NEW d \in Dbs, NEW i \in DOMAIN d.bm
    PROVE  /\ i \in 1 .. MaxId /\ d.bm[i] \in Rows
           /\ d.bm[i].parent \in 0 .. MaxId /\ d.bm[i].pos \in 0 .. MaxPos
           /\ d.bm[i].title \in Titles /\ d.bm[i].guid \in Titles
           /\ d.bm[i].fk \in Urls \cup {NoUrl}
<1>1. i \in 1 .. MaxId /\ d.bm[i] \in Rows
  BY DbType
<1> QED
  BY <1>1 DEF Rows

LEMMA NextIdFresh ==
    ASSUME NEW d \in Dbs, Root \in DOMAIN d.bm
    PROVE  NextId(d) \in Nat \ {0} /\ NextId(d) \notin DOMAIN d.bm
<1>1. DOMAIN d.bm \subseteq 0 .. MaxId /\ MaxId \in Nat
  BY DbType, IdAssumption
<1>2. \E i \in DOMAIN d.bm : \A j \in DOMAIN d.bm : j <= i
  BY <1>1, NatMax
<1> DEFINE x == CHOOSE i \in DOMAIN d.bm : \A j \in DOMAIN d.bm : j <= i
<1>3. x \in DOMAIN d.bm /\ \A j \in DOMAIN d.bm : j <= x
  BY <1>2
<1>4. NextId(d) = 1 + x
  BY DEF NextId
<1> HIDE DEF x
<1>5. x \in Nat /\ 1 + x \notin DOMAIN d.bm
  BY <1>1, <1>3
<1> QED
  BY <1>4, <1>5

LEMMA NextPosLast ==
    ASSUME NEW d \in Dbs, NEW p
    PROVE  /\ NextPos(d, p) \in Nat
           /\ \A i \in Kids(d, p) : d.bm[i].pos < NextPos(d, p)
<1>1. CASE Kids(d, p) = {}
  BY <1>1 DEF NextPos
<1>2. CASE Kids(d, p) # {}
  <2> DEFINE T == {d.bm[i].pos : i \in Kids(d, p)}
             x == CHOOSE x \in T : \A i \in Kids(d, p) : d.bm[i].pos <= x
  <2>1. T \subseteq 0 .. MaxPos /\ T # {} /\ MaxPos \in Nat
    BY <1>2, RowType, IdAssumption DEF Kids
  <2>2. \E y \in T : \A z \in T : z <= y
    <3> HIDE DEF T
    <3> QED
      BY <2>1, NatMax
  <2>3. \E y \in T : \A i \in Kids(d, p) : d.bm[i].pos <= y
    BY <2>2
  <2>4. x \in T /\ \A i \in Kids(d, p) : d.bm[i].pos <= x
    BY <2>3
  <2>5. NextPos(d, p) = 1 + x
    BY <1>2 DEF NextPos
  <2>6. \A i \in Kids(d, p) : d.bm[i].pos \in Int
    BY RowType DEF Kids
  <2> HIDE DEF x, T
  <2>7. x \in Nat
    BY <2>1, <2>4
  <2> QED
    BY <2>4, <2>5, <2>6, <2>7
<1> QED
  BY <1>1, <1>2

\* The entry that a name stands for has that name, in that folder.
LEMMA LookupFinds ==
    ASSUME NEW d \in Dbs, NEW p, NEW n, MozbmLookup(d, p, n) # 0
    PROVE  LET i == MozbmLookup(d, p, n)
           IN i \in DOMAIN d.bm /\ d.bm[i].parent = p /\ NameOf(d.bm[i]) = n
<1> DEFINE found == {i \in Kids(d, p) : NameOf(d.bm[i]) = n}
           T == {d.bm[i].pos : i \in found}
           x == CHOOSE i \in found : \A j \in found : d.bm[i].pos <= d.bm[j].pos
<1>1. found # {} /\ MozbmLookup(d, p, n) = x
  BY DEF MozbmLookup
<1>2. T \subseteq Nat /\ T # {}
  <2>1. \A i \in found : d.bm[i].pos \in Nat
    BY RowType DEF Kids
  <2> QED
    BY <1>1, <2>1
<1>3. \E y \in T : \A z \in T : y <= z
  <2> HIDE DEF T
  <2> QED
    BY <1>2, NatMin
<1>4. \E i \in found : \A j \in found : d.bm[i].pos <= d.bm[j].pos
  BY <1>3
<1>5. x \in found
  <2> HIDE DEF found
  <2> QED
    BY <1>4
<1> QED
  BY <1>1, <1>5 DEF Kids

LEMMA LowestIn ==
    ASSUME NEW S, S \subseteq Nat, S # {}
    PROVE  Lowest(S) \in S
BY NatMin DEF Lowest

\* A bookmark that is found below a tag has an entry there.
LEMMA TagLookupFinds ==
    ASSUME NEW d \in Dbs, NEW t, NEW n, TagLookup(d, t, n) # 0
    PROVE  LET i == TagLookup(d, t, n)
               entries == TagEntries(d, t, d.bm[i].fk)
           IN /\ i \in DOMAIN d.bm /\ d.bm[i].fk \in Urls
              /\ Lowest(entries) \in DOMAIN d.bm
              /\ d.bm[Lowest(entries)].parent = t
              /\ d.bm[Lowest(entries)].fk = d.bm[i].fk
<1> DEFINE found == {i \in DOMAIN d.bm : /\ NameOf(d.bm[i]) = n
                                        /\ d.bm[i].fk # NoUrl
                                        /\ \E j \in Kids(d, t) :
                                              d.bm[j].fk = d.bm[i].fk}
           x == TagLookup(d, t, n)
           entries == TagEntries(d, t, d.bm[x].fk)
<1>1. found # {} /\ x = Lowest(found)
  BY DEF TagLookup
<1>2. found \subseteq Nat
  BY DbType
<1>3. x \in found
  BY <1>1, <1>2, LowestIn
<1>4. entries # {} /\ entries \subseteq DOMAIN d.bm
  BY <1>3 DEF TagEntries, Kids
<1>5. entries \subseteq Nat
  BY <1>4, DbType
<1>6. Lowest(entries) \in entries
  BY <1>4, <1>5, LowestIn
<1>7. x \in DOMAIN d.bm /\ d.bm[x].fk \in Urls
  BY <1>3, RowType
<1> QED
  BY <1>4, <1>6, <1>7 DEF TagEntries, Kids

LEMMA InsertEffect ==
    ASSUME NEW d \in Dbs, Root \in DOMAIN d.bm, NEW p \in 0 .. MaxId,
           NEW n \in Titles, NEW u \in Urls \cup {NoUrl}, CanInsert(d, p)
    PROVE  LET e == MozbmInsert(d, p, n, u)
               k == NextId(d)
           IN /\ e \in Dbs
              /\ e.places = d.places /\ e.origins = d.origins
              /\ e.keywords = d.keywords /\ e.touched = d.touched
              /\ k \in 1 .. MaxId /\ k \notin DOMAIN d.bm
              /\ DOMAIN e.bm = DOMAIN d.bm \cup {k}
              /\ \A i \in DOMAIN d.bm : e.bm[i] = d.bm[i]
              /\ e.bm[k] = [parent |-> p, pos |-> NextPos(d, p), title |-> n,
                            guid |-> IF byGuid THEN n ELSE NoName, fk |-> u]
<1> DEFINE k == NextId(d)
           row == [parent |-> p, pos |-> NextPos(d, p), title |-> n,
                   guid |-> IF byGuid THEN n ELSE NoName, fk |-> u]
           t == [i \in DOMAIN d.bm \cup {k} |-> IF i = k THEN row ELSE d.bm[i]]
           e == MozbmInsert(d, p, n, u)
<1>1. k \in 1 .. MaxId /\ k \notin DOMAIN d.bm
  BY NextIdFresh, IdAssumption DEF CanInsert
<1>2. row \in Rows
  <2>1. NextPos(d, p) \in 0 .. MaxPos
    BY NextPosLast, IdAssumption DEF CanInsert
  <2>2. (IF byGuid THEN n ELSE NoName) \in Titles
    BY DEF Titles
  <2> QED
    BY <2>1, <2>2 DEF Rows
<1>3. e = [d EXCEPT !.bm = t]
  BY DEF MozbmInsert
<1>4. DOMAIN t \subseteq 1 .. MaxId /\ t \in [DOMAIN t -> Rows]
  <2> HIDE DEF row, k
  <2> QED
    BY <1>1, <1>2, DbType
<1>5. t \in Tables(1 .. MaxId, Rows)
  BY <1>4, TableType
<1>6. /\ e \in Dbs /\ e.bm = t
      /\ e.places = d.places /\ e.origins = d.origins
      /\ e.keywords = d.keywords /\ e.touched = d.touched
  <2> HIDE DEF t
  <2> QED
    BY <1>3, <1>5, WithBm
<1> HIDE DEF row, k, e
<1>7. /\ DOMAIN t = DOMAIN d.bm \cup {k}
      /\ \A i \in DOMAIN d.bm : t[i] = d.bm[i]
      /\ t[k] = row
  BY <1>1
<1> QED
  BY <1>1, <1>6, <1>7 DEF row, k, e
-----------------------------------------------------------------------------
(***************************************************************************)
(* The inductive invariant: what every committed database and every        *)
(* transaction that may be committed satisfies.                            *)
(***************************************************************************)
\* The folders that no request moves or deletes.
Fixed(d) ==
    /\ Root \in DOMAIN d.bm /\ d.bm[Root].parent = 0 /\ d.bm[Root].fk = NoUrl
    /\ TagsRoot \in DOMAIN d.bm /\ d.bm[TagsRoot].parent = Root
    /\ d.bm[TagsRoot].fk = NoUrl

\* PositionsDistinct, of any database.
Distinct(d) ==
    \A i, j \in DOMAIN d.bm :
        i # j /\ d.bm[i].parent = d.bm[j].parent => d.bm[i].pos # d.bm[j].pos

\* Rows are in folders, and no set of rows without the root keeps to itself.
Parented(d) ==
    \A i \in DOMAIN d.bm \ {Root} : /\ d.bm[i].parent \in DOMAIN d.bm
                                    /\ d.bm[d.bm[i].parent].fk = NoUrl

Grounded(d) ==
    \A S \in SUBSET (DOMAIN d.bm \ {Root}) :
        S # {} => \E i \in S : d.bm[i].parent \notin S

\* A row without a title has no name, and stands for a tag if it has a URL.
Marked(d) ==
    \A i \in DOMAIN d.bm :
        d.bm[i].title = NoName => /\ NameOf(d.bm[i]) = NoName
                                  /\ d.bm[i].fk # NoUrl => d.bm[i].parent \in TagDirs(d)

BmOK(d) == Fixed(d) /\ Distinct(d) /\ Parented(d) /\ Grounded(d) /\ Marked(d)

\* A row is added at the end of a folder.
LEMMA InsertOK ==
    ASSUME NEW d \in Dbs, BmOK(d), NEW e, NEW k \in 1 .. MaxId, k \notin DOMAIN d.bm,
           DOMAIN e.bm = DOMAIN d.bm \cup {k},
           \A i \in DOMAIN d.bm : e.bm[i] = d.bm[i],
           e.bm[k].parent \in DOMAIN d.bm, d.bm[e.bm[k].parent].fk = NoUrl,
           \A i \in Kids(d, e.bm[k].parent) : d.bm[i].pos < e.bm[k].pos,
           e.bm[k].pos \in Nat,
           e.bm[k].title = NoName => /\ NameOf(e.bm[k]) = NoName
                                     /\ e.bm[k].parent \in TagDirs(d)
    PROVE  BmOK(e)
<1>1. Fixed(e)
  BY DEF BmOK, Fixed
<1>2. Distinct(e)
  <2>1. \A i \in DOMAIN d.bm : d.bm[i].pos \in Nat
    BY RowType
  <2> QED
    BY <2>1 DEF BmOK, Distinct, Kids
<1>3. Parented(e)
  BY DEF BmOK, Parented
<1>4. Grounded(e)
  <2> SUFFICES ASSUME NEW S \in SUBSET (DOMAIN e.bm \ {Root}), S # {}
               PROVE  \E i \in S : e.bm[i].parent \notin S
    BY DEF Grounded
  <2> DEFINE R == S \ {k}
  <2>1. R \in SUBSET (DOMAIN d.bm \ {Root})
    OBVIOUS
  <2>2. CASE R = {}
    BY <2>2
  <2>3. CASE R # {}
    <3>1. PICK i \in R : d.bm[i].parent \notin R
      BY <2>1, <2>3 DEF BmOK, Grounded
    <3>2. d.bm[i].parent # k
      BY <2>1, <3>1 DEF BmOK, Parented
    <3> QED
      BY <2>1, <3>1, <3>2
  <2> QED
    BY <2>2, <2>3
<1>5. Marked(e)
  <2>1. TagDirs(d) \subseteq TagDirs(e)
    BY DEF TagDirs, Kids, IsFolder
  <2> QED
    BY <2>1 DEF BmOK, Marked
<1> QED
  BY <1>1, <1>2, <1>3, <1>4, <1>5 DEF BmOK

\* Rows without entries are taken away.
LEMMA ShrinkOK ==
    ASSUME NEW d \in Dbs, BmOK(d), NEW e, NEW D \in SUBSET DOMAIN d.bm,
           e.bm = [i \in DOMAIN d.bm \ D |-> d.bm[i]],
           Root \notin D, TagsRoot \notin D,
           \A i \in D : Kids(d, i) = {}
    PROVE  BmOK(e)
<1>0. DOMAIN e.bm = DOMAIN d.bm \ D /\ \A i \in DOMAIN d.bm \ D : e.bm[i] = d.bm[i]
  OBVIOUS
<1>1. Fixed(e)
  BY <1>0 DEF BmOK, Fixed
<1>2. Distinct(e)
  BY <1>0 DEF BmOK, Distinct
<1>3. Parented(e)
  BY <1>0 DEF BmOK, Parented, Kids
<1>4. Grounded(e)
  <2> SUFFICES ASSUME NEW S \in SUBSET (DOMAIN e.bm \ {Root}), S # {}
               PROVE  \E i \in S : e.bm[i].parent \notin S
    BY DEF Grounded
  <2>1. S \in SUBSET (DOMAIN d.bm \ {Root})
    BY <1>0
  <2> QED
    BY <1>0, <2>1 DEF BmOK, Grounded
<1>5. Marked(e)
  BY <1>0 DEF BmOK, Marked, TagDirs, Kids, IsFolder
<1> QED
  BY <1>1, <1>2, <1>3, <1>4, <1>5 DEF BmOK

\* A row gets another name and goes to another place, not below itself:
\* the folders U above the new place do not have it.
LEMMA MoveOK ==
    ASSUME NEW d \in Dbs, BmOK(d), NEW e, NEW i \in DOMAIN d.bm, NEW q \in DOMAIN d.bm,
           DOMAIN e.bm = DOMAIN d.bm,
           \A k \in DOMAIN d.bm \ {i} : e.bm[k] = d.bm[k],
           e.bm[i].parent = q, e.bm[i].fk = d.bm[i].fk,
           i # Root, i # TagsRoot, d.bm[q].fk = NoUrl,
           d.bm[i].parent = TagsRoot => q = TagsRoot,
           e.bm[i].title # NoName,
           \A k \in Kids(d, q) : k # i => d.bm[k].pos # e.bm[i].pos,
           NEW U \in SUBSET DOMAIN d.bm, q \in U, i \notin U,
           \A k \in U : d.bm[k].parent \in DOMAIN d.bm => d.bm[k].parent \in U
    PROVE  BmOK(e)
<1>1. Fixed(e)
  BY DEF BmOK, Fixed
<1>2. Distinct(e)
  BY DEF BmOK, Distinct, Kids
<1>3. Parented(e)
  BY DEF BmOK, Parented
<1>4. Grounded(e)
  <2> SUFFICES ASSUME NEW S \in SUBSET (DOMAIN e.bm \ {Root}), S # {},
                      \A k \in S : e.bm[k].parent \in S
               PROVE  FALSE
    BY DEF Grounded
  <2>1. CASE i \notin S
    <3>1. S \in SUBSET (DOMAIN d.bm \ {Root})
      OBVIOUS
    <3> QED
      BY <2>1, <3>1 DEF BmOK, Grounded
  <2>2. CASE i \in S
    <3> DEFINE R == S \cap U
    <3>1. R \in SUBSET (DOMAIN d.bm \ {Root}) /\ R # {}
      BY <2>2
    <3>2. \A k \in R : d.bm[k].parent \in R
      BY DEF BmOK, Parented
    <3> HIDE DEF R
    <3> QED
      BY <3>1, <3>2 DEF BmOK, Grounded
  <2> QED
    BY <2>1, <2>2
<1>5. Marked(e)
  <2>1. TagDirs(d) \subseteq TagDirs(e)
    BY DEF TagDirs, Kids, IsFolder
  <2> QED
    BY <2>1 DEF BmOK, Marked
<1> QED
  BY <1>1, <1>2, <1>3, <1>4, <1>5 DEF BmOK

\* The positions change, or the URL of a row that has one.
LEMMA SameTreeOK ==
    ASSUME NEW d \in Dbs, BmOK(d), NEW e,
           DOMAIN e.bm = DOMAIN d.bm,
           \A k \in DOMAIN d.bm : /\ e.bm[k].parent = d.bm[k].parent
                                  /\ e.bm[k].title = d.bm[k].title
                                  /\ e.bm[k].guid = d.bm[k].guid
                                  /\ e.bm[k].fk = NoUrl <=> d.bm[k].fk = NoUrl,
           Distinct(e)
    PROVE  BmOK(e)
<1>1. Fixed(e)
  BY DEF BmOK, Fixed
<1>3. Parented(e)
  BY DEF BmOK, Parented
<1>4. Grounded(e)
  BY DEF BmOK, Grounded
<1>5. Marked(e)
  <2>1. TagDirs(d) \subseteq TagDirs(e)
    BY DEF TagDirs, Kids, IsFolder
  <2>2. \A k \in DOMAIN d.bm : NameOf(e.bm[k]) = NameOf(d.bm[k])
    BY DEF NameOf
  <2> QED
    BY <2>1, <2>2 DEF BmOK, Marked
<1> QED
  BY <1>1, <1>3, <1>4, <1>5 DEF BmOK

StoreOK(d) == d \in Dbs /\ BmOK(d) /\ Counted(d)

\* FoldersStamped, of a transaction: the entries of the other folders are as
\* they were.
SameEntries(d, e, f) ==
    /\ Kids(e, f) = Kids(d, f)
    /\ \A i \in Kids(d, f) : /\ NameOf(e.bm[i]) = NameOf(d.bm[i])
                              /\ e.bm[i].pos = d.bm[i].pos

Stamped(d, e) == \A f \in BookmarkDirs(d) : f \notin e.touched => SameEntries(d, e, f)

StampedBut(d, e, r) ==
    \A f \in BookmarkDirs(d) :
        f \notin e.touched => SameEntries(d, e, f) \/ (r[1] = "repair" /\ r[2] = f)

\* The rows that are still there have their URLs, but for those in S.
SameUrls(d, e, S) ==
    \A i \in (DOMAIN d.bm \cap DOMAIN e.bm) \ S : e.bm[i].fk = d.bm[i].fk

\* What a request does to the URLs of the rows.
UrlsOf(d, e, r) ==
    IF r[1] = "set"
    THEN /\ DOMAIN e.bm = DOMAIN d.bm /\ SameUrls(d, e, {r[2]})
         /\ e.bm[r[2]].fk = r[3]
    ELSE SameUrls(d, e, {})
-----------------------------------------------------------------------------
(***************************************************************************)
(* What the requests do to the invariant.                                  *)
(***************************************************************************)
LEMMA InsertCounts ==
    ASSUME NEW d \in Dbs, IsFiniteSet(DOMAIN d.keywords), NEW e \in Dbs, NEW k,
           k \notin DOMAIN d.bm, DOMAIN e.bm = DOMAIN d.bm \cup {k},
           \A i \in DOMAIN d.bm : e.bm[i] = d.bm[i], e.keywords = d.keywords,
           NEW v
    PROVE  /\ Refs(e, v) = IF e.bm[k].fk = v THEN Refs(d, v) + 1 ELSE Refs(d, v)
           /\ Refs(d, v) \in Nat
<1>1. KeysOf(e, v) = KeysOf(d, v)
  BY DEF KeysOf
<1>2. /\ IsFiniteSet(RowsOf(d, v)) /\ Cardinality(RowsOf(d, v)) \in Nat
      /\ Cardinality(KeysOf(d, v)) \in Nat
  BY RefsFinite
<1>3. k \notin RowsOf(d, v)
  BY DEF RowsOf
<1>4. CASE e.bm[k].fk = v
  <2>1. RowsOf(e, v) = RowsOf(d, v) \cup {k}
    BY <1>4 DEF RowsOf
  <2>2. Cardinality(RowsOf(e, v)) = Cardinality(RowsOf(d, v)) + 1
    BY <1>2, <1>3, <2>1, FS_AddElement
  <2> QED
    BY <1>1, <1>2, <1>4, <2>2 DEF Refs
<1>5. CASE e.bm[k].fk # v
  <2>1. RowsOf(e, v) = RowsOf(d, v)
    BY <1>5 DEF RowsOf
  <2> QED
    BY <1>1, <1>2, <1>5, <2>1 DEF Refs
<1> QED
  BY <1>4, <1>5

LEMMA CreatedOK ==
    ASSUME NEW d, StoreOK(d), NEW p \in DOMAIN d.bm, d.bm[p].fk = NoUrl,
           NEW n \in Names, NEW u \in Urls \cup {NoUrl}, CanInsert(d, p)
    PROVE  /\ StoreOK(Created(d, p, n, u)) /\ Stamped(d, Created(d, p, n, u))
           /\ SameUrls(d, Created(d, p, n, u), {})
<1> DEFINE c == IF u = NoUrl THEN d ELSE MozplaceAddref(d, u)
           b == MozbmInsert(c, p, n, u)
           e == MtimeUpdate(b, {p})
           k == NextId(c)
<1>0. d \in Dbs /\ BmOK(d) /\ Counted(d) /\ p \in 1 .. MaxId /\ Root \in DOMAIN d.bm
  BY DbType DEF StoreOK, BmOK, Fixed
<1>1. /\ c \in Dbs /\ c.bm = d.bm /\ c.keywords = d.keywords /\ c.touched = d.touched
      /\ PlacesOK(c)
      /\ \A v \in Urls : Count(c, v) = IF v = u THEN Count(d, v) + 1 ELSE Count(d, v)
  <2>1. CASE u = NoUrl
    BY <1>0, <2>1, UrlAssumption DEF Counted
  <2>2. CASE u # NoUrl
    <3>1. u \in Urls /\ c = MozplaceAddref(d, u)
      BY <2>2
    <3> HIDE DEF c
    <3> QED
      BY <1>0, <3>1, AddrefEffect DEF Counted
  <2> QED
    BY <2>1, <2>2
<1> HIDE DEF c
<1>2. CanInsert(c, p) /\ NextPos(c, p) = NextPos(d, p)
  BY <1>1 DEF CanInsert, NextId, NextPos, Kids
<1>3. n \in Titles /\ n # NoName /\ p \in 0 .. MaxId
  BY <1>0, NameAssumption DEF Titles
<1>4. /\ b \in Dbs /\ b.places = c.places /\ b.origins = c.origins
      /\ b.keywords = c.keywords /\ b.touched = c.touched
      /\ k \in 1 .. MaxId /\ k \notin DOMAIN c.bm
      /\ DOMAIN b.bm = DOMAIN c.bm \cup {k}
      /\ \A i \in DOMAIN c.bm : b.bm[i] = c.bm[i]
      /\ b.bm[k] = [parent |-> p, pos |-> NextPos(c, p), title |-> n,
                    guid |-> IF byGuid THEN n ELSE NoName, fk |-> u]
  BY <1>0, <1>1, <1>2, <1>3, InsertEffect
<1> HIDE DEF b, k
<1>5. /\ e \in Dbs /\ e.touched = b.touched \cup {p} /\ e.keywords = b.keywords
      /\ e.places = b.places /\ e.bm = b.bm /\ e.origins = b.origins
  BY <1>0, <1>4, MtimeType
<1>6. e = Created(d, p, n, u)
  BY DEF Created, b, c
<1> HIDE DEF e
<1>7. /\ e.bm[k].parent = p /\ e.bm[k].title = n /\ e.bm[k].fk = u
      /\ e.bm[k].pos = NextPos(d, p)
  BY <1>2, <1>4, <1>5
<1>8. BmOK(e)
  <2>1. \A i \in Kids(d, p) : d.bm[i].pos < NextPos(d, p)
    BY <1>0, NextPosLast
  <2>2. NextPos(d, p) \in Nat
    BY <1>0, NextPosLast
  <2> QED
    BY <1>0, <1>1, <1>3, <1>4, <1>5, <1>7, <2>1, <2>2, InsertOK
<1>9. Counted(e)
  <2>1. PlacesOK(e)
    BY <1>1, <1>4, <1>5 DEF PlacesOK
  <2>2. IsFiniteSet(DOMAIN e.keywords)
    BY <1>0, <1>1, <1>4, <1>5 DEF Counted
  <2>3. ASSUME NEW v \in Urls PROVE Count(e, v) = Refs(e, v)
    <3>1. /\ Refs(e, v) = IF e.bm[k].fk = v THEN Refs(d, v) + 1 ELSE Refs(d, v)
          /\ Refs(d, v) \in Nat
      BY <1>0, <1>1, <1>4, <1>5, InsertCounts DEF Counted
    <3>2. Count(e, v) = Count(c, v)
      BY <1>4, <1>5 DEF Count
    <3> QED
      BY <1>0, <1>1, <1>7, <3>1, <3>2 DEF Counted
  <2> QED
    BY <2>1, <2>2, <2>3 DEF Counted
<1>10. Stamped(d, e)
  <2> SUFFICES ASSUME NEW f \in BookmarkDirs(d), f # p PROVE SameEntries(d, e, f)
    BY <1>5 DEF Stamped
  <2> QED
    BY <1>1, <1>4, <1>5, <1>7 DEF SameEntries, Kids
<1>11. SameUrls(d, e, {})
  BY <1>1, <1>4, <1>5 DEF SameUrls
<1> QED
  BY <1>5, <1>6, <1>8, <1>9, <1>10, <1>11 DEF StoreOK

LEMMA TaggedOK ==
    ASSUME NEW d, StoreOK(d), NEW t \in TagDirs(d), NEW u \in Urls, CanInsert(d, t)
    PROVE  /\ StoreOK(Tagged(d, t, u)) /\ Stamped(d, Tagged(d, t, u))
           /\ SameUrls(d, Tagged(d, t, u), {})
<1> DEFINE b == MozbmInsert(d, t, NoName, u)
           c == MozplaceAddref(b, u)
           e == MtimeUpdate(c, {t})
           k == NextId(d)
<1>0. /\ d \in Dbs /\ BmOK(d) /\ Counted(d) /\ Root \in DOMAIN d.bm
      /\ t \in DOMAIN d.bm /\ d.bm[t].fk = NoUrl /\ t \in 1 .. MaxId
  BY DbType DEF StoreOK, BmOK, Fixed, TagDirs, Kids, IsFolder
<1>1. NoName \in Titles /\ t \in 0 .. MaxId /\ u \in Urls \cup {NoUrl}
  BY <1>0 DEF Titles
<1>2. /\ b \in Dbs /\ b.places = d.places /\ b.origins = d.origins
      /\ b.keywords = d.keywords /\ b.touched = d.touched
      /\ k \in 1 .. MaxId /\ k \notin DOMAIN d.bm
      /\ DOMAIN b.bm = DOMAIN d.bm \cup {k}
      /\ \A i \in DOMAIN d.bm : b.bm[i] = d.bm[i]
      /\ b.bm[k] = [parent |-> t, pos |-> NextPos(d, t), title |-> NoName,
                    guid |-> IF byGuid THEN NoName ELSE NoName, fk |-> u]
  BY <1>0, <1>1, InsertEffect
<1> HIDE DEF b, k
<1>3. PlacesOK(b)
  BY <1>0, <1>2 DEF PlacesOK, Counted
<1>4. /\ c \in Dbs /\ c.bm = b.bm /\ c.keywords = b.keywords /\ c.touched = b.touched
      /\ PlacesOK(c)
      /\ \A v \in Urls : Count(c, v) = IF v = u THEN Count(b, v) + 1 ELSE Count(b, v)
  BY <1>2, <1>3, AddrefEffect
<1> HIDE DEF c
<1>5. /\ e \in Dbs /\ e.touched = c.touched \cup {t} /\ e.keywords = c.keywords
      /\ e.places = c.places /\ e.bm = c.bm /\ e.origins = c.origins
  BY <1>0, <1>4, MtimeType
<1>6. e = Tagged(d, t, u)
  BY DEF Tagged, b, c
<1> HIDE DEF e
<1>7. /\ e.bm[k].parent = t /\ e.bm[k].title = NoName /\ e.bm[k].fk = u
      /\ e.bm[k].pos = NextPos(d, t) /\ NameOf(e.bm[k]) = NoName
  BY <1>2, <1>4, <1>5 DEF NameOf
<1>8. BmOK(e)
  <2>1. \A i \in Kids(d, t) : d.bm[i].pos < NextPos(d, t)
    BY <1>0, NextPosLast
  <2>2. NextPos(d, t) \in Nat
    BY <1>0, NextPosLast
  <2> QED
    BY <1>0, <1>2, <1>4, <1>5, <1>7, <2>1, <2>2, InsertOK
<1>9. Counted(e)
  <2>1. PlacesOK(e)
    BY <1>4, <1>5 DEF PlacesOK
  <2>2. IsFiniteSet(DOMAIN e.keywords)
    BY <1>0, <1>2, <1>4, <1>5 DEF Counted
  <2>3. ASSUME NEW v \in Urls PROVE Count(e, v) = Refs(e, v)
    <3>1. /\ Refs(e, v) = IF e.bm[k].fk = v THEN Refs(d, v) + 1 ELSE Refs(d, v)
          /\ Refs(d, v) \in Nat
      BY <1>0, <1>2, <1>4, <1>5, InsertCounts DEF Counted
    <3>2. Count(e, v) = Count(c, v) /\ Count(b, v) = Count(d, v)
      BY <1>2, <1>5 DEF Count
    <3> QED
      BY <1>0, <1>4, <1>7, <3>1, <3>2 DEF Counted
  <2> QED
    BY <2>1, <2>2, <2>3 DEF Counted
<1>10. Stamped(d, e)
  <2> SUFFICES ASSUME NEW f \in BookmarkDirs(d), f # t PROVE SameEntries(d, e, f)
    BY <1>5 DEF Stamped
  <2> QED
    BY <1>2, <1>4, <1>5, <1>7 DEF SameEntries, Kids
<1>11. SameUrls(d, e, {})
  BY <1>2, <1>4, <1>5 DEF SameUrls
<1> QED
  BY <1>5, <1>6, <1>8, <1>9, <1>10, <1>11 DEF StoreOK

LEMMA DeletedOK ==
    ASSUME NEW d, StoreOK(d), NEW i \in DOMAIN d.bm \ {Root, TagsRoot},
           CanDelete(d, i), NEW purge
    PROVE  LET e == Deleted(d, i, purge)
           IN /\ StoreOK(e) /\ e.touched = d.touched
              /\ DOMAIN e.bm \subseteq DOMAIN d.bm \ {i}
              /\ \A k \in DOMAIN e.bm : e.bm[k] = d.bm[k]
              /\ \A k \in DOMAIN d.bm \ {i} :
                    d.bm[k].title # NoName \/ d.bm[k].fk = NoUrl => k \in DOMAIN e.bm
              /\ \A f \in BookmarkDirs(d) \ {d.bm[i].parent} : SameEntries(d, e, f)
<1> DEFINE e == Deleted(d, i, purge)
<1>0. d \in Dbs /\ BmOK(d) /\ Counted(d)
  BY DEF StoreOK
<1>1. /\ e \in Dbs /\ Counted(e) /\ e.touched = d.touched
      /\ \E D \in SUBSET DOMAIN d.bm :
            /\ i \in D
            /\ \A k \in D : k # i => d.bm[k].title = NoName /\ d.bm[k].fk \in Urls
            /\ e.bm = [k \in DOMAIN d.bm \ D |-> d.bm[k]]
  BY <1>0, DeletedEffect
<1> HIDE DEF e
<1>2. PICK D \in SUBSET DOMAIN d.bm :
            /\ i \in D
            /\ \A k \in D : k # i => d.bm[k].title = NoName /\ d.bm[k].fk \in Urls
            /\ e.bm = [k \in DOMAIN d.bm \ D |-> d.bm[k]]
  BY <1>1
<1>3. /\ DOMAIN e.bm = DOMAIN d.bm \ D
      /\ \A k \in DOMAIN e.bm : e.bm[k] = d.bm[k]
  BY <1>2
<1>4. \A k \in DOMAIN d.bm : d.bm[k].fk # NoUrl => Kids(d, k) = {}
  BY <1>0, RowType DEF BmOK, Fixed, Parented, Kids
<1>5. \A k \in D : Kids(d, k) = {}
  BY <1>2, <1>4, UrlAssumption DEF CanDelete, IsFolder
<1>6. Root \notin D /\ TagsRoot \notin D
  BY <1>0, <1>2, UrlAssumption DEF BmOK, Fixed
<1>7. BmOK(e)
  BY <1>0, <1>2, <1>5, <1>6, ShrinkOK
<1>8. ASSUME NEW f \in BookmarkDirs(d), f # d.bm[i].parent
      PROVE  SameEntries(d, e, f)
  <2>1. \A k \in D \ {i} : d.bm[k].parent \in TagDirs(d)
    BY <1>0, <1>2, UrlAssumption DEF BmOK, Marked
  <2>2. f \notin TagDirs(d)
    BY DEF BookmarkDirs
  <2>3. \A k \in D : d.bm[k].parent # f
    BY <1>8, <2>1, <2>2
  <2> QED
    BY <1>3, <2>3 DEF SameEntries, Kids
<1>9. StoreOK(e)
  BY <1>1, <1>7 DEF StoreOK
<1>10. \A k \in DOMAIN d.bm \ {i} :
         d.bm[k].title # NoName \/ d.bm[k].fk = NoUrl => k \in DOMAIN e.bm
  BY <1>2, <1>3, UrlAssumption
<1> QED
  BY <1>1, <1>2, <1>3, <1>8, <1>9, <1>10 DEF e

\* The invariant does not speak of lastModified.
LEMMA SameTablesOK ==
    ASSUME NEW d, StoreOK(d), NEW e \in Dbs, e.bm = d.bm, e.keywords = d.keywords,
           e.places = d.places, e.origins = d.origins
    PROVE  StoreOK(e)
<1>1. BmOK(e)
  BY DEF StoreOK, BmOK, Fixed, Distinct, Parented, Grounded, Marked, TagDirs, Kids,
         IsFolder
<1>2. Counted(e)
  BY DEF StoreOK, Counted, PlacesOK, Count, Refs, RowsOf, KeysOf
<1> QED
  BY <1>1, <1>2 DEF StoreOK

LEMMA RemovedOK ==
    ASSUME NEW d, StoreOK(d), NEW i \in DOMAIN d.bm \ {Root, TagsRoot},
           CanDelete(d, i), NEW purge, d.bm[i].parent \in 1 .. MaxId
    PROVE  LET e == Removed(d, d.bm[i].parent, i, purge)
           IN StoreOK(e) /\ Stamped(d, e) /\ SameUrls(d, e, {})
<1> DEFINE p == d.bm[i].parent
           c == Deleted(d, i, purge)
           e == MtimeUpdate(c, {p})
<1>1. /\ StoreOK(c) /\ c.touched = d.touched
      /\ \A f \in BookmarkDirs(d) \ {p} : SameEntries(d, c, f)
      /\ \A k \in DOMAIN c.bm : c.bm[k] = d.bm[k]
  BY DeletedOK
<1> HIDE DEF c
<1>2. /\ e \in Dbs /\ e.touched = c.touched \cup {p} /\ e.keywords = c.keywords
      /\ e.places = c.places /\ e.bm = c.bm /\ e.origins = c.origins
  BY <1>1, MtimeType DEF StoreOK
<1>3. e = Removed(d, p, i, purge)
  BY DEF Removed, c
<1> HIDE DEF e, p
<1>4. StoreOK(e)
  BY <1>1, <1>2, SameTablesOK
<1>5. Stamped(d, e)
  BY <1>1, <1>2 DEF Stamped, SameEntries, Kids
<1>6. SameUrls(d, e, {})
  BY <1>1, <1>2 DEF SameUrls
<1> QED
  BY <1>3, <1>4, <1>5, <1>6 DEF p

\* The same database, but for positions.
SameButPos(d, e) ==
    /\ e \in Dbs
    /\ DOMAIN e.bm = DOMAIN d.bm
    /\ \A k \in DOMAIN d.bm : /\ e.bm[k].parent = d.bm[k].parent
                               /\ e.bm[k].title = d.bm[k].title
                               /\ e.bm[k].guid = d.bm[k].guid
                               /\ e.bm[k].fk = d.bm[k].fk
    /\ e.places = d.places /\ e.origins = d.origins
    /\ e.keywords = d.keywords /\ e.touched = d.touched

\* Positions given to rows.
LEMMA RepositionEffect ==
    ASSUME NEW d \in Dbs, NEW t, DOMAIN t = DOMAIN d.bm,
           t = [k \in DOMAIN d.bm |-> t[k]],
           \A k \in DOMAIN d.bm :
                \E x \in 0 .. MaxPos : t[k] = [d.bm[k] EXCEPT !.pos = x]
    PROVE  SameButPos(d, [d EXCEPT !.bm = t]) /\ [d EXCEPT !.bm = t].bm = t
<1>1. \A k \in DOMAIN d.bm : d.bm[k] \in Rows
  BY RowType
<1>2. \A k \in DOMAIN d.bm : t[k] \in Rows
  BY <1>1, ZenonT(40) DEF Rows
<1>3. t \in Tables(1 .. MaxId, Rows)
  BY <1>2, DbType, TableType
<1>4. \A k \in DOMAIN d.bm : /\ t[k].parent = d.bm[k].parent
                             /\ t[k].title = d.bm[k].title
                             /\ t[k].guid = d.bm[k].guid
                             /\ t[k].fk = d.bm[k].fk
  BY <1>1 DEF Rows
<1> QED
  BY <1>3, <1>4, WithBm, ZenonT(40) DEF SameButPos

LEMMA PosUpdateEffect ==
    ASSUME NEW d \in Dbs, NEW i \in DOMAIN d.bm, NEW x \in 0 .. MaxPos
    PROVE  LET e == PosUpdate(d, i, x)
           IN /\ SameButPos(d, e)
              /\ \A k \in DOMAIN d.bm : e.bm[k].pos = IF k = i THEN x ELSE d.bm[k].pos
<1> DEFINE t == [d.bm EXCEPT ![i] = [@ EXCEPT !.pos = x]]
<1>1. PosUpdate(d, i, x) = [d EXCEPT !.bm = t]
  BY DEF PosUpdate, Dbs
<1>2. \A k \in DOMAIN d.bm : d.bm[k] \in Rows /\ d.bm[k].pos \in 0 .. MaxPos
  BY RowType
<1>3. \A k \in DOMAIN d.bm : t[k] = [d.bm[k] EXCEPT !.pos = IF k = i THEN x ELSE d.bm[k].pos]
  BY <1>2, DbType DEF Rows
<1>4. DOMAIN t = DOMAIN d.bm /\ t = [k \in DOMAIN d.bm |-> t[k]]
  BY DbType
<1> HIDE DEF t
<1>5. \A k \in DOMAIN d.bm : \E y \in 0 .. MaxPos : t[k] = [d.bm[k] EXCEPT !.pos = y]
  BY <1>2, <1>3
<1>6. SameButPos(d, [d EXCEPT !.bm = t]) /\ [d EXCEPT !.bm = t].bm = t
  BY <1>4, <1>5, RepositionEffect
<1>7. \A k \in DOMAIN d.bm : t[k].pos = IF k = i THEN x ELSE d.bm[k].pos
  BY <1>2, <1>3 DEF Rows
<1> QED
  BY <1>1, <1>6, <1>7

LEMMA ShiftDownEffect ==
    ASSUME NEW d \in Dbs, NEW p, NEW lo \in Nat \ {0}, NEW hi \in Nat
    PROVE  LET e == ShiftDown(d, p, lo, hi)
           IN /\ SameButPos(d, e)
              /\ \A k \in DOMAIN d.bm :
                    e.bm[k].pos = IF d.bm[k].parent = p /\ d.bm[k].pos \in lo .. hi
                                  THEN d.bm[k].pos - 1 ELSE d.bm[k].pos
<1> DEFINE t == [i \in DOMAIN d.bm |->
                    IF d.bm[i].parent = p /\ d.bm[i].pos \in lo .. hi
                    THEN [d.bm[i] EXCEPT !.pos = @ - 1] ELSE d.bm[i]]
           new(k) == IF d.bm[k].parent = p /\ d.bm[k].pos \in lo .. hi
                     THEN d.bm[k].pos - 1 ELSE d.bm[k].pos
<1>1. ShiftDown(d, p, lo, hi) = [d EXCEPT !.bm = t]
  BY DEF ShiftDown
<1>2. \A k \in DOMAIN d.bm : d.bm[k] \in Rows /\ d.bm[k].pos \in 0 .. MaxPos
  BY RowType
<1>3. \A k \in DOMAIN d.bm : new(k) \in 0 .. MaxPos
  BY <1>2, IdAssumption
<1>4. \A k \in DOMAIN d.bm : t[k] = [d.bm[k] EXCEPT !.pos = new(k)]
  BY <1>2 DEF Rows
<1>5. DOMAIN t = DOMAIN d.bm /\ t = [k \in DOMAIN d.bm |-> t[k]]
  OBVIOUS
<1> HIDE DEF t
<1>6. SameButPos(d, [d EXCEPT !.bm = t]) /\ [d EXCEPT !.bm = t].bm = t
  <2>1. \A k \in DOMAIN d.bm : \E y \in 0 .. MaxPos : t[k] = [d.bm[k] EXCEPT !.pos = y]
    <3> HIDE DEF new
    <3> QED
      BY <1>3, <1>4
  <2> QED
    BY <1>5, <2>1, RepositionEffect
<1>7. \A k \in DOMAIN d.bm : t[k].pos = new(k)
  BY <1>2, <1>4 DEF Rows
<1> QED
  BY <1>1, <1>6, <1>7

LEMMA ShiftUpEffect ==
    ASSUME NEW d \in Dbs, NEW p, NEW lo \in Nat, NEW hi \in Int, hi < MaxPos
    PROVE  LET e == ShiftUp(d, p, lo, hi)
           IN /\ SameButPos(d, e)
              /\ \A k \in DOMAIN d.bm :
                    e.bm[k].pos = IF d.bm[k].parent = p /\ d.bm[k].pos \in lo .. hi
                                  THEN d.bm[k].pos + 1 ELSE d.bm[k].pos
<1> DEFINE t == [i \in DOMAIN d.bm |->
                    IF d.bm[i].parent = p /\ d.bm[i].pos \in lo .. hi
                    THEN [d.bm[i] EXCEPT !.pos = @ + 1] ELSE d.bm[i]]
           new(k) == IF d.bm[k].parent = p /\ d.bm[k].pos \in lo .. hi
                     THEN d.bm[k].pos + 1 ELSE d.bm[k].pos
<1>1. ShiftUp(d, p, lo, hi) = [d EXCEPT !.bm = t]
  BY DEF ShiftUp
<1>2. \A k \in DOMAIN d.bm : d.bm[k] \in Rows /\ d.bm[k].pos \in 0 .. MaxPos
  BY RowType
<1>3. \A k \in DOMAIN d.bm : new(k) \in 0 .. MaxPos
  BY <1>2, IdAssumption
<1>4. \A k \in DOMAIN d.bm : t[k] = [d.bm[k] EXCEPT !.pos = new(k)]
  BY <1>2 DEF Rows
<1>5. DOMAIN t = DOMAIN d.bm /\ t = [k \in DOMAIN d.bm |-> t[k]]
  OBVIOUS
<1> HIDE DEF t
<1>6. SameButPos(d, [d EXCEPT !.bm = t]) /\ [d EXCEPT !.bm = t].bm = t
  <2>1. \A k \in DOMAIN d.bm : \E y \in 0 .. MaxPos : t[k] = [d.bm[k] EXCEPT !.pos = y]
    <3> HIDE DEF new
    <3> QED
      BY <1>3, <1>4
  <2> QED
    BY <1>5, <2>1, RepositionEffect
<1>7. \A k \in DOMAIN d.bm : t[k].pos = new(k)
  BY <1>2, <1>4 DEF Rows
<1> QED
  BY <1>1, <1>6, <1>7

\* New positions in one folder, which gets a new lastModified.
LEMMA RepositionOK ==
    ASSUME NEW d, StoreOK(d), NEW c, SameButPos(d, c), Distinct(c),
           NEW p \in 1 .. MaxId,
           \A k \in DOMAIN d.bm : d.bm[k].parent # p => c.bm[k].pos = d.bm[k].pos
    PROVE  LET e == MtimeUpdate(c, {p})
           IN StoreOK(e) /\ Stamped(d, e) /\ SameUrls(d, e, {})
<1> DEFINE e == MtimeUpdate(c, {p})
<1>1. /\ e \in Dbs /\ e.touched = c.touched \cup {p} /\ e.keywords = c.keywords
      /\ e.places = c.places /\ e.bm = c.bm /\ e.origins = c.origins
  BY MtimeType DEF SameButPos
<1> HIDE DEF e
<1>2. BmOK(c)
  BY SameTreeOK DEF StoreOK, SameButPos
<1>3. Counted(c)
  <2>1. PlacesOK(c) /\ IsFiniteSet(DOMAIN c.keywords)
    BY DEF StoreOK, Counted, PlacesOK, SameButPos
  <2>2. \A v \in Urls : /\ RowsOf(c, v) = RowsOf(d, v) /\ KeysOf(c, v) = KeysOf(d, v)
                         /\ Count(c, v) = Count(d, v)
    BY DEF SameButPos, RowsOf, KeysOf, Count
  <2> QED
    BY <2>1, <2>2 DEF StoreOK, Counted, Refs
<1>4. StoreOK(e)
  BY <1>1, <1>2, <1>3, SameTablesOK DEF StoreOK, SameButPos
<1>5. Stamped(d, e)
  BY <1>1 DEF Stamped, SameEntries, SameButPos, Kids, NameOf
<1>6. SameUrls(d, e, {})
  BY <1>1 DEF SameUrls, SameButPos
<1> QED
  BY <1>4, <1>5, <1>6 DEF e

LEMMA SwappedOK ==
    ASSUME NEW d, StoreOK(d), NEW p \in 1 .. MaxId, NEW i \in Kids(d, p),
           NEW j \in Kids(d, p), i # j
    PROVE  /\ StoreOK(Swapped(d, p, i, j)) /\ Stamped(d, Swapped(d, p, i, j))
           /\ SameUrls(d, Swapped(d, p, i, j), {})
<1> DEFINE x == d.bm[i].pos
           y == d.bm[j].pos
           b == PosUpdate(d, j, x)
           c == PosUpdate(b, i, y)
<1>0. d \in Dbs /\ i \in DOMAIN d.bm /\ j \in DOMAIN d.bm
  BY DEF StoreOK, Kids
<1>1. x \in 0 .. MaxPos /\ y \in 0 .. MaxPos
  BY <1>0, RowType
<1>2. /\ SameButPos(d, b)
      /\ \A k \in DOMAIN d.bm : b.bm[k].pos = IF k = j THEN x ELSE d.bm[k].pos
  BY <1>0, <1>1, PosUpdateEffect
<1>3. Swapped(d, p, i, j) = MtimeUpdate(c, {p})
  BY DEF Swapped
<1> HIDE DEF b, x, y
<1>4. /\ SameButPos(b, c)
      /\ \A k \in DOMAIN b.bm : c.bm[k].pos = IF k = i THEN y ELSE b.bm[k].pos
  BY <1>0, <1>1, <1>2, PosUpdateEffect DEF SameButPos
<1> HIDE DEF c
<1>5. SameButPos(d, c)
  BY <1>2, <1>4 DEF SameButPos
<1>6. \A k \in DOMAIN d.bm : c.bm[k].pos = IF k = i THEN y
                                           ELSE IF k = j THEN x ELSE d.bm[k].pos
  BY <1>2, <1>4 DEF SameButPos
<1>7. Distinct(c)
  BY <1>0, <1>5, <1>6 DEF Distinct, SameButPos, StoreOK, BmOK, Kids, x, y
<1>8. \A k \in DOMAIN d.bm : d.bm[k].parent # p => c.bm[k].pos = d.bm[k].pos
  BY <1>6 DEF Kids
<1> QED
  BY <1>3, <1>5, <1>7, <1>8, RepositionOK

LEMMA ShiftedOK ==
    ASSUME NEW d, StoreOK(d), NEW p \in 1 .. MaxId, NEW i \in Kids(d, p),
           NEW j \in Kids(d, p), NEW before \in BOOLEAN,
           d.bm[i].pos # d.bm[j].pos, Shifted(d, p, i, j, before) # d
    PROVE  LET e == Shifted(d, p, i, j, before)
           IN StoreOK(e) /\ Stamped(d, e) /\ SameUrls(d, e, {})
<1> DEFINE start == d.bm[i].pos
           stop == d.bm[j].pos
<1>0. /\ d \in Dbs /\ i \in DOMAIN d.bm /\ j \in DOMAIN d.bm
      /\ d.bm[i].parent = p /\ d.bm[j].parent = p
  BY DEF StoreOK, Kids
<1>1. /\ start \in 0 .. MaxPos /\ stop \in 0 .. MaxPos /\ MaxPos \in Nat
      /\ \A k \in DOMAIN d.bm : d.bm[k].pos \in 0 .. MaxPos
  BY <1>0, RowType, IdAssumption
<1>2. CASE start < stop
  <2> DEFINE new == IF before THEN stop - 1 ELSE stop
             b == ShiftDown(d, p, start + 1, new)
             c == PosUpdate(b, i, new)
  <2>1. /\ Shifted(d, p, i, j, before) = MtimeUpdate(c, {p})
        /\ new # start
    BY <1>2 DEF Shifted
  <2>2. new \in 0 .. MaxPos /\ start < new
    BY <1>1, <1>2, <2>1
  <2> HIDE DEF new
  <2>3. /\ SameButPos(d, b)
        /\ \A k \in DOMAIN d.bm :
              b.bm[k].pos = IF d.bm[k].parent = p /\ d.bm[k].pos \in start + 1 .. new
                            THEN d.bm[k].pos - 1 ELSE d.bm[k].pos
    <3>1. start + 1 \in Nat \ {0} /\ new \in Nat
      BY <1>1, <2>2
    <3> HIDE DEF start
    <3> QED
      BY <1>0, <3>1, ShiftDownEffect
  <2> HIDE DEF b
  <2>4. /\ SameButPos(b, c)
        /\ \A k \in DOMAIN b.bm : c.bm[k].pos = IF k = i THEN new ELSE b.bm[k].pos
    BY <1>0, <2>2, <2>3, PosUpdateEffect DEF SameButPos
  <2> HIDE DEF c
  <2>5. SameButPos(d, c)
    BY <2>3, <2>4 DEF SameButPos
  <2>6. \A k \in DOMAIN d.bm :
            c.bm[k].pos = IF k = i THEN new
                          ELSE IF d.bm[k].parent = p /\ d.bm[k].pos \in start + 1 .. new
                               THEN d.bm[k].pos - 1 ELSE d.bm[k].pos
    BY <2>3, <2>4 DEF SameButPos
  <2>7. Distinct(c)
    <3> SUFFICES ASSUME NEW k \in DOMAIN d.bm, NEW l \in DOMAIN d.bm, k # l,
                        d.bm[k].parent = d.bm[l].parent
                 PROVE  c.bm[k].pos # c.bm[l].pos
      BY <2>5 DEF Distinct, SameButPos
    <3>1. d.bm[k].pos # d.bm[l].pos
      BY DEF StoreOK, BmOK, Distinct
    <3>2. CASE d.bm[k].parent = p
      <4>1. k # i => d.bm[k].pos # start
        BY <1>0, <3>2 DEF StoreOK, BmOK, Distinct
      <4>2. l # i => d.bm[l].pos # start
        BY <1>0, <3>2 DEF StoreOK, BmOK, Distinct
      <4>3. /\ start \in Int /\ new \in Int
            /\ d.bm[k].pos \in Int /\ d.bm[l].pos \in Int
        BY <1>1, <2>2
      <4>4. k = i => c.bm[k].pos = new /\ d.bm[k].pos = start
        BY <2>6
      <4>5. l = i => c.bm[l].pos = new /\ d.bm[l].pos = start
        BY <2>6
      <4>6. k # i => c.bm[k].pos = IF start < d.bm[k].pos /\ d.bm[k].pos <= new
                                   THEN d.bm[k].pos - 1 ELSE d.bm[k].pos
        BY <2>6, <3>2, <4>3
      <4>7. l # i => c.bm[l].pos = IF start < d.bm[l].pos /\ d.bm[l].pos <= new
                                   THEN d.bm[l].pos - 1 ELSE d.bm[l].pos
        <5>1. d.bm[l].parent = p
          BY <3>2
        <5> QED
          BY <2>6, <4>3, <5>1
      <4> HIDE DEF start
      <4> QED
        BY <2>2, <3>1, <4>1, <4>2, <4>3, <4>4, <4>5, <4>6, <4>7
    <3>3. CASE d.bm[k].parent # p
      BY <1>0, <2>6, <3>1, <3>3
    <3> QED
      BY <3>2, <3>3
  <2>8. \A k \in DOMAIN d.bm : d.bm[k].parent # p => c.bm[k].pos = d.bm[k].pos
    BY <1>0, <2>6
  <2> QED
    BY <2>1, <2>5, <2>7, <2>8, RepositionOK
<1>3. CASE ~(start < stop)
  <2> DEFINE new == IF before THEN stop ELSE stop + 1
             b == ShiftUp(d, p, new, start - 1)
             c == PosUpdate(b, i, new)
  <2>1. /\ Shifted(d, p, i, j, before) = MtimeUpdate(c, {p})
        /\ new # start
    BY <1>3 DEF Shifted
  <2>2. new \in 0 .. MaxPos /\ new < start
    BY <1>1, <1>3, <2>1
  <2> HIDE DEF new
  <2>3. /\ SameButPos(d, b)
        /\ \A k \in DOMAIN d.bm :
              b.bm[k].pos = IF d.bm[k].parent = p /\ d.bm[k].pos \in new .. start - 1
                            THEN d.bm[k].pos + 1 ELSE d.bm[k].pos
    <3>1. new \in Nat /\ start - 1 \in Int /\ start - 1 < MaxPos
      BY <1>1, <2>2
    <3> HIDE DEF start
    <3> QED
      BY <1>0, <3>1, ShiftUpEffect
  <2> HIDE DEF b
  <2>4. /\ SameButPos(b, c)
        /\ \A k \in DOMAIN b.bm : c.bm[k].pos = IF k = i THEN new ELSE b.bm[k].pos
    BY <1>0, <2>2, <2>3, PosUpdateEffect DEF SameButPos
  <2> HIDE DEF c
  <2>5. SameButPos(d, c)
    BY <2>3, <2>4 DEF SameButPos
  <2>6. \A k \in DOMAIN d.bm :
            c.bm[k].pos = IF k = i THEN new
                          ELSE IF d.bm[k].parent = p /\ d.bm[k].pos \in new .. start - 1
                               THEN d.bm[k].pos + 1 ELSE d.bm[k].pos
    BY <2>3, <2>4 DEF SameButPos
  <2>7. Distinct(c)
    <3> SUFFICES ASSUME NEW k \in DOMAIN d.bm, NEW l \in DOMAIN d.bm, k # l,
                        d.bm[k].parent = d.bm[l].parent
                 PROVE  c.bm[k].pos # c.bm[l].pos
      BY <2>5 DEF Distinct, SameButPos
    <3>1. d.bm[k].pos # d.bm[l].pos
      BY DEF StoreOK, BmOK, Distinct
    <3>2. CASE d.bm[k].parent = p
      <4>1. k # i => d.bm[k].pos # start
        BY <1>0, <3>2 DEF StoreOK, BmOK, Distinct
      <4>2. l # i => d.bm[l].pos # start
        BY <1>0, <3>2 DEF StoreOK, BmOK, Distinct
      <4>3. /\ start \in Int /\ new \in Int
            /\ d.bm[k].pos \in Int /\ d.bm[l].pos \in Int
        BY <1>1, <2>2
      <4>4. k = i => c.bm[k].pos = new /\ d.bm[k].pos = start
        BY <2>6
      <4>5. l = i => c.bm[l].pos = new /\ d.bm[l].pos = start
        BY <2>6
      <4>6. k # i => c.bm[k].pos = IF new <= d.bm[k].pos /\ d.bm[k].pos < start
                                   THEN d.bm[k].pos + 1 ELSE d.bm[k].pos
        BY <2>6, <3>2, <4>3
      <4>7. l # i => c.bm[l].pos = IF new <= d.bm[l].pos /\ d.bm[l].pos < start
                                   THEN d.bm[l].pos + 1 ELSE d.bm[l].pos
        <5>1. d.bm[l].parent = p
          BY <3>2
        <5> QED
          BY <2>6, <4>3, <5>1
      <4> HIDE DEF start
      <4> QED
        BY <2>2, <3>1, <4>1, <4>2, <4>3, <4>4, <4>5, <4>6, <4>7
    <3>3. CASE d.bm[k].parent # p
      BY <1>0, <2>6, <3>1, <3>3
    <3> QED
      BY <3>2, <3>3
  <2>8. \A k \in DOMAIN d.bm : d.bm[k].parent # p => c.bm[k].pos = d.bm[k].pos
    BY <1>0, <2>6
  <2> QED
    BY <2>1, <2>5, <2>7, <2>8, RepositionOK
<1> QED
  BY <1>2, <1>3

LEMMA SameBmOK ==
    ASSUME NEW d, StoreOK(d), NEW e, e.bm = d.bm
    PROVE  BmOK(e) /\ Stamped(d, e) /\ SameUrls(d, e, {})
BY DEF StoreOK, BmOK, Fixed, Distinct, Parented, Grounded, Marked, TagDirs, Kids,
       IsFolder, Stamped, SameEntries, SameUrls

LEMMA KeywordAddedOK ==
    ASSUME NEW d, StoreOK(d), NEW k \in Keywords \ DOMAIN d.keywords, NEW u \in Urls
    PROVE  LET e == KeywordAdded(d, k, u)
           IN StoreOK(e) /\ Stamped(d, e) /\ SameUrls(d, e, {})
<1> DEFINE t == [l \in DOMAIN d.keywords \cup {k} |-> IF l = k THEN u ELSE d.keywords[l]]
           b == [d EXCEPT !.keywords = t]
           e == KeywordAdded(d, k, u)
<1>0. d \in Dbs /\ Counted(d)
  BY DEF StoreOK
<1>1. t \in Tables(Keywords, Urls)
  <2>1. DOMAIN t \subseteq Keywords /\ t \in [DOMAIN t -> Urls]
    BY <1>0, DbType
  <2> QED
    BY <2>1, TableType
<1>2. e = MozplaceAddref(b, u)
  BY DEF KeywordAdded
<1>3. /\ DOMAIN t = DOMAIN d.keywords \cup {k} /\ t[k] = u
      /\ \A l \in DOMAIN d.keywords : t[l] = d.keywords[l]
  OBVIOUS
<1> HIDE DEF t
<1>4. /\ b \in Dbs /\ b.keywords = t /\ b.places = d.places /\ b.origins = d.origins
      /\ b.bm = d.bm /\ b.touched = d.touched
  BY <1>0, <1>1, WithKeywords
<1> HIDE DEF b, e
<1>5. PlacesOK(b)
  BY <1>0, <1>4 DEF PlacesOK, Counted
<1>6. /\ e \in Dbs /\ e.bm = b.bm /\ e.keywords = b.keywords /\ e.touched = b.touched
      /\ PlacesOK(e)
      /\ \A v \in Urls : Count(e, v) = IF v = u THEN Count(b, v) + 1 ELSE Count(b, v)
  BY <1>2, <1>4, <1>5, AddrefEffect
<1>7. IsFiniteSet(DOMAIN e.keywords)
  BY <1>0, <1>3, <1>4, <1>6, FS_AddElement DEF Counted
<1>8. ASSUME NEW v \in Urls PROVE Count(e, v) = Refs(e, v)
  <2>1. Count(b, v) = Count(d, v) /\ RowsOf(e, v) = RowsOf(d, v)
    BY <1>4, <1>6 DEF Count, RowsOf
  <2>2. /\ IsFiniteSet(KeysOf(d, v)) /\ Cardinality(RowsOf(d, v)) \in Nat
        /\ Cardinality(KeysOf(d, v)) \in Nat
    BY <1>0, RefsFinite DEF Counted
  <2>3. KeysOf(e, v) = IF v = u THEN KeysOf(d, v) \cup {k} ELSE KeysOf(d, v)
    BY <1>3, <1>4, <1>6 DEF KeysOf
  <2>4. k \notin KeysOf(d, v)
    BY DEF KeysOf
  <2>5. Cardinality(KeysOf(e, v)) = IF v = u THEN Cardinality(KeysOf(d, v)) + 1
                                             ELSE Cardinality(KeysOf(d, v))
    BY <2>2, <2>3, <2>4, FS_AddElement
  <2> QED
    BY <1>0, <1>6, <2>1, <2>2, <2>5 DEF Counted, Refs
<1>9. Counted(e)
  BY <1>6, <1>7, <1>8 DEF Counted
<1>10. BmOK(e) /\ Stamped(d, e) /\ SameUrls(d, e, {})
  BY <1>4, <1>6, SameBmOK
<1> QED
  BY <1>6, <1>9, <1>10 DEF StoreOK, e

LEMMA KeywordDeletedOK ==
    ASSUME NEW d, StoreOK(d), NEW k \in DOMAIN d.keywords
    PROVE  LET e == KeywordDeleted(d, k)
           IN StoreOK(e) /\ Stamped(d, e) /\ SameUrls(d, e, {})
<1> DEFINE u == d.keywords[k]
           b == [d EXCEPT !.keywords = Restrict(@, DOMAIN @ \ {k})]
           e == KeywordDeleted(d, k)
<1>0. d \in Dbs /\ Counted(d) /\ u \in Urls
  BY DbType DEF StoreOK
<1>1. /\ b \in Dbs
      /\ b.keywords = [l \in DOMAIN d.keywords \ {k} |-> d.keywords[l]]
      /\ b.places = d.places /\ b.origins = d.origins
      /\ b.bm = d.bm /\ b.touched = d.touched
  BY <1>0, DropKeywordsType
<1>2. e = MozplaceDelref(b, u, FALSE) /\ e = Delref(b, u, 1)
  BY DEF KeywordDeleted, MozplaceDelref
<1> HIDE DEF b, e
<1>3. PlacesOK(b) /\ IsFiniteSet(DOMAIN b.keywords)
  <2>1. DOMAIN b.keywords = DOMAIN d.keywords \ {k}
    BY <1>1
  <2> QED
    BY <1>0, <1>1, <2>1, FS_RemoveElement DEF PlacesOK, Counted
<1>4. ASSUME NEW v \in Urls
      PROVE  Count(b, v) = IF v = u THEN Refs(b, v) + 1 ELSE Refs(b, v)
  <2>1. Count(b, v) = Count(d, v) /\ RowsOf(b, v) = RowsOf(d, v)
    BY <1>1 DEF Count, RowsOf
  <2>2. /\ IsFiniteSet(KeysOf(d, v)) /\ Cardinality(RowsOf(d, v)) \in Nat
        /\ Cardinality(KeysOf(d, v)) \in Nat
    BY <1>0, RefsFinite DEF Counted
  <2>3. KeysOf(b, v) = KeysOf(d, v) \ {k} /\ (k \in KeysOf(d, v) <=> v = u)
    BY <1>1 DEF KeysOf
  <2>4. Cardinality(KeysOf(b, v)) = IF v = u THEN Cardinality(KeysOf(d, v)) - 1
                                             ELSE Cardinality(KeysOf(d, v))
    BY <2>2, <2>3, FS_RemoveElement
  <2> HIDE DEF u
  <2> QED
    BY <1>0, <2>1, <2>2, <2>4 DEF Counted, Refs
<1>5. Owing(b, u)
  BY <1>3, <1>4 DEF Owing
<1>6. e \in Dbs /\ Counted(e)
  <2> DEFINE m == MozplaceDelref(b, u, FALSE)
  <2>1. m \in Dbs /\ Counted(m)
    <3> HIDE DEF u
    <3> QED
      BY <1>0, <1>1, <1>5, MozplaceDelrefEffect
  <2> QED
    BY <1>2, <2>1
<1>7. e.bm = b.bm
  <2>1. u \in DOMAIN b.places
    <3>1. k \in KeysOf(d, u)
      BY DEF KeysOf
    <3> QED
      BY <1>0, <1>1, <3>1, ReferredExists
  <2> HIDE DEF u
  <2>2. Delref(b, u, 1).bm = b.bm
    BY <1>1, <2>1, DelrefEffect
  <2> QED
    BY <1>2, <2>2
<1>8. BmOK(e) /\ Stamped(d, e) /\ SameUrls(d, e, {})
  BY <1>1, <1>7, SameBmOK
<1> QED
  BY <1>6, <1>8 DEF StoreOK, e

LEMMA UrlSetOK ==
    ASSUME NEW d, StoreOK(d), NEW i \in DOMAIN d.bm, ~IsFolder(d, i), NEW u \in Urls
    PROVE  LET e == UrlSet(d, i, u)
           IN /\ StoreOK(e) /\ Stamped(d, e)
              /\ DOMAIN e.bm = DOMAIN d.bm /\ SameUrls(d, e, {i}) /\ e.bm[i].fk = u
<1> DEFINE old == d.bm[i].fk
           a == MozplaceAddref(d, u)
           m == Delref(a, old, 1)
           t == [m.bm EXCEPT ![i] = [@ EXCEPT !.fk = u]]
           e == UrlSet(d, i, u)
<1>0. d \in Dbs /\ BmOK(d) /\ Counted(d) /\ old \in Urls
  BY RowType DEF StoreOK, IsFolder
<1>1. /\ a \in Dbs /\ a.bm = d.bm /\ a.keywords = d.keywords /\ a.touched = d.touched
      /\ PlacesOK(a)
      /\ \A v \in Urls : Count(a, v) = IF v = u THEN Count(d, v) + 1 ELSE Count(d, v)
  BY <1>0, AddrefEffect DEF Counted
<1>2. e = [m EXCEPT !.bm[i].fk = u]
  BY DEF UrlSet, MozplaceDelref
<1>3. \A v \in Urls : Refs(d, v) \in Nat /\ Count(d, v) = Refs(d, v)
  BY <1>0, RefsFinite DEF Refs, Counted
<1>4. Refs(d, old) > 0
  <2>1. i \in RowsOf(d, old)
    BY DEF RowsOf
  <2> QED
    BY <1>0, <2>1, ReferredExists
<1> HIDE DEF a, e
<1>5. old \in DOMAIN a.places /\ 1 <= a.places[old]
  <2>1. Count(a, old) > 0 /\ Count(a, old) \in Int
    BY <1>0, <1>1, <1>3, <1>4
  <2> QED
    BY <2>1 DEF Count
<1>6. /\ m \in Dbs /\ m.bm = a.bm /\ m.keywords = a.keywords /\ m.touched = a.touched
      /\ PlacesOK(m)
      /\ \A v \in Urls : Count(m, v) = IF v = old THEN Count(a, v) - 1 ELSE Count(a, v)
  BY <1>1, <1>5, DelrefEffect
<1> HIDE DEF m
<1>7. /\ t \in Tables(1 .. MaxId, Rows) /\ DOMAIN t = DOMAIN d.bm
      /\ \A k \in DOMAIN d.bm \ {i} : t[k] = d.bm[k]
      /\ t[i].parent = d.bm[i].parent /\ t[i].pos = d.bm[i].pos
      /\ t[i].title = d.bm[i].title /\ t[i].guid = d.bm[i].guid /\ t[i].fk = u
  <2>1. m.bm = d.bm /\ d.bm \in [DOMAIN d.bm -> Rows] /\ DOMAIN d.bm \subseteq 1 .. MaxId
    BY <1>0, <1>1, <1>6, DbType
  <2>2. [d.bm[i] EXCEPT !.fk = u] \in Rows
    BY <2>1 DEF Rows
  <2>3. t \in [DOMAIN d.bm -> Rows]
    BY <2>1, <2>2
  <2>4. t \in Tables(1 .. MaxId, Rows)
    BY <2>1, <2>3, TableType
  <2>5. d.bm[i] \in Rows
    BY <2>1
  <2> QED
    BY <2>1, <2>4, <2>5 DEF Rows
<1>8. e = [m EXCEPT !.bm = t]
  BY <1>2, <1>6 DEF Dbs
<1> HIDE DEF t
<1>9. /\ e \in Dbs /\ e.bm = t /\ e.places = m.places /\ e.origins = m.origins
      /\ e.keywords = m.keywords /\ e.touched = m.touched
  BY <1>6, <1>7, <1>8, WithBm
<1>10. BmOK(e)
  <2>1. Distinct(e)
    BY <1>0, <1>7, <1>9 DEF BmOK, Distinct
  <2>2. \A k \in DOMAIN d.bm : /\ e.bm[k].parent = d.bm[k].parent
                               /\ e.bm[k].title = d.bm[k].title
                               /\ e.bm[k].guid = d.bm[k].guid
                               /\ e.bm[k].fk = NoUrl <=> d.bm[k].fk = NoUrl
    BY <1>0, <1>7, <1>9, UrlAssumption
  <2> QED
    BY <1>0, <1>7, <1>9, <2>1, <2>2, SameTreeOK
<1>11. PlacesOK(e) /\ IsFiniteSet(DOMAIN e.keywords)
  BY <1>0, <1>1, <1>6, <1>9 DEF PlacesOK, Counted
<1>12. ASSUME NEW v \in Urls PROVE Count(e, v) = Refs(e, v)
  <2>1. /\ Count(e, v) = Count(m, v) /\ KeysOf(e, v) = KeysOf(d, v)
    BY <1>1, <1>6, <1>9 DEF Count, KeysOf
  <2>2. /\ IsFiniteSet(RowsOf(d, v)) /\ Cardinality(RowsOf(d, v)) \in Nat
        /\ Cardinality(KeysOf(d, v)) \in Nat
    BY <1>0, RefsFinite DEF Counted
  <2>3. CASE u = old
    <3>1. RowsOf(e, v) = RowsOf(d, v)
      BY <1>7, <1>9, <2>3 DEF RowsOf
    <3>2. Count(m, v) = Count(d, v)
      BY <1>1, <1>3, <1>6, <2>3
    <3> QED
      BY <1>3, <2>1, <3>1, <3>2 DEF Refs
  <2>4. CASE u # old /\ v = u
    <3>1. RowsOf(e, v) = RowsOf(d, v) \cup {i} /\ i \notin RowsOf(d, v)
      BY <1>7, <1>9, <2>4 DEF RowsOf
    <3>2. Cardinality(RowsOf(e, v)) = Cardinality(RowsOf(d, v)) + 1
      BY <2>2, <3>1, FS_AddElement
    <3>3. Count(m, v) = Count(d, v) + 1
      BY <1>1, <1>6, <2>4
    <3> QED
      BY <1>3, <2>1, <2>2, <3>2, <3>3 DEF Refs
  <2>5. CASE u # old /\ v = old
    <3>1. RowsOf(e, v) = RowsOf(d, v) \ {i} /\ i \in RowsOf(d, v)
      BY <1>7, <1>9, <2>5 DEF RowsOf
    <3>2. Cardinality(RowsOf(e, v)) = Cardinality(RowsOf(d, v)) - 1
      BY <2>2, <3>1, FS_RemoveElement
    <3>3. Count(m, v) = Count(d, v) - 1
      BY <1>1, <1>6, <2>5
    <3> QED
      BY <1>3, <2>1, <2>2, <3>2, <3>3 DEF Refs
  <2>6. CASE v # u /\ v # old
    <3>1. RowsOf(e, v) = RowsOf(d, v)
      BY <1>7, <1>9, <2>6 DEF RowsOf
    <3> QED
      BY <1>1, <1>3, <1>6, <2>1, <2>6, <3>1 DEF Refs
  <2> QED
    BY <2>3, <2>4, <2>5, <2>6
<1>13. Counted(e)
  BY <1>11, <1>12 DEF Counted
<1>14. Stamped(d, e)
  BY <1>7, <1>9 DEF Stamped, SameEntries, Kids, NameOf
<1>15. DOMAIN e.bm = DOMAIN d.bm /\ SameUrls(d, e, {i}) /\ e.bm[i].fk = u
  BY <1>7, <1>9 DEF SameUrls
<1> QED
  BY <1>9, <1>10, <1>13, <1>14, <1>15 DEF StoreOK, e
-----------------------------------------------------------------------------
(***************************************************************************)
(* The folders above an entry.  The recursive function of Below exists,    *)
(* and its last value has no parent outside: as long as a value has one,   *)
(* the next value is larger, and there are no more values than rows.       *)
(***************************************************************************)
Above(d, A) == A \cup {d.bm[j].parent : j \in A \cap DOMAIN d.bm}

IsUp(d, q, f, N) == f = [n \in 0 .. N |-> IF n = 0 THEN {q} ELSE Above(d, f[n - 1])]

LEMMA UpExists ==
    ASSUME NEW d, NEW q, NEW N \in Nat
    PROVE  \E f : IsUp(d, q, f, N)
<1> DEFINE T == {n \in Nat : ~\E f : IsUp(d, q, f, n)}
<1> SUFFICES ASSUME T # {} PROVE FALSE
  OBVIOUS
<1>1. PICK n \in T : \A m \in T : n <= m
  BY NatMin
<1>2. n # 0
  <2>1. IsUp(d, q, [m \in 0 .. 0 |-> {q}], 0)
    BY DEF IsUp
  <2> QED
    BY <1>1, <2>1
<1>3. n - 1 \in Nat /\ n - 1 \notin T
  BY <1>1, <1>2
<1>4. PICK f : IsUp(d, q, f, n - 1)
  BY <1>3
<1> DEFINE g == [m \in 0 .. n |-> IF m = n THEN Above(d, f[n - 1]) ELSE f[m]]
<1>5. IsUp(d, q, g, n)
  <2>1. \A m \in 0 .. n - 1 : f[m] = IF m = 0 THEN {q} ELSE Above(d, f[m - 1])
    BY <1>4 DEF IsUp
  <2>2. \A m \in 0 .. n : g[m] = IF m = 0 THEN {q} ELSE Above(d, g[m - 1])
    <3> SUFFICES ASSUME NEW m \in 0 .. n
                 PROVE  g[m] = IF m = 0 THEN {q} ELSE Above(d, g[m - 1])
      OBVIOUS
    <3>1. CASE m = n
      <4>1. g[n] = Above(d, f[n - 1]) /\ g[n - 1] = f[n - 1]
        BY <1>2, <1>3
      <4> QED
        BY <1>2, <3>1, <4>1
    <3>2. CASE m # n
      <4>1. m \in 0 .. n - 1 /\ g[m] = f[m]
        BY <3>2
      <4>2. m # 0 => g[m - 1] = f[m - 1]
        BY <3>2
      <4> HIDE DEF g
      <4> QED
        BY <2>1, <4>1, <4>2
    <3> QED
      BY <3>1, <3>2
  <2> QED
    BY <2>2 DEF IsUp
<1> QED
  BY <1>1, <1>5

LEMMA BelowUnfolds ==
    ASSUME NEW d, NEW q
    PROVE  \E f : /\ IsUp(d, q, f, MaxId)
                 /\ \A i : Below(d, q, i) <=> i \in f[Cardinality(DOMAIN d.bm)]
<1> DEFINE Up[n \in 0 .. MaxId] ==
             IF n = 0 THEN {q}
             ELSE LET above == Up[n - 1]
                  IN above \cup {d.bm[j].parent : j \in above \cap DOMAIN d.bm}
<1>1. \E f : f = [n \in 0 .. MaxId |-> IF n = 0 THEN {q}
             ELSE LET above == f[n - 1]
                  IN above \cup {d.bm[j].parent : j \in above \cap DOMAIN d.bm}]
  <2>1. PICK f : IsUp(d, q, f, MaxId)
    BY UpExists, IdAssumption
  <2> QED
    BY <2>1 DEF IsUp, Above
<1>2. Up = [n \in 0 .. MaxId |-> IF n = 0 THEN {q}
             ELSE LET above == Up[n - 1]
                  IN above \cup {d.bm[j].parent : j \in above \cap DOMAIN d.bm}]
  BY <1>1
<1>3. IsUp(d, q, Up, MaxId)
  BY <1>2 DEF IsUp, Above
<1>4. \A i : Below(d, q, i) <=> i \in Up[Cardinality(DOMAIN d.bm)]
  BY DEF Below
<1> HIDE DEF Up
<1> QED
  BY <1>3, <1>4

\* The entry and the folders above it.
Ancestors(d, q) == {x \in DOMAIN d.bm : Below(d, q, x)}

LEMMA AncestorsClosed ==
    ASSUME NEW d \in Dbs, NEW q \in DOMAIN d.bm
    PROVE  /\ q \in Ancestors(d, q)
           /\ \A x \in Ancestors(d, q) :
                d.bm[x].parent \in DOMAIN d.bm => d.bm[x].parent \in Ancestors(d, q)
<1> DEFINE D == DOMAIN d.bm
           N == Cardinality(D)
<1>1. IsFiniteSet(D) /\ N \in Nat /\ N <= MaxId
  <2>1. IsFiniteSet(1 .. MaxId) /\ Cardinality(1 .. MaxId) = MaxId
    BY FS_Interval, IdAssumption DEF Rule
  <2>2. D \in SUBSET (1 .. MaxId)
    BY DbType
  <2>3. IsFiniteSet(D) /\ N <= MaxId
    BY <2>1, <2>2, FS_Subset
  <2> QED
    BY <2>3, FS_CardinalityType
<1>2. PICK f : /\ IsUp(d, q, f, MaxId)
               /\ \A i : Below(d, q, i) <=> i \in f[N]
  BY BelowUnfolds
<1> HIDE DEF N
<1>3. f[0] = {q} /\ \A n \in 1 .. N : f[n] = Above(d, f[n - 1])
  <2>1. \A n \in 0 .. MaxId : f[n] = IF n = 0 THEN {q} ELSE Above(d, f[n - 1])
    BY <1>2 DEF IsUp
  <2> QED
    BY <1>1, <2>1, IdAssumption
<1> DEFINE Closed(n) == \A x \in f[n] \cap D : d.bm[x].parent \in D => d.bm[x].parent \in f[n]
           P(n) == /\ q \in f[n]
                   /\ Closed(n) \/ Cardinality(f[n] \cap D) >= n + 1
<1>4. \A n : /\ IsFiniteSet(f[n] \cap D) /\ Cardinality(f[n] \cap D) \in Nat
             /\ Cardinality(f[n] \cap D) <= N
  <2> TAKE n
  <2>1. f[n] \cap D \in SUBSET D
    OBVIOUS
  <2>2. IsFiniteSet(f[n] \cap D) /\ Cardinality(f[n] \cap D) <= N
    BY <1>1, <2>1, FS_Subset DEF N
  <2> QED
    BY <2>2, FS_CardinalityType
<1>5. P(0)
  <2>1. f[0] \cap D = {q}
    BY <1>3
  <2> QED
    BY <1>3, <2>1, FS_Singleton
<1>6. ASSUME NEW n \in 1 .. N, P(n - 1) PROVE P(n)
  <2>1. f[n] = Above(d, f[n - 1])
    BY <1>3
  <2>2. CASE Closed(n - 1)
    <3>1. f[n] \cap D = f[n - 1] \cap D /\ f[n - 1] \subseteq f[n]
      BY <2>1, <2>2 DEF Above
    <3> QED
      BY <1>6, <2>2, <3>1
  <2>3. CASE ~Closed(n - 1)
    <3>1. PICK x \in f[n - 1] \cap D : d.bm[x].parent \in D /\ d.bm[x].parent \notin f[n - 1]
      BY <2>3
    <3> DEFINE y == d.bm[x].parent
               A == f[n - 1] \cap D
               B == f[n] \cap D
    <3>2. A \cup {y} \in SUBSET B /\ y \notin A
      BY <2>1, <3>1 DEF Above
    <3>3. Cardinality(A) \in Nat /\ Cardinality(A) >= n /\ IsFiniteSet(A) /\ IsFiniteSet(B)
          /\ Cardinality(B) \in Nat
      BY <1>4, <1>6, <2>3
    <3> HIDE DEF y, A, B
    <3>4. Cardinality(A \cup {y}) = Cardinality(A) + 1
      BY <3>2, <3>3, FS_AddElement
    <3>5. Cardinality(A \cup {y}) <= Cardinality(B)
      BY <3>2, <3>3, FS_Subset
    <3>6. Cardinality(B) >= n + 1
      BY <3>3, <3>4, <3>5
    <3>7. q \in f[n]
      BY <1>6, <2>1 DEF Above
    <3> QED
      BY <3>6, <3>7 DEF B
  <2> QED
    BY <2>2, <2>3
<1>7. P(N)
  <2> DEFINE T == {n \in 0 .. N : ~P(n)}
  <2> HIDE DEF P
  <2> SUFFICES ASSUME T # {} PROVE FALSE
    BY <1>1
  <2>1. T \subseteq Nat
    BY <1>1
  <2>2. PICK n \in T : \A m \in T : n <= m
    BY <2>1, NatMin
  <2>3. n # 0
    BY <1>5, <2>2
  <2>4. n \in 1 .. N /\ n - 1 \in 0 .. N /\ n - 1 \notin T
    BY <1>1, <2>2, <2>3
  <2> QED
    BY <1>6, <2>2, <2>4
<1>8. Closed(N) /\ q \in f[N]
  <2>1. Cardinality(f[N] \cap D) \in Nat /\ Cardinality(f[N] \cap D) <= N
    BY <1>4
  <2> HIDE DEF Closed, D
  <2> QED
    BY <1>1, <1>7, <2>1
<1> QED
  BY <1>2, <1>8 DEF Ancestors

LEMMA MoveEffect ==
    ASSUME NEW d \in Dbs, NEW i \in DOMAIN d.bm, NEW q \in 0 .. MaxId, NEW n \in Names,
           NEW x \in 0 .. MaxPos
    PROVE  LET e == MozbmMove(d, i, q, n, x)
           IN /\ e \in Dbs /\ e.places = d.places /\ e.origins = d.origins
              /\ e.keywords = d.keywords /\ e.touched = d.touched
              /\ DOMAIN e.bm = DOMAIN d.bm
              /\ \A k \in DOMAIN d.bm \ {i} : e.bm[k] = d.bm[k]
              /\ e.bm[i].parent = q /\ e.bm[i].pos = x /\ e.bm[i].fk = d.bm[i].fk
              /\ e.bm[i].title = IF byGuid THEN d.bm[i].title ELSE n
<1> DEFINE g == IF byGuid THEN n ELSE d.bm[i].guid
           h == IF byGuid THEN d.bm[i].title ELSE n
           row == [parent |-> q, pos |-> x, fk |-> d.bm[i].fk, title |-> h, guid |-> g]
           t == [d.bm EXCEPT ![i] = row]
           e == MozbmMove(d, i, q, n, x)
<1>1. g \in Titles /\ h \in Titles /\ d.bm[i].fk \in Urls \cup {NoUrl} /\ d.bm[i] \in Rows
  BY RowType DEF Titles
<1>2. e = [d EXCEPT !.bm = t]
  BY DEF MozbmMove, Dbs
<1>3. row \in Rows
  BY <1>1 DEF Rows
<1>4. /\ DOMAIN t = DOMAIN d.bm /\ t[i] = row
      /\ \A k \in DOMAIN d.bm \ {i} : t[k] = d.bm[k]
  BY DbType
<1>5. t \in Tables(1 .. MaxId, Rows)
  <2> HIDE DEF row
  <2>1. t \in [DOMAIN t -> Rows]
    BY <1>3, <1>4, DbType
  <2> HIDE DEF t
  <2> QED
    BY <1>4, <2>1, DbType, TableType
<1>6. /\ e \in Dbs /\ e.bm = t /\ e.places = d.places /\ e.origins = d.origins
      /\ e.keywords = d.keywords /\ e.touched = d.touched
  <2> HIDE DEF t, e
  <2> QED
    BY <1>2, <1>5, WithBm
<1> HIDE DEF t, e
<1> QED
  BY <1>4, <1>6 DEF e

LEMMA RenamedOK ==
    ASSUME NEW d, StoreOK(d), NEW p \in DOMAIN d.bm \ {Root}, NEW q \in DOMAIN d.bm \ {Root},
           d.bm[q].fk = NoUrl, p = TagsRoot => q = TagsRoot,
           NEW n \in Names, NEW m \in Names,
           NEW i \in Kids(d, p), NameOf(d.bm[i]) = n, ~Below(d, q, i),
           NEW j \in Kids(d, q) \cup {0}, j # i, j # 0 => CanDelete(d, j),
           j = 0 => NextPos(d, q) <= MaxPos
    PROVE  LET e == Renamed(d, i, p, q, m, j)
           IN StoreOK(e) /\ Stamped(d, e) /\ SameUrls(d, e, {})
<1> DEFINE c == IF j = 0 THEN d ELSE Deleted(d, j, TRUE)
           pos == IF j = 0 THEN NextPos(d, q) ELSE d.bm[j].pos
           b == MozbmMove(c, i, q, m, pos)
           e == MtimeUpdate(b, {p, q})
<1>0. /\ d \in Dbs /\ BmOK(d) /\ Counted(d)
      /\ i \in DOMAIN d.bm /\ d.bm[i].parent = p
      /\ p \in 1 .. MaxId /\ q \in 1 .. MaxId
  BY DbType DEF StoreOK, Kids
<1>1. i # Root /\ i # TagsRoot /\ d.bm[i].title # NoName
  BY <1>0, NameAssumption DEF BmOK, Fixed, Marked
<1>2. j # 0 => /\ j \in DOMAIN d.bm \ {Root, TagsRoot} /\ d.bm[j].parent = q
  BY <1>0 DEF BmOK, Fixed, Kids
<1>3. q # j
  <2> SUFFICES ASSUME q = j PROVE FALSE
    OBVIOUS
  <2>1. d.bm[q].parent = q
    BY <1>0, <1>2
  <2>2. {q} \in SUBSET (DOMAIN d.bm \ {Root})
    OBVIOUS
  <2> QED
    BY <1>0, <2>1, <2>2 DEF BmOK, Grounded
<1>4. /\ StoreOK(c) /\ c.touched = d.touched
      /\ DOMAIN c.bm \subseteq DOMAIN d.bm \ {j}
      /\ \A k \in DOMAIN c.bm : c.bm[k] = d.bm[k]
      /\ i \in DOMAIN c.bm /\ q \in DOMAIN c.bm
      /\ \A f \in BookmarkDirs(d) \ {q} : SameEntries(d, c, f)
  <2>1. CASE j = 0
    <3>1. c = d
      BY <2>1
    <3>2. 0 \notin DOMAIN d.bm
      BY <1>0, DbType
    <3>3. \A f \in BookmarkDirs(d) \ {q} : SameEntries(d, d, f)
      BY DEF SameEntries
    <3> HIDE DEF c
    <3> QED
      BY <1>0, <2>1, <3>1, <3>2, <3>3
  <2>2. CASE j # 0
    <3>1. c = Deleted(d, j, TRUE)
      BY <2>2
    <3> HIDE DEF c
    <3>2. /\ StoreOK(c) /\ c.touched = d.touched
          /\ DOMAIN c.bm \subseteq DOMAIN d.bm \ {j}
          /\ \A k \in DOMAIN c.bm : c.bm[k] = d.bm[k]
          /\ \A k \in DOMAIN d.bm \ {j} :
                d.bm[k].title # NoName \/ d.bm[k].fk = NoUrl => k \in DOMAIN c.bm
          /\ \A f \in BookmarkDirs(d) \ {d.bm[j].parent} : SameEntries(d, c, f)
      <4> DEFINE a == Deleted(d, j, TRUE)
      <4>1. j \in DOMAIN d.bm \ {Root, TagsRoot} /\ CanDelete(d, j)
        BY <1>2, <2>2
      <4>2. /\ StoreOK(a) /\ a.touched = d.touched
            /\ DOMAIN a.bm \subseteq DOMAIN d.bm \ {j}
            /\ \A k \in DOMAIN a.bm : a.bm[k] = d.bm[k]
            /\ \A k \in DOMAIN d.bm \ {j} :
                  d.bm[k].title # NoName \/ d.bm[k].fk = NoUrl => k \in DOMAIN a.bm
            /\ \A f \in BookmarkDirs(d) \ {d.bm[j].parent} : SameEntries(d, a, f)
        BY <4>1, DeletedOK
      <4> HIDE DEF a
      <4> QED
        BY <3>1, <4>2 DEF a
    <3> QED
      BY <1>0, <1>1, <1>2, <1>3, <2>2, <3>2
  <2> QED
    BY <2>1, <2>2
<1>5. pos \in 0 .. MaxPos /\ \A k \in Kids(c, q) : c.bm[k].pos # pos
  <2>1. CASE j = 0
    <3>1. /\ NextPos(d, q) \in Nat
          /\ \A k \in Kids(d, q) : d.bm[k].pos < NextPos(d, q) /\ d.bm[k].pos \in Int
      BY <1>0, NextPosLast, RowType DEF Kids
    <3>2. pos = NextPos(d, q) /\ c = d
      BY <2>1
    <3> HIDE DEF pos, c
    <3> QED
      BY <2>1, <3>1, <3>2, IdAssumption
  <2>2. CASE j # 0
    <3>1. pos = d.bm[j].pos
      BY <2>2
    <3> HIDE DEF c, pos
    <3>2. pos \in 0 .. MaxPos
      BY <1>0, <1>2, <2>2, <3>1, RowType
    <3>3. \A k \in Kids(c, q) : k \in DOMAIN d.bm /\ k # j /\ c.bm[k] = d.bm[k]
      BY <1>4 DEF Kids
    <3>4. \A k \in Kids(c, q) : d.bm[k].pos # d.bm[j].pos
      BY <1>0, <1>2, <2>2, <3>3 DEF Kids, BmOK, Distinct
    <3> QED
      BY <3>1, <3>2, <3>3, <3>4
  <2> QED
    BY <2>1, <2>2
<1>6. e = Renamed(d, i, p, q, m, j)
  BY DEF Renamed
<1> HIDE DEF c, pos
<1>7. c \in Dbs /\ BmOK(c) /\ Counted(c)
  BY <1>4 DEF StoreOK
<1>8. /\ b \in Dbs /\ b.places = c.places /\ b.origins = c.origins
      /\ b.keywords = c.keywords /\ b.touched = c.touched
      /\ DOMAIN b.bm = DOMAIN c.bm
      /\ \A k \in DOMAIN c.bm \ {i} : b.bm[k] = c.bm[k]
      /\ b.bm[i].parent = q /\ b.bm[i].pos = pos /\ b.bm[i].fk = c.bm[i].fk
      /\ b.bm[i].title = IF byGuid THEN c.bm[i].title ELSE m
  <2>1. q \in 0 .. MaxId
    BY <1>0
  <2> QED
    BY <1>4, <1>5, <1>7, <2>1, MoveEffect
<1> HIDE DEF b
<1>9. BmOK(b)
  <2> DEFINE U == Ancestors(d, q) \cap DOMAIN c.bm
  <2>1. U \in SUBSET DOMAIN c.bm /\ q \in U /\ i \notin U
    BY <1>0, <1>4, AncestorsClosed DEF Ancestors
  <2>2. \A k \in U : c.bm[k].parent \in DOMAIN c.bm => c.bm[k].parent \in U
    BY <1>0, <1>4, AncestorsClosed
  <2>3. /\ c.bm[q].fk = NoUrl
        /\ c.bm[i].parent = TagsRoot => q = TagsRoot
        /\ b.bm[i].title # NoName
    BY <1>0, <1>1, <1>4, <1>8, NameAssumption
  <2> HIDE DEF U
  <2> QED
    BY <1>1, <1>4, <1>5, <1>7, <1>8, <2>1, <2>2, <2>3, MoveOK
<1>10. Counted(b)
  <2>1. PlacesOK(b) /\ IsFiniteSet(DOMAIN b.keywords)
    BY <1>7, <1>8 DEF Counted, PlacesOK
  <2>2. \A v \in Urls : /\ RowsOf(b, v) = RowsOf(c, v) /\ KeysOf(b, v) = KeysOf(c, v)
                         /\ Count(b, v) = Count(c, v)
    BY <1>4, <1>8 DEF RowsOf, KeysOf, Count
  <2> QED
    BY <1>7, <2>1, <2>2 DEF Counted, Refs
<1>11. /\ e \in Dbs /\ e.touched = b.touched \cup {p, q} /\ e.keywords = b.keywords
       /\ e.places = b.places /\ e.bm = b.bm /\ e.origins = b.origins
  BY <1>0, <1>8, MtimeType
<1> HIDE DEF e
<1>12. StoreOK(e)
  BY <1>8, <1>9, <1>10, <1>11, SameTablesOK DEF StoreOK
<1>13. Stamped(d, e)
  <2> SUFFICES ASSUME NEW f \in BookmarkDirs(d), f # p, f # q PROVE SameEntries(d, e, f)
    BY <1>11 DEF Stamped
  <2>1. SameEntries(d, c, f)
    BY <1>4
  <2> QED
    BY <1>0, <1>4, <1>8, <1>11, <2>1 DEF SameEntries, Kids
<1>14. SameUrls(d, e, {})
  BY <1>4, <1>8, <1>11 DEF SameUrls
<1> QED
  BY <1>6, <1>12, <1>13, <1>14
-----------------------------------------------------------------------------
(***************************************************************************)
(* The specification.  A database is as above when it is committed, and    *)
(* when it can be: in phase "insert", the place is counted and its row is  *)
(* not there.                                                              *)
(***************************************************************************)
StoreInv ==
    /\ byGuid \in GuidModes
    /\ phase \in {"idle", "open", "insert"}
    /\ request \in Tree!Requests
    /\ retries \in {0, 1}
    /\ StoreOK(db)
    /\ phase = "idle" => wdb = db
    /\ phase = "open" => /\ StoreOK(wdb) /\ StampedBut(db, wdb, request)
                       /\ UrlsOf(db, wdb, request)
    /\ phase = "insert" => wdb \in Dbs

LEMMA InitOK ==
    ASSUME Init
    PROVE  StoreOK(db)
<1>R. \A p, x, n, u : /\ Row(p, x, n, u).parent = p /\ Row(p, x, n, u).pos = x
                      /\ Row(p, x, n, u).title = n /\ Row(p, x, n, u).fk = u
                      /\ n = NoName => NameOf(Row(p, x, n, u)) = NoName
  BY NameAssumption DEF Row, NameOf
<1>0. /\ \A i \in 1 .. 7 : i = 1 \/ i = 2 \/ i = 3 \/ i = 4 \/ i = 5 \/ i = 6 \/ i = 7
      /\ DOMAIN db.bm = 1 .. 7
  BY InitRows
<1>1. /\ db.bm[1].parent = 0 /\ db.bm[2].parent = 1 /\ db.bm[3].parent = 1
      /\ db.bm[4].parent = 3 /\ db.bm[5].parent = 2 /\ db.bm[6].parent = 4
      /\ db.bm[7].parent = 2
  BY <1>R, InitRows
<1>2. /\ db.bm[1].fk = NoUrl /\ db.bm[2].fk = NoUrl /\ db.bm[3].fk = NoUrl
      /\ db.bm[4].fk = NoUrl /\ db.bm[5].fk = Blank /\ db.bm[6].fk = Blank
      /\ db.bm[7].fk = NoUrl
  BY <1>R, InitRows
<1>3. /\ db.bm[2].pos = 0 /\ db.bm[3].pos = 1 /\ db.bm[5].pos = 0 /\ db.bm[7].pos = 1
  BY <1>R, InitRows
<1>4. /\ \A i \in 1 .. 5 : db.bm[i].title # NoName
      /\ NameOf(db.bm[6]) = NoName /\ NameOf(db.bm[7]) = NoName
  <2>1. /\ db.bm[1].title = "root" /\ db.bm[2].title = "menu" /\ db.bm[3].title = "tags"
        /\ db.bm[4].title = "tag" /\ db.bm[5].title \in Names \cup {BadName}
    BY <1>R, InitRows
  <2>2. \A i \in 1 .. 5 : i = 1 \/ i = 2 \/ i = 3 \/ i = 4 \/ i = 5
    OBVIOUS
  <2>3. \A i \in 1 .. 5 : db.bm[i].title # NoName
    BY <2>1, <2>2, NameAssumption DEF NoName
  <2> QED
    BY <2>3, <1>R, InitRows
<1>5. db \in Dbs
  BY InitDb
<1>6. Fixed(db)
  BY <1>0, <1>1, <1>2 DEF Fixed, Root, TagsRoot
<1>7. Distinct(db)
  BY <1>0, <1>1, <1>3 DEF Distinct
<1>8. Parented(db)
  BY <1>0, <1>1, <1>2 DEF Parented, Root
<1>9. Grounded(db)
  <2> SUFFICES ASSUME NEW S \in SUBSET (DOMAIN db.bm \ {Root}), S # {}
               PROVE  \E i \in S : db.bm[i].parent \notin S
    BY DEF Grounded
  <2>1. S \subseteq Nat
    BY <1>0
  <2>2. PICK i \in S : \A k \in S : i <= k
    BY <2>1, NatMin
  <2>3. db.bm[i].parent < i /\ db.bm[i].parent \in Int
    BY <1>0, <1>1
  <2> QED
    BY <2>1, <2>2, <2>3
<1>10. Marked(db)
  <2>1. 4 \in TagDirs(db)
    BY <1>0, <1>1, <1>2 DEF TagDirs, Kids, IsFolder, TagsRoot
  <2> QED
    BY <1>0, <1>1, <1>2, <1>4, <2>1 DEF Marked
<1>11. Counted(db)
  <2>1. DOMAIN db.keywords = {} /\ DOMAIN db.places = {Blank} /\ db.places[Blank] = 2
    BY InitRows
  <2>2. PlacesOK(db)
    BY <2>1, InitRows DEF PlacesOK
  <2>3. IsFiniteSet(DOMAIN db.keywords)
    BY <2>1, FS_EmptySet
  <2>4. ASSUME NEW v \in Urls PROVE Count(db, v) = Refs(db, v)
    <3>1. KeysOf(db, v) = {}
      BY <2>1 DEF KeysOf
    <3>2. CASE v = Blank
      <4>1. RowsOf(db, v) = {5} \cup {6}
        BY <1>0, <1>2, <3>2, UrlAssumption DEF RowsOf
      <4>2. Cardinality({5} \cup {6}) = 2
        <5> DEFINE A == {5}
        <5>1. IsFiniteSet(A) /\ Cardinality(A) = 1
          BY FS_Singleton
        <5>2. 6 \notin A
          OBVIOUS
        <5> HIDE DEF A
        <5>3. Cardinality(A \cup {6}) = 2
          BY <5>1, <5>2, FS_AddElement
        <5> QED
          BY <5>3 DEF A
      <4> QED
        BY <2>1, <3>1, <3>2, <4>1, <4>2, FS_EmptySet DEF Refs, Count
    <3>3. CASE v # Blank
      <4>1. RowsOf(db, v) = {}
        BY <1>0, <1>2, <3>3, UrlAssumption DEF RowsOf
      <4> QED
        BY <2>1, <3>1, <3>3, <4>1, FS_EmptySet DEF Refs, Count
    <3> QED
      BY <3>2, <3>3
  <2> QED
    BY <2>2, <2>3, <2>4 DEF Counted
<1> QED
  BY <1>5, <1>6, <1>7, <1>8, <1>9, <1>10, <1>11 DEF StoreOK, BmOK

\* What a request adds to the invariant when it has executed its statements.
LEMMA ExecuteOK ==
    ASSUME StoreInv, NEW r \in Tree!Requests, NEW e, Execute(r, e),
           StoreOK(e), Stamped(db, e) \/ StampedBut(db, e, r), UrlsOf(db, e, r)
    PROVE  StoreInv'
<1>1. /\ wdb' = e /\ db' = db /\ byGuid' = byGuid /\ phase' = "open" /\ request' = r
      /\ retries' = retries
  BY DEF Execute
<1>2. StoreOK(db)'
  BY <1>1 DEF StoreInv, StoreOK, BmOK, Marked, NameOf
<1>3. StoreOK(wdb)'
  BY <1>1 DEF StoreOK, BmOK, Marked, NameOf
<1>4. StampedBut(db, wdb, request)'
  <2>1. StampedBut(db, e, r)
    BY DEF Stamped, StampedBut
  <2> QED
    BY <1>1, <2>1 DEF StampedBut, SameEntries, NameOf
<1>5. UrlsOf(db, wdb, request)'
  BY <1>1 DEF UrlsOf, SameUrls
<1> QED
  BY <1>1, <1>2, <1>3, <1>4, <1>5 DEF StoreInv

LEMMA RequestTypes ==
    /\ \A p \in 1 .. MaxId, n \in Names :
        /\ \A u \in Urls \cup {NoUrl} : <<"create", p, n, u>> \in Tree!Requests
        /\ <<"delete", p, n>> \in Tree!Requests /\ <<"untag", p, n>> \in Tree!Requests
        /\ \A q \in 1 .. MaxId, m \in Names : <<"rename", p, n, q, m>> \in Tree!Requests
        /\ \A m \in Names : /\ <<"swap", p, n, m>> \in Tree!Requests
                             /\ <<"before", p, n, m>> \in Tree!Requests
                             /\ <<"after", p, n, m>> \in Tree!Requests
    /\ \A i \in 1 .. MaxId :
        /\ \A t \in 1 .. MaxId : <<"tag", t, i>> \in Tree!Requests
        /\ \A k \in Keywords : <<"keyword", k, i>> \in Tree!Requests
        /\ \A u \in Urls : <<"set", i, u>> \in Tree!Requests
        /\ \A p \in 1 .. MaxId, n \in Names : <<"repair", p, i, n>> \in Tree!Requests
    /\ \A k \in Keywords : <<"unbind", k>> \in Tree!Requests
    /\ None \in Tree!Requests
BY DEF Tree!Requests, None, Tree!None

\* The folders of requests are neither the root nor missing.
LEMMA DirsOK ==
    ASSUME NEW d, StoreOK(d), NEW p \in BookmarkDirs(d) \cup TagDirs(d) \cup {TagsRoot}
    PROVE  /\ p \in DOMAIN d.bm \ {Root} /\ p \in 1 .. MaxId /\ d.bm[p].fk = NoUrl
<1>1. p \in DOMAIN d.bm \ {Root} /\ d.bm[p].fk = NoUrl
  BY DEF BookmarkDirs, TagDirs, Kids, IsFolder, StoreOK, BmOK, Fixed, Root, TagsRoot
<1> QED
  BY <1>1, DbType DEF StoreOK

\* A row that a request finds by its name is not a fixed folder.
LEMMA FoundOK ==
    ASSUME NEW d, StoreOK(d), NEW p \in BookmarkDirs(d) \cup TagDirs(d) \cup {TagsRoot},
           NEW n, MozbmLookup(d, p, n) # 0
    PROVE  LET i == MozbmLookup(d, p, n)
           IN /\ i \in DOMAIN d.bm \ {Root, TagsRoot} /\ i \in Kids(d, p)
              /\ d.bm[i].parent = p /\ NameOf(d.bm[i]) = n
<1> DEFINE i == MozbmLookup(d, p, n)
<1>1. i \in DOMAIN d.bm /\ d.bm[i].parent = p /\ NameOf(d.bm[i]) = n
  BY LookupFinds DEF StoreOK
<1>2. p # Root /\ p # 0
  BY DirsOK
<1> HIDE DEF i
<1>3. i # Root /\ i # TagsRoot
  BY <1>1, <1>2 DEF StoreOK, BmOK, Fixed
<1> QED
  BY <1>1, <1>3 DEF Kids, i

LEMMA CreateStep ==
    ASSUME StoreInv, NEW p \in BookmarkDirs(db) \cup {TagsRoot}, NEW n \in Names,
           NEW u \in Urls \cup {NoUrl}, BookmarkCreate(p, n, u)
    PROVE  StoreInv'
<1>1. StoreOK(db) /\ p \in DOMAIN db.bm /\ p \in 1 .. MaxId /\ db.bm[p].fk = NoUrl
  BY DirsOK DEF StoreInv
<1>2. CanInsert(db, p) /\ Execute(<<"create", p, n, u>>, Created(db, p, n, u))
  BY DEF BookmarkCreate
<1>3. StoreOK(Created(db, p, n, u)) /\ Stamped(db, Created(db, p, n, u)) /\ SameUrls(db, Created(db, p, n, u), {})
  BY <1>1, <1>2, CreatedOK
<1>4. <<"create", p, n, u>> \in Tree!Requests
  BY <1>1, RequestTypes
<1>5. UrlsOf(db, Created(db, p, n, u), <<"create", p, n, u>>)
  BY <1>3 DEF UrlsOf
<1> QED
  BY <1>2, <1>3, <1>4, <1>5, ExecuteOK

LEMMA CreateTakenStep ==
    ASSUME StoreInv, NEW p \in BookmarkDirs(db), NEW n \in Names,
           NEW u \in Urls \cup {NoUrl}, BookmarkCreateTaken(p, n, u)
    PROVE  StoreInv'
<1>1. StoreOK(db) /\ p \in 1 .. MaxId
  BY DirsOK DEF StoreInv
<1>2. /\ wdb' = IF u = NoUrl THEN db ELSE MozplaceAddref(db, u)
      /\ phase' = "insert" /\ request' = <<"create", p, n, u>>
      /\ byGuid' = byGuid /\ db' = db /\ retries' = retries
  BY DEF BookmarkCreateTaken
<1>3. wdb' \in Dbs
  BY <1>1, <1>2, AddrefEffect DEF StoreOK
<1>4. request' \in Tree!Requests
  BY <1>1, <1>2, RequestTypes
<1>5. StoreOK(db)'
  BY <1>1, <1>2 DEF StoreOK, BmOK, Marked, NameOf
<1> QED
  BY <1>2, <1>3, <1>4, <1>5 DEF StoreInv

LEMMA DeleteStep ==
    ASSUME StoreInv, NEW p \in BookmarkDirs(db) \cup {TagsRoot}, NEW n \in Names,
           BookmarkDelete(p, n)
    PROVE  StoreInv'
<1> DEFINE i == MozbmLookup(db, p, n)
           e == Removed(db, p, i, TRUE)
<1>1. StoreOK(db) /\ p \in 1 .. MaxId
  BY DirsOK DEF StoreInv
<1>2. i # 0 /\ CanDelete(db, i) /\ Execute(<<"delete", p, n>>, e)
  BY DEF BookmarkDelete
<1>3. i \in DOMAIN db.bm \ {Root, TagsRoot} /\ db.bm[i].parent = p
  BY <1>1, <1>2, FoundOK
<1>4. StoreOK(e) /\ Stamped(db, e) /\ SameUrls(db, e, {})
  <2> HIDE DEF i
  <2>1. e = Removed(db, db.bm[i].parent, i, TRUE)
    BY <1>3
  <2> HIDE DEF e
  <2> QED
    BY <1>1, <1>2, <1>3, <2>1, RemovedOK
<1>5. <<"delete", p, n>> \in Tree!Requests
  BY <1>1, RequestTypes
<1>6. UrlsOf(db, e, <<"delete", p, n>>)
  BY <1>4 DEF UrlsOf
<1> HIDE DEF e, i
<1> QED
  BY <1>2, <1>4, <1>5, <1>6, ExecuteOK

LEMMA SwapStep ==
    ASSUME StoreInv, NEW p \in BookmarkDirs(db) \cup {TagsRoot}, NEW n \in Names,
           NEW m \in Names, BookmarkSwap(p, n, m)
    PROVE  StoreInv'
<1> DEFINE i == MozbmLookup(db, p, n)
           j == MozbmLookup(db, p, m)
           e == Swapped(db, p, i, j)
<1>1. StoreOK(db) /\ p \in 1 .. MaxId
  BY DirsOK DEF StoreInv
<1>2. i # 0 /\ j # 0 /\ i # j /\ Execute(<<"swap", p, n, m>>, e)
  BY DEF BookmarkSwap
<1>3. i \in Kids(db, p) /\ j \in Kids(db, p)
  BY <1>1, <1>2, FoundOK
<1> HIDE DEF i, j
<1>4. StoreOK(e) /\ Stamped(db, e) /\ SameUrls(db, e, {})
  BY <1>1, <1>2, <1>3, SwappedOK
<1>5. <<"swap", p, n, m>> \in Tree!Requests
  BY <1>1, RequestTypes
<1>6. UrlsOf(db, e, <<"swap", p, n, m>>)
  BY <1>4 DEF UrlsOf
<1> HIDE DEF e
<1> QED
  BY <1>2, <1>4, <1>5, <1>6, ExecuteOK

LEMMA ShiftStep ==
    ASSUME StoreInv, NEW p \in BookmarkDirs(db) \cup {TagsRoot}, NEW n \in Names,
           NEW m \in Names, NEW b \in BOOLEAN, BookmarkShift(p, n, m, b)
    PROVE  StoreInv'
<1> DEFINE i == MozbmLookup(db, p, n)
           j == MozbmLookup(db, p, m)
           e == Shifted(db, p, i, j, b)
           r == <<IF b THEN "before" ELSE "after", p, n, m>>
<1>1. StoreOK(db) /\ p \in 1 .. MaxId
  BY DirsOK DEF StoreInv
<1>2. i # 0 /\ j # 0 /\ i # j /\ db.bm[i].pos # db.bm[j].pos /\ e # db /\ Execute(r, e)
  BY DEF BookmarkShift
<1>3. i \in Kids(db, p) /\ j \in Kids(db, p)
  BY <1>1, <1>2, FoundOK
<1> HIDE DEF i, j
<1>4. StoreOK(e) /\ Stamped(db, e) /\ SameUrls(db, e, {})
  BY <1>1, <1>2, <1>3, ShiftedOK
<1>5. r \in Tree!Requests
  BY <1>1, RequestTypes
<1>6. UrlsOf(db, e, r)
  BY <1>4 DEF UrlsOf
<1> HIDE DEF e, r
<1> QED
  BY <1>2, <1>4, <1>5, <1>6, ExecuteOK

LEMMA RenameStep ==
    ASSUME StoreInv, NEW n \in Names, NEW m \in Names,
           NEW p \in BookmarkDirs(db) \cup {TagsRoot},
           NEW q \in BookmarkDirs(db) \cup {TagsRoot},
           p = TagsRoot => q = TagsRoot, BookmarkRename(p, n, q, m)
    PROVE  StoreInv'
<1> DEFINE i == MozbmLookup(db, p, n)
           j == MozbmLookup(db, q, m)
           e == Renamed(db, i, p, q, m, j)
<1>1. /\ StoreOK(db) /\ p \in 1 .. MaxId /\ q \in 1 .. MaxId /\ db.bm[q].fk = NoUrl
      /\ p \in DOMAIN db.bm \ {Root} /\ q \in DOMAIN db.bm \ {Root}
  BY DirsOK DEF StoreInv
<1>2. /\ <<p, n>> # <<q, m>> /\ i # 0 /\ ~Below(db, q, i)
      /\ j # 0 => CanDelete(db, j)
      /\ j = 0 => NextPos(db, q) <= MaxPos
      /\ Execute(<<"rename", p, n, q, m>>, e)
  BY DEF BookmarkRename
<1>3. i \in Kids(db, p) /\ db.bm[i].parent = p /\ NameOf(db.bm[i]) = n
  BY <1>1, <1>2, FoundOK
<1>4. j # 0 => j \in Kids(db, q) /\ db.bm[j].parent = q /\ NameOf(db.bm[j]) = m
  BY <1>1, FoundOK
<1> HIDE DEF i, j
<1>5. j # i
  BY <1>2, <1>3, <1>4
<1>6. StoreOK(e) /\ Stamped(db, e) /\ SameUrls(db, e, {})
  BY <1>1, <1>2, <1>3, <1>4, <1>5, RenamedOK
<1>7. <<"rename", p, n, q, m>> \in Tree!Requests
  BY <1>1, RequestTypes
<1>8. UrlsOf(db, e, <<"rename", p, n, q, m>>)
  BY <1>6 DEF UrlsOf
<1> HIDE DEF e
<1> QED
  BY <1>2, <1>6, <1>7, <1>8, ExecuteOK

LEMMA TagStep ==
    ASSUME StoreInv, NEW t \in TagDirs(db), NEW i \in Bookmarks(db), TagEntryAdd(t, i)
    PROVE  StoreInv'
<1> DEFINE u == db.bm[i].fk
           e == Tagged(db, t, u)
<1>1. StoreOK(db) /\ t \in 1 .. MaxId /\ i \in DOMAIN db.bm /\ u # NoUrl
  BY DirsOK DEF StoreInv, Bookmarks, IsFolder
<1>2. i \in 1 .. MaxId /\ u \in Urls
  BY <1>1, RowType DEF StoreOK
<1>3. CanInsert(db, t) /\ Execute(<<"tag", t, i>>, e)
  BY DEF TagEntryAdd
<1>4. StoreOK(e) /\ Stamped(db, e) /\ SameUrls(db, e, {})
  BY <1>1, <1>2, <1>3, TaggedOK
<1>5. <<"tag", t, i>> \in Tree!Requests
  BY <1>1, <1>2, RequestTypes
<1>6. UrlsOf(db, e, <<"tag", t, i>>)
  BY <1>4 DEF UrlsOf
<1> HIDE DEF e
<1> QED
  BY <1>3, <1>4, <1>5, <1>6, ExecuteOK

LEMMA UntagStep ==
    ASSUME StoreInv, NEW t \in TagDirs(db), NEW n \in Names, TagEntryDelete(t, n)
    PROVE  StoreInv'
<1> DEFINE i == TagLookup(db, t, n)
           k == Lowest(TagEntries(db, t, db.bm[i].fk))
           e == Removed(db, t, k, FALSE)
<1>1. StoreOK(db) /\ t \in 1 .. MaxId
  BY DirsOK DEF StoreInv
<1>2. i # 0 /\ Execute(<<"untag", t, n>>, e)
  BY DEF TagEntryDelete
<1>3. k \in DOMAIN db.bm /\ db.bm[k].parent = t /\ db.bm[k].fk \in Urls
  BY <1>1, <1>2, TagLookupFinds DEF StoreOK
<1> HIDE DEF i, k
<1>4. k \in DOMAIN db.bm \ {Root, TagsRoot} /\ CanDelete(db, k)
  BY <1>1, <1>3, UrlAssumption DEF StoreOK, BmOK, Fixed, CanDelete, IsFolder
<1>5. StoreOK(e) /\ Stamped(db, e) /\ SameUrls(db, e, {})
  <2>1. e = Removed(db, db.bm[k].parent, k, FALSE)
    BY <1>3
  <2> HIDE DEF e
  <2> QED
    BY <1>1, <1>3, <1>4, <2>1, RemovedOK
<1>6. <<"untag", t, n>> \in Tree!Requests
  BY <1>1, RequestTypes
<1>7. UrlsOf(db, e, <<"untag", t, n>>)
  BY <1>5 DEF UrlsOf
<1> HIDE DEF e
<1> QED
  BY <1>2, <1>5, <1>6, <1>7, ExecuteOK

LEMMA KeywordStep ==
    ASSUME StoreInv, NEW k \in Keywords, NEW i \in Bookmarks(db), KeywordCreate(k, i)
    PROVE  StoreInv'
<1> DEFINE u == db.bm[i].fk
           e == KeywordAdded(db, k, u)
<1>1. StoreOK(db) /\ i \in DOMAIN db.bm /\ u # NoUrl
  BY DEF StoreInv, Bookmarks, IsFolder
<1>2. i \in 1 .. MaxId /\ u \in Urls
  BY <1>1, RowType DEF StoreOK
<1>3. k \notin DOMAIN db.keywords /\ Execute(<<"keyword", k, i>>, e)
  BY DEF KeywordCreate
<1>4. StoreOK(e) /\ Stamped(db, e) /\ SameUrls(db, e, {})
  BY <1>1, <1>2, <1>3, KeywordAddedOK
<1>5. <<"keyword", k, i>> \in Tree!Requests
  BY <1>2, RequestTypes
<1>6. UrlsOf(db, e, <<"keyword", k, i>>)
  BY <1>4 DEF UrlsOf
<1> HIDE DEF e
<1> QED
  BY <1>3, <1>4, <1>5, <1>6, ExecuteOK

LEMMA UnbindStep ==
    ASSUME StoreInv, NEW k \in DOMAIN db.keywords, MozkwDelete(k)
    PROVE  StoreInv'
<1> DEFINE e == KeywordDeleted(db, k)
<1>1. StoreOK(db) /\ k \in Keywords
  BY DbType DEF StoreInv, StoreOK
<1>2. Execute(<<"unbind", k>>, e)
  BY DEF MozkwDelete
<1>3. StoreOK(e) /\ Stamped(db, e) /\ SameUrls(db, e, {})
  BY <1>1, KeywordDeletedOK
<1>4. <<"unbind", k>> \in Tree!Requests
  BY <1>1, RequestTypes
<1>5. UrlsOf(db, e, <<"unbind", k>>)
  BY <1>3 DEF UrlsOf
<1> HIDE DEF e
<1> QED
  BY <1>2, <1>3, <1>4, <1>5, ExecuteOK

LEMMA SetStep ==
    ASSUME StoreInv, NEW i \in DOMAIN db.bm, NEW u \in Urls, BookmarkSet(i, u)
    PROVE  StoreInv'
<1> DEFINE e == UrlSet(db, i, u)
<1>1. StoreOK(db) /\ i \in 1 .. MaxId
  BY DbType DEF StoreInv, StoreOK
<1>2. ~IsFolder(db, i) /\ Execute(<<"set", i, u>>, e)
  BY DEF BookmarkSet
<1>3. /\ StoreOK(e) /\ Stamped(db, e) /\ DOMAIN e.bm = DOMAIN db.bm
      /\ SameUrls(db, e, {i}) /\ e.bm[i].fk = u
  BY <1>1, <1>2, UrlSetOK
<1>4. <<"set", i, u>> \in Tree!Requests
  BY <1>1, RequestTypes
<1>5. UrlsOf(db, e, <<"set", i, u>>)
  BY <1>3 DEF UrlsOf
<1> HIDE DEF e
<1> QED
  BY <1>2, <1>3, <1>4, <1>5, ExecuteOK

\* fsck_apply() changes the title of a row, which keeps its place and its URL.
LEMMA RetitledOK ==
    ASSUME NEW d, StoreOK(d), ~byGuid, NEW p, NEW i \in Kids(d, p), NEW n \in Names
    PROVE  LET e == Retitled(d, i, n)
           IN /\ StoreOK(e) /\ SameUrls(d, e, {})
              /\ \A f \in BookmarkDirs(d) \ {p} : SameEntries(d, e, f)
<1> DEFINE e == Retitled(d, i, n)
<1>1. d \in Dbs /\ BmOK(d) /\ Counted(d) /\ i \in DOMAIN d.bm /\ d.bm[i].parent = p
  BY DEF StoreOK, Kids
<1>2. /\ d.bm \in [DOMAIN d.bm -> Rows] /\ DOMAIN d.bm \subseteq 1 .. MaxId
      /\ \A k \in DOMAIN d.bm : d.bm[k] \in Rows
  BY <1>1, DbType
<1>3. /\ e.bm = [d.bm EXCEPT ![i].title = n] /\ e.places = d.places
      /\ e.origins = d.origins /\ e.keywords = d.keywords /\ e.touched = d.touched
      /\ e = [d EXCEPT !.bm = e.bm]
  BY <1>1 DEF Retitled, Dbs
<1>4. n \in Titles /\ n # NoName
  BY NameAssumption DEF Titles
<1> HIDE DEF e
<1>5. /\ DOMAIN e.bm = DOMAIN d.bm
      /\ \A k \in DOMAIN d.bm : /\ e.bm[k] \in Rows
                                /\ e.bm[k].parent = d.bm[k].parent
                                /\ e.bm[k].pos = d.bm[k].pos
                                /\ e.bm[k].fk = d.bm[k].fk
                                /\ k # i => e.bm[k].title = d.bm[k].title
      /\ e.bm[i].title = n
  BY <1>1, <1>2, <1>3, <1>4 DEF Rows
<1>6. e.bm \in Tables(1 .. MaxId, Rows)
  <2>1. e.bm \in [DOMAIN e.bm -> Rows]
    BY <1>2, <1>3, <1>5
  <2> QED
    BY <1>2, <1>5, <2>1, TableType
<1>7. e \in Dbs
  BY <1>1, <1>3, <1>6 DEF Dbs
<1>8. \A k \in DOMAIN d.bm : NameOf(e.bm[k]) = e.bm[k].title /\ NameOf(d.bm[k]) = d.bm[k].title
  BY DEF NameOf
<1>9. BmOK(e)
  <2>1. Fixed(e) /\ Distinct(e) /\ Parented(e)
    BY <1>1, <1>5 DEF BmOK, Fixed, Distinct, Parented
  <2>2. Grounded(e)
    BY <1>1, <1>5 DEF BmOK, Grounded
  <2>3. TagDirs(e) = TagDirs(d)
    BY <1>5 DEF TagDirs, Kids, IsFolder
  <2>4. Marked(e)
    BY <1>1, <1>4, <1>5, <1>8, <2>3 DEF BmOK, Marked
  <2> QED
    BY <2>1, <2>2, <2>4 DEF BmOK
<1>10. Counted(e)
  <2>1. \A v : RowsOf(e, v) = RowsOf(d, v) /\ KeysOf(e, v) = KeysOf(d, v)
    BY <1>3, <1>5 DEF RowsOf, KeysOf
  <2> QED
    BY <1>1, <1>3, <2>1 DEF Counted, PlacesOK, Count, Refs
<1>11. SameUrls(d, e, {})
  BY <1>5 DEF SameUrls
<1>12. ASSUME NEW f \in BookmarkDirs(d) \ {p} PROVE SameEntries(d, e, f)
  <2>1. Kids(e, f) = Kids(d, f) /\ i \notin Kids(d, f)
    BY <1>1, <1>5, <1>12 DEF Kids
  <2> QED
    BY <1>5, <1>8, <2>1 DEF SameEntries, Kids
<1> QED
  BY <1>7, <1>9, <1>10, <1>11, <1>12 DEF StoreOK, e

LEMMA FsckApplyStep ==
    ASSUME StoreInv, NEW p \in BookmarkDirs(db) \cup {TagsRoot}, NEW n \in Names,
           NEW i \in Kids(db, p), FsckApply(p, i, n)
    PROVE  StoreInv'
<1> DEFINE e == Retitled(db, i, n)
<1>1. StoreOK(db) /\ p \in 1 .. MaxId
  BY DirsOK DEF StoreInv
<1>2. ~byGuid /\ Execute(<<"repair", p, i, n>>, e)
  BY DEF FsckApply
<1>3. /\ StoreOK(e) /\ SameUrls(db, e, {})
      /\ \A f \in BookmarkDirs(db) \ {p} : SameEntries(db, e, f)
  BY <1>1, <1>2, RetitledOK
<1>4. i \in 1 .. MaxId
  BY <1>1, DbType DEF StoreOK, Kids
<1>5. <<"repair", p, i, n>> \in Tree!Requests
  BY <1>1, <1>4, RequestTypes
<1>6. UrlsOf(db, e, <<"repair", p, i, n>>)
  BY <1>3 DEF UrlsOf
<1>7. StampedBut(db, e, <<"repair", p, i, n>>)
  BY <1>3 DEF StampedBut
<1> HIDE DEF e
<1> QED
  BY <1>2, <1>3, <1>5, <1>6, <1>7, ExecuteOK

LEMMA RequestStep ==
    ASSUME StoreInv, Request
    PROVE  StoreInv'
<1>0. Blank \in Urls \cup {NoUrl} /\ NoUrl \in Urls \cup {NoUrl}
  BY UrlAssumption
<1>1. CASE \E p \in BookmarkDirs(db) \cup {TagsRoot}, n \in Names :
            \/ BookmarkCreate(p, n, NoUrl)
            \/ BookmarkDelete(p, n)
            \/ \E m \in Names : \/ BookmarkSwap(p, n, m)
                                \/ \E b \in BOOLEAN : BookmarkShift(p, n, m, b)
  <2>1. PICK p \in BookmarkDirs(db) \cup {TagsRoot}, n \in Names :
            \/ BookmarkCreate(p, n, NoUrl)
            \/ BookmarkDelete(p, n)
            \/ \E m \in Names : \/ BookmarkSwap(p, n, m)
                                \/ \E b \in BOOLEAN : BookmarkShift(p, n, m, b)
    BY <1>1
  <2>2. CASE BookmarkCreate(p, n, NoUrl)
    BY <1>0, <2>2, CreateStep
  <2>3. CASE BookmarkDelete(p, n)
    BY <2>3, DeleteStep
  <2>4. ASSUME NEW m \in Names, BookmarkSwap(p, n, m) PROVE StoreInv'
    BY <2>4, SwapStep
  <2>5. ASSUME NEW m \in Names, NEW b \in BOOLEAN, BookmarkShift(p, n, m, b)
        PROVE  StoreInv'
    BY <2>5, ShiftStep
  <2> QED
    BY <2>1, <2>2, <2>3, <2>4, <2>5
<1>2. ASSUME NEW p \in BookmarkDirs(db), NEW n \in Names, BookmarkCreate(p, n, Blank)
      PROVE  StoreInv'
  BY <1>0, <1>2, CreateStep
<1>3. ASSUME NEW p \in BookmarkDirs(db), NEW n \in Names, NEW u \in {Blank, NoUrl},
             BookmarkCreateTaken(p, n, u)
      PROVE  StoreInv'
  BY <1>0, <1>3, CreateTakenStep
<1>4. ASSUME NEW p \in BookmarkDirs(db), NEW q \in BookmarkDirs(db), NEW n \in Names,
             NEW m \in Names, BookmarkRename(p, n, q, m)
      PROVE  StoreInv'
  <2>1. p # TagsRoot
    BY DEF BookmarkDirs
  <2> QED
    BY <1>4, <2>1, RenameStep
<1>5. ASSUME NEW n \in Names, NEW m \in Names, BookmarkRename(TagsRoot, n, TagsRoot, m)
      PROVE  StoreInv'
  BY <1>5, RenameStep
<1>6. ASSUME NEW t \in TagDirs(db), NEW i \in Bookmarks(db), TagEntryAdd(t, i)
      PROVE  StoreInv'
  BY <1>6, TagStep
<1>7. ASSUME NEW t \in TagDirs(db), NEW n \in Names, TagEntryDelete(t, n)
      PROVE  StoreInv'
  BY <1>7, UntagStep
<1>8. ASSUME NEW k \in Keywords, NEW i \in Bookmarks(db), KeywordCreate(k, i)
      PROVE  StoreInv'
  BY <1>8, KeywordStep
<1>9. ASSUME NEW k \in DOMAIN db.keywords, MozkwDelete(k) PROVE StoreInv'
  BY <1>9, UnbindStep
<1>10. ASSUME NEW i \in DOMAIN db.bm, NEW u \in Urls, BookmarkSet(i, u) PROVE StoreInv'
  BY <1>10, SetStep
<1>11. ASSUME NEW p \in BookmarkDirs(db) \cup {TagsRoot}, NEW n \in Names,
              NEW i \in Kids(db, p), FsckApply(p, i, n)
       PROVE  StoreInv'
  BY <1>11, FsckApplyStep
<1> QED
  BY <1>1, <1>2, <1>3, <1>4, <1>5, <1>6, <1>7, <1>8, <1>9, <1>10, <1>11 DEF Request

\* A request leaves the committed database alone: only TxnEnd changes it.
LEMMA RequestKeepsDb ==
    ASSUME Request
    PROVE  phase = "idle" /\ phase' # "idle" /\ db' = db
<1> DEFINE Goal == phase = "idle" /\ phase' # "idle" /\ db' = db
<1>0. ASSUME NEW r, NEW e, Execute(r, e) PROVE Goal
  BY <1>0 DEF Execute
<1>1. ASSUME NEW p, NEW n, NEW u, BookmarkCreate(p, n, u) PROVE Goal
  BY <1>0, <1>1 DEF BookmarkCreate
<1>2. ASSUME NEW p, NEW n, NEW u, BookmarkCreateTaken(p, n, u) PROVE Goal
  BY <1>2 DEF BookmarkCreateTaken
<1>3. ASSUME NEW p, NEW n, BookmarkDelete(p, n) PROVE Goal
  BY <1>0, <1>3 DEF BookmarkDelete
<1>4. ASSUME NEW p, NEW n, NEW q, NEW m, BookmarkRename(p, n, q, m) PROVE Goal
  BY <1>0, <1>4 DEF BookmarkRename
<1>5. ASSUME NEW p, NEW n, NEW m, BookmarkSwap(p, n, m) PROVE Goal
  BY <1>0, <1>5 DEF BookmarkSwap
<1>6. ASSUME NEW p, NEW n, NEW m, NEW b, BookmarkShift(p, n, m, b) PROVE Goal
  BY <1>0, <1>6 DEF BookmarkShift
<1>7. ASSUME NEW t, NEW i, TagEntryAdd(t, i) PROVE Goal
  BY <1>0, <1>7 DEF TagEntryAdd
<1>8. ASSUME NEW t, NEW n, TagEntryDelete(t, n) PROVE Goal
  BY <1>0, <1>8 DEF TagEntryDelete
<1>9. ASSUME NEW k, NEW i, KeywordCreate(k, i) PROVE Goal
  BY <1>0, <1>9 DEF KeywordCreate
<1>10. ASSUME NEW k, MozkwDelete(k) PROVE Goal
  BY <1>0, <1>10 DEF MozkwDelete
<1>11. ASSUME NEW i, NEW u, BookmarkSet(i, u) PROVE Goal
  BY <1>0, <1>11 DEF BookmarkSet
<1>12. ASSUME NEW p, NEW i, NEW n, FsckApply(p, i, n) PROVE Goal
  BY <1>0, <1>12 DEF FsckApply
<1> QED
  <2> HIDE DEF Goal
  <2>1. Goal
    BY <1>1, <1>2, <1>3, <1>4, <1>5, <1>6, <1>7, <1>8, <1>9, <1>10, <1>11, <1>12
    DEF Request
  <2> QED
    BY <2>1 DEF Goal

LEMMA StoreInvInit == Init => StoreInv
BY InitOK, RequestTypes DEF Init, StoreInv

LEMMA StoreInvStep == StoreInv /\ [Next]_vars => StoreInv'
<1> SUFFICES ASSUME StoreInv, [Next]_vars PROVE StoreInv'
  OBVIOUS
<1>1. ASSUME byGuid' = byGuid, db' = db, wdb' = db', phase' = "idle", request' = None,
             retries' \in {0, 1}
      PROVE  StoreInv'
  <2>1. StoreOK(db)'
    BY <1>1 DEF StoreInv, StoreOK, BmOK, Marked, NameOf
  <2> QED
    BY <1>1, <2>1, RequestTypes DEF StoreInv
<1>2. CASE Request
  BY <1>2, RequestStep
<1>3. CASE TxnEnd
  <2>1. /\ phase = "open" /\ db' = [wdb EXCEPT !.touched = {}] /\ wdb' = db'
        /\ phase' = "idle" /\ request' = None /\ byGuid' = byGuid /\ retries' = retries
    BY <1>3 DEF TxnEnd
  <2>2. StoreOK(wdb) /\ wdb \in Dbs
    BY <2>1 DEF StoreInv, StoreOK
  <2>3. /\ db' \in Dbs /\ db'.bm = wdb.bm /\ db'.keywords = wdb.keywords
        /\ db'.places = wdb.places /\ db'.origins = wdb.origins
    BY <2>1, <2>2 DEF Dbs
  <2>4. StoreOK(db')
    BY <2>2, <2>3, SameTablesOK
  <2>5. StoreOK(db)'
    BY <2>1, <2>4 DEF StoreOK, BmOK, Marked, NameOf
  <2> QED
    BY <2>1, <2>5, RequestTypes DEF StoreInv
<1>4. CASE TxnRollback
  BY <1>1, <1>4 DEF TxnRollback, StoreInv
<1>5. CASE Crash
  BY <1>1, <1>5 DEF Crash
<1>6. CASE MozbmInsertAgain
  <2>1. /\ phase = "insert" /\ retries' = 1 - retries
        /\ byGuid' = byGuid /\ db' = db /\ wdb' = wdb /\ phase' = phase
        /\ request' = request
    BY <1>6 DEF MozbmInsertAgain
  <2>2. StoreOK(db)'
    BY <2>1 DEF StoreInv, StoreOK, BmOK, Marked, NameOf
  <2>3. retries' \in {0, 1}
    BY <2>1 DEF StoreInv
  <2> QED
    BY <2>1, <2>2, <2>3 DEF StoreInv
<1>7. CASE UNCHANGED vars
  <2>1. /\ byGuid' = byGuid /\ db' = db /\ wdb' = wdb /\ phase' = phase
        /\ request' = request /\ retries' = retries
    BY <1>7 DEF vars
  <2>2. StoreOK(db)' /\ (phase = "open" => StoreOK(wdb)')
    BY <2>1 DEF StoreInv, StoreOK, BmOK, Marked, NameOf
  <2>3. phase = "open" => StampedBut(db, wdb, request)' /\ UrlsOf(db, wdb, request)'
    BY <2>1 DEF StoreInv, StampedBut, SameEntries, NameOf, UrlsOf, SameUrls
  <2> QED
    BY <2>1, <2>2, <2>3 DEF StoreInv
<1> QED
  BY <1>2, <1>3, <1>4, <1>5, <1>6, <1>7 DEF Next

LEMMA StoreInvHolds == Spec => []StoreInv
<1>1. Init => StoreInv
  BY StoreInvInit
<1>2. StoreInv /\ [Next]_vars => StoreInv'
  BY StoreInvStep
<1> QED
  BY <1>1, <1>2, PTL DEF Spec
-----------------------------------------------------------------------------
LEMMA InvTypes == StoreInv => TypeOK
<1> SUFFICES ASSUME StoreInv PROVE TypeOK
  OBVIOUS
<1>1. db \in Dbs /\ wdb \in Dbs
  BY DEF StoreInv, StoreOK
<1>2. ASSUME NEW d \in Dbs
      PROVE  /\ DOMAIN d.bm \subseteq 1 .. MaxId
             /\ \A i \in DOMAIN d.bm : d.bm[i].pos \in 0 .. MaxPos
             /\ DOMAIN d.places \subseteq Urls
             /\ DOMAIN d.keywords \subseteq Keywords
             /\ d.touched \subseteq 1 .. MaxId
  BY DbType, RowType
<1> QED
  BY <1>1, <1>2 DEF StoreInv, TypeOK, Databases

LEMMA InvCounts == StoreInv => RefCountsMatch
<1> SUFFICES ASSUME StoreInv PROVE RefCountsMatch
  OBVIOUS
<1>1. Counted(db) /\ db \in Dbs
  BY DEF StoreInv, StoreOK
<1>2. db.origins = {Origin[u] : u \in DOMAIN db.places}
  BY <1>1 DEF Counted, PlacesOK
<1>3. ASSUME NEW u \in Urls
      PROVE  IF u \in DOMAIN db.places
             THEN db.places[u] = Refs(db, u) /\ Refs(db, u) > 0
             ELSE Refs(db, u) = 0
  BY <1>1 DEF Counted, PlacesOK, Count
<1> QED
  BY <1>2, <1>3 DEF RefCountsMatch, Refs, RowsOf, KeysOf

LEMMA InvDistinct == StoreInv => PositionsDistinct
BY DEF StoreInv, StoreOK, BmOK, Distinct, PositionsDistinct

LEMMA InvConnected == StoreInv => TreeConnected
<1> SUFFICES ASSUME StoreInv, NEW i \in DOMAIN db.bm PROVE Below(db, i, Root)
  BY DEF TreeConnected
<1>1. db \in Dbs /\ BmOK(db)
  BY DEF StoreInv, StoreOK
<1> DEFINE S == Ancestors(db, i)
<1>2. /\ S \subseteq DOMAIN db.bm /\ S # {}
      /\ \A x \in S : db.bm[x].parent \in DOMAIN db.bm => db.bm[x].parent \in S
  <2>1. i \in S
    BY <1>1, AncestorsClosed
  <2>2. \A x \in S : db.bm[x].parent \in DOMAIN db.bm => db.bm[x].parent \in S
    BY <1>1, AncestorsClosed
  <2> QED
    BY <2>1, <2>2 DEF Ancestors
<1> HIDE DEF S
<1>3. Root \in S
  <2> SUFFICES ASSUME Root \notin S PROVE FALSE
    OBVIOUS
  <2>1. S \in SUBSET (DOMAIN db.bm \ {Root})
    BY <1>2
  <2>2. PICK x \in S : db.bm[x].parent \notin S
    BY <1>1, <1>2, <2>1 DEF BmOK, Grounded
  <2> QED
    BY <1>1, <1>2, <2>1, <2>2 DEF BmOK, Parented
<1> QED
  BY <1>3 DEF S, Ancestors

-----------------------------------------------------------------------------
(***************************************************************************)
(* The results.                                                            *)
(***************************************************************************)
\* The columns of the tables keep their ranges in every reachable state: no
\* request makes a position above INT64_MAX or below zero, or an id above
\* BOOKMARKFS_MAX_ID (safeincr() and mozbm_pos_shift()).
THEOREM TypeCorrect == Spec => []TypeOK
BY InvTypes, StoreInvHolds, PTL

\* foreign_count is the number of references in every committed database, and
\* an origin is there as long as a place has it: mozplace_addref(),
\* mozplace_delref() and mozplace_purge() agree on what refers to a place,
\* whatever the requests, rollbacks and crashes.
THEOREM ReferencesAreCounted == Spec => []RefCountsMatch
BY InvCounts, StoreInvHolds, PTL

\* Two entries of a folder never share a position, through inserts, renames
\* over other entries, permutations and the deletions of mozplace_purge().
THEOREM PositionsStayDistinct == Spec => []PositionsDistinct
BY InvDistinct, StoreInvHolds, PTL

\* Every row is below the root: no request deletes a folder with entries, or
\* moves one below itself.
THEOREM TreeStaysConnected == Spec => []TreeConnected
BY InvConnected, StoreInvHolds, PTL

\* A commit that changes the entries of a folder has set its lastModified,
\* unless it is the one of fsck_apply(), which changes that folder and no other:
\* the rows that mozplace_purge() takes along are in the folders of tags.
THEOREM CommitsStampFolders == Spec => FoldersStamped
<1>1. StoreInv /\ [Next]_vars
      => [\A f \in BookmarkDirs(db) \cap BookmarkDirs(db') :
            {<<i, NameOf(db.bm[i]), db.bm[i].pos>> : i \in Kids(db, f)} #
            {<<i, NameOf(db'.bm[i]), db'.bm[i].pos>> : i \in Kids(db', f)}
            => \/ f \in wdb.touched
               \/ request[1] = "repair" /\ request[2] = f]_vars
  <2> SUFFICES ASSUME StoreInv, [Next]_vars,
                      NEW f \in BookmarkDirs(db) \cap BookmarkDirs(db'),
                      f \notin wdb.touched,
                      ~(request[1] = "repair" /\ request[2] = f)
               PROVE  {<<i, NameOf(db.bm[i]), db.bm[i].pos>> : i \in Kids(db, f)} =
                      {<<i, NameOf(db'.bm[i]), db'.bm[i].pos>> : i \in Kids(db', f)}
    OBVIOUS
  <2>1. db' = db \/ TxnEnd
    <3>1. CASE Request
      BY <3>1, RequestKeepsDb
    <3> QED
      BY <3>1 DEF Next, vars, TxnRollback, Crash, MozbmInsertAgain
  <2>2. CASE db' = db
    BY <2>2
  <2>3. CASE TxnEnd
    <3>1. phase = "open" /\ db' = [wdb EXCEPT !.touched = {}] /\ wdb \in Dbs
      BY <2>3 DEF TxnEnd, StoreInv, StoreOK
    <3>2. db'.bm = wdb.bm
      BY <3>1 DEF Dbs
    <3>3. SameEntries(db, wdb, f)
      BY <3>1 DEF StoreInv, StampedBut
    <3>4. /\ Kids(db', f) = Kids(db, f)
          /\ \A i \in Kids(db, f) : /\ NameOf(db'.bm[i]) = NameOf(db.bm[i])
                                     /\ db'.bm[i].pos = db.bm[i].pos
      BY <3>2, <3>3 DEF SameEntries, Kids
    <3> QED
      BY <3>4
  <2> QED
    BY <2>1, <2>2, <2>3
<1> QED
  BY <1>1, StoreInvHolds, PTL DEF Spec, FoldersStamped
-----------------------------------------------------------------------------
(***************************************************************************)
(* FirefoxFile: the content of an open file is used again only when it is  *)
(* the URL of the bookmark.                                                *)
(*                                                                         *)
(* PRAGMA data_version does not show the commits of this connection, so    *)
(* the proof goes by what each request does to the URLs (UrlsOf, a part of *)
(* StoreInv): none but a write changes one, and a write to the open file   *)
(* is that of its handle.                                                  *)
(***************************************************************************)
HandleType == [id : 0 .. MaxId, version : Nat, url : Urls \cup {NoUrl},
               dirty : BOOLEAN, alive : BOOLEAN]

\* The content of the handle is the URL of its bookmark.
Fresh == handle.url = db.bm[handle.id].fk

\* The versions, and what is known of a handle at each of them.
FileInv ==
    /\ handle \in HandleType
    /\ version \in Nat \ {0} /\ polled \in 0 .. version /\ handle.version <= version
    /\ handle.dirty => handle.url \in Urls
    /\ handle.alive => handle.id \in DOMAIN db.bm
    /\ handle = NoHandle \/ handle.id # 0
    /\ polled # 0 => phase = "idle" /\ ~handle.dirty /\ handle.id # 0
    /\ queried => polled # 0
    /\ flushing => /\ phase = "open" /\ handle.dirty
                   /\ request = <<"set", handle.id, handle.url>>
    /\ phase = "open" /\ ~flushing => request[1] # "set" \/ request[2] # handle.id
    /\ ~handle.dirty /\ handle.alive /\ handle.version = version => Fresh
    /\ queried /\ handle.alive /\ polled = version => Fresh

LEMMA FileInvInit == FileInit => StoreInv /\ FileInv
<1> SUFFICES ASSUME FileInit PROVE StoreInv /\ FileInv
  OBVIOUS
<1>1. StoreInv
  BY StoreInvInit DEF FileInit
<1>2. NoHandle \in HandleType
  BY IdAssumption DEF NoHandle, HandleType
<1>3. FileInv
  BY <1>2 DEF FileInit, Init, FileInv, NoHandle
<1> QED
  BY <1>1, <1>3

\* A commit of the browser leaves a database that is in order.
LEMMA BrowserStep ==
    ASSUME StoreInv, NEW d, StoreOK(d), BrowserCommits(d)
    PROVE  StoreInv'
<1>1. /\ phase = "idle" /\ db' = [d EXCEPT !.touched = {}] /\ wdb' = db'
      /\ byGuid' = byGuid /\ phase' = phase /\ request' = request /\ retries' = retries
  BY DEF BrowserCommits
<1>2. /\ db' \in Dbs /\ db'.bm = d.bm /\ db'.keywords = d.keywords
      /\ db'.places = d.places /\ db'.origins = d.origins
  BY <1>1 DEF StoreOK, Dbs
<1>3. StoreOK(db')
  BY <1>2, SameTablesOK
<1>4. StoreOK(db)'
  BY <1>1, <1>3 DEF StoreOK, BmOK, Marked, NameOf
<1> QED
  BY <1>1, <1>4 DEF StoreInv

\* The handle after a step that it has no part in.
LEMMA FollowedType ==
    ASSUME NEW h \in HandleType
    PROVE  /\ Followed(h) \in HandleType
           /\ Followed(h).id = h.id /\ Followed(h).version = h.version
           /\ Followed(h).url = h.url /\ Followed(h).dirty = h.dirty
           /\ Followed(h).alive => h.alive /\ h.id \in DOMAIN db'.bm
<1>1. (h.alive /\ h.id \in DOMAIN db'.bm) \in BOOLEAN
  OBVIOUS
<1>2. /\ Followed(h).id = h.id /\ Followed(h).version = h.version
      /\ Followed(h).url = h.url /\ Followed(h).dirty = h.dirty
      /\ Followed(h).alive = (h.alive /\ h.id \in DOMAIN db'.bm)
  BY Zenon DEF Followed, HandleType
<1>3. Followed(h) \in HandleType
  BY <1>1 DEF Followed, HandleType
<1> QED
  BY <1>2, <1>3

LEMMA OtherRequestStep ==
    ASSUME StoreInv, FileInv, OtherRequest
    PROVE  StoreInv' /\ FileInv'
<1>0. /\ Request \/ TxnEnd \/ TxnRollback
      /\ polled = 0 /\ ~flushing
      /\ phase = "idle" => request'[1] # "set" \/ request'[2] # handle.id
      /\ version' = version /\ polled' = polled /\ queried' = queried
      /\ flushing' = flushing
  BY DEF OtherRequest
<1>1. StoreInv'
  BY <1>0, StoreInvStep DEF Next
<1>2. /\ handle' \in HandleType
      /\ handle'.id = handle.id /\ handle'.version = handle.version
      /\ handle'.url = handle.url /\ handle'.dirty = handle.dirty
      /\ handle'.alive => handle.alive /\ handle.id \in DOMAIN db'.bm
      /\ handle' = NoHandle \/ handle'.id # 0
  <2>1. CASE IsOpen
    <3>1. handle' = Followed(handle) /\ handle \in HandleType
      BY <2>1 DEF OtherRequest, FileInv
    <3>2. handle.id # 0
      BY <2>1 DEF FileInv, IsOpen
    <3> QED
      BY <3>1, <3>2, FollowedType
  <2>2. CASE ~IsOpen
    <3>1. handle' = handle /\ ~handle.alive
      BY <2>2 DEF OtherRequest, IsOpen, NoHandle
    <3> QED
      BY <2>2, <3>1 DEF FileInv, IsOpen
  <2> QED
    BY <2>1, <2>2
<1>3. handle.alive /\ handle.id \in DOMAIN db'.bm => db'.bm[handle.id].fk = db.bm[handle.id].fk
  <2>1. CASE Request
    BY <2>1, RequestKeepsDb
  <2>2. CASE TxnEnd
    <3>1. phase = "open" /\ db' = [wdb EXCEPT !.touched = {}] /\ wdb \in Dbs
      BY <2>2 DEF TxnEnd, StoreInv, StoreOK
    <3>2. db'.bm = wdb.bm
      BY <3>1 DEF Dbs
    <3>3. UrlsOf(db, wdb, request) /\ (request[1] # "set" \/ request[2] # handle.id)
      BY <1>0, <3>1 DEF StoreInv, FileInv
    <3> QED
      BY <3>2, <3>3 DEF UrlsOf, SameUrls, FileInv
  <2>3. CASE TxnRollback
    BY <2>3 DEF TxnRollback
  <2> QED
    BY <1>0, <2>1, <2>2, <2>3
<1>4. phase' = "open" => request'[1] # "set" \/ request'[2] # handle.id
  <2>1. CASE Request
    BY <1>0, <2>1, RequestKeepsDb
  <2> QED
    BY <1>0, <2>1 DEF TxnEnd, TxnRollback
<1> QED
  BY <1>0, <1>1, <1>2, <1>3, <1>4 DEF FileInv, Fresh

LEMMA FlushStep ==
    ASSUME StoreInv, FileInv, Flush
    PROVE  StoreInv' /\ FileInv'
<1>1. /\ handle.dirty /\ handle.id \in DOMAIN db.bm /\ handle.url \in Urls
      /\ BookmarkSet(handle.id, handle.url)
      /\ flushing' = TRUE /\ version' = version /\ polled' = polled
      /\ queried' = queried /\ handle' = handle
  BY DEF Flush, FileInv
<1>2. StoreInv'
  BY <1>1, SetStep
<1>3. /\ phase = "idle" /\ phase' = "open" /\ db' = db
      /\ request' = <<"set", handle.id, handle.url>>
  BY <1>1 DEF BookmarkSet, Execute
<1> QED
  BY <1>1, <1>2, <1>3 DEF FileInv, Fresh

LEMMA FlushEndStep ==
    ASSUME StoreInv, FileInv, FlushEnd
    PROVE  StoreInv' /\ FileInv'
<1>0. /\ flushing /\ flushing' = FALSE /\ version' = version /\ polled' = polled
      /\ queried' = queried
  BY DEF FlushEnd
<1>1. /\ phase = "open" /\ handle.dirty /\ polled = 0 /\ ~queried
      /\ request = <<"set", handle.id, handle.url>> /\ handle \in HandleType
      /\ handle.id # 0
  BY <1>0 DEF FileInv, NoHandle
<1>2. StoreInv'
  BY StoreInvStep DEF FlushEnd, Next
<1>3. CASE TxnEnd /\ handle' = [handle EXCEPT !.dirty = FALSE]
  <2>1. phase' = "idle" /\ db' = [wdb EXCEPT !.touched = {}] /\ wdb \in Dbs
    BY <1>1, <1>3 DEF TxnEnd, StoreInv, StoreOK
  <2>2. db'.bm = wdb.bm
    BY <2>1 DEF Dbs
  <2>3. DOMAIN wdb.bm = DOMAIN db.bm /\ wdb.bm[handle.id].fk = handle.url
    <3>1. UrlsOf(db, wdb, <<"set", handle.id, handle.url>>)
      BY <1>1 DEF StoreInv
    <3> QED
      BY <3>1 DEF UrlsOf
  <2>4. /\ handle' \in HandleType /\ handle'.id = handle.id
        /\ handle'.version = handle.version /\ handle'.url = handle.url
        /\ handle'.dirty = FALSE /\ handle'.alive = handle.alive
    BY <1>1, <1>3 DEF HandleType
  <2> QED
    BY <1>0, <1>1, <1>2, <2>1, <2>2, <2>3, <2>4 DEF FileInv, Fresh
<1>4. CASE TxnRollback /\ handle' = handle
  BY <1>0, <1>1, <1>2, <1>4 DEF TxnRollback, FileInv, Fresh
<1> QED
  BY <1>3, <1>4 DEF FlushEnd

LEMMA BrowserCommitsStep ==
    ASSUME StoreInv, FileInv, NEW d, StoreOK(d), BrowserCommits(d)
    PROVE  StoreInv' /\ FileInv'
<1>1. StoreInv'
  BY BrowserStep
<1>2. /\ phase = "idle" /\ version' = version + 1
      /\ phase' = phase /\ polled' = polled /\ queried' = queried /\ flushing' = flushing
  BY DEF BrowserCommits
<1>3. /\ handle' \in HandleType
      /\ handle'.id = handle.id /\ handle'.version = handle.version
      /\ handle'.url = handle.url /\ handle'.dirty = handle.dirty
      /\ handle'.alive => handle.alive /\ handle.id \in DOMAIN db'.bm
      /\ handle' = NoHandle \/ handle'.id # 0
  <2>1. CASE IsOpen
    <3>1. handle' = Followed(handle) /\ handle \in HandleType
      BY <2>1 DEF BrowserCommits, FileInv
    <3>2. handle.id # 0
      BY <2>1 DEF FileInv, IsOpen
    <3> QED
      BY <3>1, <3>2, FollowedType
  <2>2. CASE ~IsOpen
    <3>1. handle' = handle /\ ~handle.alive
      BY <2>2 DEF BrowserCommits, IsOpen, NoHandle
    <3> QED
      BY <2>2, <3>1 DEF FileInv, IsOpen
  <2> QED
    BY <2>1, <2>2
<1>4. handle'.version \in Nat
  BY <1>3 DEF HandleType
<1> QED
  BY <1>1, <1>2, <1>3, <1>4 DEF FileInv, Fresh

LEMMA BrowserNextStep ==
    ASSUME StoreInv, FileInv, NEW i \in Bookmarks(db),
           \/ \E u \in Urls : BrowserCommits(UrlSet(db, i, u))
           \/ BrowserCommits(Removed(db, db.bm[i].parent, i, TRUE))
    PROVE  StoreInv' /\ FileInv'
<1>1. StoreOK(db) /\ i \in DOMAIN db.bm /\ ~IsFolder(db, i)
  BY DEF StoreInv, Bookmarks
<1>2. ASSUME NEW u \in Urls, BrowserCommits(UrlSet(db, i, u))
      PROVE  StoreInv' /\ FileInv'
  <2> DEFINE e == UrlSet(db, i, u)
  <2>1. StoreOK(e)
    BY <1>1, UrlSetOK
  <2> HIDE DEF e
  <2> QED
    BY <1>2, <2>1, BrowserCommitsStep DEF e
<1>3. CASE BrowserCommits(Removed(db, db.bm[i].parent, i, TRUE))
  <2> DEFINE e == Removed(db, db.bm[i].parent, i, TRUE)
  <2>1. /\ i \in DOMAIN db.bm \ {Root, TagsRoot} /\ CanDelete(db, i)
    BY <1>1 DEF StoreOK, BmOK, Fixed, IsFolder, CanDelete
  <2>2. db.bm[i].parent \in 1 .. MaxId
    BY <1>1, <2>1, DbType DEF StoreOK, BmOK, Parented
  <2>3. StoreOK(e)
    BY <1>1, <2>1, <2>2, RemovedOK
  <2> HIDE DEF e
  <2> QED
    BY <1>3, <2>3, BrowserCommitsStep DEF e
<1> QED
  BY <1>2, <1>3

LEMMA FileInvStep == StoreInv /\ FileInv /\ [FileNext]_allVars => StoreInv' /\ FileInv'
<1> SUFFICES ASSUME StoreInv, FileInv, [FileNext]_allVars PROVE StoreInv' /\ FileInv'
  OBVIOUS
<1>0. ASSUME vars' = vars PROVE StoreInv' /\ db' = db /\ phase' = phase /\ request' = request
  BY <1>0, StoreInvStep DEF vars
<1>T. handle \in HandleType
  BY DEF FileInv
<1>1. CASE OtherRequest
  BY <1>1, OtherRequestStep
<1>2. ASSUME NEW i \in DOMAIN db.bm, FileOpen(i) PROVE StoreInv' /\ FileInv'
  <2>1. i \in 1 .. MaxId
    BY DbType DEF StoreInv, StoreOK
  <2>2. /\ handle' \in HandleType /\ handle'.id = i /\ handle'.version = 0
        /\ handle'.dirty = FALSE
    <3>1. handle' = [id |-> i, version |-> 0, url |-> NoUrl, dirty |-> FALSE,
                     alive |-> TRUE]
      BY <1>2 DEF FileOpen, NoHandle
    <3> QED
      BY <2>1, <3>1 DEF HandleType
  <2>3. /\ vars' = vars /\ UNCHANGED <<version, polled, queried, flushing>>
        /\ phase = "idle" /\ handle.id = 0
    BY <1>2 DEF FileOpen, IsOpen, NoHandle
  <2>4. polled = 0 /\ ~queried /\ ~flushing
    BY <2>3 DEF FileInv
  <2> QED
    BY <1>0, <2>1, <2>2, <2>3, <2>4 DEF FileInv
<1>3. CASE GetVersion
  BY <1>0, <1>3 DEF GetVersion, IsOpen, FileInv, Fresh
<1>4. CASE GetQuery
  <2>1. db.bm[handle.id].fk \in Urls \cup {NoUrl}
    BY <1>4, RowType DEF GetQuery, StoreInv, StoreOK
  <2>2. /\ handle' \in HandleType /\ handle'.id = handle.id
        /\ handle'.version = handle.version /\ handle'.url = db.bm[handle.id].fk
        /\ handle'.dirty = handle.dirty /\ handle'.alive = handle.alive
    BY <1>4, <1>T, <2>1 DEF GetQuery, HandleType
  <2>3. /\ vars' = vars /\ polled # 0 /\ queried' = TRUE
        /\ UNCHANGED <<version, polled, flushing>>
    BY <1>4 DEF GetQuery
  <2> QED
    BY <1>0, <2>2, <2>3 DEF FileInv, Fresh
<1>5. CASE GetCookie
  <2>1. /\ vars' = vars /\ queried /\ polled' = 0 /\ queried' = FALSE
        /\ UNCHANGED <<version, flushing>>
    BY <1>5 DEF GetCookie
  <2>2. /\ handle' \in HandleType /\ handle'.id = handle.id
        /\ handle'.version = polled /\ handle'.url = handle.url
        /\ handle'.dirty = handle.dirty /\ handle'.alive = handle.alive
    BY <1>5, <1>T DEF GetCookie, HandleType, FileInv
  <2> QED
    BY <1>0, <2>1, <2>2 DEF FileInv, Fresh
<1>6. CASE GetStale
  BY <1>0, <1>6 DEF GetStale, FileInv, Fresh
<1>7. ASSUME NEW u \in Urls, FileWrite(u) PROVE StoreInv' /\ FileInv'
  <2>1. /\ vars' = vars /\ phase = "idle" /\ polled = 0 /\ handle.id # 0
        /\ UNCHANGED <<version, polled, queried, flushing>>
    BY <1>7 DEF FileWrite, IsOpen, FileInv
  <2>2. /\ handle' \in HandleType /\ handle'.id = handle.id
        /\ handle'.version = handle.version /\ handle'.url = u
        /\ handle'.dirty = TRUE /\ handle'.alive = handle.alive
    BY <1>7, <1>T DEF FileWrite, HandleType
  <2> QED
    BY <1>0, <2>1, <2>2 DEF FileInv
<1>8. CASE Flush
  BY <1>8, FlushStep
<1>9. CASE FlushEnd
  BY <1>9, FlushEndStep
<1>N. NoHandle \in HandleType /\ NoHandle.dirty = FALSE /\ NoHandle.alive = FALSE
      /\ NoHandle.version = 0
  BY IdAssumption DEF NoHandle, HandleType
<1>10. CASE FileRelease
  BY <1>0, <1>10, <1>N DEF FileRelease, FileInv
<1>11. CASE FileCrash
  <2>1. StoreInv'
    BY <1>11, StoreInvStep DEF FileCrash, Next
  <2> QED
    BY <1>11, <1>N, <2>1 DEF FileCrash, Crash, FileInv
<1>12. ASSUME NEW i \in Bookmarks(db),
              \/ \E u \in Urls : BrowserCommits(UrlSet(db, i, u))
              \/ BrowserCommits(Removed(db, db.bm[i].parent, i, TRUE))
       PROVE  StoreInv' /\ FileInv'
  BY <1>12, BrowserNextStep
<1>13. CASE UNCHANGED allVars
  BY <1>0, <1>13 DEF allVars, fileVars, FileInv, Fresh
<1> QED
  BY <1>1, <1>2, <1>3, <1>4, <1>5, <1>6, <1>7, <1>8, <1>9, <1>10, <1>11, <1>12, <1>13
     DEF FileNext

LEMMA FileInvHolds == FileSpec => [](StoreInv /\ FileInv)
<1>1. FileInit => StoreInv /\ FileInv
  BY FileInvInit
<1>2. (StoreInv /\ FileInv) /\ [FileNext]_allVars => (StoreInv /\ FileInv)'
  BY FileInvStep
<1> QED
  BY <1>1, <1>2, PTL DEF FileSpec

\* The handle of an open bookmark is read again whenever it has to be, however
\* the commits of the browser and of this program fall between its steps.
THEOREM AgainIsAlwaysFresh == FileSpec => []AgainIsFresh
<1>1. FileInv => AgainIsFresh
  BY DEF FileInv, AgainIsFresh, Fresh
<1> QED
  BY <1>1, FileInvHolds, PTL

\* The tables stay in order in the presence of a browser, too, whose commits
\* fall between the requests: the counts of references are exact, the positions
\* of a folder are distinct, and the tree is connected.
THEOREM TablesStayInOrder ==
    FileSpec => [](TypeOK /\ RefCountsMatch /\ PositionsDistinct /\ TreeConnected)
BY InvTypes, InvCounts, InvDistinct, InvConnected, FileInvHolds, PTL
=============================================================================
