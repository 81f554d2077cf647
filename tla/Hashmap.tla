------------------------------- MODULE Hashmap --------------------------------
(***************************************************************************)
(* The hopscotch hash table of src/src/hashmap.c, with the widths of words *)
(* and tables as parameters.  A table of exponent exp has 2^exp home       *)
(* buckets and exp - 1 more; an entry is in one of the exp buckets that    *)
(* begin with its home, and a bit of the home says in which.               *)
(*                                                                         *)
(* The table is used by one thread; what is hard is that an insertion      *)
(* moves other entries, grows the table or fails half way, that a removal  *)
(* shrinks it, and that callers keep the index of an entry in between.     *)
(***************************************************************************)
EXTENDS Naturals, FiniteSets

CONSTANTS
    Entries,        \* the entries, and the keys that they can have
    Keys,
    NoEntry, NoKey, \* NULL; an entry that is not in the table
    WordSize,       \* HASHMAP_WORD_SIZE
    ExpMin, ExpMax, \* EXP_MIN, EXP_MAX
    HashCodes       \* the hash codes that keys can have

\* The powers of two.
TwoTo[n \in Nat] == IF n = 0 THEN 1 ELSE 2 * TwoTo[n - 1]

ASSUME ExpAssumption == /\ {ExpMin, ExpMax, WordSize} \subseteq Nat
                        /\ 1 < ExpMin /\ ExpMin <= ExpMax /\ ExpMax < WordSize
ASSUME HashAssumption == HashCodes \subseteq 0 .. TwoTo[WordSize] - 1
ASSUME NoneAssumption == NoEntry \notin Entries /\ NoKey \notin Keys

VARIABLES
    hash,       \* the hash code of each key
    key,        \* the key of each entry: history, but for entry_hash()
    table,      \* struct hashmap
    inserting,  \* the entry that hashmap_insert() is at
    phase       \* "idle", "try" or "grow", or the assertion that has failed

vars == <<hash, key, table, inserting, phase>>

BucketCnt(exp) == TwoTo[exp] + exp - 1

HashToIdx(h, exp) == h \div TwoTo[WordSize - exp]

\* The part of a hash code that a bucket keeps beside its hop bits.
Fragment(h, exp) == h % TwoTo[WordSize - exp]

Bucket == [hop : SUBSET (0 .. ExpMax - 1), frag : 0 .. TwoTo[WordSize] - 1,
           entry : Entries \cup {NoEntry}]

EmptyBucket == [hop |-> {}, frag |-> 0, entry |-> NoEntry]

EmptyBuckets(exp) == [i \in 0 .. BucketCnt(exp) - 1 |-> EmptyBucket]

Lowest(S) == CHOOSE x \in S : \A y \in S : x <= y     \* count_tz()
-----------------------------------------------------------------------------
(***************************************************************************)
(* make_room(): the state of its loop is the table and the free bucket b.  *)
(***************************************************************************)
\* Mutant: the bit of the old place is not cleared.
MovedTwice(t, swp, b) ==
    LET from == swp + Lowest(t[swp].hop)
    IN [t EXCEPT ![swp].hop = @ \cup {b - swp},
                 ![b].frag = t[from].frag,
                 ![b].entry = t[from].entry]

\* The first entry of home swp goes to bucket b.
Moved(t, swp, b) ==
    LET hop  == Lowest(t[swp].hop)
        from == swp + hop
    IN [t EXCEPT ![swp].hop = (@ \cup {b - swp}) \ {hop},
                 ![b].frag = t[from].frag,
                 ![b].entry = t[from].entry]

\* The homes near b that have an entry to move there.
Movable(t, b, exp) ==
    {swp \in b - (exp - 1) .. b - 1 : \E hop \in t[swp].hop : swp + hop < b}

\* Mutant: the free bucket is left one bucket too far away.
SwapLate(s, home, exp) ==
    IF ~s.ok \/ s.b <= home + exp THEN s
    ELSE LET swps == Movable(s.t, s.b, exp)
             swp  == Lowest(swps)
         IN IF swps = {} THEN [s EXCEPT !.t[s.b].entry = NoEntry, !.ok = FALSE]
            ELSE [t |-> Moved(s.t, swp, s.b), ok |-> TRUE,
                  b |-> swp + Lowest(s.t[swp].hop)]

\* Swap the free bucket forward, until it is near home.
Swap(s, home, exp) ==
    IF ~s.ok \/ s.b < home + exp THEN s
    ELSE LET swps == Movable(s.t, s.b, exp)
             swp  == Lowest(swps)
         IN IF swps = {} THEN [s EXCEPT !.t[s.b].entry = NoEntry, !.ok = FALSE]
            ELSE [t |-> Moved(s.t, swp, s.b), ok |-> TRUE,
                  b |-> swp + Lowest(s.t[swp].hop)]

\* The states of the loop.
Swaps(s, home, exp) ==
    LET after[n \in Nat] == IF n = 0 THEN s ELSE Swap(after[n - 1], home, exp)
    IN after

\* Each swap brings the free bucket nearer to home.
MakeRoom(t, home, exp) ==
    LET free == {b \in home .. BucketCnt(exp) - 1 : t[b].entry = NoEntry}
        b    == Lowest(free)
    IN IF free = {} THEN [t |-> t, ok |-> FALSE, b |-> 0]
       ELSE Swaps([t |-> t, ok |-> TRUE, b |-> b], home, exp)[b]

\* Mutant: the bucket keeps the hash bits that it had.
PlacedStale(t, home, b, e, h, exp) ==
    LET marked == [t EXCEPT ![home].hop = @ \cup {b - home}]
    IN [marked EXCEPT ![b].entry = e]

\* The end of hashmap_insert(), and of an iteration of rehash().
Placed(t, home, b, e, h, exp) ==
    LET marked == [t EXCEPT ![home].hop = @ \cup {b - home}]
    IN [marked EXCEPT ![b].frag = Fragment(h, exp), ![b].entry = e]
-----------------------------------------------------------------------------
(***************************************************************************)
(* rehash(): the state of its loop is the new table.                       *)
(***************************************************************************)
\* Mutant: the largest table is never reached.
TooLargeEarly(exp) == exp >= ExpMax

TooLarge(exp) == exp > ExpMax

\* Entry e of the old table goes to the new one.
Readded(s, e, exp, hashOf) ==
    LET home == HashToIdx(hashOf[e], exp)
        room == MakeRoom(s.buckets, home, exp)
    IN IF ~s.ok \/ e = NoEntry THEN s
       ELSE IF ~room.ok THEN [s EXCEPT !.ok = FALSE]
       ELSE [s EXCEPT !.buckets =
                Placed(room.t, home, room.b, e, hashOf[e], exp)]

\* The states of the loop over the old buckets.
Readds(t, exp, hashOf) ==
    LET after[n \in 0 .. BucketCnt(t.exp)] ==
            IF n = 0 THEN [ok |-> TRUE, buckets |-> EmptyBuckets(exp)]
            ELSE Readded(after[n - 1], t.buckets[n - 1].entry, exp, hashOf)
    IN after

\* The table stays as it is unless all entries have found room.
Rehash(t, exp, hashOf) ==
    LET new == Readds(t, exp, hashOf)[BucketCnt(t.exp)]
    IN IF TooLarge(exp) \/ ~new.ok THEN [ok |-> FALSE, t |-> t]
       ELSE [ok |-> TRUE, t |-> [t EXCEPT !.exp = exp, !.buckets = new.buckets]]

\* entry_hash().
HashOf == [e \in {f \in Entries : key[f] # NoKey} |-> hash[key[e]]]
-----------------------------------------------------------------------------
(***************************************************************************)
(* hashmap_search(): the index of a key (PACK_ID), if it is there.         *)
(***************************************************************************)
Found(t, h, matches) ==
    LET home == HashToIdx(h, t.exp)
    IN {<<home, hop>> : hop \in {i \in t.buckets[home].hop :
            /\ t.buckets[home + i].frag = Fragment(h, t.exp)
            /\ t.buckets[home + i].entry \in matches}}

Search(k) == Found(table, hash[k], {e \in Entries : key[e] = k})

\* find_entry(): the caller knows that the entry is there.
FindEntry(t, e, h) == Found(t, h, {e})

Cleared(t, home, hop) ==
    [t EXCEPT !.buckets[home].hop = @ \ {hop},
              !.buckets[home + hop].entry = NoEntry,
              !.used = @ - 1]

Sparse(t) == t.used < BucketCnt(t.exp) \div 8       \* load factor

\* hashmap_update() to NULL at an index.
Updated(t, id, hashOf) ==
    LET less == Cleared(t, id[1], id[2])
    IN IF t.exp <= ExpMin \/ ~Sparse(less) THEN less
       ELSE Rehash(less, t.exp - 1, hashOf).t
-----------------------------------------------------------------------------
(***************************************************************************)
(* Operations.                                                             *)
(***************************************************************************)
Insert(e, k) ==
    /\ phase = "idle"
    /\ key[e] = NoKey /\ \A f \in Entries : key[f] # k
    /\ key' = [key EXCEPT ![e] = k]
    /\ inserting' = e
    /\ phase' = "try"
    /\ UNCHANGED <<hash, table>>

Try ==
    LET h    == HashOf[inserting]
        home == HashToIdx(h, table.exp)
        room == MakeRoom(table.buckets, home, table.exp)
    IN /\ phase = "try"
       /\ IF room.ok
          THEN /\ table' = [table EXCEPT
                    !.used = @ + 1,
                    !.buckets = Placed(room.t, home, room.b, inserting, h, table.exp)]
               /\ inserting' = NoEntry
               /\ phase' = "idle"
          ELSE /\ table' = [table EXCEPT !.buckets = room.t]
               /\ phase' = "grow"
               /\ UNCHANGED inserting
       /\ UNCHANGED <<hash, key>>

\* There was no room: a larger table, or one that is larger still.
Grow ==
    LET one   == Rehash(table, table.exp + 1, HashOf)
        two   == Rehash(table, table.exp + 2, HashOf)
        grown == IF one.ok THEN one ELSE two
    IN /\ phase = "grow"
       /\ table' = grown.t
       /\ phase' = IF grown.ok THEN "try" ELSE "xassert"
       /\ UNCHANGED <<hash, key, inserting>>

\* The caller has the index from a search, or has the entry searched for.
Remove(e, byId) ==
    LET ids == IF byId THEN Search(key[e]) ELSE FindEntry(table, e, HashOf[e])
    IN /\ phase = "idle" /\ key[e] # NoKey
       /\ \E id \in ids : table' = Updated(table, id, HashOf)
       /\ key' = [key EXCEPT ![e] = NoKey]
       /\ UNCHANGED <<hash, inserting, phase>>

\* bookmark_rename() of the Chromium backend over an entry f: both indices are
\* searched for, e gets the key of f, f is removed, and then e is removed at
\* the index that it had, to be inserted anew.
Replace(e, f) ==
    /\ phase = "idle" /\ e # f /\ NoKey \notin {key[e], key[f]}
    /\ \E id \in Search(key[e]), over \in Search(key[f]) :
        LET hashOf == [HashOf EXCEPT ![e] = HashOf[f]]
            after  == Updated(table, over, hashOf)
            b      == id[1] + id[2]
        IN IF b \in DOMAIN after.buckets /\ after.buckets[b].entry = e
           THEN /\ table' = Updated(after, id, hashOf)
                /\ inserting' = e
                /\ phase' = "try"
           ELSE phase' = "debug_assert" /\ UNCHANGED <<table, inserting>>
    /\ key' = [key EXCEPT ![e] = key[f], ![f] = NoKey]
    /\ UNCHANGED hash
-----------------------------------------------------------------------------
Init ==
    /\ hash \in [Keys -> HashCodes]
    /\ key = [e \in Entries |-> NoKey]
    /\ table = [exp |-> ExpMin, used |-> 0, buckets |-> EmptyBuckets(ExpMin)]
    /\ inserting = NoEntry
    /\ phase = "idle"

Next ==
    \/ \E e \in Entries, k \in Keys : Insert(e, k)
    \/ Try
    \/ Grow
    \/ \E e \in Entries, byId \in BOOLEAN : Remove(e, byId)

Spec == Init /\ [][Next]_vars

\* With a client that renames entries over others.
ReplaceNext == Next \/ \E e, f \in Entries : Replace(e, f)

ReplaceSpec == Init /\ [][ReplaceNext]_vars
-----------------------------------------------------------------------------
(***************************************************************************)
(* Properties.                                                             *)
(***************************************************************************)
\* The entries that are in the table.
Present == {e \in Entries : key[e] # NoKey} \ {inserting}

\* The type of every variable.
TypeOK ==
    /\ hash \in [Keys -> HashCodes]
    /\ key \in [Entries -> Keys \cup {NoKey}]
    /\ table.exp \in ExpMin .. ExpMax
    /\ table.used \in Nat
    /\ DOMAIN table.buckets = 0 .. BucketCnt(table.exp) - 1
    /\ \A i \in DOMAIN table.buckets :
            /\ table.buckets[i] \in Bucket
            /\ table.buckets[i].hop \subseteq 0 .. table.exp - 1
    /\ inserting \in Entries \cup {NoEntry}
    /\ phase \in {"idle", "try", "grow", "xassert", "debug_assert"}

\* A search finds the entry that has the key, in every state of the table:
\* while make_room() moves entries, after it has given up half way, and after
\* the table has grown or shrunk.  It finds nothing else.
SearchIsExact ==
    \A k \in Keys :
        {table.buckets[id[1] + id[2]].entry : id \in Search(k)} =
            {e \in Present : key[e] = k}

\* Each entry is in one bucket, each bucket with an entry belongs to one home, no
\* bit leads to an empty bucket (which entry_comp() would be called with), and
\* num_used, which decides when the table shrinks, counts the entries.
BucketsDistinct ==
    /\ table.used = Cardinality(Present)
    /\ Cardinality({i \in DOMAIN table.buckets : table.buckets[i].entry # NoEntry})
            = table.used
    /\ \A i, j \in DOMAIN table.buckets :
            \A m \in table.buckets[i].hop, n \in table.buckets[j].hop :
                /\ table.buckets[i + m].entry # NoEntry
                /\ i # j => i + m # j + n

\* An insertion comes to the xassert() of hashmap_insert() for the limit on the
\* size only: the entries of a table always fit into the next larger one, in
\* the order in which rehash() takes them.
LargerTableFits == phase = "xassert" => table.exp = ExpMax

\* hashmap_update() is given the index of its entry.
IndexIsCurrent == phase # "debug_assert"
=============================================================================
