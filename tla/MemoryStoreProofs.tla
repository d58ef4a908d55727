-------------------------- MODULE MemoryStoreProofs --------------------------
(***************************************************************************)
(* The metrics store in memory (MemoryStore), for every set of events,     *)
(* bucket width, retention and both caps, and however many are written.    *)
(*                                                                         *)
(* A write puts several records, and each of them may evict a series, also *)
(* one that an earlier record of the same event has put, or that a later   *)
(* one puts back.  The proofs go through the Maps in the middle of a write *)
(* (Writes), each of which comes from the one before it in one of three    *)
(* ways (Puts).  The inductive invariant StoreIInv says of the Map that    *)
(* it has no more than was written (NoMore) and, while the series fit,     *)
(* exactly that (Exact), which needs that the newest bucket in the Map is  *)
(* the newest that was ever written (NewestIsWritten): the horizon of      *)
(* retention is taken from the Map.                                        *)
(***************************************************************************)
EXTENDS MemoryStore, DataInduction

-----------------------------------------------------------------------------
\* The Map of series: what a put and an eviction make of its entries.

IsBuckets(b) ==
    /\ DOMAIN b \subseteq Nat /\ IsFiniteSet(DOMAIN b) /\ DOMAIN b # {}
    /\ b \in [DOMAIN b -> Nat \ {0}]
Buckets == {b \in UNION {[S -> Nat \ {0}] : S \in SUBSET Nat} : IsBuckets(b)}
Entries == [key : AllKeys, buckets : Buckets]

\* No key is twice in the Map.
DistinctKeys(map) == \A i, j \in DOMAIN map : map[i].key = map[j].key => i = j
Maps == {map \in Seq(Entries) : DistinctKeys(map) /\ Len(map) <= maxSeries}

\* A series with one observation.
One(key, ts) == [key |-> key, buckets |-> [t \in {ts} |-> 1]]
More(e, ts) == [key |-> e.key, buckets |-> Merge(e.buckets, ts)]

\* The buckets of an entry, as a set to type entries with.
LEMMA BucketsAre == \A b : IsBuckets(b) <=> b \in Buckets
BY DEF IsBuckets, Buckets

\* The parts of an entry.
LEMMA EntryIs ==
    ASSUME NEW e \in Entries
    PROVE  /\ e = [key |-> e.key, buckets |-> e.buckets] /\ e.key \in AllKeys /\ IsBuckets(e.buckets)
           /\ DOMAIN e = {"key", "buckets"}
BY BucketsAre DEF Entries

\* The most recent of finitely many timestamps, or 0.
LEMMA NewestIs ==
    ASSUME NEW T \in SUBSET Nat, IsFiniteSet(T)
    PROVE  /\ Newest(T) \in Nat /\ \A t \in T : t <= Newest(T)
           /\ T # {} => Newest(T) \in T
           /\ T = {} => Newest(T) = 0
<1> DEFINE Z == {0} \cup T
<1>1. Z \in SUBSET Nat /\ IsFiniteSet(Z) /\ Z # {}
  <2>1. Z = T \cup {0}
    OBVIOUS
  <2> QED
    BY <2>1, FS_AddElement
<1>2. Newest(T) = Max(Z)
  BY DEF Newest
<1> HIDE DEF Z
<1>3. Max(Z) \in Z /\ \A t \in Z : t <= Max(Z)
  BY <1>1, GreatestNatural
<1>4. \A t : t \in Z <=> t = 0 \/ t \in T
  BY DEF Z
<1>5. T # {} => Newest(T) \in T
  <2> SUFFICES ASSUME NEW t \in T, Newest(T) \notin T PROVE FALSE
    OBVIOUS
  <2>1. Newest(T) = 0 /\ t <= 0
    BY <1>2, <1>3, <1>4
  <2>2. t = 0
    BY <2>1
  <2> QED
    BY <2>1, <2>2
<1> QED
  BY <1>1, <1>2, <1>3, <1>4, <1>5

\* Newest is the bound that is reached.
LEMMA NewestBetween ==
    ASSUME NEW T \in SUBSET Nat, IsFiniteSet(T), NEW n \in Nat, \A t \in T : t <= n,
           n \in T \/ n = 0
    PROVE  Newest(T) = n
<1>1. Newest(T) \in Nat /\ (T # {} => Newest(T) \in T) /\ (T = {} => Newest(T) = 0)
      /\ \A t \in T : t <= Newest(T)
  BY NewestIs
<1>2. Newest(T) <= n
  BY <1>1
<1>3. n <= Newest(T)
  BY <1>1
<1> QED
  BY <1>1, <1>2, <1>3

\* The newest bucket of an entry is one of its buckets.
LEMMA NewestOfIs ==
    ASSUME NEW e \in Entries
    PROVE  /\ newestOf(e) \in Nat /\ newestOf(e) \in DOMAIN e.buckets
           /\ \A t \in DOMAIN e.buckets : t <= newestOf(e)
BY EntryIs, NewestIs DEF newestOf, IsBuckets

\* The place of a key in the Map.
LEMMA FindIs ==
    ASSUME NEW map \in Maps, NEW key
    PROVE  /\ Find(map, key) = 0 => \A i \in DOMAIN map : map[i].key # key
           /\ Find(map, key) # 0 => Find(map, key) \in DOMAIN map /\ map[Find(map, key)].key = key
<1> DEFINE I == {i \in 1..Len(map) : map[i].key = key}
<1>1. Find(map, key) = IF I # {} THEN Min(I) ELSE 0
  BY DEF Find, SelectInSeq
<1>2. DOMAIN map = 1..Len(map) /\ Len(map) \in Nat
  BY DEF Maps
<1>3. I \in SUBSET Nat
  BY <1>2
<1>4. I # {} => Min(I) \in I
  <2> SUFFICES ASSUME I # {} PROVE Min(I) \in I
    OBVIOUS
  <2> HIDE DEF I
  <2>1. \E x \in I : \A y \in I : x <= y
    BY <1>3, LeastNatural
  <2> QED
    BY <2>1 DEF Min
<1>5. \A i \in I : i # 0 /\ i \in DOMAIN map /\ map[i].key = key
  BY <1>2
<1> QED
  BY <1>1, <1>2, <1>4, <1>5

\* What it is to be a Map, as the proofs use it.
LEMMA MapIs ==
    ASSUME NEW map \in Maps
    PROVE  /\ map \in Seq(Entries) /\ Len(map) \in Nat /\ DOMAIN map = 1..Len(map)
           /\ Len(map) <= maxSeries /\ maxSeries \in Nat \ {0}
           /\ \A i \in DOMAIN map : map[i] \in Entries
           /\ \A i, j \in DOMAIN map : map[i].key = map[j].key => i = j
           /\ ToSet(map) \subseteq Entries
           /\ \A e : e \in ToSet(map) <=> \E i \in DOMAIN map : map[i] = e
           /\ \A e, f \in ToSet(map) : e.key = f.key => e = f
BY StoreAssumption DEF Maps, DistinctKeys, ToSet

\* A sequence with one of its elements removed.
LEMMA RemoveIs ==
    ASSUME NEW S, NEW s \in Seq(S), NEW v \in DOMAIN s
    PROVE  /\ RemoveAt(s, v) \in Seq(S) /\ Len(RemoveAt(s, v)) = Len(s) - 1
           /\ \A k \in 1..(Len(s) - 1) : RemoveAt(s, v)[k] = IF k < v THEN s[k] ELSE s[k + 1]
<1> DEFINE L == Len(s)
           a == SubSeq(s, 1, v - 1)
           b == SubSeq(s, v + 1, L)
<1>1. L \in Nat /\ v \in 1..L
  OBVIOUS
<1>2. RemoveAt(s, v) = a \o b
  BY DEF RemoveAt
<1>3. a \in Seq(S) /\ Len(a) = v - 1 /\ \A k \in 1..(v - 1) : a[k] = s[k]
  BY <1>1
<1>4. b \in Seq(S) /\ Len(b) = L - v /\ \A k \in 1..(L - v) : b[k] = s[v + k]
  BY <1>1
<1> HIDE DEF a, b, L
<1>5. /\ a \o b \in Seq(S) /\ Len(a \o b) = L - 1
      /\ \A k \in 1..(L - 1) : (a \o b)[k] = IF k <= Len(a) THEN a[k] ELSE b[k - Len(a)]
  <2>1. /\ a \o b \in Seq(S) /\ Len(a \o b) = Len(a) + Len(b)
        /\ \A k \in 1..(Len(a) + Len(b)) :
              (a \o b)[k] = IF k <= Len(a) THEN a[k] ELSE b[k - Len(a)]
    <3>1. a \in Seq(S) /\ b \in Seq(S)
      BY <1>3, <1>4
    <3>2. a \o b \in Seq(S) /\ Len(a \o b) = Len(a) + Len(b)
      BY <3>1
    <3>3. \A k \in 1..(Len(a) + Len(b)) : (a \o b)[k] = IF k <= Len(a) THEN a[k] ELSE b[k - Len(a)]
      BY <3>1
    <3> QED
      BY <3>2, <3>3
  <2>2. Len(a) + Len(b) = L - 1
    BY <1>1, <1>3, <1>4
  <2> QED
    BY <2>1, <2>2
<1>6. ASSUME NEW k \in 1..(L - 1) PROVE (a \o b)[k] = IF k < v THEN s[k] ELSE s[k + 1]
  <2>1. CASE k < v
    BY <1>1, <1>3, <1>5, <2>1
  <2>2. CASE ~(k < v)
    <3>1. k - Len(a) = k - v + 1 /\ k - v + 1 \in 1..(L - v) /\ ~(k <= Len(a)) /\ v + (k - v + 1) = k + 1
      BY <1>1, <1>3, <2>2
    <3>2. (a \o b)[k] = b[k - v + 1]
      BY <1>5, <3>1
    <3>3. b[k - v + 1] = s[v + (k - v + 1)]
      BY <1>4, <3>1
    <3> QED
      BY <2>2, <3>1, <3>2, <3>3
  <2> QED
    BY <2>1, <2>2
<1> QED
  BY <1>2, <1>5, <1>6 DEF L

\* The eviction: one series goes, and no other is less recent.
LEMMA EvictIs ==
    ASSUME NEW map \in Maps, map # <<>>
    PROVE  /\ evictOldestSeries(map) \in Maps /\ Len(evictOldestSeries(map)) = Len(map) - 1
           /\ \E v \in ToSet(map) :
                 /\ \A e \in ToSet(map) : newestOf(v) <= newestOf(e)
                 /\ ToSet(evictOldestSeries(map)) = ToSet(map) \ {v}
<1> DEFINE First(i) == \A j \in DOMAIN map :
                         \/ newestOf(map[i]) < newestOf(map[j])
                         \/ newestOf(map[i]) = newestOf(map[j]) /\ i <= j
           v == CHOOSE i \in DOMAIN map : First(i)
           next == RemoveAt(map, v)
<1>1. /\ map \in Seq(Entries) /\ Len(map) \in Nat /\ DOMAIN map = 1..Len(map) /\ Len(map) # 0
      /\ Len(map) <= maxSeries /\ maxSeries \in Nat
      /\ \A i, j \in DOMAIN map : map[i].key = map[j].key => i = j
  BY MapIs
<1>2. \A i \in DOMAIN map : newestOf(map[i]) \in Nat
  BY MapIs, NewestOfIs
<1>3. \E i \in DOMAIN map : First(i)
  <2> DEFINE N == {newestOf(map[i]) : i \in DOMAIN map}
  <2>1. N \in SUBSET Nat /\ N # {}
    BY <1>1, <1>2
  <2>2. PICK n \in N : \A m \in N : n <= m
    BY <2>1, LeastNatural
  <2> DEFINE I == {i \in DOMAIN map : newestOf(map[i]) = n}
  <2>3. I \in SUBSET Nat /\ I # {}
    BY <1>1, <2>2
  <2>4. PICK i \in I : \A j \in I : i <= j
    BY <2>3, LeastNatural
  <2>5. ASSUME NEW j \in DOMAIN map
        PROVE  \/ newestOf(map[i]) < newestOf(map[j])
               \/ newestOf(map[i]) = newestOf(map[j]) /\ i <= j
    <3>1. newestOf(map[i]) = n /\ n <= newestOf(map[j]) /\ n \in Nat /\ newestOf(map[j]) \in Nat
      BY <1>2, <2>1, <2>2, <2>4
    <3>2. CASE newestOf(map[j]) = n
      BY <2>4, <3>1, <3>2
    <3>3. CASE newestOf(map[j]) # n
      BY <3>1, <3>3
    <3> QED
      BY <3>2, <3>3
  <2> QED
    BY <2>4, <2>5
<1>4. v \in DOMAIN map /\ First(v)
  BY <1>3
<1>5. evictOldestSeries(map) = next
  BY DEF evictOldestSeries
<1>6. \A j \in DOMAIN map : newestOf(map[v]) <= newestOf(map[j])
  BY <1>2, <1>4
<1> HIDE DEF v
<1>7. /\ next \in Seq(Entries) /\ Len(next) = Len(map) - 1
      /\ \A k \in 1..(Len(map) - 1) : next[k] = IF k < v THEN map[k] ELSE map[k + 1]
  BY <1>1, <1>4, RemoveIs
<1> HIDE DEF next
<1>8. DOMAIN next = 1..(Len(map) - 1)
  BY <1>7
<1>9. DistinctKeys(next)
  <2> SUFFICES ASSUME NEW i \in 1..(Len(map) - 1), NEW j \in 1..(Len(map) - 1), next[i].key = next[j].key
               PROVE  i = j
    BY <1>8 DEF DistinctKeys
  <2> DEFINE p(k) == IF k < v THEN k ELSE k + 1
  <2>1. next[i] = map[p(i)] /\ next[j] = map[p(j)]
    BY <1>7
  <2>2. p(i) \in DOMAIN map /\ p(j) \in DOMAIN map
    BY <1>1, <1>4
  <2>3. p(i) = p(j)
    BY <1>1, <2>1, <2>2
  <2> QED
    BY <1>1, <1>4, <2>3
<1>10. ToSet(next) = {map[i] : i \in DOMAIN map \ {v}}
  <2>1. ASSUME NEW k \in 1..(Len(map) - 1) PROVE \E i \in DOMAIN map \ {v} : next[k] = map[i]
    <3>1. CASE k < v
      BY <1>1, <1>4, <1>7, <3>1
    <3>2. CASE ~(k < v)
      <4>1. k + 1 \in DOMAIN map \ {v} /\ next[k] = map[k + 1]
        BY <1>1, <1>4, <1>7, <3>2
      <4> QED
        BY <4>1
    <3> QED
      BY <3>1, <3>2
  <2>2. ASSUME NEW i \in DOMAIN map \ {v} PROVE \E k \in 1..(Len(map) - 1) : next[k] = map[i]
    <3>1. CASE i < v
      BY <1>1, <1>4, <1>7, <3>1
    <3>2. CASE ~(i < v)
      <4>1. i - 1 \in 1..(Len(map) - 1) /\ ~(i - 1 < v) /\ (i - 1) + 1 = i
        BY <1>1, <1>4, <3>2
      <4>2. next[i - 1] = map[(i - 1) + 1]
        BY <1>7, <4>1
      <4> QED
        BY <4>1, <4>2
    <3> QED
      BY <3>1, <3>2
  <2>3. ToSet(next) = {next[k] : k \in 1..(Len(map) - 1)}
    BY <1>8 DEF ToSet
  <2>4. \A e : e \in ToSet(next) <=> e \in {map[i] : i \in DOMAIN map \ {v}}
    <3>1. \A e : e \in ToSet(next) <=> \E k \in 1..(Len(map) - 1) : next[k] = e
      BY <2>3
    <3> QED
      BY <2>1, <2>2, <3>1
  <2> QED
    BY <2>4
<1>11. ToSet(next) = ToSet(map) \ {map[v]}
  <2>1. \A i \in DOMAIN map : i # v => map[i] # map[v]
    BY <1>1, <1>4
  <2>2. ToSet(map) = {map[i] : i \in DOMAIN map}
    BY DEF ToSet
  <2> QED
    BY <1>4, <1>10, <2>1, <2>2
<1>12. \A e \in ToSet(map) : newestOf(map[v]) <= newestOf(e)
  BY <1>6, MapIs
<1>13. map[v] \in ToSet(map)
  BY <1>4, MapIs
<1>14. next \in Maps
  BY <1>1, <1>7, <1>9 DEF Maps
<1> QED
  BY <1>5, <1>7, <1>11, <1>12, <1>13, <1>14

\* The image of a finite set is finite, and no larger.
LEMMA ImageIsFinite ==
    ASSUME NEW S, IsFiniteSet(S), NEW f
    PROVE  IsFiniteSet({f[x] : x \in S}) /\ Cardinality({f[x] : x \in S}) <= Cardinality(S)
<1> DEFINE T == {f[x] : x \in S}
           g == [x \in S |-> f[x]]
<1>1. g \in Surjection(S, T)
  BY DEF Surjection
<1> HIDE DEF T, g
<1>2. IsFiniteSet(T) /\ Cardinality(T) <= Cardinality(S)
  BY <1>1, FS_Surjection
<1> QED
  BY <1>2 DEF T

-----------------------------------------------------------------------------
\* Merging an observation adds one to its bucket and leaves the others.
LEMMA MergeIs ==
    ASSUME NEW b, IsBuckets(b), NEW ts \in Nat
    PROVE  /\ IsBuckets(Merge(b, ts)) /\ DOMAIN Merge(b, ts) = DOMAIN b \cup {ts}
           /\ \A t \in DOMAIN b \ {ts} : Merge(b, ts)[t] = b[t]
           /\ Merge(b, ts)[ts] = (IF ts \in DOMAIN b THEN b[ts] ELSE 0) + 1
<1>1. /\ DOMAIN b \subseteq Nat /\ IsFiniteSet(DOMAIN b) /\ DOMAIN b # {}
      /\ b \in [DOMAIN b -> Nat \ {0}]
  BY DEF IsBuckets
<1>2. IsFiniteSet(DOMAIN b \cup {ts})
  BY <1>1, FS_AddElement
<1> DEFINE m == Merge(b, ts)
<1>3. CASE ts \in DOMAIN b
  <2>1. m = [b EXCEPT ![ts] = @ + 1]
    BY <1>3 DEF Merge
  <2> HIDE DEF m
  <2>2. DOMAIN m = DOMAIN b /\ DOMAIN b = DOMAIN b \cup {ts}
    BY <1>3, <2>1
  <2>3. b[ts] \in Nat /\ m[ts] = b[ts] + 1 /\ \A t \in DOMAIN b \ {ts} : m[t] = b[t]
    BY <1>1, <1>3, <2>1
  <2>4. m \in [DOMAIN m -> Nat \ {0}]
    BY <1>1, <1>3, <2>1
  <2> QED
    BY <1>1, <1>2, <1>3, <2>2, <2>3, <2>4 DEF IsBuckets, m
<1>4. CASE ts \notin DOMAIN b
  <2>1. m = [t \in DOMAIN b \cup {ts} |-> IF t = ts THEN 1 ELSE b[t]]
    BY <1>4 DEF Merge
  <2> HIDE DEF m
  <2>2. DOMAIN m = DOMAIN b \cup {ts}
    BY <2>1
  <2>3. m[ts] = 0 + 1 /\ \A t \in DOMAIN b \ {ts} : m[t] = b[t]
    BY <2>1
  <2>4. m \in [DOMAIN m -> Nat \ {0}]
    BY <1>1, <2>1
  <2>5. DOMAIN m \subseteq Nat /\ DOMAIN m # {}
    BY <1>1, <2>2
  <2> QED
    BY <1>2, <1>4, <2>2, <2>3, <2>4, <2>5 DEF IsBuckets, m
<1> QED
  BY <1>3, <1>4

\* The entry of a series that is new to the Map.
LEMMA OneIs ==
    ASSUME NEW key \in AllKeys, NEW ts \in Nat
    PROVE  /\ One(key, ts) \in Entries /\ One(key, ts).key = key
           /\ DOMAIN One(key, ts).buckets = {ts} /\ One(key, ts).buckets[ts] = 1
           /\ newestOf(One(key, ts)) = ts
<1> DEFINE b == [t \in {ts} |-> 1]
<1>1. DOMAIN b = {ts} /\ b[ts] = 1 /\ b \in [{ts} -> Nat \ {0}] /\ {ts} \subseteq Nat /\ {ts} # {}
  OBVIOUS
<1>2. One(key, ts) = [key |-> key, buckets |-> b]
  BY DEF One
<1> HIDE DEF b
<1>3. IsBuckets(b)
  BY <1>1, FS_Singleton DEF IsBuckets
<1>4. b \in Buckets
  BY <1>3, BucketsAre
<1>5. One(key, ts) \in Entries /\ One(key, ts).key = key /\ One(key, ts).buckets = b
  BY <1>2, <1>4 DEF Entries
<1>6. newestOf(One(key, ts)) = ts
  BY <1>1, <1>5, NewestOfIs
<1> QED
  BY <1>1, <1>5, <1>6

\* The entry of a series that gets one more observation.
LEMMA MoreIs ==
    ASSUME NEW e \in Entries, NEW ts \in Nat
    PROVE  /\ More(e, ts) \in Entries /\ More(e, ts).key = e.key
           /\ More(e, ts).buckets = Merge(e.buckets, ts)
           /\ newestOf(More(e, ts)) = IF newestOf(e) < ts THEN ts ELSE newestOf(e)
<1>1. e.key \in AllKeys /\ IsBuckets(e.buckets)
  BY EntryIs
<1>2. IsBuckets(Merge(e.buckets, ts)) /\ DOMAIN Merge(e.buckets, ts) = DOMAIN e.buckets \cup {ts}
  BY <1>1, MergeIs
<1>3. Merge(e.buckets, ts) \in Buckets
  BY <1>2, BucketsAre
<1> DEFINE m == More(e, ts)
<1>4. m \in Entries /\ m.key = e.key /\ m.buckets = Merge(e.buckets, ts)
  BY <1>1, <1>3 DEF More, Entries
<1> HIDE DEF m
<1>5. /\ newestOf(m) \in Nat /\ newestOf(m) \in DOMAIN e.buckets \cup {ts}
      /\ \A t \in DOMAIN e.buckets \cup {ts} : t <= newestOf(m)
  BY <1>2, <1>4, NewestOfIs
<1>6. newestOf(e) \in Nat /\ newestOf(e) \in DOMAIN e.buckets /\ \A t \in DOMAIN e.buckets : t <= newestOf(e)
  BY NewestOfIs
<1>7. newestOf(m) = IF newestOf(e) < ts THEN ts ELSE newestOf(e)
  <2>1. newestOf(e) <= newestOf(m) /\ ts <= newestOf(m)
    BY <1>5, <1>6
  <2>2. newestOf(m) <= newestOf(e) \/ newestOf(m) = ts
    BY <1>5, <1>6
  <2> QED
    BY <1>5, <1>6, <2>1, <2>2
<1> QED
  BY <1>4, <1>7 DEF m

\* A Map with one more entry, of a new key.
LEMMA AppendIs ==
    ASSUME NEW map \in Maps, Len(map) < maxSeries, NEW e \in Entries,
           \A f \in ToSet(map) : f.key # e.key
    PROVE  Append(map, e) \in Maps /\ ToSet(Append(map, e)) = ToSet(map) \cup {e}
<1> DEFINE L == Len(map)
           next == Append(map, e)
<1>1. /\ map \in Seq(Entries) /\ L \in Nat /\ DOMAIN map = 1..L /\ maxSeries \in Nat
      /\ \A i, j \in DOMAIN map : map[i].key = map[j].key => i = j
      /\ \A f : f \in ToSet(map) <=> \E i \in DOMAIN map : map[i] = f
  BY MapIs
<1>2. /\ next \in Seq(Entries) /\ Len(next) = L + 1 /\ DOMAIN next = 1..(L + 1)
      /\ next[L + 1] = e /\ \A i \in 1..L : next[i] = map[i]
  BY <1>1
<1> HIDE DEF next
<1>3. 1..(L + 1) = (1..L) \cup {L + 1}
  BY <1>1
<1>4. \A i \in 1..L : map[i].key # e.key
  BY <1>1
<1>5. \A i, j \in 1..(L + 1) : next[i].key = next[j].key => i = j
  <2> SUFFICES ASSUME NEW i \in 1..(L + 1), NEW j \in 1..(L + 1), next[i].key = next[j].key
               PROVE  i = j
    OBVIOUS
  <2>1. CASE i \in 1..L /\ j \in 1..L
    BY <1>1, <1>2, <2>1
  <2>2. CASE i \in 1..L /\ j = L + 1
    BY <1>2, <1>4, <2>2
  <2>3. CASE i = L + 1 /\ j \in 1..L
    BY <1>2, <1>4, <2>3
  <2>4. CASE i = L + 1 /\ j = L + 1
    BY <2>4
  <2> QED
    BY <1>3, <2>1, <2>2, <2>3, <2>4
<1>6. next \in Maps
  <2>1. Len(next) <= maxSeries
    BY <1>1, <1>2
  <2> QED
    BY <1>2, <1>5, <2>1 DEF Maps, DistinctKeys
<1>7. \A f : f \in ToSet(next) <=> f \in ToSet(map) \/ f = e
  <2>1. \A f : f \in ToSet(next) <=> \E i \in 1..(L + 1) : next[i] = f
    BY <1>2 DEF ToSet
  <2>2. \A f : (\E i \in 1..(L + 1) : next[i] = f) <=> (\E i \in 1..L : map[i] = f) \/ e = f
    BY <1>2, <1>3
  <2> QED
    BY <1>1, <2>1, <2>2
<1>8. ToSet(next) = ToSet(map) \cup {e}
  BY <1>7
<1> QED
  BY <1>6, <1>8 DEF next

\* A Map with one of its entries replaced by one of the same key.
LEMMA ReplaceIs ==
    ASSUME NEW map \in Maps, NEW at \in DOMAIN map, NEW e \in Entries, e.key = map[at].key
    PROVE  /\ [map EXCEPT ![at] = e] \in Maps
           /\ ToSet([map EXCEPT ![at] = e]) = (ToSet(map) \ {map[at]}) \cup {e}
<1> DEFINE L == Len(map)
           next == [map EXCEPT ![at] = e]
<1>1. /\ map \in Seq(Entries) /\ L \in Nat /\ DOMAIN map = 1..L /\ L <= maxSeries
      /\ \A i, j \in DOMAIN map : map[i].key = map[j].key => i = j
      /\ \A f : f \in ToSet(map) <=> \E i \in DOMAIN map : map[i] = f
  BY MapIs
<1>2. /\ next \in Seq(Entries) /\ Len(next) = L /\ DOMAIN next = 1..L
      /\ next[at] = e /\ \A i \in (1..L) \ {at} : next[i] = map[i]
  BY <1>1
<1> HIDE DEF next
<1>3. \A i \in 1..L : next[i].key = map[i].key
  BY <1>2
<1>4. next \in Maps
  BY <1>1, <1>2, <1>3 DEF Maps, DistinctKeys
<1>5. \A f : f \in ToSet(next) <=> (f \in ToSet(map) /\ f # map[at]) \/ f = e
  <2>1. \A f : f \in ToSet(next) <=> \E i \in 1..L : next[i] = f
    BY <1>2 DEF ToSet
  <2>2. \A i \in (1..L) \ {at} : map[i] # map[at]
    BY <1>1
  <2>3. \A f : (\E i \in 1..L : next[i] = f) <=> (\E i \in (1..L) \ {at} : map[i] = f) \/ e = f
    BY <1>1, <1>2
  <2>4. \A f : (\E i \in (1..L) \ {at} : map[i] = f) <=> f \in ToSet(map) /\ f # map[at]
    BY <1>1, <2>2
  <2> QED
    BY <2>1, <2>3, <2>4
<1>6. ToSet(next) = (ToSet(map) \ {map[at]}) \cup {e}
  BY <1>5
<1> QED
  BY <1>4, <1>6 DEF next

\* What write does with one record: it is merged into its series, or makes a new one,
\* and when there is no room for that a series goes, none of the others less recent.
Puts(E, F, key, ts, full) ==
    \/ \E e \in E : e.key = key /\ F = (E \ {e}) \cup {More(e, ts)}
    \/ /\ \A e \in E : e.key # key
       /\ \/ ~full /\ F = E \cup {One(key, ts)}
          \/ full /\ \E v \in E : /\ \A e \in E : newestOf(v) <= newestOf(e)
                                  /\ F = (E \ {v}) \cup {One(key, ts)}

\* What the body of the loop of write does is one of the three cases of Puts, and keeps
\* a Map a Map: within its cap, and with each key once.
LEMMA PutIs ==
    ASSUME NEW map \in Maps, NEW record, record.key \in AllKeys, record.ts \in Nat
    PROVE  /\ PutRecord(map, record) \in Maps
           /\ Puts(ToSet(map), ToSet(PutRecord(map, record)), record.key, record.ts, Len(map) = maxSeries)
<1> DEFINE key == record.key
           ts == record.ts
           at == Find(map, key)
           next == PutRecord(map, record)
           E == ToSet(map)
<1>1. /\ map \in Seq(Entries) /\ Len(map) \in Nat /\ DOMAIN map = 1..Len(map) /\ Len(map) <= maxSeries
      /\ maxSeries \in Nat \ {0}
      /\ \A i \in DOMAIN map : map[i] \in Entries
      /\ \A e : e \in E <=> \E i \in DOMAIN map : map[i] = e
  BY MapIs
<1>2. CASE at # 0
  <2>1. at \in DOMAIN map /\ map[at].key = key /\ map[at] \in Entries /\ map[at] \in E
    BY <1>1, <1>2, FindIs
  <2>2. next = [map EXCEPT ![at].buckets = Merge(@, ts)]
    BY <1>2 DEF PutRecord
  <2> HIDE DEF at, next
  <2>3. [map[at] EXCEPT !.buckets = Merge(@, ts)] = More(map[at], ts)
    BY <2>1, EntryIs DEF More
  <2>4. next = [map EXCEPT ![at] = More(map[at], ts)]
    BY <2>1, <2>2, <2>3
  <2>5. More(map[at], ts) \in Entries /\ More(map[at], ts).key = map[at].key
    BY <2>1, MoreIs
  <2>6. next \in Maps /\ ToSet(next) = (E \ {map[at]}) \cup {More(map[at], ts)}
    BY <2>1, <2>4, <2>5, ReplaceIs
  <2> QED
    BY <2>1, <2>6 DEF Puts, next
<1>3. CASE at = 0
  <2>1. \A e \in E : e.key # key
    BY <1>1, <1>3, FindIs
  <2>2. next = Append(MakeRoom(map), One(key, ts))
    BY <1>3 DEF PutRecord, One
  <2>3. One(key, ts) \in Entries /\ One(key, ts).key = key
    BY OneIs
  <2> HIDE DEF at, next, E
  <2>4. CASE Len(map) # maxSeries
    <3>1. MakeRoom(map) = map /\ Len(map) < maxSeries
      <4>1. Len(map) < maxSeries /\ ~(Len(map) >= maxSeries)
        <5>1. Len(map) \in Nat /\ maxSeries \in Nat /\ Len(map) <= maxSeries
          BY <1>1
        <5> QED
          BY <2>4, <5>1
      <4> QED
        BY <4>1 DEF MakeRoom
    <3>2. next \in Maps /\ ToSet(next) = E \cup {One(key, ts)}
      BY <2>1, <2>2, <2>3, <3>1, AppendIs DEF E
    <3> QED
      BY <2>1, <2>4, <3>2 DEF Puts, next, E
  <2>5. CASE Len(map) = maxSeries
    <3> DEFINE less == evictOldestSeries(map)
    <3>1. MakeRoom(map) = less /\ map # <<>>
      BY <1>1, <2>5 DEF MakeRoom
    <3>2. less \in Maps /\ Len(less) = Len(map) - 1
      BY <3>1, EvictIs
    <3>3. PICK v \in E : (\A e \in E : newestOf(v) <= newestOf(e)) /\ ToSet(less) = E \ {v}
      BY <3>1, EvictIs DEF E
    <3> HIDE DEF less
    <3>4. Len(less) < maxSeries /\ \A f \in ToSet(less) : f.key # One(key, ts).key
      BY <1>1, <2>1, <2>3, <2>5, <3>2, <3>3
    <3>5. next \in Maps /\ ToSet(next) = (E \ {v}) \cup {One(key, ts)}
      BY <2>2, <2>3, <3>1, <3>2, <3>3, <3>4, AppendIs
    <3> QED
      BY <2>1, <2>5, <3>3, <3>5 DEF Puts, next, E
  <2> QED
    BY <2>4, <2>5
<1> QED
  BY <1>2, <1>3

\* What is left of an entry when the buckets before the cutoff have gone.
Left(e, cutoff) ==
    [key |-> e.key, buckets |-> [t \in {u \in DOMAIN e.buckets : u >= cutoff} |-> e.buckets[t]]]

\* The most recent bucket of a Map.
LEMMA NewestTsIs ==
    ASSUME NEW map \in Maps
    PROVE  /\ newestTs(map) \in Nat
           /\ \A e \in ToSet(map) : \A t \in DOMAIN e.buckets : t <= newestTs(map)
           /\ \A e \in ToSet(map) : newestOf(e) <= newestTs(map)
           /\ map # <<>> => \E e \in ToSet(map) : newestTs(map) \in DOMAIN e.buckets
           /\ map = <<>> => newestTs(map) = 0
<1> DEFINE f == [i \in DOMAIN map |-> DOMAIN map[i].buckets]
           S == {f[i] : i \in DOMAIN map}
           all == UNION S
<1>1. /\ Len(map) \in Nat /\ DOMAIN map = 1..Len(map) /\ map \in Seq(Entries)
      /\ \A i \in DOMAIN map : map[i] \in Entries
      /\ \A e : e \in ToSet(map) <=> \E i \in DOMAIN map : map[i] = e
  BY MapIs
<1>2. \A i \in DOMAIN map : f[i] \subseteq Nat /\ IsFiniteSet(f[i]) /\ f[i] # {}
  BY <1>1, EntryIs DEF IsBuckets
<1>3. \A t : t \in all <=> \E i \in DOMAIN map : t \in DOMAIN map[i].buckets
  OBVIOUS
<1>4. newestTs(map) = Newest(all)
  <2>1. S = {DOMAIN map[i].buckets : i \in DOMAIN map}
    OBVIOUS
  <2> QED
    BY <2>1 DEF newestTs
<1>5. all \in SUBSET Nat /\ IsFiniteSet(all)
  <2>1. IsFiniteSet(DOMAIN map)
    BY <1>1, FS_Interval
  <2> HIDE DEF f
  <2>2. IsFiniteSet(S)
    BY <2>1, ImageIsFinite
  <2>3. \A T \in S : IsFiniteSet(T) /\ T \subseteq Nat
    BY <1>2
  <2> HIDE DEF S
  <2>4. IsFiniteSet(all)
    BY <2>2, <2>3, FS_UNION
  <2>5. all \subseteq Nat
    BY <2>3
  <2> QED
    BY <2>4, <2>5
<1> HIDE DEF all, S
<1>6. /\ newestTs(map) \in Nat /\ \A t \in all : t <= newestTs(map)
      /\ all # {} => newestTs(map) \in all
      /\ all = {} => newestTs(map) = 0
  BY <1>4, <1>5, NewestIs
<1>7. \A e \in ToSet(map) : \A t \in DOMAIN e.buckets : t \in all
  BY <1>1, <1>3
<1>8. \A e \in ToSet(map) : newestOf(e) \in DOMAIN e.buckets
  BY MapIs, NewestOfIs
<1>9. map # <<>> => all # {}
  <2> SUFFICES ASSUME map # <<>> PROVE \E t : t \in all
    OBVIOUS
  <2>1. 1 \in DOMAIN map
    BY <1>1
  <2>2. PICK t : t \in f[1]
    BY <1>2, <2>1
  <2>3. t \in DOMAIN map[1].buckets
    BY <2>1, <2>2
  <2> QED
    BY <1>3, <2>1, <2>3
<1>10. map = <<>> => all = {}
  BY <1>3
<1>11. newestTs(map) \in all => \E e \in ToSet(map) : newestTs(map) \in DOMAIN e.buckets
  BY <1>1, <1>3
<1> QED
  BY <1>6, <1>7, <1>8, <1>9, <1>10, <1>11

\* The part of an entry that has not expired, when there is such a part: its newest
\* bucket is that of the entry.
LEMMA LeftIs ==
    ASSUME NEW e \in Entries, NEW cutoff \in Int, \E t \in DOMAIN e.buckets : t >= cutoff
    PROVE  /\ Left(e, cutoff) \in Entries /\ Left(e, cutoff).key = e.key
           /\ DOMAIN Left(e, cutoff).buckets = {t \in DOMAIN e.buckets : t >= cutoff}
           /\ \A t \in DOMAIN Left(e, cutoff).buckets : Left(e, cutoff).buckets[t] = e.buckets[t]
           /\ newestOf(Left(e, cutoff)) = newestOf(e)
<1> DEFINE D == {u \in DOMAIN e.buckets : u >= cutoff}
           b == [t \in D |-> e.buckets[t]]
           l == Left(e, cutoff)
<1>1. e.key \in AllKeys /\ IsBuckets(e.buckets)
  BY EntryIs
<1>2. D \in SUBSET DOMAIN e.buckets /\ D # {}
  OBVIOUS
<1>3. D \subseteq Nat /\ IsFiniteSet(D)
  BY <1>1, <1>2, FS_Subset DEF IsBuckets
<1>4. DOMAIN b = D /\ b \in [D -> Nat \ {0}] /\ \A t \in D : b[t] = e.buckets[t]
  BY <1>1, <1>2 DEF IsBuckets
<1> HIDE DEF b
<1>5. b \in Buckets
  <2>1. IsBuckets(b)
    BY <1>2, <1>3, <1>4 DEF IsBuckets
  <2> QED
    BY <2>1, BucketsAre
<1>6. l \in Entries /\ l.key = e.key /\ l.buckets = b
  BY <1>1, <1>5 DEF Left, Entries, b
<1> HIDE DEF l
<1>7. newestOf(l) = newestOf(e)
  <2>1. /\ newestOf(e) \in Nat /\ newestOf(e) \in DOMAIN e.buckets
        /\ \A t \in DOMAIN e.buckets : t <= newestOf(e)
    BY NewestOfIs
  <2>2. newestOf(l) \in Nat /\ newestOf(l) \in D /\ \A t \in D : t <= newestOf(l)
    BY <1>4, <1>6, NewestOfIs
  <2>3. newestOf(e) \in D
    <3>1. PICK t \in DOMAIN e.buckets : t >= cutoff
      OBVIOUS
    <3>2. t \in Nat /\ t <= newestOf(e)
      BY <1>1, <2>1, <3>1 DEF IsBuckets
    <3>3. newestOf(e) >= cutoff
      BY <2>1, <3>1, <3>2
    <3> QED
      BY <2>1, <3>3
  <2>4. newestOf(l) <= newestOf(e) /\ newestOf(e) <= newestOf(l)
    BY <1>2, <2>1, <2>2, <2>3
  <2> QED
    BY <2>1, <2>2, <2>4
<1> QED
  BY <1>4, <1>6, <1>7 DEF l

\* The eviction of what has expired.
LEMMA ExpiredIs ==
    ASSUME NEW map \in Maps
    PROVE  LET cutoff == newestTs(map) - retention
           IN  /\ evictExpired(map) \in Maps
               /\ \A l : l \in ToSet(evictExpired(map)) <=>
                           \E e \in ToSet(map) : /\ \E t \in DOMAIN e.buckets : t >= cutoff
                                                 /\ l = Left(e, cutoff)
<1> DEFINE cutoff == newestTs(map) - retention
           kept == [i \in DOMAIN map |-> Left(map[i], cutoff)]
           P == {i \in DOMAIN kept : DOMAIN kept[i].buckets # {}}
           next == Only(kept, P)
           Stays(i) == \E t \in DOMAIN map[i].buckets : t >= cutoff
<1>1. /\ map \in Seq(Entries) /\ Len(map) \in Nat /\ DOMAIN map = 1..Len(map) /\ Len(map) <= maxSeries
      /\ maxSeries \in Nat
      /\ \A i \in DOMAIN map : map[i] \in Entries
      /\ \A i, j \in DOMAIN map : map[i].key = map[j].key => i = j
      /\ \A e : e \in ToSet(map) <=> \E i \in DOMAIN map : map[i] = e
  BY MapIs
<1>2. cutoff \in Int
  BY NewestTsIs, StoreAssumption
<1> HIDE DEF cutoff
<1>3. evictExpired(map) = next
  <2>1. \A i \in DOMAIN map :
           [map[i] EXCEPT !.buckets = RestrictDomain(@, LAMBDA ts : Unexpired(ts, cutoff))] = Left(map[i], cutoff)
    <3> SUFFICES ASSUME NEW i \in DOMAIN map
                 PROVE  [map[i] EXCEPT !.buckets = RestrictDomain(@, LAMBDA ts : Unexpired(ts, cutoff))]
                           = Left(map[i], cutoff)
      OBVIOUS
    <3> DEFINE b == map[i].buckets
    <3>1. RestrictDomain(b, LAMBDA ts : Unexpired(ts, cutoff)) = [t \in {u \in DOMAIN b : u >= cutoff} |-> b[t]]
      BY DEF RestrictDomain, Restrict, Unexpired
    <3>2. map[i] = [key |-> map[i].key, buckets |-> b]
      BY <1>1, EntryIs
    <3> QED
      BY <3>1, <3>2 DEF Left
  <2>2. kept = [i \in DOMAIN map |->
                  [map[i] EXCEPT !.buckets = RestrictDomain(@, LAMBDA ts : Unexpired(ts, cutoff))]]
    BY <2>1
  <2> HIDE DEF kept
  <2> QED
    BY <2>2, Zenon DEF evictExpired, cutoff
<1>4. DOMAIN kept = DOMAIN map /\ \A i \in DOMAIN map : kept[i] = Left(map[i], cutoff)
  OBVIOUS
<1>5. \A i \in DOMAIN map : DOMAIN kept[i].buckets = {t \in DOMAIN map[i].buckets : t >= cutoff}
  BY <1>4 DEF Left
<1>6. \A i \in DOMAIN map : i \in P <=> Stays(i)
  BY <1>4, <1>5
<1>7. P \in SUBSET DOMAIN kept
  OBVIOUS
<1>8. kept \in Seq({Left(map[i], cutoff) : i \in DOMAIN map})
  BY <1>1, <1>4
<1> HIDE DEF kept, P
<1> DEFINE N == Cardinality(P)
<1>9. IsFiniteSet(P) /\ N \in Nat /\ N <= Len(map) /\ Len(next) = N /\ DOMAIN next = 1..N
  <2>1. /\ IsFiniteSet(P) /\ N \in Nat /\ N <= Len(kept) /\ Len(next) = N
        /\ next \in Seq({Left(map[i], cutoff) : i \in DOMAIN map})
    BY <1>7, <1>8, OnlyIs
  <2>2. Len(kept) = Len(map)
    BY <1>1, <1>4, <1>8
  <2> QED
    BY <2>1, <2>2
<1>10. PICK at \in [1..N -> P] :
          /\ \A n \in 1..N : next[n] = kept[at[n]]
          /\ \A m, n \in 1..N : m < n => at[m] < at[n]
          /\ \A i \in P : \E n \in 1..N : at[n] = i
  <2> DEFINE S == {Left(map[i], cutoff) : i \in DOMAIN map}
  <2>1. kept \in Seq(S)
    BY <1>8
  <2> HIDE DEF S, N, next
  <2>2. PICK at : LeadsBack(at, kept, P)
    BY <1>7, <2>1, OnlyIs
  <2> QED
    BY <2>2 DEF LeadsBack, N, next
<1> HIDE DEF next
<1>11. \A n \in 1..N : /\ at[n] \in DOMAIN map /\ Stays(at[n])
                       /\ next[n] = Left(map[at[n]], cutoff) /\ next[n] \in Entries
                       /\ next[n].key = map[at[n]].key
  <2> SUFFICES ASSUME NEW n \in 1..N
               PROVE  /\ at[n] \in DOMAIN map /\ Stays(at[n])
                      /\ next[n] = Left(map[at[n]], cutoff) /\ next[n] \in Entries
                      /\ next[n].key = map[at[n]].key
    OBVIOUS
  <2>1. at[n] \in P
    BY <1>10
  <2>2. at[n] \in DOMAIN map
    BY <1>4, <1>7, <2>1
  <2>3. Stays(at[n]) /\ next[n] = Left(map[at[n]], cutoff)
    BY <1>4, <1>6, <1>10, <2>1, <2>2
  <2>4. map[at[n]] \in Entries
    BY <1>1, <2>2
  <2> QED
    BY <1>2, <2>2, <2>3, <2>4, LeftIs
<1>12. next \in Maps
  <2>1. next \in Seq(Entries)
    <3>1. next = [n \in 1..N |-> next[n]]
      BY <1>3, <1>9 DEF next, Only
    <3> QED
      BY <1>9, <1>11, <3>1
  <2>2. N <= maxSeries
    <3>1. Len(map) \in Nat /\ Len(map) <= maxSeries /\ maxSeries \in Nat
      BY <1>1
    <3> QED
      BY <1>9, <3>1
  <2>3. DistinctKeys(next)
    <3> SUFFICES ASSUME NEW m \in 1..N, NEW n \in 1..N, next[m].key = next[n].key PROVE m = n
      BY <1>9 DEF DistinctKeys
    <3>1. at[m] = at[n] /\ at[m] \in Nat
      BY <1>1, <1>11
    <3>2. ~(m < n) /\ ~(n < m)
      BY <1>10, <3>1
    <3> QED
      BY <1>9, <3>2
  <2> QED
    BY <1>9, <2>1, <2>2, <2>3 DEF Maps
<1>13. ASSUME NEW l
       PROVE  l \in ToSet(next) <=> \E e \in ToSet(map) : /\ \E t \in DOMAIN e.buckets : t >= cutoff
                                                         /\ l = Left(e, cutoff)
  <2>1. l \in ToSet(next) <=> \E n \in 1..N : next[n] = l
    BY <1>9 DEF ToSet
  <2>2. (\E n \in 1..N : next[n] = l) <=> \E i \in DOMAIN map : Stays(i) /\ l = Left(map[i], cutoff)
    <3>1. ASSUME NEW n \in 1..N, next[n] = l
          PROVE  \E i \in DOMAIN map : Stays(i) /\ l = Left(map[i], cutoff)
      BY <1>11, <3>1
    <3>2. ASSUME NEW i \in DOMAIN map, Stays(i), l = Left(map[i], cutoff) PROVE \E n \in 1..N : next[n] = l
      <4>1. i \in P
        BY <1>6, <3>2
      <4>2. PICK n \in 1..N : at[n] = i
        BY <1>10, <4>1
      <4> QED
        BY <1>11, <3>2, <4>2
    <3> QED
      BY <3>1, <3>2
  <2> QED
    BY <1>1, <2>1, <2>2
<1> QED
  BY <1>3, <1>12, <1>13 DEF cutoff

-----------------------------------------------------------------------------
\* The records of an event.

Kinds == {"added", "completed", "failed"}
Spans == {"wait_ms", "run_ms"}
IsEvent(e) == e.kind \in Kinds /\ e.spans \subseteq Spans

\* The series that an event with this job name and signature can touch.
SeriesOf(e) == {Key(metric, jobName, signature) :
                  metric \in Kinds \cup Spans,
                  jobName \in {e.jobName, Null}, signature \in {e.errorSignature, Null}}

\* Two keys of series are the same when their parts are.
LEMMA KeyFields ==
    ASSUME NEW m1, NEW j1, NEW s1, NEW m2, NEW j2, NEW s2
    PROVE  Key(m1, j1, s1) = Key(m2, j2, s2) <=> m1 = m2 /\ j1 = j2 /\ s1 = s2
BY DEF Key

\* An observation is recorded for its job name, if it has one, and for the queue.
LEMMA PerJobAndQueueIs ==
    ASSUME NEW S, NEW metric, NEW jobName, Key(metric, jobName, Null) \in S, Key(metric, Null, Null) \in S
    PROVE  /\ PerJobAndQueue(metric, jobName) \in Seq(S)
           /\ PerJobAndQueue(metric, jobName) # <<>>
           /\ IsInjective(PerJobAndQueue(metric, jobName))
           /\ ToSet(PerJobAndQueue(metric, jobName))
                = {Key(metric, jobName, Null), Key(metric, Null, Null)}
<1> DEFINE a == Key(metric, jobName, Null)
           b == Key(metric, Null, Null)
<1>1. a = b <=> jobName = Null
  BY KeyFields
<1>2. CASE jobName = Null
  <2>1. PerJobAndQueue(metric, jobName) = <<b>>
    BY <1>2 DEF PerJobAndQueue
  <2> HIDE DEF a, b
  <2>2. a = b /\ a \in S
    BY <1>1, <1>2 DEF a, b
  <2>3. <<b>> \in Seq(S) /\ <<b>> # <<>> /\ IsInjective(<<b>>) /\ ToSet(<<b>>) = {a, b}
    BY <2>2 DEF IsInjective, ToSet
  <2> QED
    BY <2>1, <2>3 DEF a, b
<1>3. CASE jobName # Null
  <2>1. PerJobAndQueue(metric, jobName) = <<a, b>>
    BY <1>3 DEF PerJobAndQueue
  <2>2. a # b /\ a \in S /\ b \in S
    BY <1>1, <1>3
  <2> HIDE DEF a, b
  <2>3. <<a, b>> \in Seq(S) /\ <<a, b>> # <<>> /\ IsInjective(<<a, b>>) /\ ToSet(<<a, b>>) = {a, b}
    BY <2>2 DEF IsInjective, ToSet
  <2> QED
    BY <2>1, <2>3 DEF a, b
<1> QED
  BY <1>2, <1>3

\* The records of an event are of different series, and of those it counts in.
LEMMA EventKeysAre ==
    ASSUME NEW e, IsEvent(e)
    PROVE  /\ EventKeys(e) \in Seq(SeriesOf(e)) /\ EventKeys(e) # <<>>
           /\ IsInjective(EventKeys(e))
           /\ \A metric, jobName, signature :
                 Key(metric, jobName, signature) \in ToSet(EventKeys(e))
                    <=> CountsIn(e, Key(metric, jobName, signature))
<1> DEFINE S == SeriesOf(e)
           A == PerJobAndQueue(e.kind, e.jobName)
           B == PerSignature(e)
           Span(metric) == IF e.kind # "added" /\ metric \in e.spans
                           THEN PerJobAndQueue(metric, e.jobName) ELSE <<>>
           W == Span("wait_ms")
           R == Span("run_ms")
           Two(metric) == {Key(metric, e.jobName, Null), Key(metric, Null, Null)}
           Sig == Key("failed", Null, e.errorSignature)
<1>1. \A metric \in Kinds \cup Spans : Two(metric) \subseteq S
  BY DEF SeriesOf
<1>2. A \in Seq(S) /\ A # <<>> /\ IsInjective(A) /\ ToSet(A) = Two(e.kind)
  <2>1. Two(e.kind) \subseteq S
    BY <1>1 DEF IsEvent
  <2> HIDE DEF S
  <2> QED
    BY <2>1, PerJobAndQueueIs
<1>3. /\ B \in Seq(S) /\ IsInjective(B)
      /\ ToSet(B) = IF e.kind = "failed" /\ e.errorSignature # Null THEN {Sig} ELSE {}
  <2>1. Sig \in S
    BY DEF SeriesOf, Kinds
  <2> HIDE DEF Sig, S
  <2>2. <<Sig>> \in Seq(S) /\ IsInjective(<<Sig>>) /\ ToSet(<<Sig>>) = {Sig}
    BY <2>1 DEF IsInjective, ToSet
  <2>3. <<>> \in Seq(S) /\ IsInjective(<<>>) /\ ToSet(<<>>) = {}
    BY DEF IsInjective, ToSet
  <2>4. B = IF e.kind = "failed" /\ e.errorSignature # Null THEN <<Sig>> ELSE <<>>
    BY DEF PerSignature, Sig
  <2> HIDE DEF B
  <2> QED
    BY <2>2, <2>3, <2>4
<1>4. \A metric \in Spans :
         /\ Span(metric) \in Seq(S) /\ IsInjective(Span(metric))
         /\ ToSet(Span(metric)) = IF e.kind # "added" /\ metric \in e.spans THEN Two(metric) ELSE {}
  <2> SUFFICES ASSUME NEW metric \in Spans
               PROVE  /\ Span(metric) \in Seq(S) /\ IsInjective(Span(metric))
                      /\ ToSet(Span(metric)) = IF e.kind # "added" /\ metric \in e.spans
                                               THEN Two(metric) ELSE {}
    OBVIOUS
  <2>1. Two(metric) \subseteq S
    BY <1>1
  <2> HIDE DEF S
  <2>2. <<>> \in Seq(S) /\ IsInjective(<<>>) /\ ToSet(<<>>) = {}
    BY DEF IsInjective, ToSet
  <2>3. LET P == PerJobAndQueue(metric, e.jobName)
        IN  P \in Seq(S) /\ IsInjective(P) /\ ToSet(P) = Two(metric)
    BY <2>1, PerJobAndQueueIs
  <2> QED
    BY <2>2, <2>3
<1>5. "wait_ms" \in Spans /\ "run_ms" \in Spans
  BY DEF Spans
<1>6. EventKeys(e) = A \o B \o (W \o R)
  BY DEF EventKeys, Latencies
<1> DEFINE Wset == IF e.kind # "added" /\ "wait_ms" \in e.spans THEN Two("wait_ms") ELSE {}
           Rset == IF e.kind # "added" /\ "run_ms" \in e.spans THEN Two("run_ms") ELSE {}
           Bset == IF e.kind = "failed" /\ e.errorSignature # Null THEN {Sig} ELSE {}
<1>7. W \in Seq(S) /\ IsInjective(W) /\ ToSet(W) = Wset /\ R \in Seq(S) /\ IsInjective(R) /\ ToSet(R) = Rset
  <2> HIDE DEF Span
  <2> QED
    BY <1>4, <1>5
<1>8. /\ Two(e.kind) \cap Bset = {} /\ Wset \cap Rset = {}
      /\ (Two(e.kind) \cup Bset) \cap (Wset \cup Rset) = {}
  BY KeyFields DEF IsEvent, Kinds
<1> HIDE DEF A, B, W, R, S, Span
<1> HIDE DEF Two, Bset, Wset, Rset, Sig
<1>9. A \o B \in Seq(S) /\ IsInjective(A \o B) /\ ToSet(A \o B) = Two(e.kind) \cup Bset
  <2>1. ToSet(A) = Two(e.kind) /\ ToSet(B) = Bset
    BY <1>2, <1>3 DEF Bset
  <2>2. ToSet(A) \cap ToSet(B) = {}
    BY <1>8, <2>1
  <2>3. A \o B \in Seq(S) /\ IsInjective(A \o B)
    BY <1>2, <1>3, <2>2, DistinctConcat
  <2>4. ToSet(A \o B) = ToSet(A) \cup ToSet(B)
    BY <1>2, <1>3, ElementsOfConcat
  <2> QED
    BY <2>1, <2>3, <2>4
<1>10. W \o R \in Seq(S) /\ IsInjective(W \o R) /\ ToSet(W \o R) = Wset \cup Rset
  BY <1>7, <1>8, DistinctConcat, ElementsOfConcat
<1>11. /\ EventKeys(e) \in Seq(S) /\ IsInjective(EventKeys(e))
       /\ ToSet(EventKeys(e)) = Two(e.kind) \cup Bset \cup (Wset \cup Rset)
  <2> DEFINE X == A \o B
             Y == W \o R
  <2>1. /\ X \in Seq(S) /\ IsInjective(X) /\ ToSet(X) = Two(e.kind) \cup Bset
        /\ Y \in Seq(S) /\ IsInjective(Y) /\ ToSet(Y) = Wset \cup Rset
    BY <1>9, <1>10
  <2>2. EventKeys(e) = X \o Y
    BY <1>6
  <2> HIDE DEF X, Y
  <2>3. ToSet(X) \cap ToSet(Y) = {}
    BY <1>8, <2>1
  <2>4. X \o Y \in Seq(S) /\ IsInjective(X \o Y)
    BY <2>1, <2>3, DistinctConcat
  <2>5. ToSet(X \o Y) = ToSet(X) \cup ToSet(Y)
    BY <2>1, ElementsOfConcat
  <2> QED
    BY <2>1, <2>2, <2>4, <2>5
<1>12. EventKeys(e) # <<>>
  <2>1. Key(e.kind, Null, Null) \in ToSet(EventKeys(e))
    BY <1>11 DEF Two
  <2> QED
    BY <2>1 DEF ToSet
<1>13. ASSUME NEW metric, NEW jobName, NEW signature
       PROVE  Key(metric, jobName, signature) \in ToSet(EventKeys(e))
                 <=> CountsIn(e, Key(metric, jobName, signature))
  <2> DEFINE k == Key(metric, jobName, signature)
  <2>1. k.metric = metric /\ k.jobName = jobName /\ k.errorSignature = signature
    BY DEF Key
  <2>2. \A m : k \in Two(m) <=> metric = m /\ jobName \in {e.jobName, Null} /\ signature = Null
    BY KeyFields DEF Two
  <2>3. k = Sig <=> metric = "failed" /\ jobName = Null /\ signature = e.errorSignature
    BY KeyFields DEF Sig
  <2> HIDE DEF k
  <2>4. k \in ToSet(EventKeys(e)) <=>
          \/ k \in Two(e.kind)
          \/ e.kind = "failed" /\ e.errorSignature # Null /\ k = Sig
          \/ e.kind # "added" /\ "wait_ms" \in e.spans /\ k \in Two("wait_ms")
          \/ e.kind # "added" /\ "run_ms" \in e.spans /\ k \in Two("run_ms")
    BY <1>11 DEF Bset, Wset, Rset
  <2>5. metric \in e.spans => metric \in {"wait_ms", "run_ms"}
    BY DEF IsEvent, Spans
  <2>6. CASE signature = Null
    <3>1. k \in ToSet(EventKeys(e)) <=>
            /\ jobName \in {e.jobName, Null}
            /\ \/ metric = e.kind
               \/ e.kind # "added" /\ metric \in e.spans
      BY <2>2, <2>3, <2>4, <2>5, <2>6
    <3> QED
      BY <2>1, <2>6, <3>1 DEF CountsIn, k
  <2>7. CASE signature # Null
    <3>1. k \in ToSet(EventKeys(e)) <=>
            metric = "failed" /\ e.kind = "failed" /\ jobName = Null /\ signature = e.errorSignature
      BY <2>2, <2>3, <2>4, <2>7
    <3> QED
      BY <2>1, <2>7, <3>1 DEF CountsIn, k
  <2> QED
    BY <2>6, <2>7
<1> QED
  BY <1>11, <1>12, <1>13 DEF S

\* The events that may be written, and the bucket that each falls into.
LEMMA EventIs ==
    ASSUME NEW event \in Events
    PROVE  /\ IsEvent(event) /\ event.at \in Nat /\ BucketOf(event) \in Nat
           /\ BucketOf(event) <= event.at /\ event.at < BucketOf(event) + width
           /\ ToSet(EventKeys(event)) \subseteq AllKeys
<1>1. IsEvent(event) /\ event.at \in Nat /\ width \in Nat \ {0}
  BY StoreAssumption DEF IsEvent, Kinds, Spans
<1>2. \A at \in Nat, w \in Nat \ {0} :
         (at \div w) * w \in Nat /\ (at \div w) * w <= at /\ at < (at \div w) * w + w
  BY SMT
<1>3. BucketOf(event) = (event.at \div width) * width
  BY DEF BucketOf, floorToBucket
<1>4. /\ BucketOf(event) \in Nat /\ BucketOf(event) <= event.at
      /\ event.at < BucketOf(event) + width
  BY <1>1, <1>2, <1>3
<1>5. ToSet(EventKeys(event)) \subseteq AllKeys
  BY DEF AllKeys
<1> QED
  BY <1>1, <1>4, <1>5

\* What was observed of a series in a bucket, in a history of events.
ObservedIn(w, key, ts) ==
    Cardinality({i \in DOMAIN w : CountsIn(w[i], key) /\ BucketOf(w[i]) = ts})

\* An event that is written is observed once in each series that it counts in.
LEMMA ObservedMore ==
    ASSUME NEW w \in Seq(Events), NEW event \in Events, NEW key, NEW ts
    PROVE  /\ ObservedIn(w, key, ts) \in Nat
           /\ ObservedIn(Append(w, event), key, ts) =
                 ObservedIn(w, key, ts) + (IF CountsIn(event, key) /\ BucketOf(event) = ts THEN 1 ELSE 0)
<1> DEFINE L == Len(w)
           next == Append(w, event)
           Is(e) == CountsIn(e, key) /\ BucketOf(e) = ts
           I == {i \in 1..L : Is(w[i])}
           J == {i \in 1..(L + 1) : Is(next[i])}
<1>1. L \in Nat /\ DOMAIN w = 1..L
  OBVIOUS
<1>2. DOMAIN next = 1..(L + 1) /\ next[L + 1] = event /\ \A i \in 1..L : next[i] = w[i]
  BY <1>1
<1> HIDE DEF next, Is
<1>3. IsFiniteSet(I) /\ Cardinality(I) \in Nat
  BY <1>1, CountTo, FS_Subset, FS_CardinalityType
<1>4. J = IF Is(event) THEN I \cup {L + 1} ELSE I
  BY <1>1, <1>2
<1>5. L + 1 \notin I
  BY <1>1
<1> HIDE DEF I, J
<1>6. Cardinality(J) = Cardinality(I) + (IF Is(event) THEN 1 ELSE 0)
  <2>1. CASE Is(event)
    BY <1>3, <1>4, <1>5, <2>1, FS_AddElement
  <2>2. CASE ~Is(event)
    BY <1>3, <1>4, <2>2
  <2> QED
    BY <2>1, <2>2
<1>7. ObservedIn(w, key, ts) = Cardinality(I) /\ ObservedIn(next, key, ts) = Cardinality(J)
  BY <1>1, <1>2 DEF ObservedIn, I, J, Is
<1> QED
  BY <1>3, <1>6, <1>7 DEF next, Is

\* The event counts in the series that it has records of.
LEMMA CountsInIs ==
    ASSUME NEW event \in Events, NEW key \in AllKeys
    PROVE  CountsIn(event, key) <=> key \in ToSet(EventKeys(event))
<1>1. \E metric, jobName, signature : key = Key(metric, jobName, signature)
  <2>1. CASE \E e \in Events : key \in ToSet(EventKeys(e))
    <3>1. PICK e \in Events : key \in ToSet(EventKeys(e))
      BY <2>1
    <3>2. EventKeys(e) \in Seq(SeriesOf(e))
      BY <3>1, EventIs, EventKeysAre
    <3>3. key \in SeriesOf(e)
      BY <3>1, <3>2 DEF ToSet
    <3> QED
      BY <3>3 DEF SeriesOf
  <2>2. CASE \E e \in Events : key \in {Key(e.kind, e.jobName, Null), Key(e.kind, Null, Null),
                                        Key("failed", Null, e.errorSignature)}
    BY <2>2
  <2> QED
    BY <2>1, <2>2 DEF AllKeys
<1> QED
  BY <1>1, EventIs, EventKeysAre

-----------------------------------------------------------------------------
\* The loop of write: the Map before each of the records of an event.

KeysOf(E) == {e.key : e \in E}

\* m[n] is the Map when n records have been put.
Writes(m, map, event) ==
    LET keys == EventKeys(event)
    IN  /\ m \in [0..Len(keys) -> Maps]
        /\ m[0] = map
        /\ \A n \in 1..Len(keys) :
              Puts(ToSet(m[n - 1]), ToSet(m[n]), keys[n], BucketOf(event), Len(m[n - 1]) = maxSeries)
        /\ PutAll(map, eventToAggregates(event, width)) = m[Len(keys)]

\* The records of an event: of different series, all of one bucket.
LEMMA RecordsAre ==
    ASSUME NEW event \in Events
    PROVE  LET keys == EventKeys(event)
               records == eventToAggregates(event, width)
           IN  /\ Len(keys) \in Nat \ {0} /\ DOMAIN keys = 1..Len(keys)
               /\ IsInjective(keys)
               /\ Len(records) = Len(keys)
               /\ \A n \in 1..Len(keys) :
                     /\ keys[n] \in AllKeys
                     /\ records[n].key = keys[n] /\ records[n].ts = BucketOf(event)
<1> DEFINE keys == EventKeys(event)
           records == eventToAggregates(event, width)
<1>1. keys \in Seq(SeriesOf(event)) /\ keys # <<>> /\ IsInjective(keys) /\ ToSet(keys) \subseteq AllKeys
  BY EventIs, EventKeysAre
<1>2. records = [i \in DOMAIN keys |-> [key |-> keys[i], ts |-> BucketOf(event)]]
  BY DEF eventToAggregates, BucketOf
<1> HIDE DEF keys, records
<1>3. Len(keys) \in Nat \ {0} /\ DOMAIN keys = 1..Len(keys)
  BY <1>1
<1>4. \A n \in 1..Len(keys) : keys[n] \in AllKeys
  BY <1>1, <1>3 DEF ToSet
<1>5. Len(records) = Len(keys)
  BY <1>2, <1>3
<1> QED
  BY <1>1, <1>2, <1>3, <1>4, <1>5 DEF keys, records

\* The loop of write, for the records of any event, goes through Maps.
LEMMA WritesIs ==
    ASSUME NEW map \in Maps, NEW event \in Events
    PROVE  \E m : Writes(m, map, event)
<1> DEFINE keys == EventKeys(event)
           records == eventToAggregates(event, width)
           N == Len(keys)
           step == [p \in (1..N) \X Maps |-> PutRecord(p[2], records[p[1]])]
           Loop(after) == after = [n \in 0..Len(records) |->
                                     IF n = 0 THEN map ELSE PutRecord(after[n - 1], records[n])]
<1>1. /\ N \in Nat \ {0} /\ Len(records) = N
      /\ \A n \in 1..N : /\ keys[n] \in AllKeys /\ records[n].key = keys[n]
                         /\ records[n].ts = BucketOf(event)
  BY RecordsAre
<1>2. BucketOf(event) \in Nat
  BY EventIs
<1>3. PutAll(map, records) = (CHOOSE after : Loop(after))[N]
  BY <1>1, Zenon DEF PutAll
<1> HIDE DEF keys, records, N
<1>4. \A n \in 1..N, before \in Maps :
         /\ PutRecord(before, records[n]) \in Maps
         /\ Puts(ToSet(before), ToSet(PutRecord(before, records[n])), keys[n], BucketOf(event),
                 Len(before) = maxSeries)
  <2> SUFFICES ASSUME NEW n \in 1..N, NEW before \in Maps
               PROVE  /\ PutRecord(before, records[n]) \in Maps
                      /\ Puts(ToSet(before), ToSet(PutRecord(before, records[n])), keys[n], BucketOf(event),
                              Len(before) = maxSeries)
    OBVIOUS
  <2>1. records[n].key \in AllKeys /\ records[n].ts \in Nat
    BY <1>1, <1>2
  <2>2. /\ PutRecord(before, records[n]) \in Maps
        /\ Puts(ToSet(before), ToSet(PutRecord(before, records[n])), records[n].key, records[n].ts,
                Len(before) = maxSeries)
    BY <2>1, PutIs
  <2> QED
    BY <1>1, <2>2
<1>5. step \in [(1..N) \X Maps -> Maps]
  BY <1>4
<1>f. PICK f \in [0..N -> Maps] : Iterates(f, N, map, step)
  <2> HIDE DEF step
  <2> QED
    BY <1>1, <1>5, IndexedRecursion
<1>6. f[0] = map /\ \A n \in 1..N : f[n] = step[<<n, f[n - 1]>>]
  BY <1>f DEF Iterates
<1>7. \A n \in 1..N : f[n - 1] \in Maps /\ f[n] = PutRecord(f[n - 1], records[n])
  <2> SUFFICES ASSUME NEW n \in 1..N
               PROVE  f[n - 1] \in Maps /\ f[n] = PutRecord(f[n - 1], records[n])
    OBVIOUS
  <2>1. n - 1 \in 0..N
    BY <1>1
  <2>2. f[n - 1] \in Maps /\ <<n, f[n - 1]>> \in (1..N) \X Maps
    BY <1>6, <2>1
  <2> QED
    BY <1>6, <2>2
<1>8. Loop(f)
  <2>1. \A n \in 0..N : f[n] = IF n = 0 THEN map ELSE PutRecord(f[n - 1], records[n])
    <3> SUFFICES ASSUME NEW n \in 0..N
                 PROVE  f[n] = IF n = 0 THEN map ELSE PutRecord(f[n - 1], records[n])
      OBVIOUS
    <3>1. CASE n = 0
      BY <1>6, <3>1
    <3>2. CASE n # 0
      <4>1. n \in 1..N
        BY <1>1, <3>2
      <4> QED
        BY <1>7, <3>2, <4>1
    <3> QED
      BY <3>1, <3>2
  <2>2. f = [n \in 0..N |-> f[n]]
    BY <1>6
  <2> QED
    BY <1>1, <2>1, <2>2
<1> DEFINE g == CHOOSE after : Loop(after)
<1>9. Loop(g)
  BY <1>8, Zenon
<1> HIDE DEF g
<1>10. g[0] = map /\ \A n \in 1..N : g[n] = PutRecord(g[n - 1], records[n])
  <2>1. \A n \in 0..N : g[n] = IF n = 0 THEN map ELSE PutRecord(g[n - 1], records[n])
    BY <1>1, <1>9
  <2>2. 0 \in 0..N /\ \A n \in 1..N : n \in 0..N /\ n # 0
    BY <1>1
  <2> QED
    BY <2>1, <2>2
<1> DEFINE Q == {n \in Nat : n \in 0..N => g[n] = f[n]}
<1>11. 0 \in Q
  BY <1>6, <1>10
<1>12. ASSUME NEW n \in Nat, n \in Q PROVE n + 1 \in Q
  <2> SUFFICES ASSUME n + 1 \in 0..N PROVE g[n + 1] = f[n + 1]
    OBVIOUS
  <2>1. n \in 0..N /\ n + 1 \in 1..N /\ (n + 1) - 1 = n
    BY <1>1
  <2>2. g[n] = f[n]
    BY <1>12, <2>1
  <2>3. g[n + 1] = PutRecord(g[(n + 1) - 1], records[n + 1]) /\ f[n + 1] = PutRecord(f[(n + 1) - 1], records[n + 1])
    BY <1>7, <1>10, <2>1
  <2> QED
    BY <2>1, <2>2, <2>3
<1>13. g[N] = f[N]
  <2> HIDE DEF Q
  <2>1. N \in Q
    BY <1>1, <1>11, <1>12, NaturalInduction
  <2> QED
    BY <1>1, <2>1 DEF Q
<1>14. \A n \in 1..N :
          Puts(ToSet(f[n - 1]), ToSet(f[n]), keys[n], BucketOf(event), Len(f[n - 1]) = maxSeries)
  BY <1>4, <1>7
<1>15. PutAll(map, records) = f[N]
  BY <1>3, <1>13 DEF g
<1>16. Writes(f, map, event)
  BY <1>6, <1>14, <1>15 DEF Writes, keys, records, N
<1> QED
  BY <1>16

-----------------------------------------------------------------------------
\* How many entries a Map has.
LEMMA LengthIs ==
    ASSUME NEW map \in Maps
    PROVE  IsFiniteSet(KeysOf(ToSet(map))) /\ Cardinality(KeysOf(ToSet(map))) = Len(map)
<1> DEFINE f == [i \in DOMAIN map |-> map[i].key]
           K == KeysOf(ToSet(map))
<1>1. /\ Len(map) \in Nat /\ DOMAIN map = 1..Len(map)
      /\ \A i, j \in DOMAIN map : map[i].key = map[j].key => i = j
      /\ \A e : e \in ToSet(map) <=> \E i \in DOMAIN map : map[i] = e
  BY MapIs
<1>2. \A k : k \in K <=> \E i \in DOMAIN map : map[i].key = k
  BY <1>1 DEF KeysOf
<1> HIDE DEF K
<1>3. f \in [DOMAIN map -> K] /\ (\A i, j \in DOMAIN map : f[i] = f[j] => i = j)
      /\ \A k \in K : \E i \in DOMAIN map : f[i] = k
  BY <1>1, <1>2
<1> HIDE DEF f
<1>4. ExistsBijection(1..Len(map), K)
  BY <1>1, <1>3 DEF ExistsBijection, Bijection, Injection, Surjection, IsInjective
<1>5. IsFiniteSet(1..Len(map)) /\ Cardinality(1..Len(map)) = Len(map)
  BY <1>1, CountTo
<1>6. IsFiniteSet(K) /\ Cardinality(K) = Len(map)
  BY <1>4, <1>5, FS_Bijection
<1> QED
  BY <1>6 DEF K

\* What a Map has of a series in a bucket.
Amount(e, ts) == IF ts \in DOMAIN e.buckets THEN e.buckets[ts] ELSE 0
StoredIn(map, key, ts) ==
    LET at == Find(map, key)
    IN  IF at # 0 /\ ts \in DOMAIN map[at].buckets THEN map[at].buckets[ts] ELSE 0

\* What is stored of a series is what its entry says, and nothing without an entry.
LEMMA StoredIs ==
    ASSUME NEW map \in Maps, NEW key, NEW ts
    PROVE  /\ \A e \in ToSet(map) : e.key = key => StoredIn(map, key, ts) = Amount(e, ts)
           /\ (\A e \in ToSet(map) : e.key # key) => StoredIn(map, key, ts) = 0
           /\ StoredIn(map, key, ts) \in Nat
<1> DEFINE at == Find(map, key)
<1>1. /\ \A e : e \in ToSet(map) <=> \E i \in DOMAIN map : map[i] = e
      /\ \A e, f \in ToSet(map) : e.key = f.key => e = f
      /\ \A e \in ToSet(map) : e \in Entries
  BY MapIs
<1>2. CASE at = 0
  <2>1. \A e \in ToSet(map) : e.key # key
    BY <1>1, <1>2, FindIs
  <2>2. StoredIn(map, key, ts) = 0
    BY <1>2 DEF StoredIn
  <2> QED
    BY <2>1, <2>2
<1>3. CASE at # 0
  <2>1. map[at] \in ToSet(map) /\ map[at].key = key
    BY <1>1, <1>3, FindIs
  <2>2. StoredIn(map, key, ts) = Amount(map[at], ts)
    BY <1>3 DEF StoredIn, Amount
  <2> HIDE DEF at
  <2>3. map[at] \in Entries
    BY <1>1, <2>1
  <2>4. Amount(map[at], ts) \in Nat
    BY <2>3, EntryIs DEF Amount, IsBuckets
  <2> QED
    BY <1>1, <2>1, <2>2, <2>4
<1> QED
  BY <1>2, <1>3

\* One more in a bucket of a series.
Ticks(k, key, t, ts) == IF k = key /\ t = ts THEN 1 ELSE 0

\* A put, when it evicts nothing, counts one more in its bucket.
LEMMA PutCounts ==
    ASSUME NEW m \in Maps, NEW next \in Maps, NEW key \in AllKeys, NEW ts \in Nat,
           Puts(ToSet(m), ToSet(next), key, ts, FALSE)
    PROVE  \A k, t : StoredIn(next, k, t) = StoredIn(m, k, t) + Ticks(k, key, t, ts)
<1> SUFFICES ASSUME NEW k, NEW t
             PROVE  StoredIn(next, k, t) = StoredIn(m, k, t) + Ticks(k, key, t, ts)
  OBVIOUS
<1>1. /\ ToSet(m) \subseteq Entries /\ ToSet(next) \subseteq Entries
      /\ \A e, f \in ToSet(m) : e.key = f.key => e = f
  BY MapIs
<1>2. /\ \A e \in ToSet(m) : e.key = k => StoredIn(m, k, t) = Amount(e, t)
      /\ (\A e \in ToSet(m) : e.key # k) => StoredIn(m, k, t) = 0
      /\ StoredIn(m, k, t) \in Nat
  BY StoredIs
<1>3. /\ \A e \in ToSet(next) : e.key = k => StoredIn(next, k, t) = Amount(e, t)
      /\ (\A e \in ToSet(next) : e.key # k) => StoredIn(next, k, t) = 0
  BY StoredIs
<1>4. CASE \E e \in ToSet(m) : e.key = key /\ ToSet(next) = (ToSet(m) \ {e}) \cup {More(e, ts)}
  <2>1. PICK e \in ToSet(m) : e.key = key /\ ToSet(next) = (ToSet(m) \ {e}) \cup {More(e, ts)}
    BY <1>4
  <2>2. e \in Entries /\ IsBuckets(e.buckets)
    BY <1>1, EntryIs
  <2>3. More(e, ts) \in ToSet(next) /\ More(e, ts).key = key /\ More(e, ts).buckets = Merge(e.buckets, ts)
    BY <2>1, <2>2, MoreIs
  <2>4. CASE k = key
    <3>1. StoredIn(m, k, t) = Amount(e, t) /\ StoredIn(next, k, t) = Amount(More(e, ts), t)
      BY <1>2, <1>3, <2>1, <2>3, <2>4
    <3>2. /\ DOMAIN Merge(e.buckets, ts) = DOMAIN e.buckets \cup {ts}
          /\ \A u \in DOMAIN e.buckets \ {ts} : Merge(e.buckets, ts)[u] = e.buckets[u]
          /\ Merge(e.buckets, ts)[ts] = (IF ts \in DOMAIN e.buckets THEN e.buckets[ts] ELSE 0) + 1
      BY <2>2, MergeIs
    <3>3. Amount(More(e, ts), t) = Amount(e, t) + (IF t = ts THEN 1 ELSE 0)
      <4>1. CASE t = ts
        BY <2>3, <3>2, <4>1 DEF Amount
      <4>2. CASE t # ts
        <5>1. Amount(More(e, ts), t) = Amount(e, t)
          BY <2>3, <3>2, <4>2 DEF Amount
        <5>2. Amount(e, t) \in Nat
          BY <1>2, <3>1
        <5> QED
          BY <4>2, <5>1, <5>2
      <4> QED
        BY <4>1, <4>2
    <3> QED
      BY <2>4, <3>1, <3>3 DEF Ticks
  <2>5. CASE k # key
    <3>1. \A f : f.key = k => (f \in ToSet(next) <=> f \in ToSet(m))
      BY <2>1, <2>3, <2>5
    <3>2. StoredIn(next, k, t) = StoredIn(m, k, t)
      BY <1>2, <1>3, <3>1
    <3> QED
      BY <1>2, <2>5, <3>2 DEF Ticks
  <2> QED
    BY <2>4, <2>5
<1>5. CASE (\A e \in ToSet(m) : e.key # key) /\ ToSet(next) = ToSet(m) \cup {One(key, ts)}
  <2>1. One(key, ts) \in ToSet(next)
    BY <1>5
  <2>2. /\ One(key, ts).key = key /\ DOMAIN One(key, ts).buckets = {ts} /\ One(key, ts).buckets[ts] = 1
    BY OneIs
  <2>3. CASE k = key
    <3>1. StoredIn(m, k, t) = 0 /\ StoredIn(next, k, t) = Amount(One(key, ts), t)
      BY <1>2, <1>3, <1>5, <2>1, <2>2, <2>3
    <3>2. Amount(One(key, ts), t) = IF t = ts THEN 1 ELSE 0
      BY <2>2 DEF Amount
    <3> QED
      BY <2>3, <3>1, <3>2 DEF Ticks
  <2>4. CASE k # key
    <3>1. \A f : f.key = k => (f \in ToSet(next) <=> f \in ToSet(m))
      BY <1>5, <2>2, <2>4
    <3>2. StoredIn(next, k, t) = StoredIn(m, k, t)
      BY <1>2, <1>3, <3>1
    <3> QED
      BY <1>2, <2>4, <3>2 DEF Ticks
  <2> QED
    BY <2>3, <2>4
<1> QED
  BY <1>4, <1>5 DEF Puts

\* The series of the first n records, and the buckets an event adds one to by then.
KeysUpTo(event, n) == {EventKeys(event)[i] : i \in 1..n}
AddsUpTo(event, n, key, ts) ==
    IF key \in KeysUpTo(event, n) /\ ts = BucketOf(event) THEN 1 ELSE 0

Adds(event, key, ts) == IF key \in ToSet(EventKeys(event)) /\ ts = BucketOf(event) THEN 1 ELSE 0

\* The n-th record is of a series that no record before it was of.
LEMMA UpToIs ==
    ASSUME NEW event \in Events, NEW n \in 1..Len(EventKeys(event))
    PROVE  LET keys == EventKeys(event)
           IN  /\ keys[n] \in AllKeys /\ keys[n] \notin KeysUpTo(event, n - 1)
               /\ KeysUpTo(event, n) = KeysUpTo(event, n - 1) \cup {keys[n]}
               /\ KeysUpTo(event, n) \subseteq ToSet(keys)
<1> DEFINE keys == EventKeys(event)
<1>1. /\ Len(keys) \in Nat /\ DOMAIN keys = 1..Len(keys) /\ IsInjective(keys)
      /\ \A i \in 1..Len(keys) : keys[i] \in AllKeys
  BY RecordsAre
<1>0. n \in 1..Len(keys)
  OBVIOUS
<1> HIDE DEF keys
<1>2. 1..n = (1..(n - 1)) \cup {n} /\ n \notin 1..(n - 1) /\ 1..n \subseteq DOMAIN keys
  BY <1>0, <1>1
<1>3. \A i \in 1..(n - 1) : keys[i] # keys[n]
  BY <1>1, <1>2 DEF IsInjective
<1>4. {keys[i] : i \in 1..n} = {keys[i] : i \in 1..(n - 1)} \cup {keys[n]}
  BY <1>2
<1>5. {keys[i] : i \in 1..n} \subseteq ToSet(keys)
  BY <1>2 DEF ToSet
<1>6. keys[n] \in AllKeys
  BY <1>0, <1>1
<1> QED
  BY <1>3, <1>4, <1>5, <1>6 DEF KeysUpTo, keys

\* When all records are put, and before the first.
LEMMA AllRecords ==
    ASSUME NEW event \in Events
    PROVE  /\ KeysUpTo(event, Len(EventKeys(event))) = ToSet(EventKeys(event))
           /\ KeysUpTo(event, 0) = {}
           /\ \A k, t : Adds(event, k, t) = AddsUpTo(event, Len(EventKeys(event)), k, t)
<1>1. /\ KeysUpTo(event, Len(EventKeys(event))) = ToSet(EventKeys(event))
      /\ KeysUpTo(event, 0) = {}
  BY RecordsAre DEF KeysUpTo, ToSet
<1> QED
  BY <1>1 DEF Adds, AddsUpTo

\* What an event adds to the observations is what its records add to the Map.
LEMMA ObservedAdds ==
    ASSUME NEW w \in Seq(Events), NEW event \in Events, NEW k \in AllKeys, NEW t
    PROVE  /\ ObservedIn(w, k, t) \in Nat /\ Adds(event, k, t) \in Nat
           /\ ObservedIn(Append(w, event), k, t) = ObservedIn(w, k, t) + Adds(event, k, t)
<1>1. /\ ObservedIn(w, k, t) \in Nat
      /\ ObservedIn(Append(w, event), k, t) =
            ObservedIn(w, k, t) + (IF CountsIn(event, k) /\ BucketOf(event) = t THEN 1 ELSE 0)
  BY ObservedMore
<1>2. CountsIn(event, k) <=> k \in ToSet(EventKeys(event))
  BY CountsInIs
<1> QED
  BY <1>1, <1>2 DEF Adds

\* While the series that were written to fit, an event counts in each of its series.
LEMMA FitCounts ==
    ASSUME NEW map \in Maps, NEW event \in Events, NEW U, IsFiniteSet(U), Cardinality(U) <= maxSeries,
           KeysOf(ToSet(map)) \subseteq U, ToSet(EventKeys(event)) \subseteq U
    PROVE  LET full == PutAll(map, eventToAggregates(event, width))
           IN  \A k, t : StoredIn(full, k, t) = StoredIn(map, k, t) + Adds(event, k, t)
<1> DEFINE keys == EventKeys(event)
           N == Len(keys)
           ts == BucketOf(event)
           full == PutAll(map, eventToAggregates(event, width))
<1>1. PICK m : Writes(m, map, event)
  BY WritesIs
<1>2. /\ m \in [0..N -> Maps] /\ m[0] = map /\ full = m[N]
      /\ \A n \in 1..N : Puts(ToSet(m[n - 1]), ToSet(m[n]), keys[n], ts, Len(m[n - 1]) = maxSeries)
  BY <1>1 DEF Writes
<1>3. N \in Nat \ {0} /\ ts \in Nat
  BY RecordsAre, EventIs
<1> DEFINE P(n) == /\ KeysOf(ToSet(m[n])) \subseteq U
                   /\ \A k, t : StoredIn(m[n], k, t) = StoredIn(map, k, t) + AddsUpTo(event, n, k, t)
<1>4. P(0)
  <2>1. \A k, t : AddsUpTo(event, 0, k, t) = 0
    BY AllRecords DEF AddsUpTo
  <2>2. \A k, t : StoredIn(map, k, t) \in Nat
    BY StoredIs
  <2> QED
    BY <1>2, <2>1, <2>2
<1>5. ASSUME NEW n \in Nat, n + 1 \in 1..N, P(n) PROVE P(n + 1)
  <2> DEFINE E == ToSet(m[n])
             F == ToSet(m[n + 1])
             key == keys[n + 1]
  <2>1. m[n] \in Maps /\ m[n + 1] \in Maps
    BY <1>2, <1>3, <1>5
  <2>2. Puts(E, F, key, ts, Len(m[n]) = maxSeries)
    <3>1. (n + 1) - 1 = n
      OBVIOUS
    <3> QED
      BY <1>2, <1>5, <3>1
  <2>3. /\ key \in AllKeys /\ key \in U /\ key \notin KeysUpTo(event, n)
        /\ KeysUpTo(event, n + 1) = KeysUpTo(event, n) \cup {key}
    <3>1. (n + 1) - 1 = n
      OBVIOUS
    <3>2. /\ key \in AllKeys /\ key \notin KeysUpTo(event, (n + 1) - 1)
          /\ KeysUpTo(event, n + 1) = KeysUpTo(event, (n + 1) - 1) \cup {key}
          /\ KeysUpTo(event, n + 1) \subseteq ToSet(keys)
      BY <1>5, UpToIs
    <3> QED
      BY <3>1, <3>2
  <2>4. (\A e \in E : e.key # key) => Len(m[n]) # maxSeries
    <3> SUFFICES ASSUME \A e \in E : e.key # key PROVE Len(m[n]) # maxSeries
      OBVIOUS
    <3>1. KeysOf(E) \in SUBSET U /\ key \notin KeysOf(E)
      BY <1>5 DEF KeysOf
    <3>2. KeysOf(E) \in SUBSET (U \ {key})
      BY <3>1
    <3>3. IsFiniteSet(U \ {key}) /\ Cardinality(U \ {key}) = Cardinality(U) - 1
      BY <2>3, FS_RemoveElement
    <3>4. Cardinality(KeysOf(E)) <= Cardinality(U \ {key})
      BY <3>2, <3>3, FS_Subset
    <3>5. Cardinality(KeysOf(E)) = Len(m[n])
      BY <2>1, LengthIs
    <3>6. Cardinality(U) \in Nat /\ maxSeries \in Nat /\ Len(m[n]) \in Nat
      BY <2>1, FS_CardinalityType, MapIs
    <3> QED
      BY <3>3, <3>4, <3>5, <3>6
  <2> HIDE DEF P
  <2>5. Puts(E, F, key, ts, FALSE)
    BY <2>2, <2>4 DEF Puts
  <2>6. \A k, t : StoredIn(m[n + 1], k, t) = StoredIn(m[n], k, t) + Ticks(k, key, t, ts)
    <3>1. Puts(ToSet(m[n]), ToSet(m[n + 1]), key, ts, FALSE)
      BY <2>5
    <3>2. ts \in Nat
      BY <1>3
    <3> HIDE DEF ts, key
    <3> QED
      BY <2>1, <2>3, <3>1, <3>2, PutCounts
  <2>7. \A k, t : StoredIn(m[n + 1], k, t) = StoredIn(map, k, t) + AddsUpTo(event, n + 1, k, t)
    <3> SUFFICES ASSUME NEW k, NEW t
                 PROVE  StoredIn(m[n + 1], k, t) = StoredIn(map, k, t) + AddsUpTo(event, n + 1, k, t)
      OBVIOUS
    <3>1. AddsUpTo(event, n + 1, k, t) = AddsUpTo(event, n, k, t) + Ticks(k, key, t, ts)
      BY <2>3 DEF AddsUpTo, Ticks
    <3>2. StoredIn(m[n], k, t) = StoredIn(map, k, t) + AddsUpTo(event, n, k, t)
      BY <1>5 DEF P
    <3>3. StoredIn(map, k, t) \in Nat /\ AddsUpTo(event, n, k, t) \in Nat /\ Ticks(k, key, t, ts) \in Nat
      BY StoredIs DEF AddsUpTo, Ticks
    <3>4. StoredIn(m[n + 1], k, t) = StoredIn(m[n], k, t) + Ticks(k, key, t, ts)
      BY <2>6
    <3> HIDE DEF key, ts
    <3> QED
      BY <3>1, <3>2, <3>3, <3>4
  <2>8. KeysOf(F) \subseteq U
    <3>1. KeysOf(E) \subseteq U
      BY <1>5 DEF P
    <3>2. \A f \in F : f.key = key \/ f \in E
      <4>1. E \subseteq Entries
        BY <2>1, MapIs
      <4>2. \A e \in Entries : More(e, ts).key = e.key
        BY <1>3, MoreIs
      <4>3. One(key, ts).key = key
        BY <1>3, <2>3, OneIs
      <4> QED
        BY <2>5, <4>1, <4>2, <4>3 DEF Puts
    <3> QED
      BY <2>3, <3>1, <3>2 DEF KeysOf
  <2> QED
    BY <2>7, <2>8 DEF P
<1> HIDE DEF P
<1> DEFINE Q == {n \in Nat : n \in 0..N => P(n)}
<1>6. 0 \in Q
  BY <1>4
<1>7. ASSUME NEW n \in Nat, n \in Q PROVE n + 1 \in Q
  BY <1>3, <1>5, <1>7
<1>8. P(N)
  <2> HIDE DEF Q
  <2>1. N \in Q
    BY <1>3, <1>6, <1>7, NaturalInduction
  <2> QED
    BY <1>3, <2>1 DEF Q
<1>9. \A k, t : Adds(event, k, t) = AddsUpTo(event, N, k, t)
  BY AllRecords
<1> QED
  BY <1>2, <1>8, <1>9 DEF P

\* However many series were evicted: no bucket counts more than was observed, and no
\* series is there that was not written to.
LEMMA WriteBounds ==
    ASSUME NEW map \in Maps, NEW event \in Events, NEW w \in Seq(Events),
           \A e \in ToSet(map) : \A t \in DOMAIN e.buckets : e.buckets[t] <= ObservedIn(w, e.key, t)
    PROVE  LET full == PutAll(map, eventToAggregates(event, width))
           IN  /\ full \in Maps
               /\ KeysOf(ToSet(full)) \subseteq KeysOf(ToSet(map)) \cup ToSet(EventKeys(event))
               /\ \A e \in ToSet(full) : \A t \in DOMAIN e.buckets :
                     e.buckets[t] <= ObservedIn(Append(w, event), e.key, t)
<1> DEFINE keys == EventKeys(event)
           N == Len(keys)
           ts == BucketOf(event)
           full == PutAll(map, eventToAggregates(event, width))
<1>1. PICK m : Writes(m, map, event)
  BY WritesIs
<1>2. /\ m \in [0..N -> Maps] /\ m[0] = map /\ full = m[N]
      /\ \A n \in 1..N : Puts(ToSet(m[n - 1]), ToSet(m[n]), keys[n], ts, Len(m[n - 1]) = maxSeries)
  BY <1>1 DEF Writes
<1>3. N \in Nat \ {0} /\ ts \in Nat
  BY RecordsAre, EventIs
<1>4. \A k, t : ObservedIn(w, k, t) \in Nat
  <2> SUFFICES ASSUME NEW k, NEW t PROVE ObservedIn(w, k, t) \in Nat
    OBVIOUS
  <2> QED
    BY ObservedMore
<1> DEFINE Bound(e, n) == \A t \in DOMAIN e.buckets :
                             e.buckets[t] <= ObservedIn(w, e.key, t) + AddsUpTo(event, n, e.key, t)
           P(n) == /\ KeysOf(ToSet(m[n])) \subseteq KeysOf(ToSet(map)) \cup KeysUpTo(event, n)
                   /\ \A e \in ToSet(m[n]) : Bound(e, n)
<1>5. P(0)
  <2>1. \A k, t : AddsUpTo(event, 0, k, t) = 0
    BY AllRecords DEF AddsUpTo
  <2>2. \A e \in ToSet(map) : Bound(e, 0)
    BY <1>4, <2>1
  <2> HIDE DEF Bound
  <2> QED
    BY <1>2, <2>2
<1>6. ASSUME NEW n \in Nat, n + 1 \in 1..N, P(n) PROVE P(n + 1)
  <2> DEFINE E == ToSet(m[n])
             F == ToSet(m[n + 1])
             key == keys[n + 1]
  <2>0. (n + 1) - 1 = n
    OBVIOUS
  <2>a. n \in 0..N /\ n + 1 \in 0..N
    BY <1>3, <1>6
  <2>b. m[n] \in Maps /\ m[n + 1] \in Maps
    BY <1>2, <2>a
  <2>1. m[n] \in Maps /\ m[n + 1] \in Maps /\ E \subseteq Entries
    BY <2>b, MapIs
  <2>2. Puts(E, F, key, ts, Len(m[n]) = maxSeries)
    BY <1>2, <1>6, <2>0
  <2>3. /\ key \in AllKeys /\ key \notin KeysUpTo(event, n)
        /\ KeysUpTo(event, n + 1) = KeysUpTo(event, n) \cup {key}
    <3>1. /\ key \in AllKeys /\ key \notin KeysUpTo(event, (n + 1) - 1)
          /\ KeysUpTo(event, n + 1) = KeysUpTo(event, (n + 1) - 1) \cup {key}
      BY <1>6, UpToIs
    <3> QED
      BY <2>0, <3>1
  <2>4. \A f \in F : \/ f \in E
                     \/ f = One(key, ts)
                     \/ \E e \in E : e.key = key /\ f = More(e, ts)
    BY <2>2 DEF Puts
  <2>5. \A k, t : /\ AddsUpTo(event, n, k, t) \in Nat
                  /\ AddsUpTo(event, n, k, t) <= AddsUpTo(event, n + 1, k, t)
                  /\ AddsUpTo(event, n + 1, k, t) \in Nat
    BY <2>3 DEF AddsUpTo
  <2>6. AddsUpTo(event, n, key, ts) = 0 /\ AddsUpTo(event, n + 1, key, ts) = 1
    BY <2>3 DEF AddsUpTo
  <2>7. \A e \in E : Bound(e, n)
    BY <1>6
  <2> HIDE DEF P, key, ts, E, F
  <2>8. ASSUME NEW e \in E PROVE Bound(e, n + 1)
    <3> SUFFICES ASSUME NEW t \in DOMAIN e.buckets
                 PROVE  e.buckets[t] <= ObservedIn(w, e.key, t) + AddsUpTo(event, n + 1, e.key, t)
      OBVIOUS
    <3>1. e.buckets[t] <= ObservedIn(w, e.key, t) + AddsUpTo(event, n, e.key, t)
      BY <2>7
    <3>2. e.buckets[t] \in Nat
      BY <2>1, EntryIs DEF IsBuckets
    <3> QED
      BY <1>4, <2>5, <3>1, <3>2
  <2>9. Bound(One(key, ts), n + 1)
    <3>1. /\ One(key, ts).key = key /\ DOMAIN One(key, ts).buckets = {ts} /\ One(key, ts).buckets[ts] = 1
      BY <1>3, <2>3, OneIs DEF ts
    <3>2. 1 <= ObservedIn(w, key, ts) + AddsUpTo(event, n + 1, key, ts)
      BY <1>4, <2>6
    <3> QED
      BY <3>1, <3>2
  <2>10. ASSUME NEW e \in E, e.key = key PROVE Bound(More(e, ts), n + 1) /\ More(e, ts).key = key
    <3>1. e \in Entries /\ IsBuckets(e.buckets)
      BY <2>1, EntryIs
    <3>2. More(e, ts).key = key /\ More(e, ts).buckets = Merge(e.buckets, ts)
      BY <1>3, <2>10, <3>1, MoreIs DEF ts
    <3>3. /\ DOMAIN Merge(e.buckets, ts) = DOMAIN e.buckets \cup {ts}
          /\ \A u \in DOMAIN e.buckets \ {ts} : Merge(e.buckets, ts)[u] = e.buckets[u]
          /\ Merge(e.buckets, ts)[ts] = (IF ts \in DOMAIN e.buckets THEN e.buckets[ts] ELSE 0) + 1
      BY <1>3, <3>1, MergeIs DEF ts
    <3>4. \A t \in DOMAIN e.buckets : /\ e.buckets[t] \in Nat
                                      /\ e.buckets[t] <= ObservedIn(w, key, t) + AddsUpTo(event, n, key, t)
      BY <2>7, <2>10, <3>1 DEF IsBuckets
    <3>5. ASSUME NEW t \in DOMAIN e.buckets \cup {ts}
          PROVE  Merge(e.buckets, ts)[t] <= ObservedIn(w, key, t) + AddsUpTo(event, n + 1, key, t)
      <4>1. CASE t = ts
        <5>1. CASE ts \in DOMAIN e.buckets
          <6>1. Merge(e.buckets, ts)[t] = e.buckets[ts] + 1
            BY <3>3, <4>1, <5>1
          <6>2. e.buckets[ts] \in Nat /\ e.buckets[ts] <= ObservedIn(w, key, ts) + 0
            BY <2>6, <3>4, <5>1
          <6> QED
            BY <1>4, <2>6, <4>1, <6>1, <6>2
        <5>2. CASE ts \notin DOMAIN e.buckets
          <6>1. Merge(e.buckets, ts)[t] = 1
            BY <3>3, <4>1, <5>2
          <6> QED
            BY <1>4, <2>6, <4>1, <6>1
        <5> QED
          BY <5>1, <5>2
      <4>2. CASE t # ts
        <5>1. t \in DOMAIN e.buckets /\ Merge(e.buckets, ts)[t] = e.buckets[t]
          BY <3>3, <4>2
        <5> QED
          BY <1>4, <2>5, <3>4, <5>1
      <4> QED
        BY <4>1, <4>2
    <3> QED
      BY <3>2, <3>3, <3>5
  <2>11. \A f \in F : Bound(f, n + 1)
    <3> HIDE DEF Bound
    <3> QED
      BY <2>4, <2>8, <2>9, <2>10
  <2>12. KeysOf(F) \subseteq KeysOf(ToSet(map)) \cup KeysUpTo(event, n + 1)
    <3>1. KeysOf(E) \subseteq KeysOf(ToSet(map)) \cup KeysUpTo(event, n)
      BY <1>6 DEF P, E
    <3>2. One(key, ts).key = key
      BY <1>3, <2>3, OneIs DEF ts
    <3>3. \A f \in F : f.key = key \/ f \in E
      <4> HIDE DEF Bound
      <4> QED
        BY <2>4, <2>10, <3>2
    <3> QED
      BY <2>3, <3>1, <3>3 DEF KeysOf
  <2> HIDE DEF Bound
  <2> QED
    BY <2>11, <2>12 DEF P, F
<1> HIDE DEF P
<1> DEFINE Q == {n \in Nat : n \in 0..N => P(n)}
<1>7. 0 \in Q
  BY <1>5
<1>8. ASSUME NEW n \in Nat, n \in Q PROVE n + 1 \in Q
  BY <1>3, <1>6, <1>8
<1>9. P(N)
  <2> HIDE DEF Q
  <2>1. N \in Q
    BY <1>3, <1>7, <1>8, NaturalInduction
  <2> QED
    BY <1>3, <2>1 DEF Q
<1>10. full \in Maps
  BY <1>2, <1>3
<1>11. \A k \in AllKeys : \A t : ObservedIn(Append(w, event), k, t) = ObservedIn(w, k, t) + AddsUpTo(event, N, k, t)
  BY ObservedAdds, AllRecords
<1>12. \A e \in ToSet(full) : e.key \in AllKeys
  BY <1>10, MapIs, EntryIs
<1>13. KeysUpTo(event, N) = ToSet(keys)
  BY AllRecords
<1> HIDE DEF full, N
<1>14. \A e \in ToSet(full) : \A t \in DOMAIN e.buckets :
          e.buckets[t] <= ObservedIn(Append(w, event), e.key, t)
  BY <1>2, <1>9, <1>11, <1>12 DEF P
<1>15. KeysOf(ToSet(full)) \subseteq KeysOf(ToSet(map)) \cup ToSet(EventKeys(event))
  BY <1>2, <1>9, <1>13 DEF P
<1> QED
  BY <1>10, <1>14, <1>15 DEF full

-----------------------------------------------------------------------------
\* What an event's records drop of the series E0 that were there before it.  G are
\* those that were evicted so far, also those that a later record put back.
Dropped(E0, E, G, ts) ==
    /\ \A j \in E0 \ G : \E e \in E : e.key = j.key /\ newestOf(j) <= newestOf(e)
    /\ G # {} => \E e \in E : newestOf(e) <= ts
    /\ \A i \in G, e \in E : e.key # i.key /\ (\E j \in E0 : j.key = e.key) => newestOf(i) <= newestOf(e)
    /\ \A i, k \in G : i # k => newestOf(i) <= ts

\* One more record: if it evicts, then what it evicts is no newer than what stays.
LEMMA DroppedStep ==
    ASSUME NEW E0 \in SUBSET Entries, \A i, j \in E0 : i.key = j.key => i = j,
           NEW E \in SUBSET Entries, \A e, f \in E : e.key = f.key => e = f, NEW F, NEW key \in AllKeys, NEW ts \in Nat, NEW full,
           Puts(E, F, key, ts, full), NEW G \in SUBSET E0, Dropped(E0, E, G, ts)
    PROVE  \E H \in SUBSET E0 : Dropped(E0, F, H, ts)
<1>1. /\ \A j \in E0 \ G : \E e \in E : e.key = j.key /\ newestOf(j) <= newestOf(e)
      /\ G # {} => \E e \in E : newestOf(e) <= ts
      /\ \A i \in G, e \in E : e.key # i.key /\ (\E j \in E0 : j.key = e.key) => newestOf(i) <= newestOf(e)
      /\ \A i, k \in G : i # k => newestOf(i) <= ts
  BY DEF Dropped
<1>2. (\A e \in E : newestOf(e) \in Nat) /\ (\A e \in E0 : newestOf(e) \in Nat)
  BY NewestOfIs
<1> DEFINE one == One(key, ts)
<1>3. one.key = key /\ newestOf(one) = ts
  BY OneIs
<1>4. ASSUME NEW e \in E, e.key = key, F = (E \ {e}) \cup {More(e, ts)}
      PROVE  Dropped(E0, F, G, ts)
  <2> DEFINE more == More(e, ts)
  <2>1. /\ more.key = e.key /\ newestOf(more) \in Nat
        /\ newestOf(e) <= newestOf(more) /\ (newestOf(e) <= ts => newestOf(more) <= ts)
    BY <1>2, MoreIs
  <2> HIDE DEF more
  <2>2. F = (E \ {e}) \cup {more}
    BY <1>4 DEF more
  <2>3. \A j \in E0 \ G : \E f \in F : f.key = j.key /\ newestOf(j) <= newestOf(f)
    <3> SUFFICES ASSUME NEW j \in E0 \ G PROVE \E f \in F : f.key = j.key /\ newestOf(j) <= newestOf(f)
      OBVIOUS
    <3>1. PICK f \in E : f.key = j.key /\ newestOf(j) <= newestOf(f)
      BY <1>1
    <3>2. CASE f = e
      <4>1. more.key = j.key /\ newestOf(j) <= newestOf(more) /\ more \in F
        BY <1>2, <2>1, <2>2, <3>1, <3>2
      <4> QED
        BY <4>1
    <3>3. CASE f # e
      BY <2>2, <3>1, <3>3
    <3> QED
      BY <3>2, <3>3
  <2>4. G # {} => \E f \in F : newestOf(f) <= ts
    BY <1>1, <2>1, <2>2
  <2>5. \A i \in G, f \in F : f.key # i.key /\ (\E j \in E0 : j.key = f.key) => newestOf(i) <= newestOf(f)
    <3> SUFFICES ASSUME NEW i \in G, NEW f \in F, f.key # i.key, \E j \in E0 : j.key = f.key
                 PROVE  newestOf(i) <= newestOf(f)
      OBVIOUS
    <3>1. CASE f \in E
      BY <1>1, <3>1
    <3>2. CASE f = more
      <4>1. newestOf(i) <= newestOf(e)
        BY <1>1, <2>1, <3>2
      <4> QED
        BY <1>2, <2>1, <3>2, <4>1
    <3> QED
      BY <2>2, <3>1, <3>2
  <2> QED
    BY <1>1, <2>3, <2>4, <2>5 DEF Dropped
<1>5. ASSUME \A e \in E : e.key # key PROVE \A j \in E0 : j.key = key => j \in G
  BY <1>1, <1>5
<1> HIDE DEF one
<1>6. ASSUME \A e \in E : e.key # key, F = E \cup {one}
      PROVE  Dropped(E0, F, G, ts)
  <2>1. \A j \in E0 \ G : \E f \in F : f.key = j.key /\ newestOf(j) <= newestOf(f)
    BY <1>1, <1>6
  <2>2. G # {} => \E f \in F : newestOf(f) <= ts
    BY <1>1, <1>6
  <2>3. \A i \in G, f \in F : f.key # i.key /\ (\E j \in E0 : j.key = f.key) => newestOf(i) <= newestOf(f)
    <3> SUFFICES ASSUME NEW i \in G, NEW f \in F, f.key # i.key, NEW j \in E0, j.key = f.key
                 PROVE  newestOf(i) <= newestOf(f)
      OBVIOUS
    <3>1. CASE f \in E
      BY <1>1, <3>1
    <3>2. CASE f = one
      <4>1. j \in G /\ i # j
        BY <1>3, <1>5, <1>6, <3>2
      <4> QED
        BY <1>1, <1>3, <3>2, <4>1
    <3> QED
      BY <1>6, <3>1, <3>2
  <2> QED
    BY <1>1, <2>1, <2>2, <2>3 DEF Dropped
<1>7. ASSUME \A e \in E : e.key # key,
             NEW v \in E, \A e \in E : newestOf(v) <= newestOf(e), F = (E \ {v}) \cup {one}
      PROVE  \E H \in SUBSET E0 : Dropped(E0, F, H, ts)
  <2> DEFINE H == G \cup {j \in E0 : j.key = v.key}
  <2>1. one \in F /\ newestOf(one) <= ts /\ \A e \in E : e # v => e \in F
    BY <1>3, <1>7
  <2>2. \A j \in E0 \ H : \E f \in F : f.key = j.key /\ newestOf(j) <= newestOf(f)
    <3> SUFFICES ASSUME NEW j \in E0 \ H PROVE \E f \in F : f.key = j.key /\ newestOf(j) <= newestOf(f)
      OBVIOUS
    <3>1. j \in E0 \ G /\ j.key # v.key
      OBVIOUS
    <3>2. PICK f \in E : f.key = j.key /\ newestOf(j) <= newestOf(f)
      BY <1>1, <3>1
    <3> HIDE DEF H
    <3> QED
      BY <2>1, <3>1, <3>2
  <2>3. H # {} => \E f \in F : newestOf(f) <= ts
    BY <2>1
  \* What joins the evicted is no newer than all that are left.
  <2>4. ASSUME NEW j \in E0, j \notin G, j.key = v.key
        PROVE  /\ \A e \in E : newestOf(j) <= newestOf(e)
               /\ G # {} => newestOf(j) <= ts /\ \A i \in G : newestOf(i) <= ts
    <3>1. newestOf(j) <= newestOf(v)
      <4>1. PICK e \in E : e.key = j.key /\ newestOf(j) <= newestOf(e)
        BY <1>1, <2>4
      <4> QED
        BY <2>4, <4>1
    <3>2. \A e \in E : newestOf(j) <= newestOf(e)
      BY <1>2, <1>7, <3>1
    <3>3. ASSUME G # {} PROVE newestOf(j) <= ts /\ \A i \in G : newestOf(i) <= ts
      <4>1. PICK e \in E : newestOf(e) <= ts
        BY <1>1, <3>3
      <4>2. newestOf(j) <= ts /\ newestOf(v) <= ts
        BY <1>2, <1>7, <3>2, <4>1
      <4>3. ASSUME NEW i \in G PROVE newestOf(i) <= ts
        <5>1. i.key # v.key
          BY <2>4, <4>3
        <5>2. newestOf(i) <= newestOf(v)
          BY <1>1, <2>4, <5>1
        <5> QED
          BY <1>2, <4>2, <5>2
      <4> QED
        BY <4>2, <4>3
    <3> QED
      BY <3>2, <3>3
  <2>5. ASSUME NEW i \in H, NEW k \in H, i # k PROVE newestOf(i) <= ts
    <3>1. \A x, y \in E0 : x \in H \ G /\ y \in H \ G => x = y
      OBVIOUS
    <3>2. CASE i \in G /\ k \in G
      BY <1>1, <2>5, <3>2
    <3>3. CASE i \notin G
      <4>1. k \in G
        BY <2>5, <3>1, <3>3
      <4> QED
        BY <2>4, <3>3, <4>1
    <3>4. CASE i \in G /\ k \notin G
      BY <2>4, <3>4
    <3> QED
      BY <3>2, <3>3, <3>4
  <2>6. ASSUME NEW i \in H, NEW f \in F, f.key # i.key, NEW j \in E0, j.key = f.key
        PROVE  newestOf(i) <= newestOf(f)
    <3>1. CASE f \in E
      <4>1. CASE i \in G
        BY <1>1, <2>6, <3>1, <4>1
      <4>2. CASE i \notin G
        BY <2>4, <3>1, <4>2
      <4> QED
        BY <4>1, <4>2
    <3>2. CASE f = one
      <4>1. j \in H /\ i # j
        BY <1>3, <1>5, <1>7, <2>6, <3>2
      <4>2. newestOf(i) <= ts
        BY <2>5, <4>1
      <4> QED
        BY <1>3, <3>2, <4>2
    <3> QED
      BY <1>7, <3>1, <3>2
  <2>7. H \in SUBSET E0
    OBVIOUS
  <2> HIDE DEF H
  <2>8. Dropped(E0, F, H, ts)
    BY <2>2, <2>3, <2>5, <2>6 DEF Dropped
  <2> QED
    BY <2>7, <2>8
<1>8. \/ \E e \in E : e.key = key /\ F = (E \ {e}) \cup {More(e, ts)}
      \/ /\ \A e \in E : e.key # key
         /\ \/ F = E \cup {one}
            \/ \E v \in E : (\A e \in E : newestOf(v) <= newestOf(e)) /\ F = (E \ {v}) \cup {one}
  BY DEF Puts, one
<1> QED
  BY <1>4, <1>6, <1>7, <1>8

\* The same for all the records of an event.
LEMMA WriteDrops ==
    ASSUME NEW map \in Maps, NEW event \in Events
    PROVE  LET full == PutAll(map, eventToAggregates(event, width))
           IN  \E G \in SUBSET ToSet(map) : Dropped(ToSet(map), ToSet(full), G, BucketOf(event))
<1> DEFINE keys == EventKeys(event)
           N == Len(keys)
           ts == BucketOf(event)
           E0 == ToSet(map)
           full == PutAll(map, eventToAggregates(event, width))
<1>1. PICK m : Writes(m, map, event)
  BY WritesIs
<1>2. /\ m \in [0..N -> Maps] /\ m[0] = map /\ full = m[N]
      /\ \A n \in 1..N : Puts(ToSet(m[n - 1]), ToSet(m[n]), keys[n], ts, Len(m[n - 1]) = maxSeries)
  BY <1>1 DEF Writes
<1>3. /\ N \in Nat \ {0} /\ ts \in Nat /\ \A n \in 1..N : keys[n] \in AllKeys
  BY RecordsAre, EventIs
<1>4. E0 \in SUBSET Entries /\ \A i, j \in E0 : i.key = j.key => i = j
  BY MapIs
<1> DEFINE P(n) == \E G \in SUBSET E0 : Dropped(E0, ToSet(m[n]), G, ts)
<1>5. P(0)
  <2>1. \A e \in E0 : newestOf(e) <= newestOf(e)
    BY <1>4, NewestOfIs
  <2>2. Dropped(E0, E0, {}, ts)
    BY <2>1 DEF Dropped
  <2> QED
    BY <1>2, <2>2
<1>6. ASSUME NEW n \in Nat, n + 1 \in 1..N, P(n) PROVE P(n + 1)
  <2>a. n \in 0..N /\ n + 1 \in 0..N /\ (n + 1) - 1 = n
    BY <1>3, <1>6
  <2>1. m[n] \in Maps
    BY <1>2, <2>a
  <2>2. ToSet(m[n]) \in SUBSET Entries /\ \A e, f \in ToSet(m[n]) : e.key = f.key => e = f
    BY <2>1, MapIs
  <2>3. Puts(ToSet(m[n]), ToSet(m[n + 1]), keys[n + 1], ts, Len(m[n]) = maxSeries)
    BY <1>2, <1>6, <2>a
  <2>4. PICK G \in SUBSET E0 : Dropped(E0, ToSet(m[n]), G, ts)
    BY <1>6
  <2>5. keys[n + 1] \in AllKeys
    BY <1>3, <1>6
  <2> HIDE DEF E0, ts, keys
  <2> QED
    BY <1>3, <1>4, <2>2, <2>3, <2>4, <2>5, DroppedStep
<1> HIDE DEF P
<1> DEFINE Q == {n \in Nat : n \in 0..N => P(n)}
<1>7. 0 \in Q
  BY <1>5
<1>8. ASSUME NEW n \in Nat, n \in Q PROVE n + 1 \in Q
  BY <1>3, <1>6, <1>8
<1>9. P(N)
  <2> HIDE DEF Q
  <2>1. N \in Q
    BY <1>3, <1>7, <1>8, NaturalInduction
  <2> QED
    BY <1>3, <2>1 DEF Q
<1> QED
  BY <1>2, <1>9 DEF P

\* The eviction of what has expired included.
LEMMA WriteDropsLeastRecent ==
    ASSUME NEW map \in Maps, NEW event \in Events
    PROVE  LET next == evictExpired(PutAll(map, eventToAggregates(event, width)))
           IN  \A i, j \in DOMAIN map :
                  /\ \A n \in DOMAIN next : next[n].key # map[i].key
                  /\ \E n \in DOMAIN next : next[n] = map[j]
                  => newestOf(map[i]) <= newestOf(map[j])
<1> DEFINE full == PutAll(map, eventToAggregates(event, width))
           next == evictExpired(full)
           cutoff == newestTs(full) - retention
<1>1. full \in Maps
  <2>1. PICK m : Writes(m, map, event)
    BY WritesIs
  <2>2. m \in [0..Len(EventKeys(event)) -> Maps] /\ full = m[Len(EventKeys(event))]
    BY <2>1 DEF Writes
  <2>3. Len(EventKeys(event)) \in 0..Len(EventKeys(event))
    BY RecordsAre
  <2> QED
    BY <2>2, <2>3
<1>2. PICK G \in SUBSET ToSet(map) : Dropped(ToSet(map), ToSet(full), G, BucketOf(event))
  BY WriteDrops
<1> HIDE DEF full
<1>3. cutoff \in Int
  BY <1>1, NewestTsIs, StoreAssumption
<1>4. /\ next \in Maps
      /\ \A l : l \in ToSet(next) <=>
                   \E e \in ToSet(full) : (\E t \in DOMAIN e.buckets : t >= cutoff) /\ l = Left(e, cutoff)
  BY <1>1, ExpiredIs
<1> HIDE DEF next, cutoff
<1> SUFFICES ASSUME NEW i \in DOMAIN map, NEW j \in DOMAIN map,
                    \A n \in DOMAIN next : next[n].key # map[i].key,
                    NEW n \in DOMAIN next, next[n] = map[j]
             PROVE  newestOf(map[i]) <= newestOf(map[j])
  BY DEF next, full
<1>5. map[i] \in ToSet(map) /\ map[j] \in ToSet(map) /\ map[i] \in Entries /\ map[j] \in Entries
  BY MapIs
<1>6. \A e \in ToSet(full) : e \in Entries
  BY <1>1, MapIs
<1>7. PICK e \in ToSet(full) : (\E t \in DOMAIN e.buckets : t >= cutoff) /\ map[j] = Left(e, cutoff)
  <2>1. map[j] \in ToSet(next)
    BY <1>4, MapIs
  <2> QED
    BY <1>4, <2>1
<1>8. map[j].key = e.key /\ newestOf(map[j]) = newestOf(e)
  BY <1>3, <1>6, <1>7, LeftIs
<1>9. map[i].key # map[j].key
  OBVIOUS
<1>10. /\ newestOf(map[i]) \in Nat /\ newestOf(e) \in Nat
       /\ \A t \in DOMAIN e.buckets : t \in Nat /\ t <= newestOf(e)
  BY <1>5, <1>6, NewestOfIs, EntryIs DEF IsBuckets
<1>11. newestOf(e) >= cutoff
  BY <1>3, <1>7, <1>10
<1>12. CASE map[i] \in G
  BY <1>2, <1>5, <1>8, <1>9, <1>12 DEF Dropped
<1>13. CASE map[i] \notin G
  <2>1. PICK f \in ToSet(full) : f.key = map[i].key /\ newestOf(map[i]) <= newestOf(f)
    BY <1>2, <1>5, <1>13 DEF Dropped
  <2>2. f \in Entries /\ newestOf(f) \in Nat /\ newestOf(f) \in DOMAIN f.buckets
    BY <1>6, NewestOfIs
  <2>3. ~(newestOf(f) >= cutoff)
    <3> SUFFICES ASSUME newestOf(f) >= cutoff PROVE FALSE
      OBVIOUS
    <3>1. \E t \in DOMAIN f.buckets : t >= cutoff
      BY <2>2
    <3>2. Left(f, cutoff) \in ToSet(next) /\ Left(f, cutoff).key = map[i].key
      BY <1>3, <1>4, <2>1, <2>2, <3>1, LeftIs
    <3>3. PICK p \in DOMAIN next : next[p] = Left(f, cutoff)
      BY <1>4, <3>2, MapIs
    <3> QED
      BY <3>2, <3>3
  <2> QED
    BY <1>3, <1>8, <1>10, <1>11, <2>1, <2>2, <2>3
<1> QED
  BY <1>12, <1>13

-----------------------------------------------------------------------------
\* The Map of markers.
Markers == [id : MarkerIds, ts : MarkerTimes]
DistinctIds(map) == \A i, j \in DOMAIN map : map[i].id = map[j].id => i = j

\* The time of a marker is a number.
LEMMA MarkerIs == \A m \in Markers : m.ts \in Nat
BY StoreAssumption DEF Markers

\* What Only leaves of a sequence of markers.
LEMMA OnlyMarkers ==
    ASSUME NEW s \in Seq(Markers), DistinctIds(s), NEW P \in SUBSET DOMAIN s
    PROVE  /\ Only(s, P) \in Seq(Markers) /\ DistinctIds(Only(s, P))
           /\ IsFiniteSet(P) /\ Cardinality(P) \in Nat /\ Len(Only(s, P)) = Cardinality(P)
           /\ \A m : m \in ToSet(Only(s, P)) <=> \E i \in P : s[i] = m
<1> DEFINE N == Cardinality(P)
           next == Only(s, P)
<1>1. /\ IsFiniteSet(P) /\ N \in Nat /\ next \in Seq(Markers) /\ Len(next) = N
  BY OnlyIs
<1>2. PICK at : LeadsBack(at, s, P)
  BY OnlyIs
<1>3. /\ at \in [1..N -> P]
      /\ \A n \in 1..N : next[n] = s[at[n]]
      /\ \A m, n \in 1..N : m < n => at[m] < at[n]
      /\ \A i \in P : \E n \in 1..N : at[n] = i
  BY <1>2 DEF LeadsBack
<1> HIDE DEF next, N
<1>4. DOMAIN next = 1..N
  BY <1>1
<1>5. DistinctIds(next)
  <2> SUFFICES ASSUME NEW m \in 1..N, NEW n \in 1..N, next[m].id = next[n].id PROVE m = n
    BY <1>4 DEF DistinctIds
  <2>1. at[m] = at[n] /\ at[m] \in 1..Len(s) /\ Len(s) \in Nat
    BY <1>3 DEF DistinctIds
  <2>2. ~(m < n) /\ ~(n < m)
    BY <1>3, <2>1
  <2> QED
    BY <1>1, <2>2
<1>6. ASSUME NEW m PROVE m \in ToSet(next) <=> \E i \in P : s[i] = m
  BY <1>3, <1>4 DEF ToSet
<1> QED
  BY <1>1, <1>5, <1>6 DEF next, N

\* The deletions that bring the markers under their cap take the oldest.
LEMMA CapIs ==
    ASSUME NEW s \in Seq(Markers), DistinctIds(s)
    PROVE  /\ CapMarkers(s) \in Seq(Markers) /\ DistinctIds(CapMarkers(s)) /\ Len(CapMarkers(s)) <= maxMarkers
           /\ ToSet(CapMarkers(s)) \subseteq ToSet(s)
           /\ \A m \in ToSet(s) \ ToSet(CapMarkers(s)), n \in ToSet(CapMarkers(s)) : m.ts <= n.ts
<1> DEFINE Younger(i) == {j \in DOMAIN s : s[j].ts > s[i].ts \/ (s[j].ts = s[i].ts /\ j > i)}
           size(i) == Cardinality(Younger(i))
           K == {i \in DOMAIN s : size(i) < maxMarkers}
<1>1. /\ Len(s) \in Nat /\ DOMAIN s = 1..Len(s) /\ maxMarkers \in Nat \ {0}
      /\ \A i \in DOMAIN s : s[i] \in Markers /\ s[i].ts \in Nat /\ i \in Nat
  BY StoreAssumption, MarkerIs
<1>2. CapMarkers(s) = Only(s, K)
  BY DEF CapMarkers
<1>3. /\ CapMarkers(s) \in Seq(Markers) /\ DistinctIds(CapMarkers(s))
      /\ IsFiniteSet(K) /\ Cardinality(K) \in Nat /\ Len(CapMarkers(s)) = Cardinality(K)
      /\ \A m : m \in ToSet(CapMarkers(s)) <=> \E i \in K : s[i] = m
  <2>1. K \in SUBSET DOMAIN s
    OBVIOUS
  <2> HIDE DEF K
  <2> QED
    BY <1>2, <2>1, OnlyMarkers
<1>4. IsFiniteSet(DOMAIN s)
  BY <1>1, CountTo
<1>5. \A i \in DOMAIN s : IsFiniteSet(Younger(i)) /\ size(i) \in Nat
  <2> SUFFICES ASSUME NEW i \in DOMAIN s PROVE IsFiniteSet(Younger(i)) /\ size(i) \in Nat
    OBVIOUS
  <2>1. Younger(i) \in SUBSET DOMAIN s
    OBVIOUS
  <2> HIDE DEF Younger
  <2> QED
    BY <1>4, <2>1, FS_Subset, FS_CardinalityType
<1>6. ASSUME NEW i \in DOMAIN s, NEW j \in DOMAIN s, i # j
      PROVE  j \in Younger(i) \/ i \in Younger(j)
  BY <1>1, <1>6
<1>7. ASSUME NEW i \in DOMAIN s, NEW j \in DOMAIN s, i \in Younger(j)
      PROVE  Younger(i) \subseteq Younger(j) /\ i \notin Younger(i)
  <2>1. i \notin Younger(i)
    BY <1>1
  <2>2. ASSUME NEW k \in Younger(i) PROVE k \in Younger(j)
    <3>1. /\ s[k].ts \in Nat /\ s[i].ts \in Nat /\ s[j].ts \in Nat /\ i \in Nat /\ j \in Nat /\ k \in Nat
      BY <1>1
    <3>2. s[k].ts > s[i].ts \/ (s[k].ts = s[i].ts /\ k > i)
      OBVIOUS
    <3>3. s[i].ts > s[j].ts \/ (s[i].ts = s[j].ts /\ i > j)
      BY <1>7
    <3>4. s[k].ts > s[j].ts \/ (s[k].ts = s[j].ts /\ k > j)
      BY <3>1, <3>2, <3>3
    <3> QED
      BY <3>4
  <2> QED
    BY <2>1, <2>2
<1> HIDE DEF Younger
<1>8. ASSUME NEW i \in DOMAIN s, NEW j \in DOMAIN s, i \in Younger(j) PROVE size(i) < size(j)
  <2>1. Younger(i) \in SUBSET (Younger(j) \ {i})
    BY <1>7, <1>8
  <2>2. IsFiniteSet(Younger(j) \ {i}) /\ Cardinality(Younger(j) \ {i}) = size(j) - 1
    BY <1>5, <1>8, FS_RemoveElement
  <2>3. size(i) <= Cardinality(Younger(j) \ {i})
    BY <2>1, <2>2, FS_Subset
  <2> QED
    BY <1>5, <2>2, <2>3
<1>9. Cardinality(K) <= maxMarkers
  <2>0. K = {} => Cardinality(K) <= maxMarkers
    <3> HIDE DEF K
    <3> QED
      BY <1>1, FS_EmptySet
  <2> SUFFICES ASSUME K # {} PROVE Cardinality(K) <= maxMarkers
    BY <2>0
  <2> DEFINE T == {size(i) : i \in K}
             sizes == [i \in K |-> size(i)]
  <2>1. T \in SUBSET Nat /\ T # {}
    BY <1>5
  <2>2. IsFiniteSet(T)
    <3>1. T = {sizes[i] : i \in K}
      OBVIOUS
    <3> HIDE DEF K, T, sizes
    <3> QED
      BY <1>3, <3>1, ImageIsFinite
  <2>3. Max(T) \in T /\ \A m \in T : m <= Max(T)
    <3> HIDE DEF T
    <3> QED
      BY <2>1, <2>2, GreatestNatural
  <2>4. PICK i \in K : \A j \in K : size(j) <= size(i)
    BY <2>3
  <2>5. i \in DOMAIN s /\ size(i) \in Nat /\ size(i) < maxMarkers
    BY <1>5
  <2>6. K \ {i} \in SUBSET Younger(i)
    <3> SUFFICES ASSUME NEW j \in K, j # i PROVE j \in Younger(i)
      OBVIOUS
    <3>1. j \in DOMAIN s /\ size(j) <= size(i) /\ size(j) \in Nat
      BY <1>5, <2>4
    <3> HIDE DEF size
    <3> QED
      BY <1>6, <1>8, <2>5, <3>1
  <2> HIDE DEF K
  <2>7. IsFiniteSet(K \ {i}) /\ Cardinality(K \ {i}) = Cardinality(K) - 1
    BY <1>3, FS_RemoveElement
  <2>8. Cardinality(K \ {i}) <= size(i)
    BY <1>5, <2>5, <2>6, FS_Subset
  <2> QED
    BY <1>1, <1>3, <2>5, <2>7, <2>8
<1>10. ASSUME NEW i \in DOMAIN s \ K, NEW k \in K PROVE s[i].ts <= s[k].ts
  <2>1. k \in DOMAIN s /\ size(k) < maxMarkers /\ ~(size(i) < maxMarkers) /\ i # k
    BY <1>10
  <2>2. ~(size(i) < size(k))
    BY <1>1, <1>5, <2>1
  <2>3. k \in Younger(i)
    <3> HIDE DEF size
    <3> QED
      BY <1>6, <1>8, <2>1, <2>2
  <2> QED
    BY <1>1, <2>1, <2>3 DEF Younger
<1>11. ToSet(CapMarkers(s)) \subseteq ToSet(s)
  BY <1>3 DEF ToSet
<1>12. ASSUME NEW m \in ToSet(s) \ ToSet(CapMarkers(s)), NEW n \in ToSet(CapMarkers(s)) PROVE m.ts <= n.ts
  <2>1. PICK i \in DOMAIN s : s[i] = m
    BY DEF ToSet
  <2>2. PICK k \in K : s[k] = n
    BY <1>3
  <2>3. i \notin K
    BY <1>3, <2>1
  <2> HIDE DEF K
  <2> QED
    BY <1>10, <2>1, <2>2, <2>3
<1> QED
  BY <1>1, <1>3, <1>9, <1>11, <1>12

\* What a new marker does to the Map.
LEMMA MarkedIs ==
    ASSUME NEW s \in Seq(Markers), DistinctIds(s), NEW m \in Markers, \A i \in DOMAIN s : s[i].id # m.id
    PROVE  LET next == evictMarkers(SetMarker(s, m))
           IN  /\ next \in Seq(Markers) /\ DistinctIds(next) /\ Len(next) <= maxMarkers
               /\ \A x \in ToSet(s) \ ToSet(next), y \in ToSet(next) : x.ts <= y.ts
<1> DEFINE t == Append(s, m)
           times == {t[i].ts : i \in DOMAIN t}
           cutoff == Newest(times) - retention
           P == {i \in DOMAIN t : t[i].ts >= cutoff}
           u == Only(t, P)
           next == CapMarkers(u)
<1>1. SetMarker(s, m) = t
  <2> DEFINE I == {i \in 1..Len(s) : s[i].id = m.id}
  <2>1. I = {}
    OBVIOUS
  <2>2. SelectInSeq(s, LAMBDA x : x.id = m.id) = 0
    BY <2>1 DEF SelectInSeq
  <2> QED
    BY <2>2 DEF SetMarker
<1>2. /\ t \in Seq(Markers) /\ DOMAIN t = 1..(Len(s) + 1) /\ Len(s) \in Nat
      /\ \A i \in 1..Len(s) : t[i] = s[i] /\ t[Len(s) + 1] = m
  OBVIOUS
<1>3. DistinctIds(t)
  <2>1. t[Len(s) + 1] = m
    OBVIOUS
  <2> SUFFICES ASSUME NEW i \in DOMAIN t, NEW j \in DOMAIN t, t[i].id = t[j].id PROVE i = j
    BY DEF DistinctIds
  <2>2. \A k \in DOMAIN t : k \in DOMAIN s \/ k = Len(s) + 1
    BY <1>2
  <2>3. CASE i \in DOMAIN s /\ j \in DOMAIN s
    BY <1>2, <2>3 DEF DistinctIds
  <2> HIDE DEF t
  <2> QED
    BY <1>2, <2>1, <2>2, <2>3
<1>4. ToSet(s) \subseteq ToSet(t)
  BY <1>2 DEF ToSet
<1> HIDE DEF t
<1>5. evictMarkers(t) = next
  BY DEF evictMarkers
<1>6. times \in SUBSET Nat /\ IsFiniteSet(times)
  <2>1. \A i \in DOMAIN t : t[i].ts \in Nat
    BY <1>2, MarkerIs
  <2>2. IsFiniteSet(DOMAIN t)
    <3>1. Len(s) + 1 \in Nat
      BY <1>2
    <3> QED
      BY <1>2, <3>1, CountTo
  <2> DEFINE at == [i \in DOMAIN t |-> t[i].ts]
  <2>3. times = {at[i] : i \in DOMAIN t}
    OBVIOUS
  <2>4. times \in SUBSET Nat
    BY <2>1
  <2> HIDE DEF at, times
  <2> QED
    BY <2>2, <2>3, <2>4, ImageIsFinite
<1>7. cutoff \in Int
  <2> HIDE DEF times
  <2> QED
    BY <1>6, NewestIs, StoreAssumption
<1> HIDE DEF times, cutoff
<1>8. P \in SUBSET DOMAIN t
  OBVIOUS
<1>9. /\ u \in Seq(Markers) /\ DistinctIds(u) /\ \A x : x \in ToSet(u) <=> \E i \in P : t[i] = x
  <2> HIDE DEF P
  <2> QED
    BY <1>2, <1>3, <1>8, OnlyMarkers
<1>10. /\ next \in Seq(Markers) /\ DistinctIds(next) /\ Len(next) <= maxMarkers
       /\ ToSet(next) \subseteq ToSet(u)
       /\ \A x \in ToSet(u) \ ToSet(next), y \in ToSet(next) : x.ts <= y.ts
  <2> HIDE DEF u
  <2> QED
    BY <1>9, CapIs
<1> HIDE DEF u, next
<1>11. ASSUME NEW x \in ToSet(s) \ ToSet(next), NEW y \in ToSet(next) PROVE x.ts <= y.ts
  <2>1. PICK i \in DOMAIN t : t[i] = x
    BY <1>4 DEF ToSet
  <2>2. PICK j \in P : t[j] = y
    BY <1>9, <1>10
  <2>3. x.ts \in Nat /\ y.ts \in Nat /\ y.ts >= cutoff
    <3>1. x \in Markers /\ y \in Markers
      BY <1>2, <2>1, <2>2
    <3> QED
      BY <2>2, <3>1, MarkerIs
  <2>4. CASE i \in P
    BY <1>9, <1>10, <2>1, <2>4
  <2>5. CASE i \notin P
    <3>1. ~(x.ts >= cutoff)
      BY <2>1, <2>5
    <3> QED
      BY <1>7, <2>3, <3>1
  <2> QED
    BY <2>4, <2>5
<1> QED
  BY <1>1, <1>5, <1>10, <1>11

-----------------------------------------------------------------------------
\* What is stored, and the buckets there are.
LEMMA StoredSome ==
    ASSUME NEW map \in Maps, NEW key, NEW t
    PROVE  /\ StoredIn(map, key, t) \in Nat
           /\ StoredIn(map, key, t) > 0 <=> \E e \in ToSet(map) : e.key = key /\ t \in DOMAIN e.buckets
<1>1. /\ \A e \in ToSet(map) : e.key = key => StoredIn(map, key, t) = Amount(e, t)
      /\ (\A e \in ToSet(map) : e.key # key) => StoredIn(map, key, t) = 0
      /\ StoredIn(map, key, t) \in Nat
  BY StoredIs
<1>2. CASE \E e \in ToSet(map) : e.key = key
  <2>1. PICK e \in ToSet(map) : e.key = key
    BY <1>2
  <2>2. e \in Entries /\ \A f \in ToSet(map) : f.key = key => f = e
    BY <2>1, MapIs
  <2>3. IsBuckets(e.buckets)
    BY <2>2, EntryIs
  <2>4. t \in DOMAIN e.buckets => e.buckets[t] \in Nat /\ e.buckets[t] > 0
    BY <2>3 DEF IsBuckets
  <2>5. StoredIn(map, key, t) = IF t \in DOMAIN e.buckets THEN e.buckets[t] ELSE 0
    BY <1>1, <2>1 DEF Amount
  <2> QED
    BY <1>1, <2>1, <2>2, <2>4, <2>5
<1>3. CASE ~\E e \in ToSet(map) : e.key = key
  BY <1>1, <1>3
<1> QED
  BY <1>2, <1>3

\* Something was observed in a bucket if an event of it was written.
LEMMA ObservedSome ==
    ASSUME NEW w \in Seq(Events), NEW key, NEW t
    PROVE  /\ ObservedIn(w, key, t) \in Nat
           /\ ObservedIn(w, key, t) > 0 <=> \E i \in DOMAIN w : CountsIn(w[i], key) /\ BucketOf(w[i]) = t
<1> DEFINE I == {i \in DOMAIN w : CountsIn(w[i], key) /\ BucketOf(w[i]) = t}
<1>1. Len(w) \in Nat /\ DOMAIN w = 1..Len(w) /\ I \in SUBSET (1..Len(w))
  OBVIOUS
<1>2. ObservedIn(w, key, t) = Cardinality(I)
  BY DEF ObservedIn
<1>3. I # {} <=> \E i \in DOMAIN w : CountsIn(w[i], key) /\ BucketOf(w[i]) = t
  OBVIOUS
<1> HIDE DEF I
<1>4. IsFiniteSet(I) /\ Cardinality(I) \in Nat
  BY <1>1, CountTo, FS_Subset, FS_CardinalityType
<1>5. Cardinality(I) = 0 <=> I = {}
  BY <1>4, FS_EmptySet
<1> QED
  BY <1>2, <1>3, <1>4, <1>5

\* What the eviction of expired buckets leaves stored.
LEMMA StoredLeft ==
    ASSUME NEW map \in Maps, NEW key, NEW t \in Nat
    PROVE  StoredIn(evictExpired(map), key, t) =
              IF t >= newestTs(map) - retention THEN StoredIn(map, key, t) ELSE 0
<1> DEFINE next == evictExpired(map)
           cutoff == newestTs(map) - retention
<1>1. cutoff \in Int
  BY NewestTsIs, StoreAssumption
<1>2. /\ next \in Maps
      /\ \A l : l \in ToSet(next) <=>
                   \E e \in ToSet(map) : (\E u \in DOMAIN e.buckets : u >= cutoff) /\ l = Left(e, cutoff)
  BY ExpiredIs
<1> HIDE DEF next, cutoff
<1>3. \A e \in ToSet(map) : e \in Entries /\ \A f \in ToSet(map) : f.key = e.key => f = e
  BY MapIs
<1>4. CASE \E e \in ToSet(map) : e.key = key /\ t \in DOMAIN e.buckets /\ t >= cutoff
  <2>1. PICK e \in ToSet(map) : e.key = key /\ t \in DOMAIN e.buckets /\ t >= cutoff
    BY <1>4
  <2>2. e \in Entries
    BY <1>3
  <2> DEFINE l == Left(e, cutoff)
  <2>3. l \in ToSet(next)
    BY <1>2, <2>1
  <2>4. l.key = key /\ t \in DOMAIN l.buckets /\ l.buckets[t] = e.buckets[t]
    BY <1>1, <2>1, <2>2, LeftIs
  <2> HIDE DEF l
  <2>5. StoredIn(next, key, t) = Amount(l, t) /\ StoredIn(map, key, t) = Amount(e, t)
    BY <1>2, <2>1, <2>3, <2>4, StoredIs
  <2>6. Amount(l, t) = Amount(e, t)
    BY <2>1, <2>4 DEF Amount
  <2> QED
    BY <2>1, <2>5, <2>6 DEF next, cutoff
<1>5. CASE ~\E e \in ToSet(map) : e.key = key /\ t \in DOMAIN e.buckets /\ t >= cutoff
  <2>1. StoredIn(next, key, t) = 0
    <3> SUFFICES ASSUME StoredIn(next, key, t) > 0 PROVE FALSE
      BY <1>2, StoredSome
    <3>1. PICK l \in ToSet(next) : l.key = key /\ t \in DOMAIN l.buckets
      BY <1>2, StoredSome
    <3>2. PICK e \in ToSet(map) : (\E u \in DOMAIN e.buckets : u >= cutoff) /\ l = Left(e, cutoff)
      BY <1>2, <3>1
    <3>3. e \in Entries
      BY <1>3
    <3>4. l.key = e.key /\ DOMAIN l.buckets = {u \in DOMAIN e.buckets : u >= cutoff}
      BY <1>1, <3>2, <3>3, LeftIs
    <3> QED
      BY <1>5, <3>1, <3>4
  <2>2. t >= cutoff => StoredIn(map, key, t) = 0
    <3>1. t >= cutoff => ~(StoredIn(map, key, t) > 0)
      BY <1>5, StoredSome
    <3> QED
      BY <3>1, StoredSome
  <2> QED
    BY <2>1, <2>2 DEF next, cutoff
<1> QED
  BY <1>4, <1>5

-----------------------------------------------------------------------------
\* What was written, as operators of the observer.
TsOf(w) == {BucketOf(w[i]) : i \in DOMAIN w}
SeriesIn(w) == UNION {ToSet(EventKeys(w[i])) : i \in DOMAIN w}

\* The buckets and the series written to, when one more event is.
LEMMA WrittenMore ==
    ASSUME NEW w \in Seq(Events), NEW event \in Events
    PROVE  /\ TsOf(w) \in SUBSET Nat /\ IsFiniteSet(TsOf(w))
           /\ TsOf(Append(w, event)) = TsOf(w) \cup {BucketOf(event)}
           /\ IsFiniteSet(SeriesIn(w))
           /\ SeriesIn(Append(w, event)) = SeriesIn(w) \cup ToSet(EventKeys(event))
<1> DEFINE L == Len(w)
           next == Append(w, event)
<1>1. L \in Nat /\ DOMAIN w = 1..L /\ \A i \in 1..L : w[i] \in Events
  OBVIOUS
<1>2. DOMAIN next = 1..(L + 1) /\ next[L + 1] = event /\ \A i \in 1..L : next[i] = w[i]
  BY <1>1
<1>3. 1..(L + 1) = (1..L) \cup {L + 1}
  BY <1>1
<1> HIDE DEF next, L
<1>4. TsOf(next) = TsOf(w) \cup {BucketOf(event)}
  BY <1>1, <1>2, <1>3 DEF TsOf
<1>5. SeriesIn(next) = SeriesIn(w) \cup ToSet(EventKeys(event))
  BY <1>1, <1>2, <1>3 DEF SeriesIn
<1>6. TsOf(w) \in SUBSET Nat
  BY <1>1, EventIs DEF TsOf
<1>7. IsFiniteSet(1..L)
  BY <1>1, CountTo
<1>8. IsFiniteSet(TsOf(w))
  <2> DEFINE f == [i \in 1..L |-> BucketOf(w[i])]
  <2>1. TsOf(w) = {f[i] : i \in 1..L}
    BY <1>1 DEF TsOf
  <2>2. IsFiniteSet({f[i] : i \in 1..L})
    <3> HIDE DEF f
    <3> QED
      BY <1>7, ImageIsFinite
  <2> QED
    BY <2>1, <2>2
<1>9. IsFiniteSet(SeriesIn(w))
  <2> DEFINE f == [i \in 1..L |-> ToSet(EventKeys(w[i]))]
             all == {f[i] : i \in 1..L}
  <2>1. SeriesIn(w) = UNION all
    BY <1>1 DEF SeriesIn
  <2>2. IsFiniteSet(all)
    <3> HIDE DEF f
    <3> QED
      BY <1>7, ImageIsFinite
  <2>3. \A K \in all : IsFiniteSet(K)
    <3> SUFFICES ASSUME NEW i \in 1..L PROVE IsFiniteSet(ToSet(EventKeys(w[i])))
      OBVIOUS
    <3> DEFINE keys == EventKeys(w[i])
    <3>1. Len(keys) \in Nat /\ DOMAIN keys = 1..Len(keys)
      BY <1>1, RecordsAre
    <3>2. ToSet(keys) = {keys[n] : n \in 1..Len(keys)}
      BY <3>1 DEF ToSet
    <3> HIDE DEF keys
    <3>3. IsFiniteSet(1..Len(keys))
      BY <3>1, CountTo
    <3> QED
      BY <3>2, <3>3, ImageIsFinite DEF keys
  <2> HIDE DEF all
  <2> QED
    BY <2>1, <2>2, <2>3, FS_UNION
<1> QED
  BY <1>4, <1>5, <1>6, <1>8, <1>9 DEF next

-----------------------------------------------------------------------------
\* The inductive invariant, of a Map of series and the events written to it.
NoMore(map, w) ==
    /\ \A e \in ToSet(map) : \A t \in DOMAIN e.buckets :
          e.buckets[t] <= ObservedIn(w, e.key, t) /\ t >= newestTs(map) - retention
    /\ KeysOf(ToSet(map)) \subseteq SeriesIn(w)

Fits(w) == Cardinality(SeriesIn(w)) <= maxSeries

Exact(map, w) ==
    Fits(w) => \A key \in AllKeys, t \in Nat :
                  StoredIn(map, key, t) =
                    IF t >= Newest(TsOf(w)) - retention THEN ObservedIn(w, key, t) ELSE 0

\* The newest bucket in the Map, an event's records put, is the newest written.
LEMMA NewestIsWritten ==
    ASSUME NEW map \in Maps, NEW w \in Seq(Events), NEW event \in Events, Exact(map, w), Fits(w),
           NEW full \in Maps, \A k, t : StoredIn(full, k, t) = StoredIn(map, k, t) + Adds(event, k, t)
    PROVE  newestTs(full) = Newest(TsOf(Append(w, event)))
<1> DEFINE T == TsOf(w)
           ts == BucketOf(event)
           h == newestTs(full)
<1>1. T \in SUBSET Nat /\ IsFiniteSet(T) /\ TsOf(Append(w, event)) = T \cup {ts}
  BY WrittenMore
<1>2. ts \in Nat /\ retention \in Nat
  BY EventIs, StoreAssumption
<1>3. /\ h \in Nat
      /\ \A e \in ToSet(full) : \A t \in DOMAIN e.buckets : t <= h
      /\ full # <<>> => \E e \in ToSet(full) : h \in DOMAIN e.buckets
  BY NewestTsIs
<1>4. /\ Newest(T) \in Nat /\ \A t \in T : t <= Newest(T)
      /\ T # {} => Newest(T) \in T
      /\ T = {} => Newest(T) = 0
  BY <1>1, NewestIs
<1>5. \A key \in AllKeys, t \in Nat :
         StoredIn(map, key, t) = IF t >= Newest(T) - retention THEN ObservedIn(w, key, t) ELSE 0
  BY DEF Exact
<1>6. \A e \in ToSet(full) : e \in Entries
  BY MapIs
<1> HIDE DEF T, ts, h
<1>7. \A k, t : StoredIn(full, k, t) > 0 => t <= h
  BY <1>3, StoredSome
<1>8. \A k, t : StoredIn(map, k, t) \in Nat /\ Adds(event, k, t) \in Nat
  BY StoredIs DEF Adds
<1>9. ts <= h /\ full # <<>>
  <2>1. PICK k : k \in ToSet(EventKeys(event))
    <3>1. EventKeys(event)[1] \in ToSet(EventKeys(event))
      BY RecordsAre DEF ToSet
    <3> QED
      BY <3>1
  <2>2. Adds(event, k, ts) = 1
    BY <2>1 DEF Adds, ts
  <2>3. StoredIn(full, k, ts) > 0
    BY <1>8, <2>2
  <2>4. \E e \in ToSet(full) : e.key = k
    BY <2>3, StoredSome
  <2> QED
    BY <1>7, <2>3, <2>4 DEF ToSet
<1>10. \A t \in T : t <= h
  <2>1. T # {} => Newest(T) <= h
    <3> SUFFICES ASSUME T # {} PROVE Newest(T) <= h
      OBVIOUS
    <3>1. PICK i \in DOMAIN w : BucketOf(w[i]) = Newest(T)
      BY <1>4 DEF T, TsOf
    <3>2. w[i] \in Events
      OBVIOUS
    <3>3. PICK k : k \in ToSet(EventKeys(w[i]))
      <4>1. EventKeys(w[i])[1] \in ToSet(EventKeys(w[i]))
        BY <3>2, RecordsAre DEF ToSet
      <4> QED
        BY <4>1
    <3>4. k \in AllKeys
      BY <3>2, <3>3, EventIs
    <3>5. CountsIn(w[i], k)
      BY <3>2, <3>3, <3>4, CountsInIs
    <3>6. ObservedIn(w, k, Newest(T)) \in Nat /\ ObservedIn(w, k, Newest(T)) > 0
      BY <3>1, <3>5, ObservedSome
    <3>7. StoredIn(map, k, Newest(T)) > 0
      <4>1. Newest(T) >= Newest(T) - retention
        BY <1>2, <1>4
      <4>2. StoredIn(map, k, Newest(T)) = ObservedIn(w, k, Newest(T))
        BY <1>4, <1>5, <3>4, <4>1
      <4> QED
        BY <3>6, <4>2
    <3>8. StoredIn(full, k, Newest(T)) > 0
      <4>1. StoredIn(full, k, Newest(T)) = StoredIn(map, k, Newest(T)) + Adds(event, k, Newest(T))
        OBVIOUS
      <4>2. StoredIn(map, k, Newest(T)) \in Nat /\ Adds(event, k, Newest(T)) \in Nat
        BY <1>8
      <4> QED
        BY <3>7, <4>1, <4>2
    <3> QED
      BY <1>7, <3>8
  <2> QED
    BY <1>1, <1>3, <1>4, <2>1
<1>11. h \in T \cup {ts}
  <2>1. PICK e \in ToSet(full) : h \in DOMAIN e.buckets
    BY <1>3, <1>9
  <2> DEFINE k == e.key
  <2>2. k \in AllKeys
    BY <1>6, <2>1, EntryIs
  <2>3. StoredIn(full, k, h) > 0
    BY <2>1, StoredSome
  <2> HIDE DEF k
  <2>4. CASE Adds(event, k, h) = 0
    <3>1. StoredIn(map, k, h) > 0
      <4>1. StoredIn(full, k, h) = StoredIn(map, k, h) + Adds(event, k, h)
        OBVIOUS
      <4> QED
        BY <1>8, <2>3, <2>4, <4>1
    <3>2. StoredIn(map, k, h) = ObservedIn(w, k, h)
      <4>1. StoredIn(map, k, h) = IF h >= Newest(T) - retention THEN ObservedIn(w, k, h) ELSE 0
        BY <1>3, <1>5, <2>2
      <4> QED
        BY <3>1, <4>1
    <3>3. \E i \in DOMAIN w : BucketOf(w[i]) = h
      BY <3>1, <3>2, ObservedSome
    <3> QED
      BY <3>3 DEF T, TsOf
  <2>5. CASE Adds(event, k, h) # 0
    BY <2>5 DEF Adds, ts
  <2> QED
    BY <2>4, <2>5
<1>12. Newest(T \cup {ts}) = h
  <2>1. T \cup {ts} \in SUBSET Nat /\ IsFiniteSet(T \cup {ts})
    BY <1>1, <1>2, FS_AddElement
  <2> QED
    BY <1>3, <1>9, <1>10, <1>11, <2>1, NewestBetween
<1> QED
  BY <1>1, <1>12 DEF h

\* A write keeps the inductive invariant of the Map of series.
LEMMA WriteInvariant ==
    ASSUME NEW map \in Maps, NEW w \in Seq(Events), NEW event \in Events, NoMore(map, w), Exact(map, w)
    PROVE  LET next == evictExpired(PutAll(map, eventToAggregates(event, width)))
           IN  next \in Maps /\ NoMore(next, Append(w, event)) /\ Exact(next, Append(w, event))
<1> DEFINE full == PutAll(map, eventToAggregates(event, width))
           next == evictExpired(full)
           more == Append(w, event)
           cutoff == newestTs(full) - retention
<1>1. /\ full \in Maps
      /\ KeysOf(ToSet(full)) \subseteq KeysOf(ToSet(map)) \cup ToSet(EventKeys(event))
      /\ \A e \in ToSet(full) : \A t \in DOMAIN e.buckets : e.buckets[t] <= ObservedIn(more, e.key, t)
  BY WriteBounds DEF NoMore
<1>2. /\ IsFiniteSet(SeriesIn(w)) /\ SeriesIn(more) = SeriesIn(w) \cup ToSet(EventKeys(event))
      /\ TsOf(w) \in SUBSET Nat /\ IsFiniteSet(TsOf(w)) /\ TsOf(more) = TsOf(w) \cup {BucketOf(event)}
      /\ more \in Seq(Events)
  BY WrittenMore
<1>3. IsFiniteSet(SeriesIn(more)) /\ TsOf(more) \in SUBSET Nat /\ IsFiniteSet(TsOf(more))
  <2>1. more \in Seq(Events)
    BY <1>2
  <2> HIDE DEF more
  <2> QED
    BY <2>1, WrittenMore
<1>a. Fits(more) => \A k, t : StoredIn(full, k, t) = StoredIn(map, k, t) + Adds(event, k, t)
  <2> SUFFICES ASSUME Fits(more)
               PROVE  \A k, t : StoredIn(full, k, t) = StoredIn(map, k, t) + Adds(event, k, t)
    OBVIOUS
  <2> DEFINE U == SeriesIn(more)
  <2>1. /\ IsFiniteSet(U) /\ Cardinality(U) <= maxSeries
        /\ KeysOf(ToSet(map)) \subseteq U /\ ToSet(EventKeys(event)) \subseteq U
    BY <1>2, <1>3 DEF NoMore, Fits
  <2> HIDE DEF U
  <2> QED
    BY <2>1, FitCounts
<1> HIDE DEF full, more
<1>4. /\ next \in Maps
      /\ \A l : l \in ToSet(next) <=>
                   \E e \in ToSet(full) : (\E t \in DOMAIN e.buckets : t >= cutoff) /\ l = Left(e, cutoff)
  BY <1>1, ExpiredIs
<1>5. newestTs(full) \in Nat /\ cutoff \in Int
  BY <1>1, NewestTsIs, StoreAssumption
<1>6. \A e \in ToSet(full) : e \in Entries
  BY <1>1, MapIs
<1>7. \A l \in ToSet(next) : /\ \A t \in DOMAIN l.buckets : l.buckets[t] <= ObservedIn(more, l.key, t) /\ t >= cutoff
                             /\ l.key \in KeysOf(ToSet(full))
  <2> HIDE DEF next, cutoff
  <2> SUFFICES ASSUME NEW l \in ToSet(next)
               PROVE  /\ \A t \in DOMAIN l.buckets : l.buckets[t] <= ObservedIn(more, l.key, t) /\ t >= cutoff
                      /\ l.key \in KeysOf(ToSet(full))
    OBVIOUS
  <2>1. PICK e \in ToSet(full) : (\E t \in DOMAIN e.buckets : t >= cutoff) /\ l = Left(e, cutoff)
    BY <1>4
  <2>2. /\ l.key = e.key /\ DOMAIN l.buckets = {t \in DOMAIN e.buckets : t >= cutoff}
        /\ \A t \in DOMAIN l.buckets : l.buckets[t] = e.buckets[t]
    BY <1>5, <1>6, <2>1, LeftIs
  <2> QED
    BY <1>1, <2>1, <2>2 DEF KeysOf
<1>8. newestTs(next) <= newestTs(full)
  <2> HIDE DEF next
  <2>1. next = <<>> => newestTs(next) = 0
    BY <1>4, NewestTsIs
  <2>2. next # <<>> => \E l \in ToSet(next) : newestTs(next) \in DOMAIN l.buckets
    BY <1>4, NewestTsIs
  <2>3. ASSUME NEW l \in ToSet(next), NEW t \in DOMAIN l.buckets PROVE t <= newestTs(full)
    <3>1. PICK e \in ToSet(full) : (\E u \in DOMAIN e.buckets : u >= cutoff) /\ l = Left(e, cutoff)
      BY <1>4, <2>3
    <3>2. DOMAIN l.buckets = {u \in DOMAIN e.buckets : u >= cutoff}
      BY <1>5, <1>6, <3>1, LeftIs
    <3> QED
      BY <1>1, <2>3, <3>1, <3>2, NewestTsIs
  <2> QED
    BY <1>5, <2>1, <2>2, <2>3
<1>9. NoMore(next, more)
  <2>1. KeysOf(ToSet(next)) \subseteq SeriesIn(more)
    <3>1. KeysOf(ToSet(next)) \subseteq KeysOf(ToSet(full))
      BY <1>7 DEF KeysOf
    <3>2. KeysOf(ToSet(map)) \subseteq SeriesIn(w)
      BY DEF NoMore
    <3> HIDE DEF next
    <3> QED
      BY <1>1, <1>2, <3>1, <3>2
  <2>2. ASSUME NEW l \in ToSet(next), NEW t \in DOMAIN l.buckets
        PROVE  l.buckets[t] <= ObservedIn(more, l.key, t) /\ t >= newestTs(next) - retention
    <3>1. l.buckets[t] <= ObservedIn(more, l.key, t) /\ t >= newestTs(full) - retention
      BY <1>7, <2>2
    <3> HIDE DEF next
    <3>2. l \in Entries /\ newestTs(next) \in Nat
      BY <1>4, <2>2, MapIs, NewestTsIs
    <3>3. t \in Nat
      BY <2>2, <3>2, EntryIs DEF IsBuckets
    <3> QED
      BY <1>5, <1>8, <3>1, <3>2, <3>3, StoreAssumption
  <2> HIDE DEF next
  <2> QED
    BY <2>1, <2>2 DEF NoMore
<1>10. Exact(next, more)
  <2> SUFFICES ASSUME Fits(more), NEW key \in AllKeys, NEW t \in Nat
               PROVE  StoredIn(next, key, t) =
                        IF t >= Newest(TsOf(more)) - retention THEN ObservedIn(more, key, t) ELSE 0
    BY DEF Exact
  <2>1. Fits(w)
    <3>1. SeriesIn(w) \in SUBSET SeriesIn(more)
      BY <1>2
    <3>2. Cardinality(SeriesIn(w)) <= Cardinality(SeriesIn(more))
      BY <1>3, <3>1, FS_Subset
    <3>3. Cardinality(SeriesIn(w)) \in Nat /\ Cardinality(SeriesIn(more)) \in Nat /\ maxSeries \in Nat
      BY <1>2, <1>3, FS_CardinalityType, StoreAssumption
    <3> QED
      BY <3>2, <3>3 DEF Fits
  <2>2. \A k, u : StoredIn(full, k, u) = StoredIn(map, k, u) + Adds(event, k, u)
    BY <1>a
  <2>3. newestTs(full) = Newest(TsOf(more))
    BY <1>1, <2>1, <2>2, NewestIsWritten DEF more
  <2>4. StoredIn(next, key, t) = IF t >= newestTs(full) - retention THEN StoredIn(full, key, t) ELSE 0
    BY <1>1, StoredLeft
  <2>5. ASSUME t >= newestTs(full) - retention PROVE StoredIn(full, key, t) = ObservedIn(more, key, t)
    <3>1. Newest(TsOf(w)) \in Nat /\ Newest(TsOf(w)) <= newestTs(full)
      <4>1. TsOf(more) \in SUBSET Nat /\ IsFiniteSet(TsOf(more))
        BY <1>3
      <4>2. /\ Newest(TsOf(w)) \in Nat /\ (TsOf(w) # {} => Newest(TsOf(w)) \in TsOf(w))
            /\ (TsOf(w) = {} => Newest(TsOf(w)) = 0)
        BY <1>2, NewestIs
      <4>3. /\ Newest(TsOf(more)) \in Nat /\ \A u \in TsOf(more) : u <= Newest(TsOf(more))
        BY <4>1, NewestIs
      <4>4. TsOf(w) \subseteq TsOf(more)
        BY <1>2
      <4> QED
        BY <2>3, <4>2, <4>3, <4>4
    <3>2. t >= Newest(TsOf(w)) - retention
      BY <1>5, <2>5, <3>1, StoreAssumption
    <3>3. StoredIn(map, key, t) = ObservedIn(w, key, t)
      BY <2>1, <3>2 DEF Exact
    <3>4. ObservedIn(more, key, t) = ObservedIn(w, key, t) + Adds(event, key, t)
      BY ObservedAdds DEF more
    <3>5. StoredIn(full, key, t) = StoredIn(map, key, t) + Adds(event, key, t)
      BY <2>2
    <3> QED
      BY <3>3, <3>4, <3>5
  <2> HIDE DEF next
  <2> QED
    BY <2>3, <2>4, <2>5
<1> QED
  BY <1>4, <1>9, <1>10 DEF full, more

-----------------------------------------------------------------------------
StoreIInv ==
    /\ series \in Maps /\ written \in Seq(Events)
    /\ markers \in Seq(Markers) /\ DistinctIds(markers) /\ Len(markers) <= maxMarkers
    /\ NoMore(series, written) /\ Exact(series, written)

\* The empty store satisfies the invariant.
LEMMA StoreInitIInv == Init => StoreIInv
<1> SUFFICES ASSUME Init PROVE StoreIInv
  OBVIOUS
<1>1. series = <<>> /\ markers = <<>> /\ written = <<>> /\ maxSeries \in Nat /\ maxMarkers \in Nat
  BY StoreAssumption DEF Init
<1>2. series \in Maps /\ ToSet(series) = {}
  BY <1>1 DEF Maps, DistinctKeys, ToSet
<1>3. \A key, t : StoredIn(series, key, t) = 0 /\ ObservedIn(written, key, t) = 0
  <2> SUFFICES ASSUME NEW key, NEW t PROVE StoredIn(series, key, t) = 0 /\ ObservedIn(written, key, t) = 0
    OBVIOUS
  <2>1. StoredIn(series, key, t) = 0
    BY <1>2, StoredIs
  <2>2. written \in Seq(Events) /\ DOMAIN written = {}
    BY <1>1
  <2>3. ObservedIn(written, key, t) = 0
    <3>1. written \in Seq(Events)
      BY <2>2
    <3>2. /\ ObservedIn(written, key, t) \in Nat
          /\ ObservedIn(written, key, t) > 0 =>
                \E i \in DOMAIN written : CountsIn(written[i], key) /\ BucketOf(written[i]) = t
      BY <3>1, ObservedSome
    <3> QED
      BY <2>2, <3>2
  <2> QED
    BY <2>1, <2>3
<1>4. NoMore(series, written) /\ Exact(series, written)
  BY <1>2, <1>3 DEF NoMore, Exact, KeysOf
<1> QED
  BY <1>1, <1>2, <1>4 DEF StoreIInv, DistinctIds

\* Both writes preserve the invariant.
LEMMA StoreNextIInv == StoreIInv /\ [Next]_vars => StoreIInv'
<1> SUFFICES ASSUME StoreIInv, [Next]_vars PROVE StoreIInv'
  OBVIOUS
<1>1. ASSUME NEW event \in Events, write(event) PROVE StoreIInv'
  <2>1. /\ series' = evictExpired(PutAll(series, eventToAggregates(event, width)))
        /\ written' = Append(written, event) /\ markers' = markers
    BY <1>1 DEF write
  <2>2. /\ series \in Maps /\ written \in Seq(Events) /\ NoMore(series, written) /\ Exact(series, written)
        /\ markers \in Seq(Markers) /\ DistinctIds(markers) /\ Len(markers) <= maxMarkers
    BY DEF StoreIInv
  <2>3. series' \in Maps /\ NoMore(series', written') /\ Exact(series', written')
    BY <2>1, <2>2, WriteInvariant
  <2>4. written' \in Seq(Events)
    BY <2>1, <2>2
  <2>5. markers' \in Seq(Markers) /\ DistinctIds(markers') /\ Len(markers') <= maxMarkers
    BY <2>1, <2>2
  <2> QED
    BY <2>3, <2>4, <2>5 DEF StoreIInv
<1>2. ASSUME NEW id \in MarkerIds, NEW ts \in MarkerTimes, recordMarker(id, ts) PROVE StoreIInv'
  <2> DEFINE marker == [id |-> id, ts |-> ts]
  <2>1. /\ markers' = evictMarkers(SetMarker(markers, marker)) /\ series' = series /\ written' = written
        /\ \A i \in DOMAIN markers : markers[i].id # id
    BY <1>2 DEF recordMarker
  <2>2. /\ series \in Maps /\ written \in Seq(Events) /\ NoMore(series, written) /\ Exact(series, written)
        /\ markers \in Seq(Markers) /\ DistinctIds(markers) /\ Len(markers) <= maxMarkers
    BY DEF StoreIInv
  <2>3. marker \in Markers /\ marker.id = id
    BY DEF Markers
  <2>4. markers' \in Seq(Markers) /\ DistinctIds(markers') /\ Len(markers') <= maxMarkers
    <3> HIDE DEF marker
    <3> QED
      BY <2>1, <2>2, <2>3, MarkedIs
  <2>5. series' \in Maps /\ written' \in Seq(Events) /\ NoMore(series', written') /\ Exact(series', written')
    BY <2>1, <2>2
  <2> QED
    BY <2>4, <2>5 DEF StoreIInv
<1>3. CASE UNCHANGED vars
  <2>1. series' = series /\ written' = written /\ markers' = markers
    BY <1>3 DEF vars
  <2> QED
    BY <2>1 DEF StoreIInv
<1> QED
  BY <1>1, <1>2, <1>3 DEF Next

\* The invariant holds in every state the store can reach.
LEMMA StoreSpecIInv == Spec => []StoreIInv
<1>1. Init => StoreIInv
  BY StoreInitIInv
<1>2. StoreIInv /\ [Next]_vars => StoreIInv'
  BY StoreNextIInv
<1> QED
  BY <1>1, <1>2, PTL DEF Spec

\* The Maps never exceed their caps, never hold a key or a marker twice, and hold no
\* series without a bucket and no bucket without an observation (memory-store.ts, write).
THEOREM MapsKeepTheirShape == Spec => []TypeOK
<1>1. StoreIInv => TypeOK
  <2> SUFFICES ASSUME StoreIInv PROVE TypeOK
    OBVIOUS
  <2>1. series \in Maps
    BY DEF StoreIInv
  <2>2. /\ Len(series) <= maxSeries
        /\ \A i \in DOMAIN series : series[i] \in Entries
        /\ \A i, j \in DOMAIN series : series[i].key = series[j].key => i = j
    BY <2>1, MapIs
  <2>3. \A i \in DOMAIN series : /\ series[i].key \in AllKeys
                                 /\ IsCountMap(series[i].buckets)
                                 /\ DOMAIN series[i].buckets # {}
    <3> SUFFICES ASSUME NEW i \in DOMAIN series
                 PROVE  /\ series[i].key \in AllKeys
                        /\ IsCountMap(series[i].buckets)
                        /\ DOMAIN series[i].buckets # {}
      OBVIOUS
    <3>1. series[i].key \in AllKeys /\ IsBuckets(series[i].buckets)
      BY <2>2, EntryIs
    <3> QED
      BY <3>1 DEF IsBuckets, IsCountMap
  <2>4. IsInjective([i \in DOMAIN series |-> series[i].key])
    BY <2>2 DEF IsInjective
  <2>5. markers \in Seq(Markers) /\ DistinctIds(markers) /\ Len(markers) <= maxMarkers
    BY DEF StoreIInv
  <2>6. \A i \in DOMAIN markers : markers[i] \in [id : MarkerIds, ts : MarkerTimes]
    <3>1. \A i \in DOMAIN markers : markers[i] \in Markers
      BY <2>5
    <3> QED
      BY <3>1 DEF Markers
  <2>7. IsInjective([i \in DOMAIN markers |-> markers[i].id])
    BY <2>5 DEF IsInjective, DistinctIds
  <2> QED
    BY <2>2, <2>3, <2>4, <2>5, <2>6, <2>7 DEF TypeOK
<1> QED
  BY <1>1, StoreSpecIInv, PTL

\* The observers of the model are those of the lemmas, of the store as it is.
LEMMA ObserversAre ==
    /\ WrittenTs = TsOf(written)
    /\ Fit <=> Fits(written)
    /\ \A key, t : Observed(key, t) = ObservedIn(written, key, t) /\ Stored(key, t) = StoredIn(series, key, t)
<1>1. WrittenTs = TsOf(written)
  BY DEF WrittenTs, TsOf
<1>2. Fit <=> Fits(written)
  BY DEF Fit, Fits, SeriesIn
<1>3. \A key, t : Observed(key, t) = ObservedIn(written, key, t)
  BY DEF Observed, ObservedIn
<1>4. \A key, t : Stored(key, t) = StoredIn(series, key, t)
  BY DEF Stored, StoredIn
<1> QED
  BY <1>1, <1>2, <1>3, <1>4

\* The store answers exactly what was written within the retention, in whatever order
\* events arrive, while the series fit; and never more than was written when they do not.
THEOREM AnswersAreExact == Spec => []ExactWithinRetention
<1>1. StoreIInv => ExactWithinRetention
  <2> SUFFICES ASSUME StoreIInv PROVE ExactWithinRetention
    OBVIOUS
  <2>1. series \in Maps /\ written \in Seq(Events) /\ NoMore(series, written) /\ Exact(series, written)
    BY DEF StoreIInv
  <2>2. ASSUME Fit, NEW key \in AllKeys, NEW ts \in WrittenTs
        PROVE  Stored(key, ts) = (IF ts >= Newest(WrittenTs) - retention THEN Observed(key, ts) ELSE 0)
    <3>1. ts \in Nat
      <4>1. \A i \in DOMAIN written : written[i] \in Events
        BY <2>1
      <4> QED
        BY <4>1, EventIs DEF WrittenTs
    <3>2. Fits(written)
      BY <2>2, ObserversAre
    <3>3. StoredIn(series, key, ts) =
             IF ts >= Newest(TsOf(written)) - retention THEN ObservedIn(written, key, ts) ELSE 0
      BY <2>1, <3>1, <3>2 DEF Exact
    <3>4. /\ Stored(key, ts) = StoredIn(series, key, ts)
          /\ Observed(key, ts) = ObservedIn(written, key, ts)
          /\ Newest(WrittenTs) = Newest(TsOf(written))
      BY ObserversAre
    <3> QED
      BY <3>3, <3>4
  <2>3. ASSUME NEW i \in DOMAIN series, NEW ts \in DOMAIN series[i].buckets
        PROVE  /\ series[i].buckets[ts] <= Observed(series[i].key, ts)
               /\ ts >= newestTs(series) - retention
    <3>1. series[i] \in ToSet(series)
      BY <2>1, MapIs
    <3>2. Observed(series[i].key, ts) = ObservedIn(written, series[i].key, ts)
      BY ObserversAre
    <3> QED
      BY <2>1, <2>3, <3>1, <3>2 DEF NoMore
  <2> QED
    BY <2>2, <2>3 DEF ExactWithinRetention
<1> QED
  BY <1>1, StoreSpecIInv, PTL

\* The two halves of DropsLeastRecent, as actions.
DropsOldSeries ==
    \A i, j \in DOMAIN series :
       /\ \A n \in DOMAIN series' : series'[n].key # series[i].key
       /\ \E n \in DOMAIN series' : series'[n] = series[j]
       => newestOf(series[i]) <= newestOf(series[j])
DropsOldMarkers ==
    \A i \in DOMAIN markers, n \in DOMAIN markers' :
       (\A m \in DOMAIN markers' : markers'[m].id # markers[i].id) => markers[i].ts <= markers'[n].ts

\* No write, whatever it touches, drops a series that is more recent than one it leaves
\* alone, and no marker drives out one that is more recent than what stays.
THEOREM LeastRecentGoFirst == Spec => DropsLeastRecent
<1>1. StoreIInv /\ [Next]_vars => [DropsOldSeries]_series
  <2> SUFFICES ASSUME StoreIInv, Next, series' # series PROVE DropsOldSeries
    BY DEF vars
  <2>1. PICK event \in Events : write(event)
    BY DEF Next, recordMarker
  <2>2. series' = evictExpired(PutAll(series, eventToAggregates(event, width))) /\ series \in Maps
    BY <2>1 DEF write, StoreIInv
  <2> QED
    BY <2>2, WriteDropsLeastRecent DEF DropsOldSeries
<1>2. StoreIInv /\ [Next]_vars => [DropsOldMarkers]_markers
  <2> SUFFICES ASSUME StoreIInv, Next, markers' # markers PROVE DropsOldMarkers
    BY DEF vars
  <2>1. PICK id \in MarkerIds, ts \in MarkerTimes : recordMarker(id, ts)
    BY DEF Next, write
  <2> DEFINE marker == [id |-> id, ts |-> ts]
  <2>2. /\ markers' = evictMarkers(SetMarker(markers, marker))
        /\ \A i \in DOMAIN markers : markers[i].id # id
    BY <2>1 DEF recordMarker
  <2>3. markers \in Seq(Markers) /\ DistinctIds(markers)
    BY DEF StoreIInv
  <2>4. marker \in Markers /\ marker.id = id
    BY DEF Markers
  <2> HIDE DEF marker
  <2>5. \A x \in ToSet(markers) \ ToSet(markers'), y \in ToSet(markers') : x.ts <= y.ts
    BY <2>2, <2>3, <2>4, MarkedIs
  <2> SUFFICES ASSUME NEW i \in DOMAIN markers, NEW n \in DOMAIN markers',
                      \A m \in DOMAIN markers' : markers'[m].id # markers[i].id
               PROVE  markers[i].ts <= markers'[n].ts
    BY DEF DropsOldMarkers
  <2>6. markers[i] \in ToSet(markers) \ ToSet(markers')
    BY DEF ToSet
  <2>7. markers'[n] \in ToSet(markers')
    BY DEF ToSet
  <2> QED
    BY <2>5, <2>6, <2>7
<1>3. DropsLeastRecent <=> [][DropsOldSeries]_series /\ [][DropsOldMarkers]_markers
  BY DEF DropsLeastRecent, DropsLeastRecentSeries, DropsOldestMarkers, DropsOldSeries, DropsOldMarkers
<1> QED
  BY <1>1, <1>2, <1>3, StoreSpecIInv, PTL DEF Spec

-----------------------------------------------------------------------------
\* The events of a series that a window with this retention shows.
Shown(w, key, from, to) ==
    {i \in DOMAIN w : /\ CountsIn(w[i], key) /\ from <= BucketOf(w[i]) /\ BucketOf(w[i]) < to
                      /\ BucketOf(w[i]) >= Newest(TsOf(w)) - retention}

\* They are finitely many.
LEMMA ShownIsFinite ==
    ASSUME NEW w \in Seq(Events), NEW key, NEW from, NEW to
    PROVE  IsFiniteSet(Shown(w, key, from, to)) /\ Cardinality(Shown(w, key, from, to)) \in Nat
<1>1. Len(w) \in Nat /\ DOMAIN w = 1..Len(w)
  OBVIOUS
<1>2. Shown(w, key, from, to) \in SUBSET (1..Len(w))
  BY <1>1 DEF Shown
<1> QED
  BY <1>1, <1>2, CountTo, FS_Subset, FS_CardinalityType

\* While the series fit, a query counts those events, each once.
LEMMA PointsIs ==
    ASSUME StoreIInv, Fit, NEW key \in AllKeys, NEW from \in Int, NEW to \in Int
    PROVE  Points(key, from, to) = Cardinality(Shown(written, key, from, to))
<1> DEFINE w == written
           at == Find(series, key)
           horizon == Newest(TsOf(w)) - retention
           I == {i \in DOMAIN w : CountsIn(w[i], key)}
           b == [i \in DOMAIN w |-> BucketOf(w[i])]
<1>1. series \in Maps /\ w \in Seq(Events) /\ Exact(series, w)
  BY DEF StoreIInv
<1>2. \A t \in Nat : StoredIn(series, key, t) = IF t >= horizon THEN ObservedIn(w, key, t) ELSE 0
  BY <1>1, ObserversAre DEF Exact
<1>3. \A i \in DOMAIN w : w[i] \in Events /\ BucketOf(w[i]) \in Nat /\ b[i] = BucketOf(w[i])
  BY <1>1, EventIs
<1>4. /\ at = 0 => \A i \in DOMAIN series : series[i].key # key
      /\ at # 0 => at \in DOMAIN series /\ series[at].key = key
  BY <1>1, FindIs
<1>5. /\ \A e : e \in ToSet(series) <=> \E i \in DOMAIN series : series[i] = e
      /\ \A e \in ToSet(series) : e \in Entries
  BY <1>1, MapIs
<1>6. Shown(w, key, from, to) = {i \in I : from <= b[i] /\ b[i] < to /\ b[i] >= horizon}
  BY <1>3 DEF Shown
<1>7. IsFiniteSet(I) /\ I \subseteq DOMAIN w
  <2>1. Len(w) \in Nat /\ DOMAIN w = 1..Len(w)
    BY <1>1
  <2>2. I \in SUBSET (1..Len(w))
    BY <2>1
  <2> HIDE DEF I
  <2> QED
    BY <2>1, <2>2, CountTo, FS_Subset
\* An event that the window shows is in a bucket of the series.
<1>8. \A i \in I : b[i] >= horizon => StoredIn(series, key, b[i]) > 0
  <2> SUFFICES ASSUME NEW i \in I, b[i] >= horizon PROVE StoredIn(series, key, b[i]) > 0
    OBVIOUS
  <2>1. i \in DOMAIN w /\ CountsIn(w[i], key) /\ BucketOf(w[i]) = b[i] /\ b[i] \in Nat
    BY <1>3
  <2>2. ObservedIn(w, key, b[i]) > 0
    BY <1>1, <2>1, ObservedSome
  <2> QED
    BY <1>2, <2>1, <2>2
<1>9. CASE at = 0
  <2>1. Points(key, from, to) = 0
    BY <1>9 DEF Points
  <2>2. Shown(w, key, from, to) = {}
    <3> SUFFICES ASSUME NEW i \in I, b[i] >= horizon PROVE FALSE
      BY <1>6
    <3>1. StoredIn(series, key, b[i]) > 0
      BY <1>8
    <3>2. \E e \in ToSet(series) : e.key = key
      BY <1>1, <3>1, StoredSome
    <3> QED
      BY <1>4, <1>5, <1>9, <3>2
  <2> QED
    BY <2>1, <2>2, FS_EmptySet
<1>10. CASE at # 0
  <2> DEFINE e == series[at]
             T == {t \in DOMAIN e.buckets : from <= t /\ t < to}
  <2>1. e \in ToSet(series) /\ e.key = key /\ e \in Entries
    BY <1>4, <1>5, <1>10
  <2>2. IsBuckets(e.buckets)
    BY <2>1, EntryIs
  <2>3. Points(key, from, to) = SumFunctionOnSet(e.buckets, T)
    BY <1>10 DEF Points
  <2> HIDE DEF e, at
  <2>4. \A t : StoredIn(series, key, t) = Amount(e, t)
    BY <1>1, <2>1, StoredIs
  <2>5. IsFiniteSet(T)
    <3>1. T \in SUBSET DOMAIN e.buckets
      OBVIOUS
    <3> HIDE DEF T
    <3> QED
      BY <2>2, <3>1, FS_Subset DEF IsBuckets
  <2>6. \A t \in T : /\ t \in Nat /\ t >= horizon
                     /\ e.buckets[t] = Cardinality({i \in I : b[i] = t})
    <3> SUFFICES ASSUME NEW t \in T
                 PROVE  t \in Nat /\ t >= horizon /\ e.buckets[t] = Cardinality({i \in I : b[i] = t})
      OBVIOUS
    <3>1. t \in Nat /\ t \in DOMAIN e.buckets /\ e.buckets[t] \in Nat \ {0}
      BY <2>2 DEF IsBuckets
    <3>2. StoredIn(series, key, t) = e.buckets[t]
      BY <2>4, <3>1 DEF Amount
    <3>3. t >= horizon /\ e.buckets[t] = ObservedIn(w, key, t)
      <4>1. StoredIn(series, key, t) = IF t >= horizon THEN ObservedIn(w, key, t) ELSE 0
        BY <1>2, <3>1
      <4> HIDE DEF horizon
      <4> QED
        BY <3>1, <3>2, <4>1
    <3>4. ObservedIn(w, key, t) = Cardinality({i \in I : b[i] = t})
      <4>1. {i \in DOMAIN w : CountsIn(w[i], key) /\ BucketOf(w[i]) = t} = {i \in I : b[i] = t}
        BY <1>3
      <4> QED
        BY <4>1 DEF ObservedIn
    <3> QED
      BY <3>1, <3>3, <3>4
  <2>7. \A i \in I : b[i] \in T <=> from <= b[i] /\ b[i] < to /\ b[i] >= horizon
    <3> SUFFICES ASSUME NEW i \in I PROVE b[i] \in T <=> from <= b[i] /\ b[i] < to /\ b[i] >= horizon
      OBVIOUS
    <3>1. b[i] \in T => from <= b[i] /\ b[i] < to /\ b[i] >= horizon
      BY <2>6
    <3>2. b[i] >= horizon => b[i] \in DOMAIN e.buckets
      <4>1. b[i] >= horizon => Amount(e, b[i]) > 0
        BY <1>8, <2>4
      <4> QED
        BY <4>1 DEF Amount
    <3> QED
      BY <3>1, <3>2
  <2>8. Shown(w, key, from, to) = {i \in I : b[i] \in T}
    BY <1>6, <2>7
  <2>9. SumFunctionOnSet(e.buckets, T) = Cardinality({i \in I : b[i] \in T})
    <3>1. CountsEach(e.buckets, I, b, T)
      BY <2>6 DEF CountsEach
    <3> HIDE DEF I, b, T
    <3> QED
      BY <1>7, <2>5, <3>1, SumOfFibres
  <2> QED
    BY <2>3, <2>8, <2>9
<1> QED
  BY <1>9, <1>10

-----------------------------------------------------------------------------
\* What AllKeys holds are keys.
LEMMA AllKeysAre == \A key \in AllKeys : \E metric, jobName, signature : key = Key(metric, jobName, signature)
<1> SUFFICES ASSUME NEW key \in AllKeys PROVE \E metric, jobName, signature : key = Key(metric, jobName, signature)
  OBVIOUS
<1>1. CASE \E e \in Events : key \in ToSet(EventKeys(e))
  <2>1. PICK e \in Events : key \in ToSet(EventKeys(e))
    BY <1>1
  <2>2. EventKeys(e) \in Seq(SeriesOf(e))
    BY EventIs, EventKeysAre
  <2>3. key \in SeriesOf(e)
    BY <2>1, <2>2 DEF ToSet
  <2> QED
    BY <2>3 DEF SeriesOf
<1>2. CASE ~\E e \in Events : key \in ToSet(EventKeys(e))
  BY <1>2 DEF AllKeys
<1> QED
  BY <1>1, <1>2

Total == Key("failed", Null, Null)

\* Which events count as failures, of the queue and of a signature.
LEMMA FailuresAre ==
    ASSUME NEW event \in Events
    PROVE  /\ CountsIn(event, Total) <=> event.kind = "failed"
           /\ \A key \in AllKeys :
                 key.metric = "failed" /\ key.jobName = Null /\ key.errorSignature # Null =>
                    (CountsIn(event, key) <=>
                        event.kind = "failed" /\ key = Key("failed", Null, event.errorSignature))
<1>1. event.kind \in {"added", "completed", "failed"} /\ event.spans \subseteq {"wait_ms", "run_ms"}
  BY StoreAssumption
<1>2. CountsIn(event, Total) <=> event.kind = "failed"
  <2>1. Total.metric = "failed" /\ Total.jobName = Null /\ Total.errorSignature = Null
    BY DEF Total, Key
  <2> QED
    BY <1>1, <2>1 DEF CountsIn
<1>3. ASSUME NEW key \in AllKeys, key.metric = "failed", key.jobName = Null, key.errorSignature # Null
      PROVE  CountsIn(event, key) <=>
                event.kind = "failed" /\ key = Key("failed", Null, event.errorSignature)
  <2>1. key = Key(key.metric, key.jobName, key.errorSignature)
    <3>1. \E metric, jobName, signature : key = Key(metric, jobName, signature)
      BY AllKeysAre
    <3> QED
      BY <3>1 DEF Key
  <2>2. key = Key("failed", Null, event.errorSignature) <=> key.errorSignature = event.errorSignature
    BY <1>3, <2>1 DEF Key
  <2> QED
    BY <1>3, <2>2 DEF CountsIn
<1> QED
  BY <1>2, <1>3

\* The failures of the queue, also when no event could have a series for them.
LEMMA TotalIs ==
    ASSUME StoreIInv, Fit, NEW from \in Int, NEW to \in Int
    PROVE  totalFailures(from, to) = Cardinality(Shown(written, Total, from, to))
<1>1. series \in Maps /\ written \in Seq(Events)
  BY DEF StoreIInv
<1>2. CASE Total \in AllKeys
  BY <1>2, PointsIs DEF totalFailures, Total
<1>3. CASE Total \notin AllKeys
  <2>1. \A event \in Events : event.kind # "failed"
    <3> SUFFICES ASSUME NEW event \in Events, event.kind = "failed" PROVE FALSE
      OBVIOUS
    <3>1. Total \in AllKeys
      BY DEF AllKeys, Total
    <3> QED
      BY <1>3, <3>1
  <2>2. Shown(written, Total, from, to) = {}
    <3>1. \A i \in DOMAIN written : ~CountsIn(written[i], Total)
      BY <1>1, <2>1, FailuresAre
    <3> QED
      BY <3>1 DEF Shown
  <2>3. Find(series, Total) = 0
    <3>1. \A i \in DOMAIN series : series[i].key # Total
      BY <1>1, <1>3, MapIs, EntryIs
    <3> QED
      BY <1>1, <3>1, FindIs
  <2>4. totalFailures(from, to) = 0
    BY <2>3 DEF totalFailures, Points, Total
  <2> QED
    BY <2>2, <2>4, FS_EmptySet
<1> QED
  BY <1>2, <1>3

\* The failures with a signature, in any window, are among the failures of the queue:
\* each is of one signature, so that no event is counted under two.
LEMMA ClassifiedIsWithin ==
    ASSUME StoreIInv, Fit, NEW from \in Int, NEW to \in Int
    PROVE  classifiedFailures(from, to) <= totalFailures(from, to)
<1> DEFINE w == written
           I == Shown(w, Total, from, to)
           C == {k \in Keys : k.metric = "failed" /\ k.jobName = Null /\ k.errorSignature # Null}
           b == [i \in DOMAIN w |-> Key("failed", Null, w[i].errorSignature)]
           fun == [k \in C |-> Points(k, from, to)]
<1>1. series \in Maps /\ w \in Seq(Events)
  BY DEF StoreIInv
<1>2. IsFiniteSet(C) /\ C \subseteq AllKeys
  <2>1. Keys = KeysOf(ToSet(series)) /\ Keys \subseteq AllKeys
    BY <1>1, MapIs, EntryIs DEF Keys, KeysOf
  <2>2. IsFiniteSet(Keys)
    BY <1>1, <2>1, LengthIs
  <2>3. C \in SUBSET Keys
    OBVIOUS
  <2> HIDE DEF C
  <2> QED
    BY <2>1, <2>2, <2>3, FS_Subset
<1>3. IsFiniteSet(I) /\ Cardinality(I) \in Nat
  BY <1>1, ShownIsFinite
<1>4. CountsEach(fun, I, b, C)
  <2> SUFFICES ASSUME NEW k \in C PROVE Points(k, from, to) = Cardinality({i \in I : b[i] = k})
    BY DEF CountsEach
  <2>1. k \in AllKeys /\ k.metric = "failed" /\ k.jobName = Null /\ k.errorSignature # Null
    BY <1>2
  <2>2. \A i \in DOMAIN w : CountsIn(w[i], k) <=> CountsIn(w[i], Total) /\ b[i] = k
    BY <1>1, <2>1, FailuresAre
  <2>3. Shown(w, k, from, to) = {i \in I : b[i] = k}
    BY <2>2 DEF Shown
  <2> QED
    BY <2>1, <2>3, PointsIs
<1>5. classifiedFailures(from, to) = SumFunctionOnSet(fun, C)
  BY DEF classifiedFailures
<1> HIDE DEF I, C, b, fun
<1>6. SumFunctionOnSet(fun, C) = Cardinality({i \in I : b[i] \in C})
  BY <1>2, <1>3, <1>4, SumOfFibres
<1>7. Cardinality({i \in I : b[i] \in C}) <= Cardinality(I)
  BY <1>3, FS_Subset
<1> QED
  BY <1>5, <1>6, <1>7, TotalIs DEF I

\* A window that is not aligned with the buckets is wrong by less than a bucket, for
\* windows of any length within the retention.
LEMMA WindowIsWithin ==
    ASSUME StoreIInv, Fit, NEW from \in Nat, NEW to \in Nat, from >= Newest(WrittenTs) - retention
    PROVE  /\ totalFailures(from, to) >= FailedIn(from + width - 1, to)
           /\ totalFailures(from, to) <= FailedIn(from, to + width - 1)
<1> DEFINE w == written
           S == Shown(w, Total, from, to)
           Failed(a, z) == {i \in DOMAIN w : w[i].kind = "failed" /\ a <= w[i].at /\ w[i].at < z}
<1>1. w \in Seq(Events) /\ Len(w) \in Nat /\ DOMAIN w = 1..Len(w) /\ width \in Nat \ {0} /\ retention \in Nat
  BY StoreAssumption DEF StoreIInv
<1>2. \A i \in DOMAIN w : /\ w[i].at \in Nat /\ BucketOf(w[i]) \in Nat
                          /\ BucketOf(w[i]) <= w[i].at /\ w[i].at < BucketOf(w[i]) + width
                          /\ CountsIn(w[i], Total) <=> w[i].kind = "failed"
  BY <1>1, EventIs, FailuresAre
<1>3. totalFailures(from, to) = Cardinality(S) /\ IsFiniteSet(S)
  <2>1. from \in Int /\ to \in Int
    OBVIOUS
  <2>2. totalFailures(from, to) = Cardinality(Shown(w, Total, from, to))
    BY <2>1, TotalIs
  <2>3. IsFiniteSet(Shown(w, Total, from, to))
    BY <1>1, ShownIsFinite
  <2> QED
    BY <2>2, <2>3
<1>4. Newest(TsOf(w)) \in Nat /\ from >= Newest(TsOf(w)) - retention
  <2>1. TsOf(w) \in SUBSET Nat /\ IsFiniteSet(TsOf(w))
    <3>1. \A event \in Events : TsOf(w) \in SUBSET Nat /\ IsFiniteSet(TsOf(w))
      BY <1>1, WrittenMore
    <3>2. w = <<>> => TsOf(w) = {}
      BY DEF TsOf
    <3>3. w # <<>> => w[1] \in Events
      BY <1>1
    <3> QED
      BY <3>1, <3>2, <3>3, FS_EmptySet
  <2> QED
    BY <2>1, NewestIs, ObserversAre
<1>5. \A a, z : IsFiniteSet(Failed(a, z)) /\ Failed(a, z) \subseteq DOMAIN w
  <2> SUFFICES ASSUME NEW a, NEW z PROVE IsFiniteSet(Failed(a, z)) /\ Failed(a, z) \subseteq DOMAIN w
    OBVIOUS
  <2>1. Failed(a, z) \in SUBSET (1..Len(w))
    BY <1>1
  <2> HIDE DEF Failed
  <2> QED
    BY <1>1, <2>1, CountTo, FS_Subset
<1>6. Failed(from + width - 1, to) \in SUBSET S
  <2> SUFFICES ASSUME NEW i \in Failed(from + width - 1, to) PROVE i \in S
    OBVIOUS
  <2>1. i \in DOMAIN w /\ w[i].kind = "failed" /\ from + width - 1 <= w[i].at /\ w[i].at < to
    OBVIOUS
  <2>2. from <= BucketOf(w[i]) /\ BucketOf(w[i]) < to /\ BucketOf(w[i]) >= Newest(TsOf(w)) - retention
    <3>1. /\ w[i].at \in Nat /\ BucketOf(w[i]) \in Nat
          /\ BucketOf(w[i]) <= w[i].at /\ w[i].at < BucketOf(w[i]) + width
      BY <1>2, <2>1
    <3>2. from <= BucketOf(w[i]) /\ BucketOf(w[i]) < to
      BY <1>1, <2>1, <3>1
    <3> QED
      BY <1>1, <1>4, <3>1, <3>2
  <2> QED
    BY <1>2, <2>1, <2>2 DEF Shown
<1>7. S \in SUBSET Failed(from, to + width - 1)
  <2> SUFFICES ASSUME NEW i \in S PROVE i \in Failed(from, to + width - 1)
    OBVIOUS
  <2>1. i \in DOMAIN w /\ CountsIn(w[i], Total) /\ from <= BucketOf(w[i]) /\ BucketOf(w[i]) < to
    BY DEF Shown
  <2>2. from <= w[i].at /\ w[i].at < to + width - 1
    <3>1. /\ w[i].at \in Nat /\ BucketOf(w[i]) \in Nat
          /\ BucketOf(w[i]) <= w[i].at /\ w[i].at < BucketOf(w[i]) + width
      BY <1>2, <2>1
    <3> QED
      BY <1>1, <2>1, <3>1
  <2> QED
    BY <1>2, <2>1, <2>2
<1>8. \A a, z : FailedIn(a, z) = Cardinality(Failed(a, z))
  BY DEF FailedIn
<1> HIDE DEF S, Failed
<1>9. Cardinality(Failed(from + width - 1, to)) <= Cardinality(S)
  BY <1>3, <1>6, FS_Subset
<1>10. Cardinality(S) <= Cardinality(Failed(from, to + width - 1))
  BY <1>5, <1>7, FS_Subset
<1>11. /\ Cardinality(S) \in Nat /\ Cardinality(Failed(from + width - 1, to)) \in Nat
  BY <1>3, <1>5, FS_CardinalityType
<1> QED
  BY <1>3, <1>8, <1>9, <1>10, <1>11

\* What an alert rule and the summary of failures are told of any window is sound.
THEOREM FailuresAreSound == Spec => []FailuresInWindows
<1>1. StoreIInv => FailuresInWindows
  <2> SUFFICES ASSUME StoreIInv PROVE FailuresInWindows
    OBVIOUS
  <2>1. WrittenTs \in SUBSET Nat
    <3>1. written \in Seq(Events)
      BY DEF StoreIInv
    <3>2. \A i \in DOMAIN written : written[i] \in Events
      BY <3>1
    <3> QED
      BY <3>2, EventIs DEF WrittenTs
  <2>2. IsFiniteSet(WrittenTs)
    <3>1. written \in Seq(Events)
      BY DEF StoreIInv
    <3>2. CASE written = <<>>
      BY <3>2, FS_EmptySet DEF WrittenTs
    <3>3. CASE written # <<>>
      <4>1. written[1] \in Events
        BY <3>1, <3>3
      <4>2. IsFiniteSet(TsOf(written))
        BY <3>1, <4>1, WrittenMore
      <4> QED
        BY <4>2, ObserversAre
    <3> QED
      BY <3>2, <3>3
  <2>3. Newest(WrittenTs) \in Nat
    BY <2>1, <2>2, NewestIs
  <2>4. ClassifiedWithinTotal
    <3> SUFFICES ASSUME Fit, NEW from \in WrittenTs \cup {Newest(WrittenTs) + 1},
                        NEW to \in WrittenTs \cup {Newest(WrittenTs) + 1}
                 PROVE  classifiedFailures(from, to) <= totalFailures(from, to)
      BY DEF ClassifiedWithinTotal
    <3>1. from \in Int /\ to \in Int
      BY <2>1, <2>3
    <3> QED
      BY <3>1, ClassifiedIsWithin
  <2>5. WindowWithinABucket
    <3> SUFFICES ASSUME Fit, NEW from \in 0..(Newest(WrittenTs) + width),
                        NEW to \in 0..(Newest(WrittenTs) + width),
                        from >= Newest(WrittenTs) - retention
                 PROVE  /\ totalFailures(from, to) >= FailedIn(from + width - 1, to)
                        /\ totalFailures(from, to) <= FailedIn(from, to + width - 1)
      BY DEF WindowWithinABucket
    <3>1. from \in Nat /\ to \in Nat
      BY <2>3, StoreAssumption
    <3> QED
      BY <3>1, WindowIsWithin
  <2> QED
    BY <2>4, <2>5 DEF FailuresInWindows
<1> QED
  BY <1>1, StoreSpecIInv, PTL
=============================================================================
