------------------------- MODULE BeatmapCacheProofs -------------------------
(***************************************************************************)
(* Theorems about BeatmapCache, for every set of keys and every capacity.  *)
(***************************************************************************)
EXTENDS BeatmapCache, SequenceTheorems, FiniteSetTheorems, TLAPS

LEMMA CapacityPositive == Capacity \in Nat /\ Capacity >= 1
  BY CacheAssumption DEF Capacity, ConfiguredSize, DEFAULT_CACHE_SIZE

(* What RemoveAt, Front and Cons return on a sequence. *)
LEMMA RemoveAtFacts ==
  ASSUME NEW S, NEW s \in Seq(S), NEW i \in 1..Len(s)
  PROVE  /\ RemoveAt(s, i) \in Seq(S)
         /\ Len(RemoveAt(s, i)) = Len(s) - 1
         /\ \A k \in 1..Len(s) - 1 : RemoveAt(s, i)[k] = IF k < i THEN s[k] ELSE s[k + 1]
<1> DEFINE left == SubSeq(s, 1, i - 1)
           right == SubSeq(s, i + 1, Len(s))
<1>1. /\ left \in Seq(S)
      /\ Len(left) = i - 1
      /\ \A k \in 1..i - 1 : left[k] = s[k]
  <2>1. \A k \in 1..i - 1 : s[k] \in S
    BY ElementOfSeq, LenProperties
  <2>. QED  BY <2>1, SubSeqProperties
<1>2. /\ right \in Seq(S)
      /\ Len(right) = Len(s) - i
      /\ \A k \in 1..Len(s) - i : right[k] = s[i + k]
  <2>1. \A k \in i + 1..Len(s) : s[k] \in S
    BY ElementOfSeq, LenProperties
  <2>. QED  BY <2>1, SubSeqProperties, LenProperties
<1>3. RemoveAt(s, i) = left \o right
  BY DEF RemoveAt
<1>. HIDE DEF left, right
<1>4. Len(s) \in Nat /\ i \in Nat /\ i >= 1 /\ i <= Len(s)
  BY LenProperties
<1>5. /\ left \o right \in Seq(S)
      /\ Len(left \o right) = (i - 1) + (Len(s) - i)
      /\ \A k \in 1..(i - 1) + (Len(s) - i) :
            (left \o right)[k] = IF k <= i - 1 THEN left[k] ELSE right[k - (i - 1)]
  BY <1>1, <1>2, ConcatProperties
<1>6. Len(left \o right) = Len(s) - 1
  BY <1>4, <1>5
<1>7. ASSUME NEW k \in 1..Len(s) - 1
      PROVE  (left \o right)[k] = IF k < i THEN s[k] ELSE s[k + 1]
  <2>1. k \in 1..(i - 1) + (Len(s) - i)
    BY <1>4
  <2>2. CASE k < i
    BY <1>1, <1>4, <1>5, <2>1, <2>2
  <2>3. CASE ~(k < i)
    <3>1. k - (i - 1) \in 1..Len(s) - i /\ i + (k - (i - 1)) = k + 1
      BY <1>4, <2>3
    <3>. QED  BY <1>2, <1>4, <1>5, <2>1, <2>3, <3>1
  <2>. QED  BY <2>2, <2>3
<1>. QED  BY <1>3, <1>5, <1>6, <1>7

LEMMA FrontFacts ==
  ASSUME NEW S, NEW s \in Seq(S), Len(s) >= 1
  PROVE  /\ Front(s) \in Seq(S)
         /\ Len(Front(s)) = Len(s) - 1
         /\ \A k \in 1..Len(s) - 1 : Front(s)[k] = s[k]
<1>1. \A k \in 1..Len(s) - 1 : s[k] \in S
  BY ElementOfSeq, LenProperties
<1>2. Len(s) \in Nat
  BY LenProperties
<1> DEFINE n == Len(s) - 1
           t == SubSeq(s, 1, n)
<1>3. n \in Nat /\ Front(s) = t
  BY <1>2 DEF Front
<1>4. /\ t \in Seq(S)
      /\ Len(t) = IF 1 <= n THEN n - 1 + 1 ELSE 0
      /\ \A k \in 1..n - 1 + 1 : t[k] = s[1 + k - 1]
  BY <1>1, <1>3, SubSeqProperties
<1>5. n = Len(s) - 1
  OBVIOUS
<1>. HIDE DEF t, n
<1>6. Len(t) = n
  BY <1>3, <1>4
<1>7. ASSUME NEW k \in 1..n
      PROVE  t[k] = s[k]
  <2>1. k \in 1..n - 1 + 1 /\ 1 + k - 1 = k
    BY <1>3
  <2>. QED  BY <1>4, <2>1
<1>. QED  BY <1>3, <1>4, <1>5, <1>6, <1>7

LEMMA ConsFacts ==
  ASSUME NEW S, NEW e \in S, NEW s \in Seq(S)
  PROVE  /\ Cons(e, s) \in Seq(S)
         /\ Len(Cons(e, s)) = Len(s) + 1
         /\ \A k \in 1..Len(s) + 1 : Cons(e, s)[k] = IF k = 1 THEN e ELSE s[k - 1]
<1>1. <<e>> \in Seq(S) /\ Len(<<e>>) = 1 /\ <<e>>[1] = e
  OBVIOUS
<1>2. Len(s) \in Nat
  BY LenProperties
<1>3. /\ <<e>> \o s \in Seq(S)
      /\ Len(<<e>> \o s) = 1 + Len(s)
      /\ \A k \in 1..1 + Len(s) : (<<e>> \o s)[k] = IF k <= 1 THEN <<e>>[k] ELSE s[k - 1]
  BY <1>1, ConcatProperties
<1>. QED  BY <1>1, <1>2, <1>3 DEF Cons

-----------------------------------------------------------------------------
(***************************************************************************)
(* What the cache does to its entries, seen as a set: a put or a get makes *)
(* a new first entry out of a remainder that lacks its key.                *)
(***************************************************************************)

DistinctKeys(s) == \A i, j \in DOMAIN s : s[i].id = s[j].id => i = j

LEMMA ConsKeys ==
  ASSUME NEW e \in Entry, NEW s \in Seq(Entry), DistinctKeys(s),
         \A x \in Range(s) : x.id # e.id
  PROVE  /\ Cons(e, s) \in Seq(Entry)
         /\ Len(Cons(e, s)) = Len(s) + 1
         /\ DistinctKeys(Cons(e, s))
         /\ Range(Cons(e, s)) = {e} \cup Range(s)
<1> DEFINE t == Cons(e, s)
<1>1. /\ t \in Seq(Entry)
      /\ Len(t) = Len(s) + 1
      /\ \A k \in 1..Len(s) + 1 : t[k] = IF k = 1 THEN e ELSE s[k - 1]
  BY ConsFacts
<1>2. Len(s) \in Nat /\ DOMAIN s = 1..Len(s) /\ DOMAIN t = 1..Len(s) + 1
  BY <1>1, LenProperties
<1>. HIDE DEF t
<1>3. t[1] = e
  BY <1>1, <1>2
<1>4. ASSUME NEW k \in DOMAIN t, k # 1
      PROVE  k - 1 \in DOMAIN s /\ t[k] = s[k - 1] /\ t[k].id # e.id
  <2>1. k - 1 \in DOMAIN s /\ t[k] = s[k - 1]
    BY <1>1, <1>2, <1>4
  <2>. QED  BY <2>1 DEF Range
<1>5. ASSUME NEW k \in DOMAIN s
      PROVE  k + 1 \in DOMAIN t /\ t[k + 1] = s[k]
  <2>1. k + 1 \in 1..Len(s) + 1 /\ k + 1 # 1 /\ (k + 1) - 1 = k
    BY <1>2
  <2>. QED  BY <1>1, <1>2, <2>1
<1>6. DistinctKeys(t)
  <2> SUFFICES ASSUME NEW i \in DOMAIN t, NEW j \in DOMAIN t, t[i].id = t[j].id
               PROVE  i = j
    BY DEF DistinctKeys
  <2>1. CASE i = 1 \/ j = 1
    BY <1>3, <1>4, <2>1
  <2>2. CASE i # 1 /\ j # 1
    <3>1. i - 1 = j - 1
      BY <1>4, <2>2 DEF DistinctKeys
    <3>. QED  BY <1>2, <3>1
  <2>. QED  BY <2>1, <2>2
<1>7. Range(t) = {e} \cup Range(s)
  <2>1. ASSUME NEW x \in Range(t)
        PROVE  x \in {e} \cup Range(s)
    BY <1>3, <1>4 DEF Range
  <2>2. ASSUME NEW x \in {e} \cup Range(s)
        PROVE  x \in Range(t)
    <3>1. 1 \in DOMAIN t
      BY <1>2
    <3>. QED  BY <1>3, <1>5, <3>1 DEF Range
  <2>. QED  BY <2>1, <2>2
<1>. QED  BY <1>1, <1>6, <1>7 DEF t

LEMMA RemoveKeys ==
  ASSUME NEW s \in Seq(Entry), NEW p \in 1..Len(s), DistinctKeys(s)
  PROVE  /\ RemoveAt(s, p) \in Seq(Entry)
         /\ Len(RemoveAt(s, p)) = Len(s) - 1
         /\ DistinctKeys(RemoveAt(s, p))
         /\ Range(RemoveAt(s, p)) = {x \in Range(s) : x.id # s[p].id}
<1> DEFINE t == RemoveAt(s, p)
           from(k) == IF k < p THEN k ELSE k + 1
<1>1. /\ t \in Seq(Entry)
      /\ Len(t) = Len(s) - 1
      /\ \A k \in 1..Len(s) - 1 : t[k] = IF k < p THEN s[k] ELSE s[k + 1]
  BY RemoveAtFacts
<1>2. Len(s) \in Nat /\ DOMAIN s = 1..Len(s) /\ DOMAIN t = 1..Len(s) - 1
  BY <1>1, LenProperties
<1>. HIDE DEF t
<1>3. ASSUME NEW k \in DOMAIN t
      PROVE  from(k) \in DOMAIN s /\ from(k) # p /\ t[k] = s[from(k)]
  BY <1>1, <1>2
<1>4. ASSUME NEW i \in DOMAIN t, NEW j \in DOMAIN t, from(i) = from(j)
      PROVE  i = j
  BY <1>2, <1>4
<1>5. ASSUME NEW i \in DOMAIN s, i # p
      PROVE  \E k \in DOMAIN t : t[k] = s[i]
  <2>1. CASE i < p
    <3>1. i \in DOMAIN t /\ from(i) = i
      BY <1>2, <2>1
    <3>. QED  BY <1>3, <3>1
  <2>2. CASE i > p
    <3>1. i - 1 \in DOMAIN t /\ from(i - 1) = i
      BY <1>2, <2>2
    <3>. QED  BY <1>3, <3>1
  <2>. QED  BY <1>2, <1>5, <2>1, <2>2
<1>. HIDE DEF from
<1>6. DistinctKeys(t)
  BY <1>3, <1>4 DEF DistinctKeys
<1>7. Range(t) = {x \in Range(s) : x.id # s[p].id}
  <2>1. p \in DOMAIN s
    BY <1>2
  <2>2. ASSUME NEW x \in Range(t)
        PROVE  x \in Range(s) /\ x.id # s[p].id
    BY <1>3, <2>1 DEF Range, DistinctKeys
  <2>3. ASSUME NEW x \in Range(s), x.id # s[p].id
        PROVE  x \in Range(t)
    <3>1. PICK i \in DOMAIN s : x = s[i]
      BY DEF Range
    <3>2. i # p
      BY <2>3, <3>1
    <3>. QED  BY <1>5, <3>1, <3>2 DEF Range
  <2>. QED  BY <2>2, <2>3
<1>. QED  BY <1>1, <1>6, <1>7 DEF t

LEMMA FrontKeys ==
  ASSUME NEW s \in Seq(Entry), Len(s) >= 1, DistinctKeys(s)
  PROVE  /\ Front(s) \in Seq(Entry)
         /\ Len(Front(s)) = Len(s) - 1
         /\ DistinctKeys(Front(s))
         /\ Range(Front(s)) \subseteq Range(s)
<1>1. /\ Front(s) \in Seq(Entry)
      /\ Len(Front(s)) = Len(s) - 1
      /\ \A k \in 1..Len(s) - 1 : Front(s)[k] = s[k]
  BY FrontFacts
<1>2. Len(s) \in Nat /\ DOMAIN s = 1..Len(s) /\ DOMAIN Front(s) = 1..Len(s) - 1
  BY <1>1, LenProperties
<1>3. \A k \in DOMAIN Front(s) : k \in DOMAIN s /\ Front(s)[k] = s[k]
  BY <1>1, <1>2
<1>4. DistinctKeys(Front(s))
  BY <1>3 DEF DistinctKeys
<1>5. Range(Front(s)) \subseteq Range(s)
  BY <1>3 DEF Range
<1>. QED  BY <1>1, <1>4, <1>5

-----------------------------------------------------------------------------
(***************************************************************************)
(* The operations of the cache, and the invariant they preserve.           *)
(***************************************************************************)

CacheInv == CacheTypeOK /\ WithinCapacity /\ NoDuplicateKeys

LEMMA PositionFacts ==
  ASSUME CacheTypeOK, NEW id, Cached(id)
  PROVE  /\ Position(id) \in 1..Len(inner)
         /\ inner[Position(id)].id = id
         /\ inner[Position(id)] \in Entry
         /\ inner[Position(id)] \in Range(inner)
<1>1. inner \in Seq(Entry) /\ DOMAIN inner = 1..Len(inner)
  BY LenProperties DEF CacheTypeOK
<1>2. PICK i \in DOMAIN inner : inner[i].id = id
  BY DEF Cached, CachedIds
<1>3. Position(id) \in DOMAIN inner /\ inner[Position(id)].id = id
  BY <1>2 DEF Position
<1>4. inner[Position(id)] \in Range(inner)
  BY <1>3 DEF Range
<1>. QED  BY <1>1, <1>3, <1>4, ElementOfSeq

(* A get that finds its key changes the order of the entries only. *)
LEMMA LruGetFacts ==
  ASSUME CacheInv, NEW id, Cached(id), LruGet(id)
  PROVE  /\ inner' \in Seq(Entry)
         /\ Len(inner') = Len(inner)
         /\ NoDuplicateKeys'
         /\ Range(inner') = Range(inner)
<1> DEFINE p == Position(id)
           e == inner[p]
           rest == RemoveAt(inner, p)
<1>1. /\ inner \in Seq(Entry)
      /\ p \in 1..Len(inner)
      /\ e \in Entry
      /\ e \in Range(inner)
      /\ DistinctKeys(inner)
      /\ Len(inner) \in Nat
  BY PositionFacts, LenProperties DEF CacheInv, CacheTypeOK, NoDuplicateKeys, DistinctKeys
<1>2. /\ rest \in Seq(Entry)
      /\ Len(rest) = Len(inner) - 1
      /\ DistinctKeys(rest)
      /\ Range(rest) = {x \in Range(inner) : x.id # e.id}
  BY <1>1, RemoveKeys
<1>3. \A x \in Range(inner) : x.id = e.id => x = e
  BY <1>1 DEF Range, DistinctKeys
<1>4. inner' = Cons(e, rest)
  BY DEF LruGet
<1>. HIDE DEF e, rest
<1>5. /\ Cons(e, rest) \in Seq(Entry)
      /\ Len(Cons(e, rest)) = Len(rest) + 1
      /\ DistinctKeys(Cons(e, rest))
      /\ Range(Cons(e, rest)) = {e} \cup Range(rest)
  BY <1>1, <1>2, ConsKeys
<1>6. NoDuplicateKeys'
  BY <1>4, <1>5 DEF NoDuplicateKeys, DistinctKeys
<1>7. Range(inner') = Range(inner)
  BY <1>1, <1>2, <1>3, <1>4, <1>5
<1>. QED  BY <1>1, <1>2, <1>4, <1>5, <1>6, <1>7

(* A put adds its entry, drops the old entry of its key, and drops one other
   entry only when a new key meets a full cache. *)
LEMMA LruPutFacts ==
  ASSUME CacheInv, NEW id \in BeatmapId, NEW map \in Beatmap, LruPut(id, map)
  PROVE  /\ inner' \in Seq(Entry)
         /\ WithinCapacity'
         /\ NoDuplicateKeys'
         /\ Cached(id)'
         /\ Range(inner') \subseteq Range(inner) \cup {[id |-> id, map |-> map]}
         /\ Cached(id) \/ Len(inner) < Capacity => CachedIds \subseteq CachedIds'
<1> DEFINE e == [id |-> id, map |-> map]
<1>1. /\ inner \in Seq(Entry)
      /\ DistinctKeys(inner)
      /\ Len(inner) \in Nat
      /\ Len(inner) <= Capacity
      /\ e \in Entry /\ e.id = id
  BY LenProperties
     DEF CacheInv, CacheTypeOK, WithinCapacity, NoDuplicateKeys, DistinctKeys, Entry
<1>2. \A s : {s[i].id : i \in DOMAIN s} = {x.id : x \in Range(s)}
  BY DEF Range
<1>. HIDE DEF e
<1>3. SUFFICES ASSUME NEW rest \in Seq(Entry),
                      inner' = Cons(e, rest),
                      DistinctKeys(rest),
                      Len(rest) < Capacity,
                      Range(rest) \subseteq Range(inner),
                      \A x \in Range(rest) : x.id # id,
                      Cached(id) \/ Len(inner) < Capacity =>
                         \A x \in Range(inner) : x.id = id \/ x \in Range(rest)
               PROVE  /\ inner' \in Seq(Entry)
                      /\ WithinCapacity'
                      /\ NoDuplicateKeys'
                      /\ Cached(id)'
                      /\ Range(inner') \subseteq Range(inner) \cup {e}
                      /\ Cached(id) \/ Len(inner) < Capacity => CachedIds \subseteq CachedIds'
  <2>1. CASE Cached(id)
    <3> DEFINE p == Position(id)
               rest == RemoveAt(inner, p)
    <3>1. p \in 1..Len(inner) /\ inner[p].id = id
      BY <2>1, PositionFacts DEF CacheInv
    <3>2. /\ rest \in Seq(Entry)
          /\ Len(rest) = Len(inner) - 1
          /\ DistinctKeys(rest)
          /\ Range(rest) = {x \in Range(inner) : x.id # id}
      BY <1>1, <3>1, RemoveKeys
    <3>3. inner' = Cons(e, rest)
      BY <2>1 DEF LruPut, e
    <3>. HIDE DEF rest
    <3>4. Len(rest) < Capacity
      BY <1>1, <3>2, CapacityPositive
    <3>. QED  BY <1>3, <3>2, <3>3, <3>4 DEF e
  <2>2. CASE ~Cached(id)
    <3>1. \A x \in Range(inner) : x.id # id
      BY <2>2 DEF Cached, CachedIds, Range
    <3>2. CASE Len(inner) >= Capacity
      <4> DEFINE rest == Front(inner)
      <4>1. Len(inner) >= 1
        BY <1>1, <3>2, CapacityPositive
      <4>2. /\ rest \in Seq(Entry)
            /\ Len(rest) = Len(inner) - 1
            /\ DistinctKeys(rest)
            /\ Range(rest) \subseteq Range(inner)
        BY <1>1, <4>1, FrontKeys
      <4>3. inner' = Cons(e, rest)
        BY <2>2, <3>2 DEF LruPut, e
      <4>. HIDE DEF rest
      <4>4. Len(rest) < Capacity /\ ~(Cached(id) \/ Len(inner) < Capacity)
        BY <1>1, <2>2, <3>2, <4>2, CapacityPositive
      <4>. QED  BY <1>3, <3>1, <4>2, <4>3, <4>4 DEF e
    <3>3. CASE ~(Len(inner) >= Capacity)
      <4>1. inner' = Cons(e, inner)
        BY <2>2, <3>3 DEF LruPut, e
      <4>2. Len(inner) < Capacity
        BY <1>1, <3>3, CapacityPositive
      <4>. QED  BY <1>1, <1>3, <3>1, <4>1, <4>2 DEF e
    <3>. QED  BY <3>2, <3>3
  <2>. QED  BY <2>1, <2>2
<1>4. /\ Cons(e, rest) \in Seq(Entry)
      /\ Len(Cons(e, rest)) = Len(rest) + 1
      /\ DistinctKeys(Cons(e, rest))
      /\ Range(Cons(e, rest)) = {e} \cup Range(rest)
  BY <1>1, <1>3, ConsKeys
<1>5. WithinCapacity'
  <2>1. Len(rest) \in Nat
    BY LenProperties
  <2>2. Len(inner') <= Capacity
    BY <1>3, <1>4, <2>1, CapacityPositive
  <2>. QED  BY <2>2 DEF WithinCapacity, Capacity, ConfiguredSize
<1>6. NoDuplicateKeys'
  BY <1>3, <1>4 DEF NoDuplicateKeys, DistinctKeys
<1>7. CachedIds = {x.id : x \in Range(inner)} /\ CachedIds' = {x.id : x \in Range(inner')}
  BY <1>2 DEF CachedIds
<1>8. Cached(id)'
  BY <1>1, <1>3, <1>4, <1>7 DEF Cached
<1>9. Cached(id) \/ Len(inner) < Capacity => CachedIds \subseteq CachedIds'
  BY <1>1, <1>3, <1>4, <1>7
<1>. QED  BY <1>3, <1>4, <1>5, <1>6, <1>8, <1>9

(* What the two outcomes of cache::get and cache::insert do to the invariant
   and to the entries: the facts every user of the cache needs. *)
LEMMA HitKeepsEntries ==
  ASSUME CacheInv, NEW id, Hit(id)
  PROVE  CacheInv' /\ Range(inner') = Range(inner)
<1>1. /\ inner' \in Seq(Entry)
      /\ Len(inner') = Len(inner)
      /\ NoDuplicateKeys'
      /\ Range(inner') = Range(inner)
  BY LruGetFacts DEF Hit
<1>. QED  BY <1>1 DEF Hit, CacheInv, CacheTypeOK, WithinCapacity, Capacity, ConfiguredSize

LEMMA MissKeepsEntries ==
  ASSUME CacheInv, NEW id, Miss(id)
  PROVE  CacheInv' /\ inner' = inner
BY DEF Miss, CacheInv, CacheTypeOK, WithinCapacity, Capacity, ConfiguredSize, NoDuplicateKeys

LEMMA InsertAddsEntry ==
  ASSUME CacheInv, NEW id \in BeatmapId, NEW map \in Beatmap, Insert(id, map)
  PROVE  /\ CacheInv'
         /\ Cached(id)'
         /\ Range(inner') \subseteq Range(inner) \cup {[id |-> id, map |-> map]}
         /\ Cached(id) \/ Len(inner) < Capacity => CachedIds \subseteq CachedIds'
<1>1. /\ inner' \in Seq(Entry)
      /\ WithinCapacity'
      /\ NoDuplicateKeys'
      /\ Cached(id)'
      /\ Range(inner') \subseteq Range(inner) \cup {[id |-> id, map |-> map]}
      /\ Cached(id) \/ Len(inner) < Capacity => CachedIds \subseteq CachedIds'
  BY LruPutFacts DEF Insert
<1>. QED  BY <1>1 DEF Insert, CacheInv, CacheTypeOK

(* A cache that holds only some of Ids, and not all of them, is not full when
   it has room for them all. *)
LEMMA RoomForKnownIds ==
  ASSUME CacheInv, NEW Ids, IsFiniteSet(Ids), Cardinality(Ids) <= Capacity,
         CachedIds \subseteq Ids, NEW id \in Ids, ~Cached(id)
  PROVE  Len(inner) < Capacity
<1> DEFINE others == Ids \ {id}
           n == Len(inner)
           idAt == [i \in 1..n |-> inner[i].id]
<1>1. n \in Nat /\ DOMAIN inner = 1..n
  BY LenProperties DEF CacheInv, CacheTypeOK
<1>2. IsFiniteSet(others) /\ Cardinality(others) = Cardinality(Ids) - 1
  BY FS_RemoveElement
<1>3. Cardinality(Ids) \in Nat
  BY FS_CardinalityType
<1>4. idAt \in [1..n -> others]
  BY <1>1 DEF CachedIds, Cached
<1>5. \A i, j \in 1..n : idAt[i] = idAt[j] => i = j
  BY <1>1 DEF CacheInv, NoDuplicateKeys
<1>. HIDE DEF others, n, idAt
<1>6. IsFiniteSet(1..n) /\ Cardinality(1..n) = n
  <2>1. IsFiniteSet(1..n) /\ Cardinality(1..n) = IF 1 > n THEN 0 ELSE n - 1 + 1
    BY <1>1, FS_Interval
  <2>. QED  BY <1>1, <2>1
<1>7. ~(Cardinality(others) < Cardinality(1..n))
  <2> DEFINE positions == 1..n
  <2>. SUFFICES ASSUME Cardinality(others) < Cardinality(positions)
                PROVE  FALSE
    OBVIOUS
  <2>1. IsFiniteSet(positions) /\ idAt \in [positions -> others]
    BY <1>4, <1>6
  <2>2. \A i, j \in positions : idAt[i] = idAt[j] => i = j
    BY <1>5
  <2>. HIDE DEF positions
  <2>3. \E i, j \in positions : i # j /\ idAt[i] = idAt[j]
    BY <1>2, <2>1, FS_PigeonHole
  <2>. QED  BY <2>2, <2>3
<1>8. n < Capacity
  BY <1>1, <1>2, <1>3, <1>6, <1>7, CapacityPositive
<1>. QED  BY <1>8 DEF n

LEMMA CacheInitInv == CacheInit => CacheInv
BY CapacityPositive DEF CacheInit, CacheInv, CacheTypeOK, WithinCapacity, NoDuplicateKeys

LEMMA CacheStepInv == CacheInv /\ [CacheNext]_cacheVars => CacheInv'
<1>. SUFFICES ASSUME CacheInv, [CacheNext]_cacheVars
              PROVE  CacheInv'
  OBVIOUS
<1>1. ASSUME NEW id \in BeatmapId, Hit(id)
      PROVE  CacheInv'
  BY <1>1, HitKeepsEntries
<1>2. ASSUME NEW id \in BeatmapId, Miss(id)
      PROVE  CacheInv'
  BY <1>2, MissKeepsEntries
<1>3. ASSUME NEW id \in BeatmapId, NEW map \in Beatmap, Insert(id, map)
      PROVE  CacheInv'
  BY <1>3, InsertAddsEntry
<1>4. CASE UNCHANGED cacheVars
  BY <1>4 DEF cacheVars, CacheInv, CacheTypeOK, WithinCapacity, Capacity, ConfiguredSize,
              NoDuplicateKeys
<1>. QED  BY <1>1, <1>2, <1>3, <1>4 DEF CacheNext

(* Whatever the keys, the beatmaps and PP_SERVICE_CACHE_SIZE, the cache is a
   sequence of entries and its counters are naturals. *)
THEOREM CacheTypeCorrect == CacheSpec => []CacheTypeOK
<1>1. CacheInv => CacheTypeOK
  BY DEF CacheInv
<1>. QED  BY <1>1, CacheInitInv, CacheStepInv, PTL DEF CacheSpec

(* No sequence of cache::get and cache::insert takes the cache beyond its
   capacity, a configured size of 0 included. *)
THEOREM CacheWithinCapacity == CacheSpec => []WithinCapacity
<1>1. CacheInv => WithinCapacity
  BY DEF CacheInv
<1>. QED  BY <1>1, CacheInitInv, CacheStepInv, PTL DEF CacheSpec

(* And no sequence of them leaves a BeatmapID in the cache twice. *)
THEOREM CacheKeysDistinct == CacheSpec => []NoDuplicateKeys
<1>1. CacheInv => NoDuplicateKeys
  BY DEF CacheInv
<1>. QED  BY <1>1, CacheInitInv, CacheStepInv, PTL DEF CacheSpec

=============================================================================
