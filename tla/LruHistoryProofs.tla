-------------------------- MODULE LruHistoryProofs --------------------------
(***************************************************************************)
(* An entry leaves the cache exactly by its capacity, for every set of     *)
(* keys and every capacity.                                                *)
(*                                                                         *)
(* The argument: the keys used since an entry's own last use are the keys  *)
(* of the entries before it, so an entry at position i has i - 1 of them;  *)
(* and an entry that leaves is the last of a full cache and makes room for *)
(* a key that is not among those before it.                                *)
(***************************************************************************)
EXTENDS LruHistory, BeatmapCacheProofs

KeysBefore(i) == {inner[j].id : j \in 1..i - 1}

(* Of a cached key: where it stands says what was used since. *)
PositionInv ==
    \A i \in 1..Len(inner) : usedSince[inner[i].id] = KeysBefore(i)

(* Of a key that was evicted: why it was. *)
EvictedInv ==
    \A id \in inserted : ~Cached(id) => Cardinality(usedSince[id]) >= Capacity

HistoryFinite ==
    /\ IsFiniteSet(inserted)
    /\ \A id \in BeatmapId : usedSince[id] \subseteq inserted
    /\ CachedIds \subseteq inserted

HistoryInv ==
    /\ CacheInv
    /\ HistoryTypeOK
    /\ HistoryFinite
    /\ PositionInv
    /\ EvictedInv

-----------------------------------------------------------------------------

LEMMA InnerFacts ==
  ASSUME CacheInv
  PROVE  /\ inner \in Seq(Entry)
         /\ Len(inner) \in Nat
         /\ DOMAIN inner = 1..Len(inner)
         /\ Len(inner) <= Capacity
         /\ DistinctKeys(inner)
         /\ \A i \in 1..Len(inner) : inner[i] \in Entry /\ inner[i].id \in BeatmapId
<1>1. inner \in Seq(Entry) /\ Len(inner) \in Nat /\ DOMAIN inner = 1..Len(inner)
  BY LenProperties DEF CacheInv, CacheTypeOK
<1>2. \A i \in 1..Len(inner) : inner[i] \in Entry
  BY <1>1, ElementOfSeq
<1>. QED  BY <1>1, <1>2 DEF CacheInv, WithinCapacity, NoDuplicateKeys, DistinctKeys, Entry

(* As many keys stand before an entry as positions, since no key stands at
   two of them. *)
LEMMA KeysBeforeCounted ==
  ASSUME CacheInv, NEW i \in 1..Len(inner)
  PROVE  IsFiniteSet(KeysBefore(i)) /\ Cardinality(KeysBefore(i)) = i - 1
<1> DEFINE S == 1..i - 1
           T == KeysBefore(i)
           f == [j \in S |-> inner[j].id]
<1>1. i - 1 \in Nat /\ S \subseteq DOMAIN inner
  BY InnerFacts
<1>2. IsFiniteSet(S) /\ Cardinality(S) = i - 1
  <2>1. IsFiniteSet(S) /\ Cardinality(S) = IF 1 > i - 1 THEN 0 ELSE (i - 1) - 1 + 1
    BY <1>1, FS_Interval
  <2>. QED  BY <1>1, <2>1
<1>3. f \in [S -> T]
  BY DEF KeysBefore
<1>4. f \in Surjection(S, T)
  BY <1>3 DEF Surjection, KeysBefore
<1>5. f \in Injection(S, T)
  <2>1. \A a, b \in S : f[a] = f[b] => a = b
    BY <1>1, InnerFacts DEF DistinctKeys
  <2>. QED  BY <1>3, <2>1 DEF Injection, IsInjective
<1>. HIDE DEF S, T, f
<1>6. IsFiniteSet(T) /\ Cardinality(T) = Cardinality(S)
  BY <1>2, <1>4, <1>5, FS_Surjection
<1>. QED  BY <1>2, <1>6 DEF T

LEMMA FrontedFacts ==
  ASSUME NEW S, NEW e \in S, NEW rest \in Seq(S)
  PROVE  /\ Len(Cons(e, rest)) = Len(rest) + 1
         /\ \A k \in 1..Len(rest) + 1 : Cons(e, rest)[k] = IF k = 1 THEN e ELSE rest[k - 1]
         /\ Len(rest) \in Nat
         /\ DOMAIN Cons(e, rest) = 1..Len(Cons(e, rest))
BY ConsFacts, LenProperties

(* What an operation does that uses a key: its entry e moves to the front,
   the entries of the remainder keep their order and, but for the key that
   is used, what stands before them; whoever is missing was the last of a
   full cache that the new key did not fit in. *)
LEMMA UseKeepsHistory ==
  ASSUME HistoryInv, CacheInv', NEW used \in BeatmapId, RecordUse(used),
         NEW e \in Entry, e.id = used,
         NEW rest \in Seq(Entry), inner' = Cons(e, rest),
         \A k \in 1..Len(rest) : \E q \in 1..Len(inner) :
            /\ rest[k].id = inner[q].id
            /\ rest[k].id # used
            /\ {rest[j].id : j \in 1..k - 1} \cup {used} = KeysBefore(q) \cup {used},
         \A q \in 1..Len(inner) :
            \/ inner[q].id = used
            \/ \E k \in 1..Len(rest) : rest[k].id = inner[q].id
            \/ q >= Capacity /\ ~Cached(used)
  PROVE  HistoryInv'
<1>1. /\ Len(inner') = Len(rest) + 1
      /\ \A k \in 1..Len(rest) + 1 : inner'[k] = IF k = 1 THEN e ELSE rest[k - 1]
      /\ Len(rest) \in Nat
      /\ DOMAIN inner' = 1..Len(inner')
  <2>1. /\ Len(Cons(e, rest)) = Len(rest) + 1
        /\ \A k \in 1..Len(rest) + 1 : Cons(e, rest)[k] = IF k = 1 THEN e ELSE rest[k - 1]
        /\ Len(rest) \in Nat
        /\ DOMAIN Cons(e, rest) = 1..Len(Cons(e, rest))
    BY FrontedFacts
  <2>. QED  BY <2>1
<1>2. inner'[1] = e
  BY <1>1
<1>3. \A k \in 1..Len(rest) : k + 1 \in 1..Len(inner') /\ inner'[k + 1] = rest[k]
  BY <1>1
<1>4. ASSUME NEW i \in 1..Len(inner'), i # 1
      PROVE  i - 1 \in 1..Len(rest) /\ inner'[i] = rest[i - 1]
  BY <1>1, <1>4
<1>5. /\ inserted' = inserted \cup {used}
      /\ usedSince' = [id \in BeatmapId |-> IF id = used THEN {} ELSE usedSince[id] \cup {used}]
  BY DEF RecordUse
<1>6. HistoryTypeOK'
  <2>1. inserted' \in SUBSET BeatmapId
    BY <1>5 DEF HistoryInv, HistoryTypeOK
  <2>2. \A id \in BeatmapId : usedSince[id] \cup {used} \in SUBSET BeatmapId
    BY DEF HistoryInv, HistoryTypeOK
  <2>3. usedSince' \in [BeatmapId -> SUBSET BeatmapId]
    BY <1>5, <2>2
  <2>. QED  BY <2>1, <2>3 DEF HistoryTypeOK
<1>7. CachedIds' \subseteq inserted'
  <2>. SUFFICES ASSUME NEW i \in 1..Len(inner')
                PROVE  inner'[i].id \in inserted'
    BY <1>1 DEF CachedIds
  <2>1. CASE i = 1
    BY <1>2, <1>5, <2>1
  <2>2. CASE i # 1
    <3>1. PICK q \in 1..Len(inner) : rest[i - 1].id = inner[q].id
      BY <1>4, <2>2
    <3>2. inner[q].id \in CachedIds
      BY InnerFacts DEF CachedIds, HistoryInv
    <3>. QED  BY <1>4, <1>5, <2>2, <3>1, <3>2 DEF HistoryInv, HistoryFinite
  <2>. QED  BY <2>1, <2>2
<1>8. HistoryFinite'
  <2>1. IsFiniteSet(inserted')
    BY <1>5, FS_AddElement DEF HistoryInv, HistoryFinite
  <2>2. \A id \in BeatmapId : usedSince'[id] \subseteq inserted'
    BY <1>5 DEF HistoryInv, HistoryFinite
  <2>. QED  BY <1>7, <2>1, <2>2 DEF HistoryFinite
<1>9. PositionInv'
  <2>. SUFFICES ASSUME NEW i \in 1..Len(inner')
                PROVE  usedSince'[inner'[i].id] = {inner'[j].id : j \in 1..i - 1}
    BY DEF PositionInv, KeysBefore
  <2>1. CASE i = 1
    <3>1. 1..i - 1 = {}
      BY <2>1
    <3>2. {inner'[j].id : j \in 1..i - 1} = {}
      BY <3>1
    <3>. QED  BY <1>2, <1>5, <2>1, <3>2
  <2>2. CASE i # 1
    <3> DEFINE k == i - 1
    <3>1. k \in 1..Len(rest) /\ inner'[i] = rest[k]
      BY <1>4, <2>2
    <3>2. PICK q \in 1..Len(inner) :
             /\ rest[k].id = inner[q].id
             /\ rest[k].id # used
             /\ {rest[j].id : j \in 1..k - 1} \cup {used} = KeysBefore(q) \cup {used}
      BY <3>1
    <3>3. rest[k].id \in BeatmapId
      BY <3>2, InnerFacts DEF HistoryInv
    <3>4. usedSince'[rest[k].id] = KeysBefore(q) \cup {used}
      BY <1>5, <3>2, <3>3 DEF HistoryInv, PositionInv
    <3>5. ASSUME NEW j \in 1..i - 1, j # 1
          PROVE  \E l \in 1..k - 1 : inner'[j].id = rest[l].id
      <4>1. j \in 1..Len(inner') /\ j - 1 \in 1..k - 1
        BY <1>1, <3>1, <3>5
      <4>. QED  BY <1>4, <3>5, <4>1
    <3>6. ASSUME NEW l \in 1..k - 1
          PROVE  \E j \in 1..i - 1 : inner'[j].id = rest[l].id
      <4>1. l \in 1..Len(rest) /\ l + 1 \in 1..i - 1
        BY <1>1, <3>1
      <4>. QED  BY <1>3, <4>1
    <3>7. 1 \in 1..i - 1 /\ inner'[1].id = used
      BY <1>2, <3>1
    <3>. HIDE DEF k
    <3>8. {inner'[j].id : j \in 1..i - 1} = {rest[j].id : j \in 1..k - 1} \cup {used}
      <4> DEFINE new == {inner'[j].id : j \in 1..i - 1}
                 old == {rest[j].id : j \in 1..k - 1}
      <4>1. ASSUME NEW j \in 1..i - 1
            PROVE  inner'[j].id \in old \cup {used}
        BY <3>5, <3>7
      <4>2. old \cup {used} \subseteq new
        <5>1. used \in new
          BY <3>7
        <5>2. \A l \in 1..k - 1 : rest[l].id \in new
          BY <3>6
        <5>. HIDE DEF new
        <5>3. \A x \in old : x \in new
          BY <5>2
        <5>. QED  BY <5>1, <5>3
      <4>3. new \subseteq old \cup {used}
        BY <4>1
      <4>. QED  BY <4>2, <4>3
    <3>. QED  BY <3>1, <3>2, <3>4, <3>8
  <2>. QED  BY <2>1, <2>2
<1>10. EvictedInv'
  <2>. SUFFICES ASSUME NEW id \in inserted', ~Cached(id)'
                PROVE  Cardinality(usedSince'[id]) >= Capacity
    BY DEF EvictedInv, Capacity, ConfiguredSize
  <2>1. 1 \in DOMAIN inner' /\ inner'[1].id = used
    BY <1>1, <1>2
  <2>2. id # used
    BY <2>1 DEF Cached, CachedIds
  <2>3. id \in inserted /\ id \in BeatmapId
    BY <1>5, <2>2 DEF HistoryInv, HistoryTypeOK
  <2>4. usedSince'[id] = usedSince[id] \cup {used}
    BY <1>5, <2>2, <2>3
  <2>5. IsFiniteSet(usedSince[id])
    BY <2>3, FS_Subset DEF HistoryInv, HistoryFinite
  <2>6. /\ Cardinality(usedSince[id]) \in Nat
        /\ Cardinality(usedSince[id] \cup {used}) =
             IF used \in usedSince[id] THEN Cardinality(usedSince[id])
                                       ELSE Cardinality(usedSince[id]) + 1
    BY <2>5, FS_CardinalityType, FS_AddElement
  <2>7. CASE ~Cached(id)
    <3>1. Cardinality(usedSince[id]) >= Capacity
      BY <2>3, <2>7 DEF HistoryInv, EvictedInv
    <3>. QED  BY <2>4, <2>6, <3>1, CapacityPositive
  <2>8. CASE Cached(id)
    <3>1. PICK q \in 1..Len(inner) : inner[q].id = id
      BY <2>8, InnerFacts DEF Cached, CachedIds, HistoryInv
    <3>2. ~ \E k \in 1..Len(rest) : rest[k].id = id
      <4>. SUFFICES ASSUME NEW k \in 1..Len(rest), rest[k].id = id
                    PROVE  id \in CachedIds'
        BY DEF Cached
      <4>1. k + 1 \in DOMAIN inner' /\ inner'[k + 1].id = id
        BY <1>1, <1>3
      <4>. QED  BY <4>1 DEF CachedIds
    <3>3. q >= Capacity /\ ~Cached(used)
      BY <2>2, <3>1, <3>2
    <3>4. usedSince[id] = KeysBefore(q)
      BY <3>1 DEF HistoryInv, PositionInv
    <3>5. Cardinality(usedSince[id]) = q - 1
      BY <3>4, KeysBeforeCounted DEF HistoryInv
    <3>6. used \notin usedSince[id]
      BY <3>3, <3>4, InnerFacts DEF KeysBefore, Cached, CachedIds, HistoryInv
    <3>. QED  BY <2>4, <2>6, <3>3, <3>5, <3>6, CapacityPositive
  <2>. QED  BY <2>7, <2>8
<1>. QED  BY <1>6, <1>8, <1>9, <1>10 DEF HistoryInv

(* A cached key that is used moves out of the middle. *)
LEMMA PromotedKey ==
  ASSUME HistoryInv, CacheInv', NEW used \in BeatmapId, RecordUse(used), Cached(used),
         NEW e \in Entry, e.id = used,
         inner' = Cons(e, RemoveAt(inner, Position(used)))
  PROVE  HistoryInv'
<1> DEFINE p == Position(used)
           rest == RemoveAt(inner, p)
<1>1. p \in 1..Len(inner) /\ inner[p].id = used
  BY PositionFacts DEF HistoryInv, CacheInv
<1>2. /\ rest \in Seq(Entry)
      /\ Len(rest) = Len(inner) - 1
      /\ \A k \in 1..Len(inner) - 1 : rest[k] = IF k < p THEN inner[k] ELSE inner[k + 1]
  BY <1>1, InnerFacts, RemoveAtFacts DEF HistoryInv
<1>3. /\ Len(inner) \in Nat
      /\ \A i, j \in 1..Len(inner) : inner[i].id = inner[j].id => i = j
  BY InnerFacts DEF HistoryInv, DistinctKeys
<1>4. inner' = Cons(e, rest)
  OBVIOUS
<1>. HIDE DEF p, rest
<1>5. ASSUME NEW k \in 1..Len(rest)
      PROVE  \E q \in 1..Len(inner) :
                /\ rest[k].id = inner[q].id
                /\ rest[k].id # used
                /\ {rest[j].id : j \in 1..k - 1} \cup {used} = KeysBefore(q) \cup {used}
  <2>1. CASE k < p
    <3>1. k \in 1..Len(inner) /\ rest[k] = inner[k] /\ k # p
      BY <1>1, <1>2, <1>3, <2>1
    <3>2. \A j \in 1..k - 1 : rest[j].id = inner[j].id
      BY <1>1, <1>2, <1>3, <2>1
    <3>3. {rest[j].id : j \in 1..k - 1} = KeysBefore(k)
      BY <3>2 DEF KeysBefore
    <3>4. rest[k].id # used
      BY <1>1, <1>3, <3>1
    <3>. QED  BY <3>1, <3>3, <3>4
  <2>2. CASE ~(k < p)
    <3>1. k + 1 \in 1..Len(inner) /\ rest[k] = inner[k + 1] /\ k + 1 # p
      BY <1>1, <1>2, <1>3, <2>2
    <3>2. \A j \in 1..k - 1 :
             \E l \in 1..(k + 1) - 1 : rest[j].id = inner[l].id
      <4>. SUFFICES ASSUME NEW j \in 1..k - 1
                    PROVE  \E l \in 1..(k + 1) - 1 : rest[j].id = inner[l].id
        OBVIOUS
      <4>1. j \in 1..Len(inner) - 1 /\ j \in 1..(k + 1) - 1 /\ j + 1 \in 1..(k + 1) - 1
        BY <1>2, <1>3
      <4>. QED  BY <1>2, <4>1
    <3>3. \A l \in 1..(k + 1) - 1 :
             inner[l].id = used \/ \E j \in 1..k - 1 : inner[l].id = rest[j].id
      <4>. SUFFICES ASSUME NEW l \in 1..(k + 1) - 1, l # p
                    PROVE  \E j \in 1..k - 1 : inner[l].id = rest[j].id
        BY <1>1
      <4>1. CASE l < p
        <5>1. l \in 1..k - 1 /\ rest[l] = inner[l]
          BY <1>1, <1>2, <1>3, <2>2, <4>1
        <5>. QED  BY <5>1
      <4>2. CASE l > p
        <5>1. l - 1 \in 1..k - 1 /\ rest[l - 1] = inner[l]
          BY <1>1, <1>2, <1>3, <2>2, <4>2
        <5>. QED  BY <5>1
      <4>. QED  BY <1>1, <4>1, <4>2
    <3>4. {rest[j].id : j \in 1..k - 1} \cup {used} = KeysBefore(k + 1) \cup {used}
      BY <3>2, <3>3 DEF KeysBefore
    <3>5. rest[k].id # used
      BY <1>1, <1>3, <3>1
    <3>. QED  BY <3>1, <3>4, <3>5
  <2>. QED  BY <2>1, <2>2
<1>6. ASSUME NEW q \in 1..Len(inner), inner[q].id # used
      PROVE  \E k \in 1..Len(rest) : rest[k].id = inner[q].id
  <2>1. q # p
    BY <1>1, <1>6
  <2>2. CASE q < p
    <3>1. q \in 1..Len(rest) /\ rest[q] = inner[q]
      BY <1>1, <1>2, <1>3, <2>2
    <3>. QED  BY <3>1
  <2>3. CASE q > p
    <3>1. q - 1 \in 1..Len(rest) /\ rest[q - 1] = inner[q]
      BY <1>1, <1>2, <1>3, <2>3
    <3>. QED  BY <3>1
  <2>. QED  BY <1>1, <2>1, <2>2, <2>3
<1>. QED  BY <1>2, <1>4, <1>5, <1>6, UseKeepsHistory

(* A new key goes in front of a remainder that starts like the cache and is
   the whole cache, or all but the last entry of a full one. *)
LEMMA NewKey ==
  ASSUME HistoryInv, CacheInv', NEW used \in BeatmapId, RecordUse(used), ~Cached(used),
         NEW e \in Entry, e.id = used,
         NEW rest \in Seq(Entry), inner' = Cons(e, rest),
         Len(rest) <= Len(inner),
         \A k \in 1..Len(rest) : rest[k] = inner[k],
         \A q \in 1..Len(inner) : q <= Len(rest) \/ q >= Capacity
  PROVE  HistoryInv'
<1>1. /\ Len(inner) \in Nat
      /\ Len(rest) \in Nat
      /\ \A q \in 1..Len(inner) : inner[q].id # used
  BY InnerFacts, LenProperties DEF HistoryInv, Cached, CachedIds
<1>2. ASSUME NEW k \in 1..Len(rest)
      PROVE  \E q \in 1..Len(inner) :
                /\ rest[k].id = inner[q].id
                /\ rest[k].id # used
                /\ {rest[j].id : j \in 1..k - 1} \cup {used} = KeysBefore(q) \cup {used}
  <2>1. k \in 1..Len(inner) /\ rest[k] = inner[k]
    BY <1>1
  <2>2. \A j \in 1..k - 1 : rest[j].id = inner[j].id
    BY <1>1
  <2>3. {rest[j].id : j \in 1..k - 1} = KeysBefore(k)
    BY <2>2 DEF KeysBefore
  <2>. QED  BY <1>1, <2>1, <2>3
<1>3. ASSUME NEW q \in 1..Len(inner)
      PROVE  \/ inner[q].id = used
             \/ \E k \in 1..Len(rest) : rest[k].id = inner[q].id
             \/ q >= Capacity /\ ~Cached(used)
  <2>1. CASE q <= Len(rest)
    <3>1. q \in 1..Len(rest)
      BY <1>1, <2>1
    <3>. QED  BY <3>1
  <2>. QED  BY <2>1
<1>. QED  BY <1>2, <1>3, UseKeepsHistory

-----------------------------------------------------------------------------

LEMMA HistoryInitInv == HCacheInit => HistoryInv
<1>. SUFFICES ASSUME HCacheInit
              PROVE  HistoryInv
  OBVIOUS
<1>1. CacheInv
  BY CacheInitInv DEF HCacheInit
<1>2. inner = <<>> /\ inserted = {} /\ usedSince = [id \in BeatmapId |-> {}]
  BY DEF HCacheInit, CacheInit, HistoryInit
<1>3. Len(inner) = 0 /\ DOMAIN inner = {}
  BY <1>2
<1>4. HistoryTypeOK
  BY <1>2 DEF HistoryTypeOK
<1>5. HistoryFinite
  BY <1>2, <1>3, FS_EmptySet DEF HistoryFinite, CachedIds
<1>6. PositionInv /\ EvictedInv
  BY <1>2, <1>3 DEF PositionInv, EvictedInv
<1>. QED  BY <1>1, <1>4, <1>5, <1>6 DEF HistoryInv

LEMMA HistoryStepInv ==
  HistoryInv /\ [HCacheNext]_<<cacheVars, historyVars>> => HistoryInv'
<1>. SUFFICES ASSUME HistoryInv, [HCacheNext]_<<cacheVars, historyVars>>
              PROVE  HistoryInv'
  OBVIOUS
<1>1. CacheInv
  BY DEF HistoryInv
<1>2. ASSUME NEW id \in BeatmapId, Hit(id), RecordUse(id)
      PROVE  HistoryInv'
  <2>1. CacheInv'
    BY <1>1, <1>2, HitKeepsEntries
  <2>2. /\ Cached(id)
        /\ inner[Position(id)] \in Entry
        /\ inner[Position(id)].id = id
    BY <1>1, <1>2, PositionFacts DEF Hit, CacheInv
  <2>3. inner' = Cons(inner[Position(id)], RemoveAt(inner, Position(id)))
    BY <1>2 DEF Hit, LruGet
  <2>. QED  BY <1>2, <2>1, <2>2, <2>3, PromotedKey
<1>3. ASSUME UNCHANGED inner, UNCHANGED historyVars, CacheInv'
      PROVE  HistoryInv'
  BY <1>3 DEF HistoryInv, historyVars, HistoryTypeOK, HistoryFinite, PositionInv, KeysBefore,
              EvictedInv, Cached, CachedIds, Capacity, ConfiguredSize
<1>4. ASSUME NEW id \in BeatmapId, Miss(id), UNCHANGED historyVars
      PROVE  HistoryInv'
  BY <1>1, <1>3, <1>4, MissKeepsEntries
<1>5. ASSUME NEW id \in BeatmapId, NEW map \in Beatmap, Insert(id, map), RecordUse(id)
      PROVE  HistoryInv'
  <2> DEFINE e == [id |-> id, map |-> map]
  <2>1. CacheInv'
    BY <1>1, <1>5, InsertAddsEntry
  <2>2. e \in Entry /\ e.id = id
    BY DEF Entry
  <2>3. inner' = Cons(e, CASE Cached(id) -> RemoveAt(inner, Position(id))
                           [] ~Cached(id) /\ Len(inner) >= Capacity -> Front(inner)
                           [] OTHER -> inner)
    BY <1>5 DEF Insert, LruPut
  <2>. HIDE DEF e
  <2>4. /\ inner \in Seq(Entry)
        /\ Len(inner) \in Nat
        /\ Len(inner) <= Capacity
    BY <1>1, InnerFacts
  <2>5. CASE Cached(id)
    <3>1. inner' = Cons(e, RemoveAt(inner, Position(id)))
      BY <2>3, <2>5
    <3>. QED  BY <1>5, <2>1, <2>2, <2>5, <3>1, PromotedKey
  <2>6. CASE ~Cached(id) /\ Len(inner) >= Capacity
    <3>1. inner' = Cons(e, Front(inner))
      BY <2>3, <2>6
    <3>2. Len(inner) >= 1 /\ Len(inner) = Capacity
      BY <2>4, <2>6, CapacityPositive
    <3>3. /\ Front(inner) \in Seq(Entry)
          /\ Len(Front(inner)) = Len(inner) - 1
          /\ \A k \in 1..Len(inner) - 1 : Front(inner)[k] = inner[k]
      BY <2>4, <3>2, FrontFacts
    <3> DEFINE rest == Front(inner)
    <3>. HIDE DEF rest
    <3>4. /\ rest \in Seq(Entry)
          /\ inner' = Cons(e, rest)
          /\ Len(rest) <= Len(inner)
          /\ \A k \in 1..Len(rest) : rest[k] = inner[k]
          /\ \A q \in 1..Len(inner) : q <= Len(rest) \/ q >= Capacity
      BY <2>4, <3>1, <3>2, <3>3 DEF rest
    <3>. QED  BY <1>5, <2>1, <2>2, <2>6, <3>4, NewKey
  <2>7. CASE ~Cached(id) /\ ~(Len(inner) >= Capacity)
    <3>1. inner' = Cons(e, inner)
      BY <2>3, <2>7
    <3>. QED  BY <1>5, <2>1, <2>2, <2>4, <2>7, <3>1, NewKey
  <2>. QED  BY <2>5, <2>6, <2>7
<1>6. CASE UNCHANGED <<cacheVars, historyVars>>
  <2>1. CacheInv'
    BY <1>1, <1>6, CacheStepInv DEF cacheVars
  <2>. QED  BY <1>3, <1>6, <2>1 DEF cacheVars
<1>. QED  BY <1>2, <1>4, <1>5, <1>6 DEF HCacheNext

(* The inductive invariant holds of every behaviour of the cache. *)
THEOREM HistoryInvariant == HCacheSpec => []HistoryInv
BY HistoryInitInv, HistoryStepInv, PTL DEF HCacheSpec

(* Whatever the capacity and the mix of hits, misses, replacements and
   insertions, an inserted key is cached exactly as long as fewer than
   Capacity other keys have been used since its own last use
   (cache.rs:37-55). *)
THEOREM EvictionByCapacityOnly == HCacheSpec => []EvictedExactlyByCapacity
<1>1. HistoryInv => EvictedExactlyByCapacity
  <2>. SUFFICES ASSUME HistoryInv, NEW id \in BeatmapId
                PROVE  Cached(id) <=> id \in inserted /\ Cardinality(usedSince[id]) < Capacity
    BY DEF EvictedExactlyByCapacity
  <2>1. IsFiniteSet(usedSince[id])
    BY FS_Subset DEF HistoryInv, HistoryFinite
  <2>2. Cardinality(usedSince[id]) \in Nat
    BY <2>1, FS_CardinalityType
  <2>3. CASE Cached(id)
    <3>1. PICK i \in 1..Len(inner) : inner[i].id = id
      BY <2>3, InnerFacts DEF Cached, CachedIds, HistoryInv
    <3>2. Cardinality(usedSince[id]) = i - 1
      BY <3>1, KeysBeforeCounted DEF HistoryInv, PositionInv
    <3>3. i <= Capacity
      BY InnerFacts, CapacityPositive DEF HistoryInv
    <3>4. id \in inserted
      BY <2>3 DEF Cached, HistoryInv, HistoryFinite
    <3>. QED  BY <2>3, <3>2, <3>3, <3>4, CapacityPositive
  <2>4. CASE ~Cached(id)
    <3>1. id \in inserted => Cardinality(usedSince[id]) >= Capacity
      BY <2>4 DEF HistoryInv, EvictedInv
    <3>. QED  BY <2>2, <2>4, <3>1, CapacityPositive
  <2>. QED  BY <2>3, <2>4
<1>. QED  BY <1>1, HistoryInvariant, PTL

=============================================================================
