---------------------------- MODULE BeatmapCache ----------------------------
(***************************************************************************)
(* The process-wide beatmap cache of src/cache.rs: an lru::LruCache from   *)
(* BeatmapID to parsed beatmap behind one parking_lot mutex, and the two   *)
(* counters reported by GET /health.                                       *)
(*                                                                         *)
(* `get` and `insert` hold the mutex from their first line to their last   *)
(* and call nothing that blocks, so each is one atomic action.             *)
(***************************************************************************)
EXTENDS Integers, Sequences, SequencesExt

CONSTANTS
    BeatmapId,              \* the u32 keys
    Beatmap,                \* the values: parsed beatmaps, shared by Arc and immutable
    PP_SERVICE_CACHE_SIZE,  \* the environment variable, read once
    Unset                   \* the variable is absent, or is not a usize

DEFAULT_CACHE_SIZE == 1000

ASSUME CacheAssumption ==
    /\ PP_SERVICE_CACHE_SIZE \in Nat \cup {Unset}
    /\ Unset \notin Nat

(***************************************************************************)
(* The capacity: a size of 0 is not refused, it becomes 1.                 *)
(***************************************************************************)
ConfiguredSize ==
    IF PP_SERVICE_CACHE_SIZE = Unset THEN DEFAULT_CACHE_SIZE ELSE PP_SERVICE_CACHE_SIZE

ZeroNotRaised == ConfiguredSize

Capacity == IF ConfiguredSize = 0 THEN 1 ELSE ConfiguredSize

VARIABLES
    inner,      \* the LruCache: its entries, most recently used first
    hits,
    misses

cacheVars == <<inner, hits, misses>>

Entry == [id : BeatmapId, map : Beatmap]

CacheInit ==
    /\ inner = <<>>
    /\ hits = 0
    /\ misses = 0

CachedIds == {inner[i].id : i \in DOMAIN inner}

Cached(id) == id \in CachedIds

Position(id) == CHOOSE i \in DOMAIN inner : inner[i].id = id

CachedMap(id) == inner[Position(id)].map

(***************************************************************************)
(* Definitions such as the next one, placed just above the definition they *)
(* alter and used nowhere else, are plausible bugs: mutants that a checked *)
(* property must tell from the code. ZeroNotRaised above is the first.     *)
(***************************************************************************)

(***************************************************************************)
(* LruCache::get and LruCache::put, the two operations of the lru crate    *)
(* the service calls. A get moves the entry it finds to the front. A put   *)
(* replaces and moves to the front the entry of a key that is present; for *)
(* a new key it drops the last entry first when the cache is full.         *)
(***************************************************************************)
GetWithoutPromotion(id) == UNCHANGED inner

LruGet(id) == inner' = Cons(inner[Position(id)], RemoveAt(inner, Position(id)))

PutShadowing(id, map) ==
    inner' = Cons([id |-> id, map |-> map],
                  IF Len(inner) >= Capacity THEN Front(inner) ELSE inner)

LruPut(id, map) ==
    inner' = Cons([id |-> id, map |-> map],
                  CASE Cached(id)            -> RemoveAt(inner, Position(id))
                    [] ~Cached(id) /\ Len(inner) >= Capacity -> Front(inner)
                    [] OTHER                 -> inner)

(***************************************************************************)
(* cache::get, by its two outcomes: the caller receives CachedMap(id), or  *)
(* nothing.                                                                *)
(***************************************************************************)
Hit(id) ==
    /\ Cached(id)
    /\ LruGet(id)
    /\ hits' = hits + 1
    /\ UNCHANGED misses

MissTakenFromHits(id) ==
    /\ ~Cached(id)
    /\ hits' = hits - 1
    /\ UNCHANGED <<inner, misses>>

Miss(id) ==
    /\ ~Cached(id)
    /\ misses' = misses + 1
    /\ UNCHANGED <<inner, hits>>

(***************************************************************************)
(* cache::insert                                                           *)
(***************************************************************************)
Insert(id, map) ==
    /\ LruPut(id, map)
    /\ UNCHANGED <<hits, misses>>

(***************************************************************************)
(* cache::stats, what GET /health shows                                    *)
(***************************************************************************)
Stats == [size |-> Len(inner), capacity |-> Capacity, hits |-> hits, misses |-> misses]

CacheNext ==
    \E id \in BeatmapId :
        \/ Hit(id)
        \/ Miss(id)
        \/ \E map \in Beatmap : Insert(id, map)

CacheSpec == CacheInit /\ [][CacheNext]_cacheVars

-----------------------------------------------------------------------------

CacheTypeOK ==
    /\ inner \in Seq(Entry)
    /\ hits \in Nat
    /\ misses \in Nat

(* The cache never outgrows its capacity, whatever mix of new keys,
   replacements and hits it has seen (cache.rs:50-54: insert relies on the
   lru crate for this and only logs `was_full`). *)
WithinCapacity == Len(inner) <= Capacity

(* A key is in the cache once: a put of a present key replaces its entry and
   never shadows it, so that no later eviction can uncover an old beatmap. *)
NoDuplicateKeys ==
    \A i, j \in DOMAIN inner : inner[i].id = inner[j].id => i = j

=============================================================================
