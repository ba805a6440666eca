----------------------------- MODULE LruHistory -----------------------------
(***************************************************************************)
(* BeatmapCache with a history variable: for every key, the set of other   *)
(* keys used since its own last use. It says exactly when an entry leaves  *)
(* the cache, which the loader's re-read of what it just inserted          *)
(* (src/service/convert.rs:40-42) depends on.                              *)
(***************************************************************************)
EXTENDS BeatmapCache, FiniteSets

VARIABLES
    inserted,   \* the keys inserted at least once
    usedSince   \* [BeatmapId -> SUBSET BeatmapId]

historyVars == <<inserted, usedSince>>

HistoryInit ==
    /\ inserted = {}
    /\ usedSince = [id \in BeatmapId |-> {}]

(* A hit or an insert of `used`; a miss uses nothing. *)
RecordUse(used) ==
    /\ inserted' = inserted \cup {used}
    /\ usedSince' = [id \in BeatmapId |->
                        IF id = used THEN {} ELSE usedSince[id] \cup {used}]

HCacheInit == CacheInit /\ HistoryInit

HCacheNext ==
    \E id \in BeatmapId :
        \/ Hit(id) /\ RecordUse(id)
        \/ Miss(id) /\ UNCHANGED historyVars
        \/ \E map \in Beatmap : Insert(id, map) /\ RecordUse(id)

HCacheSpec == HCacheInit /\ [][HCacheNext]_<<cacheVars, historyVars>>

-----------------------------------------------------------------------------

HistoryTypeOK ==
    /\ inserted \in SUBSET BeatmapId
    /\ usedSince \in [BeatmapId -> SUBSET BeatmapId]

(* An inserted key is in the cache exactly as long as fewer than Capacity
   other keys have been used since its own last use: no mix of hits, misses,
   replacements and insertions evicts it sooner or keeps it longer
   (cache.rs:37-55). *)
EvictedExactlyByCapacity ==
    \A id \in BeatmapId :
        Cached(id) <=> id \in inserted /\ Cardinality(usedSince[id]) < Capacity

=============================================================================
