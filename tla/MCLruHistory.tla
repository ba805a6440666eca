---------------------------- MODULE MCLruHistory ----------------------------
(***************************************************************************)
(* LruHistory for TLC. MaxGets bounds the two counters, which nothing in   *)
(* the cache reads; every order of inserts and of up to MaxGets gets is    *)
(* explored.                                                               *)
(***************************************************************************)
EXTENDS LruHistory, TLC

CONSTANT MaxGets

MCNext == HCacheNext /\ hits' + misses' <= MaxGets

MCSpec == HCacheInit /\ [][MCNext]_<<cacheVars, historyVars>>

Symmetry == Permutations(BeatmapId) \cup Permutations(Beatmap)

=============================================================================
