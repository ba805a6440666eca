\* Five keys in a cache of three: replacements, promotions and evictions mix.
SPECIFICATION MCSpec
CONSTANTS
    BeatmapId = {id1, id2, id3, id4, id5}
    Beatmap = {m1, m2}
    PP_SERVICE_CACHE_SIZE = 3
    Unset = Unset
    MaxGets = 6
SYMMETRY Symmetry
INVARIANTS
    CacheTypeOK
    NoDuplicateKeys
    EvictedExactlyByCapacity
