\* Ids that identify their beatmap, and a cache that evicts all the time.
SPECIFICATION LoaderSpec
CONSTANTS
    Request = {r1, r2, r3}
    Content = {fileA, suspect2, noId, brokenNo}
    Path = {path}
    PP_SERVICE_CACHE_SIZE = 1
    Unset = Unset
    BeatmapId = {id1, id2}
    Beatmap = {mapA, mapAMania, mapB, mapS}
    Mode = {osu, mania}
    BeatmapIdOf <- MCBeatmapIdOf
    FromBytes <- MCFromBytes
    ModeOf <- MCModeOf
    TooSuspicious <- MCTooSuspicious
    Converted <- MCConverted
    Unspecified = Unspecified
    NoSource = NoSource
    NoFile = NoFile
    NoId = NoId
    Unparsable = Unparsable
    Unconvertible = Unconvertible
    None = None
    fileA = fileA
    fileB = fileB
    fileB1 = fileB1
    broken1 = broken1
    suspect2 = suspect2
    noId = noId
    brokenNo = brokenNo
    id1 = id1
    id2 = id2
    mapA = mapA
    mapAMania = mapAMania
    mapB = mapB
    mapS = mapS
    osu = osu
    mania = mania
SYMMETRY Symmetry
INVARIANTS
    CacheHoldsParses
    HitsCountLoadedRequests
    AnswersOwnContent
