\* Batches of up to four requests where three are the most, in a cache with room for their ids.
SPECIFICATION BatchSpec
CONSTANTS
    Request = {1, 2, 3, 4}
    MAX_BATCH_SIZE = 3
    MaxItems = 4
    Batches <- MCBatches
    Content = {fileA, fileB, brokenNo}
    Path = {path}
    PP_SERVICE_CACHE_SIZE = 2
    Unset = Unset
    BeatmapId = {id1, id2}
    Beatmap = {mapA, mapAMania, mapB, mapS}
    Mode = {osu, mania}
    BeatmapIdOf <- MCBeatmapIdOf
    FromBytes <- MCFromBytes
    ModeOf <- MCModeOf
    TooSuspicious <- MCTooSuspicious
    Converted <- MCConverted
    Unspecified = Unspecified
    NoSource = NoSource
    NoFile = NoFile
    NoId = NoId
    Unparsable = Unparsable
    Unconvertible = Unconvertible
    None = None
    path = path
    fileA = fileA
    fileB = fileB
    fileB1 = fileB1
    broken1 = broken1
    suspect2 = suspect2
    noId = noId
    brokenNo = brokenNo
    id1 = id1
    id2 = id2
    mapA = mapA
    mapAMania = mapAMania
    mapB = mapB
    mapS = mapS
    osu = osu
    mania = mania
INVARIANTS
    BatchTypeOK
    BatchAsSingles
    BatchWithinContract
    MissingBeatmapOnlyWithoutSource
