\* Two requests over a cache of one entry, an id that two files share, a parse that fails, a path whose file changes.
SPECIFICATION FairLoaderSpec
CONSTANTS
    Request = {r1, r2}
    Content = {fileA, fileB, broken1}
    Path = {path}
    PP_SERVICE_CACHE_SIZE = 0
    Unset = Unset
    BeatmapId = {id1, id2}
    Beatmap = {mapA, mapAMania, mapB, mapS}
    Mode = {osu, mania}
    BeatmapIdOf <- MCBeatmapIdOf
    FromBytes <- MCFromBytes
    ModeOf <- MCModeOf
    TooSuspicious <- MCTooSuspicious
    Converted <- MCConverted
    Unspecified = Unspecified
    NoSource = NoSource
    NoFile = NoFile
    NoId = NoId
    Unparsable = Unparsable
    Unconvertible = Unconvertible
    None = None
    fileA = fileA
    fileB = fileB
    fileB1 = fileB1
    broken1 = broken1
    suspect2 = suspect2
    noId = noId
    brokenNo = brokenNo
    id1 = id1
    id2 = id2
    mapA = mapA
    mapAMania = mapAMania
    mapB = mapB
    mapS = mapS
    osu = osu
    mania = mania
INVARIANTS
    LoaderTypeOK
    WithinCapacity
PROPERTIES
    ContractSafety
    ContractLiveness
