\* A mania beatmap.
SPECIFICATION StreamSpec
CONSTANTS
    CHANNEL_CAPACITY = 2
    U32 = 8
    MaxObjects = 3
    Mode = {"osu", "mania"}
    InitialScore <- OrdinaryScores
    LoadError = LoadError
INVARIANTS
    ManiaCountsGeki
