\* Beatmaps of up to six objects through a channel of two: full, drained and cancelled at every step.
SPECIFICATION FairStreamSpec
CONSTANTS
    CHANNEL_CAPACITY = 2
    U32 = 8
    MaxObjects = 6
    Mode = {"osu", "mania"}
    InitialScore <- AllScores
    LoadError = LoadError
INVARIANTS
    StreamTypeOK
    BoundedAhead
    AtMostOneWasted
PROPERTIES
    StreamKeepsContract
    ThreadReleased
    StreamEnds
