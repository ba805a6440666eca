\* Every combination of flags and acronyms, every file of up to four lines, every document of up to
\* three blocks and the one that is served, and every mode asked of every kind of file.
SPECIFICATION ComputationSpec
CONSTANTS
    Acronym = {"HR", "EZ"}
    LazerOnly = {"CL"}
    BaseCs = {40, 80}
    ClockRate = {fast}
    Absent = Absent
    Invalid = Invalid
    U32 = 8
    MaxLines = 4
    Number <- MCNumber
    Garbage = Garbage
    Section = {"Editor", "Metadata", "HitObjects"}
    File <- MCFile
    NoBeatmapId = NoBeatmapId
    Scanning = Scanning
    MaxBlocks = 3
    MaxSpans = 4
    Page <- MCPage
    BeatmapFile <- MCBeatmapFile
    NoFile = NoFile
    Unparsable = Unparsable
    MAX_BATCH_SIZE = 2
    Nothing = Nothing
INVARIANTS
    SameModsEverywhere
    CsOfTheDifficulty
    IdOfTheMetadata
    BlocksAsWritten
    TagsNest
    ModeAsAsked
    StatusNamesTheFault
