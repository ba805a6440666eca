\* Beatmaps of up to five sections, resampled to three points, on sizes up to the limits of u32 and i32.
SPECIFICATION GraphSpec
CONSTANTS
    NEW_STRAIN_COUNT = 3
    U32 = 16
    DEFAULT_WIDTH = 6
    DEFAULT_HEIGHT = 4
    MaxSections = 5
    SizeArg <- MCSizeArg
    Strains <- MCStrains
INVARIANTS
    GraphTypeOK
    TopIsTheLargestSample
    CurvesFollowTheStrains
    DrawnOnTime
    PngIsComplete
