SPECIFICATION Spec
CONSTANTS
    LineBuffer = 254
    MAXSIZE = 541
    Cliques <- Triangles
    Starts <- SomeStarts
    Targets = {0, 1}
    Held <- SomeHeld
    LeftFiles <- SomeFiles
    TABOOSIZE = 2
    BIGCOUNT = 1
    Stop = 1
    Luck = 2
    Slack = 1
    FarCount = 99
    NEIGHBOR_SIZE = 2
    RECURSION_DEPTH = 3
INVARIANTS
    TypeOK
    CachesFresh
    CountsStillTrue
    UploadsMeetTarget
    NoneIsSkipped
    FlagStopsUploads
    ReadsBack
PROPERTIES
    FlagEndsSearch
    RecursionEnds
