SPECIFICATION Spec
CONSTANTS
    Clients = {c1}
    GRAPH_COLLECT_NO = 2
    RECURSION_THRESHOLD = 4
    MAX_DES = 1
    MaxCliques = 2
    MaxGsize = 0
    Uploads <- RoundUploads
    Seeds <- RoundSeeds
    CEDirs = {1}
    NoPeer = NoPeer
    Broken = Broken
    NoFile = NoFile
    NoReply = NoReply
    Garbage = Garbage
INVARIANTS
    TypeOK
    SeedsMeetTarget
    PoolComplete
    RepliesAreGraphs
    CEWholeOrTorn
    CEComplete
PROPERTIES
    ImplementsRounds
