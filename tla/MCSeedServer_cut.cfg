SPECIFICATION Spec
CONSTANTS
    Clients = {c1, c2}
    GRAPH_COLLECT_NO = 2
    RECURSION_THRESHOLD = 2
    MAX_DES = 2
    MaxCliques = 2
    MaxGsize = 2
    Uploads <- CutUploads
    Seeds <- RoundSeeds
    CEDirs = {1}
    NoPeer = NoPeer
    Broken = Broken
    NoFile = NoFile
    NoReply = NoReply
    Garbage = Garbage
INVARIANTS
    RepliesExist
    OneSlotPerClient
    SendCountStops
    RoundNotFull
PROPERTIES
    DepthFirstStable
