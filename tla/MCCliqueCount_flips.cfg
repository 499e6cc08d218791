SPECIFICATION FairSpec
CONSTANTS
    Nodes <- AllNodes
    K = 4
    Starts <- AllStarts
    Stops = {0, 1, 3}
INVARIANTS
    TypeOK
    CachesExact
    FlipCountExact
PROPERTIES
    CallReturns
