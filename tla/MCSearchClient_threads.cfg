SPECIFICATION FairSpec
CONSTANTS
    Graphs = {g1, g2}
    TopTarget = 0
    Units = 2
    Backlog = 1
    Faults = {"cut", "short", "refuse"}
    Junk = Junk
INVARIANTS
    TypeOK
    LoadedIsFile
    RunsAsTold
PROPERTIES
    FlagNoticed
    NeverIdle
