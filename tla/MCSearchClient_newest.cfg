SPECIFICATION Spec
CONSTANTS
    Graphs = {g1, g2}
    TopTarget = 1
    Units = 2
    Backlog = 1
    Faults = {}
    Junk = Junk
INVARIANTS
    AimsAtTarget
