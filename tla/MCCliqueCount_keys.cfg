SPECIFICATION Spec
CONSTANTS
    Nodes <- HighNodes
    K = 7
    Starts <- HighStarts
    Stops = {1000}
INVARIANTS
    FlipCountExact
