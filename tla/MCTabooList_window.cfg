SPECIFICATION Spec
CONSTANTS
    Entries <- ThreeKeys
    RowBase = 4
    CountBase = 2
    MaxSize = 7
    Node <- Memory
    Nil = 0
INVARIANTS
    TypeOK
    NeverStuck
    NeighboursKnown
    IndexHoldsQueue
    Balanced
PROPERTIES
    ImplementsWindow
VIEW View
