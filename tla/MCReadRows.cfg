CONSTANTS
    p1 = p1
    t1 = t1
    t2 = t2
    Procs = {p1}
    Tokens <- MCTokens
    None = None
    Legacy = Legacy
    Missing = Missing
    Reconcilers = {"cli"}
    StopAt <- Anywhere
    MaxStops = 1
SPECIFICATION ReadSpec
SYMMETRY Symmetry
INVARIANTS
    RowsMatchRevision
