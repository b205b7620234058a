CONSTANTS
    p1 = p1
    p2 = p2
    t1 = t1
    t2 = t2
    t3 = t3
    Procs <- MCProcs
    Tokens <- MCTokens1
    None = None
    Legacy = Legacy
    Reconcilers = {"http", "cli"}
    StopAt <- NotInWindow
    MaxStops = 1
SPECIFICATION FairSpec
INVARIANTS
    JournalResolvable
PROPERTIES
    PendingIsResolved
