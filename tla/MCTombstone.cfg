CONSTANTS
    u1 = u1
    u2 = u2
    Publications <- MCPublications
    None = None
    Newer = Newer
    NPaths = 3
    MaxStops = 2
    MaxNewer = 1
    MaxJobs = 1
SPECIFICATION FairSpec
INVARIANTS
    ShownIsWhole
    BytesKept
PROPERTIES
    RowsLast
    
    RemovalSpec
    HiddenIsSettled
