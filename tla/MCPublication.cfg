CONSTANTS
    p1 = p1
    p2 = p2
    t1 = t1
    t2 = t2
    t3 = t3
    Procs <- MCProcs
    Tokens <- MCTokens3
    None = None
    Legacy = Legacy
    Reconcilers = {"http"}
    StopAt <- Anywhere
    MaxStops = 2
SPECIFICATION Spec
SYMMETRY Symmetry
INVARIANTS
    CatalogMatchesTree
    CommittedTreeSurvives
    ReceiptTruthful
    SourcesFollowRows
    PublicationInvariant
PROPERTIES
    RowsFollowTree
    NoResurrection
    RegisterSpec
