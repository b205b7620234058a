CONSTANTS
    w1 = w1
    w2 = w2
    o1 = o1
    o2 = o2
    o3 = o3
    Workers <- MCWorkers
    Owners <- MCOwners
    None = None
    MaxAttempts = 2
    MaxStops = 2
    MaxRetries = 1
SPECIFICATION FairSpec
INVARIANTS
    AttemptsBounded
    PublishedOnce
    DoneWithSong
PROPERTIES
    CancelIsFinal
    OutcomeSpec
    JobSettles
