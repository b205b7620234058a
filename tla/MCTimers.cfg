CONSTANTS
    \* a second job is waiting when the signal finds the first one running
    MaxQueued = 2
    \* a score that is cached and one too large for it; the second worker
    \* numbers its sessions like the first
    Scores = {a, b}
    Large = {b}
    Pages = {1, 2}
    Nothing = Nothing
    MaxRequests = 4
    MaxWorkers = 2
SPECIFICATION TimersSpec
\* a killed or returned worker stops, and so does a page without requests
CHECK_DEADLOCK FALSE
INVARIANTS
    HealthFileTruthful
    PageOfItsScore
PROPERTIES
    WaitsEnd
