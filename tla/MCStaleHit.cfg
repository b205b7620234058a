CONSTANTS
    \* one change around the first rows, one around the second
    MaxChanges = 2
    MaxPerCall = 2
SPECIFICATION ReadModelSpec
INVARIANTS
    HitIsCurrent
