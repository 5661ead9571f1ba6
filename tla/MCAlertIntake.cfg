SPECIFICATION Spec
SYMMETRY Symmetry
CONSTANTS
    p1 = p1
    p2 = p2
    Requests <- Two
    MinOccurrences = 3
    AutoResolve = TRUE
    Counts <- Claims
    MaxAt = 3
    MaxPosts = 4
INVARIANT AlertsAddUp
PROPERTY ClearedTakesNoBeat
CHECK_DEADLOCK FALSE
