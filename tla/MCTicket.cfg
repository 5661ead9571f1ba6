SPECIFICATION Spec
CONSTANTS
    Tickets = {a, b}
    Agents = {ann}
    Values = {v1, v2}
    MaxWrites = 5
    MaxMerges = 2
    MaxInFlight = 2
    Nil = Nil
SYMMETRY Symmetric

    
PROPERTIES
    CancelledIsLeftKnowingly
    NoBlindOverwrite
CHECK_DEADLOCK FALSE
