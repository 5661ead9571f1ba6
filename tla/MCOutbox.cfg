SPECIFICATION FairSpec
CONSTANTS
    r1 = r1
    r2 = r2
    w1 = w1
    Rows <- MCRows
    Workers <- OneWorker
    NoRow = NoRow
    BatchSize = 2
    MaxAttempts = 2
    MaxFaults = 2
    MaxRetries = 1
INVARIANTS
    Accounted
    AttemptsBounded
PROPERTIES
    SentIsFinal
    PromiseKept
    EveryRowSettles
