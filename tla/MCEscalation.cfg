SPECIFICATION FairSpec
CONSTANTS
    Passes = {ticker, manual}
    MaxSteps = 2
    After <- MCAfter
    Repeats <- MCRepeats
    MaxNow = 2
    MaxEvents = 2
    NoDue = NoDue
INVARIANTS
    ClimbIsAccounted
    SettledIsCancelled
PROPERTIES
    PromiseKept
    
CHECK_DEADLOCK FALSE
