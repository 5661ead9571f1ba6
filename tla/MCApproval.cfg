CHECK_DEADLOCK FALSE
SPECIFICATION FairSpec
CONSTANTS
    anna = anna
    ben = ben
    cab = cab
    c1 = c1
    c2 = c2
    sweep = sweep
    Users <- TwoUsers
    Groups <- OneGroup
    Members <- Board
    Specs <- MCSpecs
    AllowDelegate = TRUE
    Clients <- TwoClients
    Sweeper = sweep
    MaxApprovals = 1
    MaxOps = 4
INVARIANTS
    VerdictIsSound
    
PROPERTIES
    SettlementIsFinal
    DecisionIsFinal
    DeadlinesAreMet
