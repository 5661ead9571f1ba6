CHECK_DEADLOCK FALSE
SPECIFICATION LeaderFairSpec
CONSTANTS
    r1 = r1
    r2 = r2
    Replicas <- TwoReplicas
    NoOne = NoOne
    Ghost = Ghost
    N = 2
    MaxFaults = 3
    MaxCuts = 1
    MaxRefusals = 1
INVARIANT OneLeader
PROPERTY SomeoneWorks
