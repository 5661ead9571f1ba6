SPECIFICATION Spec
CONSTANTS
    Incidents <- ThreeIncidents
    Problem = problem
    OtherProblem = other
    Nil = nil
    Cap = 2
    MaxEvents = 4
INVARIANTS
    PassesDoNotLockOut
    
PROPERTIES
    NobodyIsTalkedOver
    
CHECK_DEADLOCK FALSE
