CHECK_DEADLOCK FALSE
SPECIFICATION SlaFairSpec
CONSTANTS
    Requests = {r1}
    Ticker = tick
    Overlap = FALSE
    Horizon = 24
    Step = 4
    MaxOps = 3
    MaxStops = 1
    Open <- Always
    Reach = 37
    Calendars <- HoursNamed
    Outcome <- Workflow
    FirstCategory = "open"
    Budgets <- TwoBudgets
    FirstPriority = "p2"
    Warns <- OneWarn
    Policies <- TwoPolicies
INVARIANTS
    
    TimeIsConserved
PROPERTIES
    
    TimersFire
