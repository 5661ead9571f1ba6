SPECIFICATION MailFairSpec
CONSTANTS
    m1 = m1
    m2 = m2
    Messages = {m1, m2}
    Letters = {m1}
    Pushed = {m1}
    Processes = {p, q}
    Leader = p
    Hook = hook
    DeleteAfterFetch = TRUE
    MaxFaults = 1
    MaxToggles = 2
    Absent = Absent
INVARIANTS
    MailIsKept
 
CHECK_DEADLOCK FALSE
