CONSTANTS
    e1 = e1
    c1 = c1
    c2 = c2
    h1 = h1
    h2 = h2
    None = None
    Employees <- OneEmployee
    Contracts <- TwoContracts
    OwnerOf <- OwnerOfAll
    Schedulable <- OneEmployee
    Handlers = {h1}
    MaxEvents = 2
    MaxFaults = 1
    s1 = s1
    k1 = k1
    k2 = k2
    k3 = k3
    Seekers = {s1}
    Limits = {20, 100}
    PostAttempts = 2
    MaxEdits = 3
    MaxLosses = 2
    JobSkills = {k1, k2}
    OtherSkills = {k3}
    Alike <- Names
    Dates = {0, 3, 24, 125, 241}
    MaxWork = 3
    MaxHours = 3
SPECIFICATION MCSpec
INVARIANTS
    StatusFollowsSignatures
    
    MailedOncePerOpening
    MonthsCountOnce
PROPERTIES
    ImplementsLedger
    ExecutionReachesApplication
    
    UnfitDropsOut
    
CHECK_DEADLOCK FALSE
