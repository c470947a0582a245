CONSTANTS
    a1 = a1
    a2 = a2
    h1 = h1
    h2 = h2
    None = None
    Apps <- TwoApps
    Score <- Scores
    Count = 1
    Handlers = {h1, h2}
    EmployerSets = {}
    MaxRows = 1
    MaxTries = 3
    MaxActs = 2
    MaxFaults = 0
SPECIFICATION Spec
PROPERTIES
    VettingKeepsSelections
CHECK_DEADLOCK FALSE
