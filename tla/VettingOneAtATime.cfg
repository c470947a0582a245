CONSTANTS
    a1 = a1
    a2 = a2
    h1 = h1
    h2 = h2
    None = None
    Apps <- TwoApps
    Score <- Scores
    Count = 1
    Handlers = {h1}
    EmployerSets = {"SELECTED_FOR_HIRE"}
    MaxRows = 1
    MaxTries = 3
    MaxActs = 1
    MaxFaults = 1
SPECIFICATION FairSpec
INVARIANTS
    GateBeforeSelection
    OneOffer
PROPERTIES
    VettingKeepsSelections
    HighlightsAreTop
    ScoredInTheEnd
CHECK_DEADLOCK FALSE
