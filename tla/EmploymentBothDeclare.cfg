CONSTANTS
    e1 = e1
    h1 = h1
    h2 = h2
    None = None
    Employees <- OneEmployee
    Unpaid = {}
    Ends = {1, 2}
    EmployerSets = {"SUSPENDED"}
    Handlers = {h1, h2}
    MaxTime = 2
    MaxTries = 3
    MaxFaults = 0
SPECIFICATION Spec
PROPERTY SecondDeclarationEnds
CHECK_DEADLOCK FALSE
