CONSTANTS
    e1 = e1
    c1 = c1
    c2 = c2
    h1 = h1
    h2 = h2
    None = None
    Employees <- OneEmployee
    Contracts <- TwoContracts
    OwnerOf <- OwnerOfAll
    Schedulable <- OneEmployee
    Handlers = {h1, h2}
    MaxEvents = 1
    MaxFaults = 0
SPECIFICATION Spec
PROPERTY ExecutedIsFinal
CHECK_DEADLOCK FALSE
