CONSTANTS
    e1 = e1
    c1 = c1
    c2 = c2
    h1 = h1
    h2 = h2
    None = None
    Employees <- OneEmployee
    Contracts <- TwoContracts
    OwnerOf <- OwnerOfAll
    Schedulable = {}
    Handlers = {h1, h2}
    MaxEvents = 1
    MaxFaults = 1
SPECIFICATION Spec
SYMMETRY Swap
INVARIANTS
    
    SignatureWasAsked
CHECK_DEADLOCK FALSE
