CONSTANTS
    a1 = a1
    a2 = a2
    j1 = j1
    j2 = j2
    p1 = p1
    r1 = r1
    h1 = h1
    h2 = h2
    None = None
    Apps = {a1}
    Jobs = {j1}
    JobOf <- OneJob
    Picked = {a1}
    Pays = {p1}
    Refs = {r1}
    Handlers = {h1, h2}
    EmployerSets = {"OFFER_SENT"}
    MaxFaults = 0
SPECIFICATION Spec
INVARIANTS DuplicatesIgnored
CHECK_DEADLOCK FALSE
