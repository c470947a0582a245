CONSTANTS
    a1 = a1
    a2 = a2
    j1 = j1
    j2 = j2
    p1 = p1
    p2 = p2
    r1 = r1
    r2 = r2
    r3 = r3
    h1 = h1
    None = None
    Apps = {a1}
    Jobs = {j1}
    JobOf <- OneJob
    Picked = {a1}
    Pays = {p1, p2}
    Refs = {r1, r2, r3}
    Handlers = {h1}
    EmployerSets = {"OFFER_SENT"}
    MaxFaults = 1
SPECIFICATION FairSpec
INVARIANTS SettledMeansOpen
PROPERTIES PaidEventuallyOpen
CHECK_DEADLOCK FALSE
