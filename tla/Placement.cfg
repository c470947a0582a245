CONSTANTS
    e1 = e1
    h1 = h1
    h2 = h2
    None = None
    Employees <- OneEmployee
    Unpaid = {}
    Ends = {1, 2}
    EmployerSets = {"SUSPENDED", "COMPLETED"}
    Handlers = {h1}
    MaxTime = 2
    MaxTries = 3
    MaxFaults = 1
    Candidates = {c1, c2}
    Openings = {j1, j2}
    Placed = {p1, p2, p3}
    CreatedAs = {"ONBOARDING", "ACTIVE", "ENDED"}
    MaxEnds = 2
    NoOne = NoOne
    Bills = {b1, b2}
    Salaries = {1, 20}
    Rates = {100, 15000}
    Bounds = {15, 100}
    Nil = Nil
    Mails = {m1, test, broken}
    ForTests = {test}
    Unrenderable = {broken}
    Providers = 2
    MaxTroubles = 6
    Notices = {n1, n2}
    Guarded = {g1, g2}
    Limit = 2
    Window = 2
    MaxBreaks = 2
SPECIFICATION MCSpec
INVARIANTS
    EndedOnlyIfBothDeclared
    NoDoubleConfirm
    ActiveIsTracked
    
    
PROPERTIES
    ImplementsLife
    ClosedStaysClosed
    ConfirmationComes
    RateLock
    MailArrives
    ServedAgain
CHECK_DEADLOCK FALSE
