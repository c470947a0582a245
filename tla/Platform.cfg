SPECIFICATION MCSpec
CONSTANTS
    Emails = {e1}
    Sids = {s1, s2}
    Handlers = {h1}
    Pwds = {p1}
    CodeValues = {c1}
    Docs = {d1, d2}
    Requests = {q1}
    Texts = {t1, t2}
    EmployerTypes = {"SME", "ORGANIZATION"}
SYMMETRY Symmetry
INVARIANTS
    IInv OnlyOpenServed OneRolePerEmail AdminReplacedPassword
    ApprovedAsReviewed NobodyVerifiesHimself FilesAreReferenced
CHECK_DEADLOCK FALSE
