SPECIFICATION Spec
CONSTANTS
    p1 = p1
    p2 = p2
    m1 = m1
    m2 = m2
    m3 = m3
    d1 = d1
    Paths = {p1, p2}
    Drafts = {d1}
    Mails = {m1, m2}
    None = None
    Gone = Gone
    MaxPushes = 2
    MaxCrashes = 1
SYMMETRY Interchangeable
INVARIANTS
    SentOnce
CHECK_DEADLOCK FALSE
