SPECIFICATION Spec
CONSTANTS
    a = a
    b = b
    e1 = e1
    e2 = e2
    Names = {a, b}
    Absent = Absent
    Edits = {e1, e2}
    Clashing = {e1}
    MaxDeltas = 2
    MaxCrashes = 1
INVARIANTS
    TypeOK
    EditsAreKept
    RetainedInPlaceAreNamed
    CleanShowsBase
CHECK_DEADLOCK FALSE
