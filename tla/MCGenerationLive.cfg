SPECIFICATION SparedSpec
CONSTANTS
    a = a
    b = b
    e1 = e1
    e2 = e2
    Names = {a, b}
    Absent = Absent
    Edits = {e1, e2}
    Clashing = {e2}
    MaxDeltas = 2
    MaxCrashes = 2
PROPERTIES
    DeltasLand
CHECK_DEADLOCK FALSE
