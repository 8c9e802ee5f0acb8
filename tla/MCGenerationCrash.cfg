SPECIFICATION CalmSpec
CONSTANTS
    a = a
    b = b
    e1 = e1
    e2 = e2
    Names = {a}
    Absent = Absent
    Edits = {e1}
    Clashing = {}
    MaxDeltas = 2
    MaxCrashes = 1
PROPERTIES
    DeltasLand
CHECK_DEADLOCK FALSE
