SPECIFICATION BoundedSpec
CONSTANTS
    e1 = e1
    e2 = e2
    e3 = e3
    o1 = o1
    Edits = {e1, e2, e3}
    Reviewed = {e2, e3}
    Dangerous = {e3}
    Clashing = {e1}
    Others = {o1}
    MaxFailures = 1
    MaxCoarse = 1
    MaxSwitches = 1
    MaxReviews = 1
    MaxQuits = 1
    MaxActs = 5
INVARIANTS
    TypeOK
    NoLostWakeup
    UnreviewedStaysHome
PROPERTIES
    LiveModeSettles
    EnrolledWritesSettle
CHECK_DEADLOCK FALSE
