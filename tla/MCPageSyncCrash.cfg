SPECIFICATION Spec
SYMMETRY Symmetry
CONSTANTS
    b1 = b1
    b2 = b2
    v0 = v0
    v1 = v1
    v2 = v2
    Blocks = {b1, b2}
    Values = {v0, v1, v2}
    Base = v0
    None = None
    MaxLocalEdits = 2
    MaxRemoteEdits = 1
    MaxTouches = 1
    MaxDeletes = 1
    MaxPushes = 2
    MaxFailures = 1
    MaxCrashes = 1
CONSTRAINT OneSurprise
INVARIANTS
    TypeOK
    JournalTellsTruth
PROPERTIES
    OverwritesOnlyWhatWasShown
    KeepsTheEditsItRead
CHECK_DEADLOCK FALSE
