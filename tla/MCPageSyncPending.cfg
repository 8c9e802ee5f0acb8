SPECIFICATION Spec
CONSTANTS
    b1 = b1
    b2 = b2
    v0 = v0
    v1 = v1
    v2 = v2
    Blocks = {b1}
    Values = {v0, v1, v2}
    Base = v0
    None = None
    MaxLocalEdits = 1
    MaxRemoteEdits = 1
    MaxTouches = 0
    MaxDeletes = 0
    MaxPushes = 1
    MaxFailures = 0
    MaxCrashes = 0
PROPERTIES
    NeverOverwritesPending
CHECK_DEADLOCK FALSE
