SPECIFICATION BoundedSpec
CONSTANTS
    c1 = c1
    c2 = c2
    e1 = e1
    Clients = {c1, c2}
    Kinds = {"push", "open"}
    Events = {e1}
    MaxRefreshing = 1
    MaxEvents = 1
    MaxFollowUps = 1
    MaxTicks = 2
    MaxLimits = 1
    MaxRefreshes = 2
    MaxExtras = 2
    None = None
INVARIANTS
    TypeOK
    SnapshotIsFresh
    RequestsAreHeld
PROPERTIES
    PollsComeLast
    ShutdownDrains
    EveryoneIsAnswered
    PollsRun
CHECK_DEADLOCK FALSE
