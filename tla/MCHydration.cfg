SPECIFICATION FairSpec
CONSTANTS
    t1 = t1
    t2 = t2
    Targets = {t1, t2}
    Reasons = {"FileOpen", "Policy", "LiveModeRemoteFastForward", "Prefetch"}
    None = None
    MaxRequests = 4
    MaxAsks = 1
    MaxFailures = 2
    MaxCrashes = 1
INVARIANTS
    TypeOK
    AcceptedIsPending
    AcceptedIsDurable
    OneOwner
PROPERTIES
    CoolDownIsKept
    AllServed
    KeepsPromises
CHECK_DEADLOCK FALSE
