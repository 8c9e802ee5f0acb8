SPECIFICATION FairSpec
CONSTANTS
    e1 = e1
    e2 = e2
    Edits = {e1, e2}
    Plans <- AllPlans
    None = None
    MaxRemovals = 1
    MaxDrifts = 1
    MaxCrashes = 2
INVARIANTS
    TypeOK
    EditsAreKept
    AllOrNothing
    ReviewIsEarned
PROPERTIES
    EndsStay
    KeepsPromises
    TransactionsEnd
CHECK_DEADLOCK FALSE
