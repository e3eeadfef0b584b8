SPECIFICATION FairSpec
CONSTANTS
    Accounts = {k1, k2}
    Callers = {c1, c2}
    MaxEntries = 1
    MaxEpoch = 2
    None = None
INVARIANTS
    ClearLeavesNoTrace
    OldVerdictOnlyJoined
    LastGoodSurvives
    CacheBounded
PROPERTIES
    CallsAnswered
