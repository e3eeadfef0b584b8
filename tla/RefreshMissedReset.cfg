SPECIFICATION FairSpec
CONSTANTS
    Pollers = {p1}
    Nobody = Nobody
    Ended = Ended
    Backends = {"convex", "redis"}
    MaxEpoch = 2
    MaxGen = 0
    AccessOnly = {}
    Managed = TRUE
    Faults = {"coordination"}
    MayExpire = TRUE
    MayReject = FALSE
    MayRevoke = TRUE
    MayRemove = FALSE
    MayLoseLease = FALSE
PROPERTY MissedResetHeals
CHECK_DEADLOCK FALSE
