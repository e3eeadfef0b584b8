SPECIFICATION Spec
CONSTANTS
    Pollers = {p1, p2}
    Nobody = Nobody
    Ended = Ended
    Backends = {"convex", "redis"}
    MaxEpoch = 1
    MaxGen = 2
    AccessOnly = {1}
    Managed = TRUE
    Faults = {"response", "provider", "throttle", "usage", "storage", "journal", "coordination", "crash"}
    MayExpire = TRUE
    MayReject = FALSE
    MayRevoke = TRUE
    MayRemove = FALSE
    MayLoseLease = FALSE
SYMMETRY Symmetric
INVARIANTS TypeOK OneRenewer SpendsCurrent ReauthProven
