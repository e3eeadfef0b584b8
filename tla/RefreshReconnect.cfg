SPECIFICATION Spec
CONSTANTS
    Pollers = {p1, p2}
    Nobody = Nobody
    Ended = Ended
    Backends = {"convex", "redis"}
    MaxEpoch = 2
    MaxGen = 2
    AccessOnly = {}
    Managed = TRUE
    Faults = {"journal", "storage", "crash"}
    MayExpire = FALSE
    MayReject = TRUE
    MayRevoke = FALSE
    MayRemove = TRUE
    MayLoseLease = TRUE
SYMMETRY Symmetric
INVARIANTS GrantKept HolderHasWork
PROPERTIES VaultMovesOn JournalKept
CHECK_DEADLOCK FALSE
