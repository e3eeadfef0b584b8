SPECIFICATION SessionsSpec
CONSTANTS
    Attempts = {a1, a2}
    Requests = {q1, q2}
    MaxRecords = 1
    Nobody = Nobody
    Grants = {g1, g2}
    Pages = {p1, p2}
    MaxGrants = 1
    NoGrant = NoGrant
    Codes = {c1, c2}
    Helpers = {h1, h2}
    Ticks = {t1}
    MaxCodes = 1
    MaxTries = 2
    MaxMisses = 2
    NoCode = NoCode
    Clients = {k1, k2, k3}
    SignIns = {s1, s2}
    MaxFailures = 2
    MaxEntries = 2
    Overflow = Overflow
    Launchers = {l1, l2}
    NoLauncher = NoLauncher
INVARIANTS
    AttemptsCompleteOnce
    ConnectedIsSaved
    LimiterHolds
    TicketOpensOnce
PROPERTIES
    BusyEnds
CHECK_DEADLOCK FALSE
