SPECIFICATION NotifySpec
CONSTANTS
    Accounts = {a1}
    Runs = {r1, r2}
    Readings <- SomeReadings
    RecoveryLevel = 1
    WarnLevel = 2
    Toggles = {"recovery", "warning", "every_reset"}
    Pauses = FALSE
    NoRow = NoRow
    LocalAccounts = {k1, k2}
    Tabs = {t1, t2}
    LocalReadings <- DeviceReadings
    RuleSets <- BothRulesOrNone
    NoRecord = NoRecord
    Endpoints = {e0, e1, e2}
    OldEndpoint = e0
    Panels = {p1, p2}
    NoEndpoint = NoEndpoint
INVARIANTS
    ToldOnce
PROPERTIES
    AlertBeforeAdvance
    NeverBehind
    ShownBeforeAdvance
    DroppedRowsGo
