SPECIFICATION Spec
CONSTANTS
    w1 = w1
    w2 = w2
    r = r
    a = a
    l1 = l1
    k1 = k1
    k2 = k2
    Writers = {w1, w2}
    Readers = {r}
    Archivers = {a}
    Legacy = {l1}
    Old = Old
    ProcOf <- Process
    Keys = {k1, k2}
    RingOf <- Ring
    AllowedOf <- RingAllowed
    OwnOf <- Own
    None = None
    Nobody = Nobody
    Garbled = Garbled
    Empty = Empty
    Backends = {"file", "remote"}
    Faults = {"storage", "answer", "crash"}
    MaxDamage = 2
    ReadAttempts = 2
    WriteAttempts = 2
INVARIANTS SeenKept ReadsRecent OneKey
PROPERTY ImplementsList
CHECK_DEADLOCK FALSE
