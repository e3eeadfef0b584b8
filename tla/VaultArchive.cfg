SPECIFICATION Spec
CONSTANTS
    w1 = w1
    w2 = w2
    r = r
    a = a
    l1 = l1
    k1 = k1
    k2 = k2
    Writers = {w1}
    Readers = {r}
    Archivers = {a}
    Legacy = {}
    Old = Old
    ProcOf <- Process
    Keys = {k1, k2}
    RingOf <- Ring
    AllowedOf <- RingAllowed
    OwnOf <- Own
    None = None
    Nobody = Nobody
    Garbled = Garbled
    Empty = Empty
    Backends = {"file"}
    Faults = {}
    MaxDamage = 2
    ReadAttempts = 2
    WriteAttempts = 2
PROPERTY ArchiveLeavesNothing
CHECK_DEADLOCK FALSE
