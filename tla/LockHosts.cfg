SPECIFICATION Spec
CONSTANTS
    c1 = c1
    c2 = c2
    c3 = c3
    c4 = c4
    Calls = {c1, c2, c3, c4}
    ProcOf <- OwnProcess
    HostOf <- OneAway
    NoCall = NoCall
    ErrorSets <- Mixed
SYMMETRY LocalSymmetric
ACTION_CONSTRAINT FourUntroubled
INVARIANTS MutualExclusion HolderOwnsLock ReapedIsDead Fence
PROPERTY ImplementsGenerations
CHECK_DEADLOCK FALSE
