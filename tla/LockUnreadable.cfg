SPECIFICATION Spec
CONSTANTS
    c1 = c1
    c2 = c2
    c3 = c3
    c4 = c4
    Calls = {c1, c2, c3}
    ProcOf <- OwnProcess
    HostOf <- OneHost
    NoCall = NoCall
    ErrorSets <- Unreadable
SYMMETRY Symmetric
INVARIANT OnlyDeadReaped
CHECK_DEADLOCK FALSE
