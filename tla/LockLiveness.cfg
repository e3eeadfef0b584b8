SPECIFICATION FairSpec
CONSTANTS
    c1 = c1
    c2 = c2
    c3 = c3
    c4 = c4
    Calls = {c1, c2, c3}
    ProcOf <- OwnProcess
    HostOf <- OneHost
    NoCall = NoCall
    ErrorSets <- NoErrors
PROPERTY EveryCallEnters
CHECK_DEADLOCK FALSE
