SPECIFICATION BoardSpec
CONSTANTS
    Cards = {a1}
    Names = {n1, n2}
    Plain = n1
    Reads = {r1, r2}
    Usages = {u1}
    MaxEdits = 2
    MaxElsewhere = 1
    MaxReplays = 2
    MaxAdrift = 1
    NoCard = NoCard
    Boards = {b1, b2}
    Batches = {x1, x2}
    NoOrder = NoOrder
    cA = cA
    cB = cB
    tA = tA
    A = A
    B = B
    Connects = {q1, q2}
    Logins = {A, B}
    Credentials = {cA, cB, tA}
    LoginOf <- MCLoginOf
    Renewable = {cA}
    Profiled = {cA, cB}
    NoTarget = NoTarget
SYMMETRY MCReadsAlike
INVARIANTS
    EditsKept
    OrderCatchesUp
    OwnIdentity
PROPERTIES
    PendingShown
    OrderHeld
    ConnectTouchesOne
    ToldTruly
CHECK_DEADLOCK FALSE
