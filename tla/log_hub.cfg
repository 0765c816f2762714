SPECIFICATION Spec
CONSTANTS
    w1 = w1
    w2 = w2
    a = a
    init = init
    r1 = r1
    r2 = r2
    r3 = r3
    Writers = {w1, w2}
    Services = {a, init}
    InitService = init
    ServiceOf <- MCServiceOf
    Requests = {r1, r2, r3}
    Wants <- MCWants
    Capacity = 2
    Lines = 2
    MaxFollowers = 2
    MaxLines <- MCMaxLines
SYMMETRY MCSymmetry
CHECK_DEADLOCK FALSE
INVARIANTS
    LostOnlyInSeam
    ClientOrder
    DroppedOnlyAtCap
