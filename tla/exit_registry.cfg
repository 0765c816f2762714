SPECIFICATION FairSpec
CONSTANTS
    Pids = {p1, p2}
    Waiters = {w1, w2}
    Reapers = {main, reaper}
    Cap = 1
    MaxSpawns = 5
    NoPid = NoPid
CHECK_DEADLOCK FALSE
INVARIANTS
    OwnProcess
PROPERTY
    ExitDelivered
