SPECIFICATION FairSpec
CONSTANTS
    w1 = w1
    w2 = w2
    w3 = w3
    a = a
    b = b
    Writers = {t1, t2}
    Watchers = {w1, w2, w3}
    Services = {a, b}
    States = {up, down}
    Keys <- MCKeys
    MaxFollowers = 2
    MaxWrites = 1
    None = None
INVARIANTS
    NoWriteMissed
    WakeNotLost
PROPERTY
    FirstFrame
