SPECIFICATION Spec
CONSTANTS
    sv = sv
    Services = {sv}
    Pids = {p1, p2}
    NoPid = NoPid
    Clients = {c1, c2}
    MaxRequests = 2
    Asks <- MCAsks
    Cfg <- MCCfg
    BootOrder <- MCBootOrder
    StopOrder <- MCStopOrder
SYMMETRY Symmetry
INVARIANTS
    TypeOK
    StopSticks
    DisabledStops
    OneProcess
    ExitsAccounted
    QuitNeverReceived
