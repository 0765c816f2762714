SPECIFICATION Spec
CONSTANTS
    migrate = migrate
    web = web
    Services = {migrate, web}
    Pids = {p1, p2}
    NoPid = NoPid
    Clients = {c1}
    MaxRequests = 0
    Asks <- MCAsks
    Cfg <- TwoDaemons
    BootOrder <- MCBootOrder
    StopOrder <- MCStopOrder
INVARIANT
    ReverseStop
