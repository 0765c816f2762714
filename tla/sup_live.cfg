SPECIFICATION FairSpec
CONSTANTS
    migrate = migrate
    web = web
    Services = {migrate, web}
    Pids = {p1}
    NoPid = NoPid
    Clients = {c1}
    MaxRequests = 1
    Asks <- MCAsks
    Cfg <- MCCfg
    BootOrder <- MCBootOrder
    StopOrder <- MCStopOrder
INVARIANT
    OneProcess
PROPERTIES
    KeepsContract
    ShutdownCompletes
    RequestsServed
    WaitEnds
