SPECIFICATION Spec
CONSTANTS
    sv = sv
    Services = {sv}
    Pids = {p1}
    NoPid = NoPid
    Clients = {c1, c2}
    MaxRequests = 2
    Asks <- MCAsks
    Cfg <- MCCfg
    BootOrder <- MCBootOrder
    StopOrder <- MCStopOrder
INVARIANT
    StateShown
