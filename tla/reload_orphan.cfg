SPECIFICATION Spec
CONSTANTS
    db = db
    web = web
    Services = {db, web}
    Defs = {d1, d2}
    Jobs = {d2}
    Deps <- MCDeps
    Order <- MCOrder
    Clients = {c1, c2}
    Earlier = {db}
    Monitors <- MCMonitors
    MaxEdits = 1
    MaxWork = 1
    MaxFaults = 0
    Absent = Absent
    Torn = Torn
    Nobody = Nobody
SYMMETRY MCSymmetry
INVARIANTS
    NoOrphan
