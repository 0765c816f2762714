SPECIFICATION Spec
CHECK_DEADLOCK FALSE
CONSTANTS
    None = None
    Broken = Broken
    Unresolved = Unresolved
    Names <- MCNames
    Envs <- MCEnvs
    Disks <- MCDisks
    NewDisks <- MCNewDisks
    DropinOrder <- MCOrder
    Passwd <- MCPasswd
    GroupDb <- MCGroups
    NumberOf <- MCNumbers
    CapNames <- MCCaps
    Daemons <- MCDaemons
    MaxEdits = 2
    MaxFaults = 1
    MaxSpawns = 1
INVARIANTS
    LaterWins
    AcceptedRuns
    KeepOld
    ChildIdentity
    OrderWorks
