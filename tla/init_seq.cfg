SPECIFICATION FairSpec
CONSTANTS
    MaxLineBytes = 1
    MaxCaptureLines = 2
    MaxCaptureBytes = 3
    PipeSize = 1
    MaxOutput = 4
    MaxFaults = 1
    Launches <- MCLaunches
    MaxRequests = 2
    MaxEarly = 1
    MaxEdits = 1
INVARIANTS
    CaptureLongest
    
    Teardown
PROPERTIES
    PipeDrains
    EarlyBootEnds
    ShutdownServed
