SPECIFICATION FairSpec
CONSTANTS
    NoValue = NoValue
    r1 = r1
    Runs <- MCOneRun
    Users <- MCUsers
    Allowed <- MCAdminStays
    BatchSize = 1
    MaxPages = 2
    MaxFaults = 1
    MaxEdits = 0
PROPERTY RunEnds
CHECK_DEADLOCK FALSE
