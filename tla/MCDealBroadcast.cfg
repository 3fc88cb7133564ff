SPECIFICATION FairSpec
CONSTANTS
    NoValue = NoValue
    r1 = r1
    Runs <- MCOneRun
    Users <- MCUsers
    Allowed <- MCAdminMayLeave
    BatchSize = 1
    MaxPages = 2
    MaxFaults = 2
    MaxEdits = 1
INVARIANT TypeOK
INVARIANT PageRepeatsNeedFaults
INVARIANT SentPagesArrived
INVARIANT CompletedServesAll
INVARIANT ReportAddsUp
 
PROPERTY PagesAreDelivered
PROPERTY TaskEnds
CHECK_DEADLOCK FALSE
