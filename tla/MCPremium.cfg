SPECIFICATION BothSpec
CONSTANTS
    NoValue = NoValue
    ann = ann
    bob = bob
    cat = cat
    c1 = c1
    c2 = c2
    w1 = w1
    w2 = w2
    Users <- MCUsers
    Charges <- MCCharges
    Payer <- MCPayer
    PaidDays <- MCPaidDays
    Inviter <- MCInviter
    InviteeDays = 1
    InviterDays = 1
    Levels <- MCLevels
    LevelCount <- MCLevelCount
    LevelDays <- MCLevelDays
    AdminDays = 1
    Workers <- MCWorkers
    Horizon = 1
    MaxDeliveries = 2
    MaxAdmin = 1
    Kept = {"premium_compare"}
    Rules = {1}
    Regions <- MCUsers
    MaxRegions = 2
    Handlers <- MCWorkers
INVARIANT TypeOK
INVARIANT NoFreeDays
INVARIANT LevelsAwardedWhenReached
INVARIANT InviterEarnedAddsUp
INVARIANT RegionsWithinLimit
INVARIANT ToolsWork
SYMMETRY MCSymmetry
CHECK_DEADLOCK FALSE
