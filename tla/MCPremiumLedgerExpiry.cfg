SPECIFICATION Spec
CONSTANTS
    NoValue = NoValue
    ann = ann
    bob = bob
    cat = cat
    c1 = c1
    c2 = c2
    w1 = w1
    w2 = w2
    Users <- MCUsers
    Charges <- MCCharges
    Payer <- MCPayer
    PaidDays <- MCPaidDays
    Inviter <- MCInviter
    InviteeDays = 1
    InviterDays = 1
    Levels <- MCLevels
    LevelCount <- MCLevelCount
    LevelDays <- MCLevelDays
    AdminDays = 1
    Workers <- MCWorkers
    Horizon = 3
    MaxDeliveries = 2
    MaxAdmin = 0
PROPERTY PaidStaysPremium
CHECK_DEADLOCK FALSE
