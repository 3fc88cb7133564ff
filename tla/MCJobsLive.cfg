SPECIFICATION MonitorLives
CONSTANTS
    NoValue = NoValue
    Unknown = Unknown
    pro = pro
    free = free
    s1 = s1
    s2 = s2
    DayLength = 3
    Rules <- MCRules
    Prices <- MCPrices
    Premium <- MCPremium
    CheckHours <- MCCheckHours
    Quiet <- MCQuiet
    Settings0 <- MCNarrowSettings
    EditPrices <- MCEditPrices
    Slots <- MCSlots
    MaxFaults = 1
    MaxEdits = 0
    Calls = {c1, c2}
    Instances = {i1, i2}
    DecisionDay = 6
    RatesTtl = 1
    RatesLimit = 3
    Lag = 2
    LockTtl = 6
    DigestDay = 2
    WeekDays = 2
    DailyAt = 2
    WeeklyAt = 0
    TimeChoices = {1}
    MaxChanges = 2
    PastPrices = {1, 2}
    HistoryTtl = 2
    Periods = {NoValue, 1}
    Last = 3
PROPERTY QueuedAlertIsDelivered
PROPERTY DueRuleIsChecked
PROPERTY MetRuleIsAlerted
