SPECIFICATION Spec
CONSTANTS
    NoValue = NoValue
    Unknown = Unknown
    pro = pro
    free = free
    s1 = s1
    s2 = s2
    DayLength = 3
    Rules <- MCRules
    Prices <- MCPrices
    Premium <- MCPremium
    CheckHours <- MCCheckHours
    Quiet <- MCQuiet
    Settings0 <- MCNarrowSettings
    EditPrices <- MCEditPrices
    Slots <- MCSlots
    MaxFaults = 0
    MaxEdits = 0
PROPERTY AlertOnlyWhenValuesChange
