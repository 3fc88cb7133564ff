SPECIFICATION Spec
CONSTANTS
    None = None
    Games = {g1, g2}
    Finds = {{}, {g1, g2}}
    FreeLimit = 1
    PremiumLimit = 2
    Saves = {s1}
    Regions = {r1}
    Offers = {g1, g2}
    MaxPages = 2
    Users = {g1, g2}
    Dates = {r1}
    Contents = {s1}
    Handlers = {r1}
    Kept = {}
PROPERTY PaymentRecorded
CHECK_DEADLOCK FALSE
