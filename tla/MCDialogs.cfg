SPECIFICATION Spec
CONSTANTS
    None = None
    Games = {g1, g2}
    Finds = {{}, {g1, g2}}
    FreeLimit = 1
    PremiumLimit = 2
    Saves = {s1, s2}
    Regions = {r1}
    Offers = {g1, g2}
    MaxPages = 1
    Users = {g1, g2}
    Dates = {r1}
    Contents = {s1, s2}
    Handlers = {r1}
    Kept = {}
SYMMETRY Symmetry
INVARIANTS TypeOK   OnboardingFirst ConfirmsWhatWasShown
PROPERTY LimitHolds
CHECK_DEADLOCK FALSE
