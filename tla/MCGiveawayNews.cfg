SPECIFICATION FairSpec
CONSTANTS
    NoValue = NoValue
    u1 = u1
    game = game
    gift = gift
    Users <- MCUsers
    FeedItems <- MCFeed
    Manual <- MCManual
    Kinds <- MCKinds
    Terms <- MCTerms
    ForGood <- MCForGood
    Profiles <- MCProfiles
    Horizon = 1
    MaxFaults = 1
    MaxEdits = 1
INVARIANT TypeOK
INVARIANT OneSyncAtATime
INVARIANT NothingLeftBehind
PROPERTY NewsIsDelivered
PROPERTY SyncGoesOn
PROPERTY NewsArrives
