\* Two shippers, two overlapping subscriptions, two services, three events from outside.
SPECIFICATION PoolSpec
CONSTANTS
    Shippers = {s1, s2}
    Calls = {c1, c2}
    Services = {w1, w2}
    Places = {1, 2, 3}
    Reach = 2
    Scores = {5}
    Bonus = 2
    RushHours = {2}
    Rush = 3
    Extras <- QueryExtras
    NaN = NaN
    MaxActive = 1
    Window = 1
    MaxTime = 3
    MaxEvents = 3
    None = None
SYMMETRY Symmetry
INVARIANTS
    PoolTypeOK
    NobodyUnfitStays
    ActiveCounts
PROPERTIES
    OffersOutward
    BestThroughout
CHECK_DEADLOCK FALSE
