\* One shipper, two orders, two overlapping handlers, a restart.
SPECIFICATION StatsSpec
CONSTANTS
    Orders = {"o1", "o2"}
    Slots = {1, 2}
    Terms <- MCTerms
    InitCounts <- MCInitCounts
    Hours = {12}
    Minutes = {1, 61}
    MaxCalls = 3
    MaxDay = 1
    MaxCrashes = 1
INVARIANTS
    StatsTypeOK
    CountsMatchCalls
    WarnedBeforeBan
    EarningsMatchReport
PROPERTIES
    PunctualDeliveryKeepsLevel
CHECK_DEADLOCK FALSE
