\* Two handlers that may overlap, one change, the cache good for one tick of two.
SPECIFICATION PricingSpec
CONSTANTS
    None = None
    NotSent = NotSent
    Requests = {1, 2}
    Foods <- MCFoods
    Carts <- MCCarts
    FeeTables <- MCFeeTables
    Defaults <- MCDefaults
    Promos <- MCPromos
    Life = 1
    MaxTime = 1
    MaxWrites = 1
    MaxCalls = 2
INVARIANTS
    PricingTypeOK
    TotalMatchesDetails
    OrderAsQuoted
PROPERTIES
    FeeWithinLife
CHECK_DEADLOCK FALSE
