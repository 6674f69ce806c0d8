\* Two restaurants, two foods, three operations of which two overlap, a restart.
SPECIFICATION CatalogSpec
CONSTANTS
    Restaurants = {"r1", "r2"}
    Foods = {"f1", "f2"}
    Categories = {"c1", "c2"}
    Addresses = {"a1", "a2"}
    Images = {"i1", "i2"}
    Slots = {1, 2}
    First = "r1"
    MaxCalls = 3
    MaxCrashes = 1
INVARIANTS
    CatalogTypeOK
PROPERTIES
    FoodsFollowRequests
    StatusFollowsRequests
CHECK_DEADLOCK FALSE
