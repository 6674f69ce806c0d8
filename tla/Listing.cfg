\* Three rows and one to come, pages of one or two, one write while a client pages.
SPECIFICATION ListingSpec
CONSTANTS
    Rows = {1, 2, 3, 4}
    Parents = {"near", "far"}
    NoParent = "none"
    Groups = {"g1", "g2"}
    Places <- MCPlaces
    Radius = 2
    Table <- MCTable
    PageSizes = {1, 2}
    MaxWrites = 1
INVARIANTS
    ListingTypeOK
    PagesComplete
    OneWriteOneSlip
CHECK_DEADLOCK FALSE
