SPECIFICATION PaymentSpec
CONSTANTS
    Orders = {o1}
    Slots = {k1, k2}
    MaxNotices = 2
    MaxCrashes = 1
    Nil = Nil
INVARIANTS
    PaymentTypeOK
    PaidOnlyIfBacked
PROPERTY
    StuckEventuallyResolved
