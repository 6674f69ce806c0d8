SPECIFICATION FlowSpec
CONSTANTS
    Orders = {o1}
    Shippers = {s1, s2}
    Assignments = {a1}
    Slots = {k1, k2, k3}
    InitStatuses = {"pending"}
    MaxCrashes = 1
    Nil = Nil
SYMMETRY Symmetry
INVARIANTS
    FlowTypeOK
    WinnerIsAssigned
    ActingShipperIsAssigned
    ReceivedHasShipper
    DetailConsistent
PROPERTY
    ImplementsDelivery
