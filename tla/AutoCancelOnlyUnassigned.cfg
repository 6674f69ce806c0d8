SPECIFICATION FlowSpec
CONSTANTS
    Orders = {o1}
    Shippers = {s1}
    Assignments = {a1}
    Slots = {k1, k2}
    InitStatuses = {"pending"}
    MaxCrashes = 0
    Nil = Nil
PROPERTY
    AutoCancelOnlyUnassigned
