SPECIFICATION DispatchSpec
CONSTANTS
    Orders = {o1}
    Shippers = {s1, s2}
    Assignments = {a1}
    Threads = {t1}
    Services = {w1, w2}
    MaxRetries = 1
    MaxAttempts = 1
    MaxBusy = 2
    MaxJobs = 1
    Restarts = TRUE
    Nil = Nil
INVARIANT
    DispatchTypeOK
PROPERTIES
    NoRepeatOffer
    RowEventuallyRemoved
