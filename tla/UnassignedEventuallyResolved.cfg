SPECIFICATION DispatchSpec
CONSTANTS
    Orders = {o1}
    Shippers = {s1}
    Assignments = {a1}
    Threads = {t1}
    Services = {w1, w2}
    MaxRetries = 1
    MaxAttempts = 2
    MaxBusy = 2
    MaxJobs = 1
    Restarts = FALSE
    Nil = Nil
PROPERTY
    UnassignedEventuallyResolved
