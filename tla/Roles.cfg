\* Two handlers, two calls, two addresses, one driver and one Google account.
SPECIFICATION RolesSpec
CONSTANTS
    None = None
    e1 = e1
    e2 = e2
    p1 = p1
    g1 = g1
    Slots = {s1, s2}
    Emails = {e1, e2}
    Phones = {p1}
    Googles = {g1}
    Starts <- MCStarts
    LinkLife = 1
    MaxTime = 1
    MaxCalls = 2
    read_a = read_a
    all_a = all_a
    Names <- MCNames
    All <- MCAll
    MaxPermissions = 3
INVARIANTS
    RolesTypeOK
    PasswordWorks
PROPERTIES
    RegistrationCreates
    OnlyNamedMove
    PermissionsAsAsked
SYMMETRY MCSymmetry
CHECK_DEADLOCK FALSE
