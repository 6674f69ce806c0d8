\* One food, three customers, three operations of which two overlap, a restart.
\* A food is read with one review and hidden after more than one (3 and 10).
SPECIFICATION ReviewsSpec
SYMMETRY Symmetric
CONSTANTS
    Users = {u1, u2, u3}
    Slots = {1, 2}
    Toppings = {t1, t2}
    Stars = {1, 15}
    NoRating = NoRating
    NaN = NaN
    TopReviews = 1
    BadReviews = 1
    MaxReviews = 4
    MaxCalls = 3
    MaxCrashes = 1
INVARIANTS
    MenuTypeOK
PROPERTIES
    RatingFollowsReviews
    FewReviewsKept
CHECK_DEADLOCK FALSE
