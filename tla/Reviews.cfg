SPECIFICATION Spec
CONSTANTS
    Buyers = {b1, b2}
    Seller = seller
    Requests = {r1, r2}
    NoStore = NoStore
    Nobody = Nobody
    Messages = {1}
    Payloads <- Stars
    PerStar = 1
    PerCrown = 2
    MaxReviews = 4
    MaxGone = 1
SYMMETRY Symmetric
INVARIANTS
    TypeOK
    ReviewsEarned
    RatingsSettle
    MilestonesAddUp
    RatingIsMean
CHECK_DEADLOCK FALSE
