SPECIFICATION MCSpec
CONSTANTS
    Jobs = {j1, j2}
    Releases = {5, 7, 13}
    Rollbacks <- RunDown
    Fans = {3}
    Users = {1, 2, 3}
    Stores <- TwoStores
    Owner <- OwnerOf
    FiveStars = {2350}
    MaxFavorites = 2
    MaxOpened = 2
    MaxSaid = 1
    MaxTime = 2
    MaxDowngrades = 1
SYMMETRY Symmetric
INVARIANTS
    TypeOK
    SchemaFollowsRevision
    ModelsFit
    FailuresExplained
    NothingSaidIsLost
    EligibilityKept
    MilestonesFollowReviews
    TastesKept
