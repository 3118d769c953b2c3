SPECIFICATION FairSpec
CONSTANTS
    Creators = {c1, c2}
    Names = {1, 2, 3, 4}
    Sizes <- MCSizes
    defaultPageSize = 2
    maxPageSize = 3
    MaxID = 5
    MaxDeletes = 2
    None = None
INVARIANTS TypeOK ListedOnce
PROPERTIES EndsComplete ListingEnds
CHECK_DEADLOCK FALSE
