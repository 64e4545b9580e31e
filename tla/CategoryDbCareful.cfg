CONSTANTS
    a = a
    b = b
    c = c
    d = d
    n1 = n1
    NoName = NoName
    Ids <- MCIds
    Names <- MCNames
    RankInputs <- MCRankInputs
    RankMax <- MCRankMax
    SqlResults = {TRUE}
SPECIFICATION CarefulSpec
INVARIANTS TypeOK RanksExact DisabledParked
PROPERTY ImplementsRankedList
