CONSTANTS
    a = a
    b = b
    c = c
    d = d
    n1 = n1
    NoName = NoName
    Ids <- MCIds
    Names <- MCNames
    RankInputs <- MCRankInputs
    RankMax <- MCRankMax
    SqlResults = {TRUE, FALSE}
SPECIFICATION OneFaultSpec
PROPERTIES OnlyStraysBreakRanks TornUpdateIsSmall
