CONSTANTS
    x = x
    y = y
    z = z
    samapps = samapps
    audio = audio
    en = en
    ko = ko
    builtin = builtin
    NoName = NoName
    RankMax <- MCRankMax
    DbRanks <- MCDbRanks
    Apps = {x, z}
    Visible = {x}
    Indexed = {z}
    Readable = {z}
    SamApps = samapps
    Audio = audio
    Titles = {en, ko}
    BuiltinName = builtin
    NameInputs = {}
    RankInputs = {1}
    MaxQueue = 1
    MaxStatus = 1
    MaxLocale = 1
    MaxFaults = 1
SPECIFICATION FairSpec
PROPERTY EventuallySettled CallsTheTable
