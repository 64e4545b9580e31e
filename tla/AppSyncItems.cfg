CONSTANTS
    x = x
    y = y
    z = z
    samapps = samapps
    audio = audio
    en = en
    ko = ko
    builtin = builtin
    NoName = NoName
    RankMax <- MCRankMax
    DbRanks <- MCDbRanks
    Apps = {x, y}
    Visible = {x, y}
    Indexed = {x, y}
    Readable = {x}
    SamApps = samapps
    Audio = audio
    Titles = {en, ko}
    BuiltinName = builtin
    NameInputs = {}
    RankInputs = {1}
    MaxQueue = 3
    MaxStatus = 2
    MaxLocale = 1
    MaxFaults = 0
SPECIFICATION Spec
INVARIANTS TypeOK ItemsFollowManager InstalledAreComing
