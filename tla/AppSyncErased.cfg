CONSTANTS
    x = x
    y = y
    z = z
    samapps = samapps
    audio = audio
    en = en
    ko = ko
    builtin = builtin
    NoName = NoName
    RankMax <- MCRankMax
    DbRanks <- MCDbRanks
    Apps = {x}
    Visible = {x}
    Indexed = {x}
    Readable = {x}
    SamApps = samapps
    Audio = samapps
    Titles = {en}
    BuiltinName = builtin
    NameInputs = {NoName}
    RankInputs = {1}
    MaxQueue = 1
    MaxStatus = 1
    MaxLocale = 0
    MaxFaults = 0
SPECIFICATION Spec
PROPERTY RemovedAreErased
