CONSTANTS
    x = x
    y = y
    z = z
    samapps = samapps
    audio = audio
    en = en
    ko = ko
    builtin = builtin
    NoName = NoName
    RankMax = 3
    DbRanks <- MCDbRanks
    Apps = {x}
    Visible = {x}
    Indexed = {x}
    Readable = {x}
    SamApps = samapps
    Audio = samapps
    Titles = {en}
    BuiltinName = builtin
    NameInputs = {NoName}
    RankInputs = {0}
    MaxQueue = 2
    MaxStatus = 2
    MaxLocale = 0
    MaxFaults = 1
SPECIFICATION Spec
INVARIANTS EnabledAgrees InstalledAreFound
PROPERTY ChoiceIsUsers
