SPECIFICATION Spec
CONSTANTS
    x = x
    samapps = samapps
    audio = audio
    n1 = n1
    r1 = r1
    r2 = r2
    title = title
    NoName = NoName
    NotInt = NotInt
    RankMax <- MCRankMax
    Apps = {x}
    SamApps = samapps
    Audio = audio
    Names = {n1}
    NameInputs = {n1}
    RankInputs = {1, 3}
    MemoryRanks <- MCMemoryRanks
    Requests = {r1}
    Targets = {title}
    MaxFaults = 1
INVARIANTS
    TypeOK
    AcknowledgedHolds
PROPERTIES
    OnlyAcknowledgedSwitch
    SearchShowsWhatWasTold
