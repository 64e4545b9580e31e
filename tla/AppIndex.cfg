CONSTANTS
    k1 = k1
    k2 = k2
    root = root
    ko = ko
    enGB = enGB
    en = en
    fr = fr
    Unheard = fr
    Keys = {k1, k2}
    Folders <- MCFolders
    LanguageOf <- MCLanguageOf
    English = en
    Packages <- MCPackages
SPECIFICATION Spec
INVARIANTS TypeOK BuiltIsExpected HalfIsPrefix TitlesShown
