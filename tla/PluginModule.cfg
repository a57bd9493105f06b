SPECIFICATION FairSpec
CONSTANTS
    Instances = {s1, s2}
    States = {fresh, told}
    Fresh = fresh
    MaxTime = 4
    MaxVersion = 3
INVARIANTS
    NoStaleCode
    StateSurvives
    NoSessionUnfiltered
    NoNeedlessReload
    ChangeNoticed
PROPERTIES
    LoadedInTheEnd
CHECK_DEADLOCK FALSE
