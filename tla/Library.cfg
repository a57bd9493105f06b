SPECIFICATION FairSpec
CONSTANTS
    MaxLen <- MCMaxLen
    Lengths <- MCLengths
    Room = 2
    MaxSignals = 1
    None = None
    Options <- MCOptions
    Tables <- MCTables
    ArgLists <- MCArgLists
    Lines <- MCLines
    Files = {"file"}
    Paths = {None, "file", "gone"}
    MaxWords = 4
    Remarked <- MCRemarked
    Lists <- MCLists
INVARIANTS
    LineRead
    UriWhole
    CommandRead
    IniLineRead
    ReadsBack
    WholeOrError
    LastWordWins
    RoomForOptions
    FirstError
PROPERTIES
    Returns
CHECK_DEADLOCK FALSE
