SPECIFICATION FairSpec
CONSTANTS
    Clients = {c1, c2, c3}
    MaxFd = 5
INVARIANTS
    FdsOwned
    WatchersMatch
PROPERTIES
    AnswerWins
    Resolved
CHECK_DEADLOCK FALSE
