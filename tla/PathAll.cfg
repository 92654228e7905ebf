SPECIFICATION FairSpec
CONSTANTS
    None = None
    MaxTokens = 3
    SplitTokens = {3}
    Throws = TRUE
    Stops = TRUE
    Crashes = TRUE
    LineBytes = 2
    MaxBuffer = 2
    EventSize = 1
    ReadSize = 2
CHECK_DEADLOCK FALSE
INVARIANTS
    NoLostToken
    UndisturbedIsFullText
    ClientGotAll
PROPERTIES
    RunnerKeepsChannel
    CallReturns
    ClientEnds
