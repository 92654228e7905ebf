SPECIFICATION Spec
CONSTANTS
    None = None
    MaxTokens = 2
    SplitTokens = {2}
    Throws = FALSE
    Stops = FALSE
    Crashes = FALSE
    LineBytes = 2
    MaxBuffer = 2
    EventSize = 1
    ReadSize = 2
CHECK_DEADLOCK FALSE
INVARIANTS
    SuccessIsFullText
