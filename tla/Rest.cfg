SPECIFICATION RestFairSpec
CONSTANTS
    None = None
    MaxTokens = 3
    LineBytes = 3
CHECK_DEADLOCK FALSE
INVARIANTS
    ChunkingIrrelevant
    SuccessIsComplete
    BufferedAgrees
    RestTellsOutcome
PROPERTIES
    RefusalIsFinal
    RestEnds
