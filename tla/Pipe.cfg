SPECIFICATION FairSpec
CONSTANTS
    MaxBuffer = 5
    EventSize = 2
    ReadSize = 3
    MaxTokens = 4
CHECK_DEADLOCK FALSE
INVARIANTS
    NoLostWakeup
    Watermark
    EofComplete
    PipeInv
PROPERTIES
    AbortIsFinal
    ImplementsStream
    ReaderEnds
    WriterEnds
