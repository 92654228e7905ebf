SPECIFICATION FairSpec
CONSTANTS
    n1 = n1
    f1 = f1
    Pids = {p1, p2}
    Names = {n1}
    Files = {n1}
    Launches <- NamedOrNot
    WriteFails = TRUE
    Users = {u1}
    Polls = 1
    None = None
INVARIANTS
    OnlyAbruptEndsLeaveFiles
    RunningServerKeepsFile
PROPERTIES
    StopReturns
