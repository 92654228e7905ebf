SPECIFICATION Spec
CONSTANTS
    n1 = n1
    f1 = f1
    Pids = {p1, p2}
    Names = {n1}
    Files = {n1}
    Launches <- NamedLaunches
    WriteFails = FALSE
    Users = {u1}
    Polls = 1
    None = None
INVARIANTS
    NamedServerFound
