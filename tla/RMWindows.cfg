SPECIFICATION FairSpec
CONSTANTS
    None = None
    Threads = {t1, t2}
    Names = {m1, m2}
    OnDisk = {m1}
    Pids = {p1, p2}
    Ports = {a1}
    ForeignPorts = {a1}
    HealthTries = 1
    TermTries = 1
    Posix = FALSE
    Crashes = TRUE
PROPERTIES
    LockReleased
