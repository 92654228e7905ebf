SPECIFICATION FairDrainSpec
CONSTANTS
    None = None
    Threads = {t1}
    Names = {m1, m2}
    OnDisk = {m1}
    Pids = {p1, p2, p3}
    Ports = {a1, a2}
    ForeignPorts = {}
    HealthTries = 1
    TermTries = 1
    Posix = TRUE
    Crashes = FALSE
PROPERTIES
    FailedSpawnKilled
