SPECIFICATION FairSpec
CONSTANTS
    None = None
    Threads = {t1, t2}
    Names = {m1, m2}
    OnDisk = {m1, m2}
    Pids = {p1, p2}
    Ports = {a1, a2}
    ForeignPorts = {}
    HealthTries = 1
    TermTries = 1
    Posix = TRUE
    Crashes = TRUE
INVARIANTS
    IInv
    NoBystander
    NoLeak
    ServingAnswersItself
PROPERTIES
    RegistryDiscipline
    ImplementsPool
    RegisteredServing
    StopCompletes
