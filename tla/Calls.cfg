SPECIFICATION FairSpec
CONSTANTS
    Chats = {alice}
    Users = {op}
    Names = {m}
    MaxCalls = 3
    alice = alice
    op = op
    m = m
CHECK_DEADLOCK FALSE
INVARIANTS
    ChatAlternates
    AnswersFitHistory
    CallsInv
    LateRunnersOnly
PROPERTIES
    CommandsReturn
    ServerEnds
