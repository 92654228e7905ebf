SPECIFICATION Spec
CONSTANTS
    None = None
    Commands <- MCCommands
    Default <- MCDefault
    Declarations <- MCDeclarations
    Required <- MCRequired
    Words = {"serve", "start", "help", "8080"}
    LongNames = {"models", "port", "daemon"}
    ShortNames = {"p", "h", "1"}
    Assigned <- MCAssigned
    Numbers <- MCNumbers
    MaxArgs = 4
CHECK_DEADLOCK FALSE
INVARIANTS
    AcceptsAsMeant
    RejectsOnlyMalformed
