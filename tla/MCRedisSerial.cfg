SPECIFICATION BoundedSpec
CONSTANTS
    Token = {t1, t2}
    Room = {r1}
    None = None
    LoopThreshold = 2
    MaxInbox = 2
    Deadlines = {"created", "code", "inbox"}
    Texts <- TwoTexts
    HeadlessModes = {FALSE}
    Caller = {c1}
    Operations <- MostOperations
    MaxCalls = 0
    Faults = {"code", "inbox", "token"}
SYMMETRY Symmetry
PROPERTY ImplementsMemoryStore
CHECK_DEADLOCK FALSE
