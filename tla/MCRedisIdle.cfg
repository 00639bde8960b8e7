SPECIFICATION IdleSpec
CONSTANTS
    Token = {t1, t2}
    Room = {r1}
    None = None
    LoopThreshold = 2
    MaxInbox = 2
    Deadlines = {}
    Texts <- PlainText
    HeadlessModes = {FALSE}
    Caller = {c1}
    Operations <- Operation
    MaxCalls = 0
    Faults = {"room"}
PROPERTY ActiveSessionsLast
CHECK_DEADLOCK FALSE
