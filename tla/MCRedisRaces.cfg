SPECIFICATION RacesSpec
CONSTANTS
    Token = {t1, t2, t3}
    Room = {r1}
    None = None
    LoopThreshold = 2
    MaxInbox = 2
    Deadlines = {}
    Texts <- OneText
    HeadlessModes = {FALSE}
    Caller = {c1, c2}
    Operations <- Operation
    MaxCalls = 1
    Faults <- Fault
SYMMETRY Symmetry
INVARIANTS TypeOK RedeemedCodeIsGone GuestsArePaired
PROPERTY TokenGoesKnowingly
CHECK_DEADLOCK FALSE
