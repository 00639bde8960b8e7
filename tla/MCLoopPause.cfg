SPECIFICATION LoopSpec
CONSTANTS
    Token = {t1, t2}
    Room = {r1}
    None = None
    LoopThreshold = 3
    MaxInbox = 2
    Deadlines = {}
    Texts <- ShortTexts
    HeadlessModes = {FALSE}
INVARIANT LoopsAreInterrupted
CHECK_DEADLOCK FALSE
