SPECIFICATION RoomsSpec
CONSTANTS
    Token = {t1, t2, t3}
    Room = {r1, r2}
    None = None
    LoopThreshold = 2
    MaxInbox = 2
    Deadlines = {}
    Texts <- PlainText
    HeadlessModes = {FALSE}
SYMMETRY RoomSymmetry
INVARIANT RoomTokenAgreement
INVARIANT TextsStayInTheRoom
CHECK_DEADLOCK FALSE
