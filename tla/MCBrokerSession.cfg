SPECIFICATION SessionSpec
CONSTANTS
    Token = {t1, t2}
    Room = {r1}
    None = None
    LoopThreshold = 2
    MaxInbox = 2
    Deadlines = {"created", "created_headless", "seen", "code", "inbox"}
    Texts <- ThreeTexts
    HeadlessModes = {TRUE, FALSE}
SYMMETRY Symmetry
INVARIANTS TypeOK QueuedNoticesAreCounted PauseIsCurrent CodeGuardsFreeSlot LoneParticipantIsNotified
PROPERTIES TokenEndsKnowingly ActiveTextIsKept
CHECK_DEADLOCK FALSE
