SPECIFICATION MCSpec
CONSTANTS
    jest = jest
    Jest = Jest
    deploy = deploy
    html = html
    json = json
    code = code
    None = None
    Command <- Commands
    Fold <- Folded
    Size <- Sizes
    ArtifactBody <- Bodies
    CodeBody <- CodeBodies
    Launches <- LaunchSet
    Messages <- MessageSet
    ActionRequests <- RequestSet
    MaxActions = 2
    MaxRecentTurns = 2
    MaxPromptArtifacts = 1
    MaxSessions = 2
    MaxMessages = 3
INVARIANT OpeningIsSent
CHECK_DEADLOCK FALSE
