SPECIFICATION FairSpec
CONSTANTS
    q1 = q1
    q2 = q2
    g1 = g1
    g2 = g2
    g3 = g3
    None = None
    Request <- OneRequest
    NumWorkers = 2
    Group <- OneGroup
    GroupOf <- Together
    LateGroup <- NoGroup
    Mode <- Restart
    RestartLimit = 1
    MaxGeneration = 2
    Stubborn <- Second
    StartupMayFail = TRUE
    MayClose = FALSE
    MayUnload = TRUE
PROPERTIES
    UnloadFailsAssigned
CHECK_DEADLOCK FALSE
