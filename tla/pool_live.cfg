SPECIFICATION FairSpec
CONSTANTS
    q1 = q1
    q2 = q2
    g1 = g1
    g2 = g2
    g3 = g3
    None = None
    Request <- OneRequest
    NumWorkers = 3
    Group <- ThreeGroups
    GroupOf <- Alone
    LateGroup <- SecondGroup
    Mode <- Mixed
    RestartLimit = 1
    MaxGeneration = 2
    Stubborn <- Second
    StartupMayFail = TRUE
    MayClose = TRUE
    MayUnload = TRUE
PROPERTIES
    ImplementsPort
    FuturesFinish
CHECK_DEADLOCK FALSE
