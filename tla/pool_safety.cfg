SPECIFICATION Spec
CONSTANTS
    q1 = q1
    q2 = q2
    g1 = g1
    g2 = g2
    g3 = g3
    None = None
    Request <- TwoRequests
    NumWorkers = 3
    Group <- TwoGroups
    GroupOf <- Apart
    LateGroup <- SecondGroup
    Mode <- Reversed
    RestartLimit = 1
    MaxGeneration = 2
    Stubborn <- Third
    StartupMayFail = FALSE
    MayClose = TRUE
    MayUnload = TRUE
SYMMETRY Symmetry
INVARIANTS
    PoolTypeOK
    FutureHeldOnce
    AssignmentsCurrent
    RequestReachable
    CloseLeavesNothing
PROPERTIES
    NoLaunchAfterClose
CHECK_DEADLOCK FALSE
