SPECIFICATION FairSpec
CONSTANTS
    t1 = t1
    t2 = t2
    w1 = w1
    w2 = w2
    c1 = c1
    c2 = c2
    c3 = c3
    None = None
    Stopper = Stopper
    Task <- TwoTasks
    Worker <- OneWorker
    Client <- TwoClients
    Call <- Waiting
    Priority <- Flat
    StrategyOutcome <- Success
    RetainLimit = 1
    MaxSequence = 2
    MaxOutstanding = 2
    Resubmit = FALSE
    MayStop = FALSE
    SinkMayRaise = FALSE
    CloseMayRaise = FALSE
PROPERTIES
    AsyncCallsReturn
CHECK_DEADLOCK FALSE
