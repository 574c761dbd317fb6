SPECIFICATION FairSpec
CONSTANTS
    t1 = t1
    t2 = t2
    w1 = w1
    w2 = w2
    c1 = c1
    c2 = c2
    c3 = c3
    None = None
    Stopper = Stopper
    Task <- OneTask
    Worker <- OneWorker
    Client <- TwoClients
    Call <- EveryWait
    Priority <- Flat
    StrategyOutcome <- Success
    RetainLimit = 0
    MaxSequence = 1
    MaxOutstanding = 1
    Resubmit = FALSE
    MayStop = TRUE
    SinkMayRaise = FALSE
    CloseMayRaise = TRUE
PROPERTIES
    CallsReturn
    StopTerminates
    ImplementsFairLifecycle
