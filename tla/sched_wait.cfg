SPECIFICATION Spec
CONSTANTS
    t1 = t1
    t2 = t2
    w1 = w1
    w2 = w2
    c1 = c1
    c2 = c2
    c3 = c3
    None = None
    Stopper = Stopper
    Task <- TwoTasks
    Worker <- OneWorker
    Client <- TwoClients
    Call <- Reading
    Priority <- Flat
    StrategyOutcome <- EitherOutcome
    RetainLimit = 1
    MaxSequence = 2
    MaxOutstanding = 1
    Resubmit = FALSE
    MayStop = FALSE
    SinkMayRaise = TRUE
    CloseMayRaise = FALSE
SYMMETRY Symmetry
INVARIANTS
    TypeOK
    SlotAccounting
    CallerWakeup
    WaitersGetOutcome
    MetricsConsistent
    ConsumedOnce
PROPERTIES
    ImplementsLifecycle
CHECK_DEADLOCK FALSE
