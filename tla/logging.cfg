SPECIFICATION FairSpec
CONSTANTS
    m1 = m1
    m2 = m2
    r1 = r1
    r2 = r2
    w1 = w1
    fileA = fileA
    fileB = fileB
    Sentinel = Sentinel
    None = None
    Manager <- MCManager
    MainRecord <- MCMainRecord
    WorkerRecord <- MCWorkerRecord
    QueueOf <- MCQueueOf
    Startable <- MCStartable
    Key <- MCKey
    KeyOf <- MCKeyOf
    PipeCapacity = 1
    FactoryMayFail = TRUE
INVARIANTS
    LogTypeOK
    DueHandled
    FilesClosed
    LoggerRestored
PROPERTY
    StopReturns
\* A process that neither logs nor stops its managers stays where it is.
CHECK_DEADLOCK FALSE
