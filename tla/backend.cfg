SPECIFICATION BackendSpec
CONSTANTS
    t1 = t1
    t2 = t2
    t3 = t3
    Task <- MCTask
    Priority <- MCPriority
    RetainLimit = 2
    MaxSequence = 4
SYMMETRY Symmetry
INVARIANTS
    BackendTypeOK
    IndexConsistent
    RetentionBound
PROPERTIES
    LiveNeverDropped
    UnreadEvictedLast
CHECK_DEADLOCK FALSE
