SPECIFICATION Spec
CONSTANTS
    ga = ga
    gb = gb
    gc = gc
    every = every
    some = some
    None = None
    Group <- MCGroup
    ProcessCount <- MCProcessCount
    InitialOrder <- MCOrder
    Handler <- MCHandler
    Serves <- MCServes
    LateGroup <- MCLateGroup
    MaxOutstanding = 1
    Mortal <- MCMortal
    PutMayFail = TRUE
INVARIANTS
    RoutingTypeOK
    RefusedByAll
    NoGroupStarves
    NoWorkerIdles
    CreditBounded
