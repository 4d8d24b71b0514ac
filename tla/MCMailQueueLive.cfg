SPECIFICATION FairSpec

CONSTANTS
    w1 = w1
    a1 = a1
    w2 = w2
    Threshold = 1
    Cooldown = 1
    MaxMessages = 2
    Workers = {w1, w2}
    Api = {a1}
    MaxPending = 1
    RejectOnCircuit = TRUE
    MaxAttempts = 2
    BackoffBase = 1
    BackoffCap = 1
    MaxFaults = 0
    MaxCrashes = 0
    CanStop = TRUE

VIEW WithoutHistory

INVARIANTS
    NoMissedWake

PROPERTIES
    EventuallyResolved
    StopCompletes

CHECK_DEADLOCK FALSE
