SPECIFICATION FairSpec

CONSTANTS
    w1 = w1
    Threshold = 2
    Cooldown = 1
    MaxMessages = 1
    Workers = {w1}
    Api = {}
    MaxPending = 1
    RejectOnCircuit = TRUE
    MaxAttempts = 2
    BackoffBase = 1
    BackoffCap = 2
    MaxFaults = 0
    MaxCrashes = 1
    CanStop = FALSE

PROPERTIES
    EventuallyResolved
