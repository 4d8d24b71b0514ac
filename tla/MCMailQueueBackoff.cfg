SPECIFICATION Spec

CONSTANTS
    w1 = w1
    w2 = w2
    a1 = a1
    Threshold = 2
    Cooldown = 1
    MaxMessages = 2
    Workers = {w1, w2}
    Api = {a1}
    MaxPending = 1
    RejectOnCircuit = TRUE
    MaxAttempts = 2
    BackoffBase = 1
    BackoffCap = 2
    MaxFaults = 0
    MaxCrashes = 0
    CanStop = FALSE

SYMMETRY Interchangeable

PROPERTIES
    BackoffHonoured
