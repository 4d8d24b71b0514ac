SPECIFICATION Spec

CONSTANTS
    w1 = w1
    w2 = w2
    Threshold = 1
    Cooldown = 1
    MaxMessages = 4
    Workers = {w1, w2}
    Api = {}
    MaxPending = 1
    RejectOnCircuit = FALSE
    MaxAttempts = 2
    BackoffBase = 1
    BackoffCap = 2
    MaxFaults = 0
    MaxCrashes = 0
    CanStop = FALSE

SYMMETRY Interchangeable
VIEW WithoutSends

INVARIANTS
    PendingBounded
