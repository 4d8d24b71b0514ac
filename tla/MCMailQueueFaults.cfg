SPECIFICATION Spec

CONSTANTS
    w1 = w1
    w2 = w2
    Threshold = 1
    Cooldown = 1
    MaxMessages = 2
    Workers = {w1, w2}
    Api = {}
    MaxPending = 1
    RejectOnCircuit = TRUE
    MaxAttempts = 2
    BackoffBase = 1
    BackoffCap = 2
    MaxFaults = 1
    MaxCrashes = 1
    CanStop = FALSE

SYMMETRY Interchangeable
VIEW WithoutBreakerHistory

INVARIANTS
    CopiesExplained
    StrandedExplained

PROPERTIES
    FinalStates
    ImplementsDelivery

