SPECIFICATION Spec

CONSTANTS
    w1 = w1
    w2 = w2
    w3 = w3
    Threshold = 2
    Cooldown = 1
    MaxMessages = 2
    Workers = {w1, w2, w3}
    Api = {}
    MaxPending = 2
    RejectOnCircuit = TRUE
    MaxAttempts = 3
    BackoffBase = 2
    BackoffCap = 3
    MaxFaults = 0
    MaxCrashes = 0
    CanStop = FALSE

SYMMETRY Interchangeable
VIEW WithoutSends

INVARIANTS
    TypeOK
    ExclusiveClaim
    AttemptsBounded
    ClosedBelowThreshold
    OverrunBounded

PROPERTIES
    HalfOpenDecides
