SPECIFICATION MCSpec

CONSTANTS
    p1 = p1
    p2 = p2
    s1 = s1
    s2 = s2
    Publishers = {p1, p2}
    Sockets = {s1, s2}
    HistorySize = 1
    QueueSize = 1
    MaxEvents = 3
    SharedEvents = 2

INVARIANTS
    TypeOK
    OverrunBounded
    NothingMissed
    TwiceOnlyAcrossReplay
    ClosedIsGone

PROPERTIES
    LockReleased

CHECK_DEADLOCK FALSE
