SPECIFICATION FairSpec

CONSTANTS
    WarnPending = 2
    CriticalPending = 4
    WarnAge = 2
    Stored <- MCStored
    Loads <- MCLoads
    Cooldown = 2
    Hours = 3
    Weekdays = 2
    DigestHour = 1
    DigestWeekday = 1
    Activities <- MCActivities
    MaxFaults = 2

INVARIANTS
    TypeOK
    DigestsExplained

PROPERTIES
    AlertsSpaced
    FormsKept
    AlertsRecur
