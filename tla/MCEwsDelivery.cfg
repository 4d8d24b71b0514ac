SPECIFICATION FairSpec

CONSTANTS
    Workers = {"w1"}
    Api = {"a1"}
    Servers = {"primary", "failover"}
    Ladder <- MCLadder
    SelfSigned = {"failover"}
    Trusted <- MCTrusted
    Offered <- MCOffered
    Changed <- MCChanged
    Configs <- MCConfigs
    Disturbances = {{"check", "change"}, {"check", "fault"}, {"check", "restart"}, {"save"}}

INVARIANTS
    TypeOK
    CopiesExplained
    OwnAdapter
    SecondTryIsFresh

PROPERTIES
    ImplementsDriverCall
    CallsEnd
