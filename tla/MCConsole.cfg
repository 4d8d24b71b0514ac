SPECIFICATION Spec

CONSTANTS
    b1 = b1
    b2 = b2
    q1 = q1
    q2 = q2
    Browsers = {b1, b2}
    Slots = {q1, q2}
    Servers = {"env", "new"}
    Secrets = {"seed", "fresh"}
    EnvConfig <- MCEnvConfig
    Traffic <- MCTraffic

SYMMETRY Symmetry

INVARIANTS
    TypeOK
    CookieFollows
    AdminExplained
    

PROPERTIES
    MaskedKeepsSecret
