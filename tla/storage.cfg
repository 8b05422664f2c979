CONSTANTS
    c1 = c1
    c2 = c2
    Nobody = Nobody
    Clients = {c1, c2}
    Types = {"memory", "redis", "db", "sqlite", "spanner"}
    TTL = 3
    Skew <- SkewedClocks
    ServerSkew = 1
    MaxSkew = 1
    MaxClock = 6
SPECIFICATION Spec
INVARIANTS TypeOK EntitledIsSeen RobbedIsRefused
PROPERTIES ImplementsLease
CHECK_DEADLOCK TRUE
