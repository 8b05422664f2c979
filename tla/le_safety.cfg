CONSTANTS
    c1 = c1
    c2 = c2
    NoLeader = NoLeader
    Controllers = {c1, c2}
    RemainFollower = {}
    Reentrant = TRUE
    MaxDBFailures = 2
    Expiring = {c1}
    Booting = {}
    Stopping = {c2}
    Unhealthy = {c1, c2}
    Restarting = {c2}
    MaxFaults = 3
SPECIFICATION Spec
INVARIANTS TypeOK LoopWorkloadsFollowLeadership LeaderHasLiveContext LeaderHoldsLock
PROPERTIES RetiredForGood ImplementsLeadership
CHECK_DEADLOCK TRUE
