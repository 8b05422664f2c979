CONSTANTS
    c1 = c1
    c2 = c2
    NoLeader = NoLeader
    Controllers = {c1, c2}
    RemainFollower = {}
    Reentrant = FALSE
    MaxDBFailures = 2
    Expiring = {}
    Booting = {c1, c2}
    Stopping = {}
    Unhealthy = {}
    Restarting = {}
    MaxFaults = 0
SPECIFICATION Spec
INVARIANT WorkloadsOnlyOnLeader
CHECK_DEADLOCK TRUE
