CONSTANTS
    c1 = c1
    c2 = c2
    NoLeader = NoLeader
    Controllers = {c1, c2}
    RemainFollower = {}
    Reentrant = FALSE
    MaxDBFailures = 2
    Expiring = {c2}
    Booting = {}
    Stopping = {c1}
    Unhealthy = {c2}
    Restarting = {}
    MaxFaults = 1
SPECIFICATION FairSpec
PROPERTIES StaleLeaderStepsDown ReportConverges StopReturns
CHECK_DEADLOCK TRUE
