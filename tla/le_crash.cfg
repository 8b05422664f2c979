CONSTANTS
    c1 = c1
    c2 = c2
    NoLeader = NoLeader
    Controllers = {c1}
    RemainFollower = {}
    Reentrant = FALSE
    MaxDBFailures = 3
    Expiring = {c1}
    Booting = {c1}
    Stopping = {}
    Unhealthy = {c1}
    Restarting = {c1}
    MaxFaults = 3
SPECIFICATION FairSpec
PROPERTIES LeadershipResumes
CHECK_DEADLOCK TRUE
