CONSTANTS
    c1 = c1
    c2 = c2
    c3 = c3
    NoLeader = NoLeader
    Controllers = {c1, c2}
    TTL = 20
    MaxGap = 2
    MaxStart = 14
    MaxDBFailures = 3
    WritesFail = {c1}
    Standby = {c2}
SPECIFICATION Spec
INVARIANT NoSplitBrain
CHECK_DEADLOCK TRUE
