CONSTANTS
    c1 = c1
    c2 = c2
    c3 = c3
    NoLeader = NoLeader
    Controllers = {c1, c2, c3}
    TTL = 20
    MaxGap = 2
    MaxStart = 14
    MaxDBFailures = 3
    WritesFail = {c1}
    Standby = {c3}
SPECIFICATION Spec
INVARIANTS TypeOK LockOutlastsTolerance AtMostOneLeader SplitBrainIsShort FailoverIsBounded
CHECK_DEADLOCK TRUE
