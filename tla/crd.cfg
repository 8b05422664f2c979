SPECIFICATION FairSpec
CONSTANTS
    c1 = c1
    Me = c1
    Controllers = {c1}
    Lapsing = {}
    Crashing = {}
    Kinds = {"process", "service", "cronjob"}
    MaxVersion = 2
    MaxRetriers = 1
    MaxFaults = 2
INVARIANTS TypeOK RunningIsEntered RunsWhatIsEntered UpToDate
PROPERTIES EventsAreApplied FailedIsRetried
