SPECIFICATION FairSpec
CONSTANTS
    c1 = c1
    Me = c1
    Controllers = {c1}
    Lapsing = {}
    Crashing = {}
    Kinds = {"process"}
    MaxVersion = 1
    MaxRetriers = 1
    MaxFaults = 2
PROPERTY EveryFailureIsRetried
