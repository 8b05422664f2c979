SPECIFICATION FairSpec
CONSTANTS
    c1 = c1
    c2 = c2
    r1 = r1
    Controllers = {c1, c2}
    Lapsing = {}
    Crashing = {c1}
    Kinds = {"process", "service", "persistent", "cronjob"}
    Watchful = {c1}
    Retriers = {r1}
    MaxFaults = 1
INVARIANTS TypeOK MonitoredUntilStopped Accounted EndpointsFirst
PROPERTIES Recreated
