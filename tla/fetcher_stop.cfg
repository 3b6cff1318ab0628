\* The stripes instance with shutdown signals and the end of the run time:
\* a signal must end the process from every point of a cycle.
CONSTANTS
    e1 = e1
    e2 = e2
    l1 = l1
    l2 = l2
    c1 = c1
    c2 = c2
    Events = {e1, e2}
    Checkouts = {c1, c2}
    Locations = {l1, l2}
    LocationEvent <- TwoEvents
    LocationOf <- TwoPlaces
    Stripe <- SameStripe
    Windowed = {e1}
    Lookback = 2
    Slack = 1
    Delay = 0
    UpdateInterval = 1
    Interval = 1
    BackoffBase = 1
    BackoffMax = 2
    MaxWorkers = 2
    Faults = {"fetch", "http5xx", "create", "stop", "expire"}
    Requests = {}
    MaxPatches = 0
    MaxFailures = 2
    MaxTime = 2
SPECIFICATION FairSpec
PROPERTIES
    CycleEnds
    StopEnds
CHECK_DEADLOCK FALSE
