\* One event, up to two failures in a row: delays of 1 and 2, a cycle every 2.
CONSTANTS
    e1 = e1
    l1 = l1
    c1 = c1
    c2 = c2
    Events = {e1}
    Checkouts = {c1, c2}
    Locations = {l1}
    LocationEvent <- OneEvent
    LocationOf <- OnePlace
    Stripe <- OneStripe
    Windowed = {}
    Lookback = 9
    Slack = 1
    Delay = 1
    UpdateInterval = 3
    Interval = 2
    BackoffBase = 1
    BackoffMax = 2
    MaxWorkers = 1
    Faults = {"fetch", "create"}
    Requests = {}
    MaxPatches = 0
    MaxFailures = 3
    MaxTime = 16
    MaxStreak = 2
SPECIFICATION PunctualSpec
INVARIANTS
    Fresh
    FetchFailuresAreNotFatal
CHECK_DEADLOCK FALSE
