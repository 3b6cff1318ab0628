\* Planning Center answers a page with a server error, and nothing else goes wrong.
CONSTANTS
    e1 = e1
    e2 = e2
    l1 = l1
    l2 = l2
    c1 = c1
    c2 = c2
    Events = {e1}
    Checkouts = {c1, c2}
    Locations = {l1, l2}
    LocationEvent <- OneEvent
    LocationOf <- TwoPlaces
    Stripe <- SameStripe
    Windowed = {}
    Lookback = 2
    Slack = 1
    Delay = 0
    UpdateInterval = 1
    Interval = 1
    BackoffBase = 1
    BackoffMax = 2
    MaxWorkers = 1
    Faults = {"http5xx"}
    Requests = {}
    MaxPatches = 0
    MaxFailures = 1
    MaxTime = 4
SPECIFICATION Spec
INVARIANTS
    NoCheckoutLost
CHECK_DEADLOCK FALSE
