\* One event, two check-outs at two locations: fetches that fail, inserts that
\* fail, a location map behind its table, database errors, and kills at any point.
CONSTANTS
    e1 = e1
    e2 = e2
    l1 = l1
    l2 = l2
    c1 = c1
    c2 = c2
    Events = {e1}
    Checkouts = {c1, c2}
    Locations = {l1, l2}
    LocationEvent <- OneEvent
    LocationOf <- TwoPlaces
    Stripe <- SameStripe
    Windowed = {}
    Lookback = 2
    Slack = 1
    Delay = 1
    UpdateInterval = 1
    Interval = 1
    BackoffBase = 1
    BackoffMax = 2
    MaxWorkers = 1
    Faults = {"fetch", "create", "db", "crash"}
    Requests = {"sync"}
    MaxPatches = 0
    MaxFailures = 2
    MaxTime = 5
SPECIFICATION Spec
INVARIANTS
    TypeOK
    NoCheckoutLost
CHECK_DEADLOCK FALSE
