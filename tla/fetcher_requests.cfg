\* One event, two check-outs: PATCH, DELETE and confirmation requests against a
\* fetch in flight, whose context may run out.
CONSTANTS
    e1 = e1
    e2 = e2
    l1 = l1
    l2 = l2
    c1 = c1
    c2 = c2
    Events = {e1}
    Checkouts = {c1, c2}
    Locations = {l1, l2}
    LocationEvent <- OneEvent
    LocationOf <- TwoPlaces
    Stripe <- SameStripe
    Windowed = {}
    Lookback = 2
    Slack = 1
    Delay = 1
    UpdateInterval = 1
    Interval = 1
    BackoffBase = 1
    BackoffMax = 2
    MaxWorkers = 1
    Faults = {"expire"}
    Requests = {"patch", "delete", "confirm"}
    MaxPatches = 1
    MaxFailures = 1
    MaxTime = 4
SPECIFICATION Spec
INVARIANTS
    NoCheckoutLost
PROPERTIES
    ConfirmationKept
    ImplementsIngestion
CHECK_DEADLOCK FALSE
