\* A double click in the drawer.
CONSTANTS
    N = 1
    Days <- DoubleClick
SPECIFICATION Spec
INVARIANTS
    OnePatchInFlight
CHECK_DEADLOCK FALSE
