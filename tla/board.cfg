\* The drawer, clicks on two children, and clicks on one that may be hidden.
CONSTANTS
    N = 3
    Days <- AllDays
SPECIFICATION FairSpec
INVARIANTS
    TypeOK
    FirstClickHolds
PROPERTIES
    DrawerSteady
    Reconciles
CHECK_DEADLOCK FALSE
