\* Two workers and three events: signals and expiry at any point of a cycle.
CONSTANTS
    Workers = {w1, w2}
    MaxEvents = 3
    MaxRequests = 2
    MaxSignals = 3
SPECIFICATION FairSpec
INVARIANTS
    TypeOK
    GracefulDrain
PROPERTIES
    ShutdownCompletes
    SecondSignalEnds
CHECK_DEADLOCK FALSE
