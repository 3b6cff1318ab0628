\* Two administrators' connections, two events and two locations of Planning
\* Center, one child.
CONSTANTS
    p1 = p1
    p2 = p2
    q1 = q1
    q2 = q2
    c1 = c1
    n1 = n1
    n2 = n2
    GroupNames = {n1, n2}
    None = None
    PcEvents = {p1, p2}
    PcLocations = {q1, q2}
    Children = {c1}
    RoomOf <- Room
    Handlers = {h1, h2}
    MaxIds = 2
    Days <- AllDays
SYMMETRY HandlerSymmetry
SPECIFICATION Spec
INVARIANTS
    TypeOK
    ReferencesHold
    OneEventPerPlanningCenterId
    MovedOnlyByReuse
PROPERTIES
    SyncKeepsGroups
    StaysListed
CHECK_DEADLOCK FALSE
