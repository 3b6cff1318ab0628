\* Two families, two administrators, pages of one submission.
CONSTANTS
    Families = {f1, f2}
    Admins = {a1, a2}
    None = None
    PageSize = 1
    MaxSubs = 3
    MaxPosts = 3
    MaxMarks = 2
    MaxLoads = 2
    Days <- AllDays
SPECIFICATION FairSpec
INVARIANTS
    TypeOK
    EnteredByOne
    StoredOnce
PROPERTIES
    TypedIsKept
    KioskReturns
    Settles
CHECK_DEADLOCK FALSE
