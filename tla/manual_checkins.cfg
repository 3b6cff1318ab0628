\* A family of up to two children, rows for three names in all, two
\* administrators, three requests.
CONSTANTS
    Admins = {a1, a2}
    MaxKids = 2
    MaxFamilies = 1
    MaxNames = 3
    MaxRequests = 3
SYMMETRY AdminSymmetry
SPECIFICATION Spec
INVARIANTS
    TypeOK
    OneRowPerChild
PROPERTIES
    ClickStays
CHECK_DEADLOCK FALSE
