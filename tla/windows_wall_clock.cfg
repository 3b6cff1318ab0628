\* Two windows between any of seven marks of the week, four of them on Sunday.
CONSTANTS
    Day = 4
    Hour = 1
    Zones <- AllZones
    Marks = {0, 1, 9, 24, 25, 26, 27}
    MaxWindows = 2
    From = 28
    Until = 83
SPECIFICATION Spec
INVARIANTS
    ByWallClock
    EndsOnce
CHECK_DEADLOCK FALSE
