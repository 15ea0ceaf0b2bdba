CONSTANTS
    a = a
    b = b
    s1 = s1
    s2 = s2
    active = active
    dead = dead
    Slots = {s1, s2}
    Listing <- MCListing
    States = {active, dead}
    Active = active
    Filters = {{active}, {active, dead}}
    PageSize = 2
    MaxPage = 1
CHECK_DEADLOCK FALSE
SPECIFICATION TuiSpec
SYMMETRY Symmetry
INVARIANTS
    ShownStateWasReal
PROPERTIES
    NothingIsAwaitedInVain
