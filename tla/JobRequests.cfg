CONSTANTS
    s1 = s1
    s2 = s2
    Jobs = {1, 2, 3}
    Menus <- mcMenus
    Sources = {s1, s2}
    Targets <- mcTargets
    Under <- mcUnder
    MaxTargets = 1
    MaxDeferrals = 1
    MaxCuts = 1
    None = None
SPECIFICATION Spec
INVARIANTS
    Promise
    CutsCarried
CHECK_DEADLOCK FALSE
