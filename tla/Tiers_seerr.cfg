SPECIFICATION Spec
CONSTANTS
    None = None
    Editors = {e1, e2}
    Dests = {d1, d2}
    Worlds <- MCWorlds
INVARIANTS
    UnknownNeverDemotes
CHECK_DEADLOCK FALSE
